SPECIFICATION Spec
CONSTANTS
    i1 = i1
    i2 = i2
    Ingestions <- MCIngestions
    Documents <- MCDocuments
    Catalogs <- MCCatalogs
    Filters <- MCFilters
    Overlong = {"huge"}
    Dimensions = {32, 64}
    BatchSize = 3
    MaxTopK = 2
    MaxBegins = 3
SYMMETRY MCSymmetry
INVARIANTS
    VectorsAreWholeCatalogs
    CommitMeansStored
    RerunsRecover
    SearchIsComplete
CHECK_DEADLOCK FALSE
