SPECIFICATION Spec
CONSTANT Documents <- MCDocuments
CONSTANT Configs <- MCConfigs
INVARIANTS
    ChunksFit
    NothingIsLost
    ChunksAreNormal
PROPERTIES
    LoopAdvances
CHECK_DEADLOCK FALSE
