SPECIFICATION Spec
CONSTANTS
    Accounts = {"manager"}
    Keys <- MCKeys
    Roles = {"Manager"}
    Clients = {"browser"}
    first = first
    second = second
    Seeds <- MCSeeds
    AccessLifetime = 1
    RefreshLifetime = 2
    MaxTime = 2
    MaxChanges = 1
    MaxRequests = 2
SYMMETRY MCSymmetry
INVARIANTS
    DeactivationEndsSessions
    SeedIsAllOrNothing
    OnlyOverlapsTear
PROPERTIES
    SeedRestores
CHECK_DEADLOCK FALSE
