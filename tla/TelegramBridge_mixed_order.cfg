SPECIFICATION Spec
CONSTANTS
    MaxUpdates = 2
    MaxSessions = 2
    Kinds <- MCAllKinds
    Configs <- MCConfigs
INVARIANTS
    NoItemIsDropped
CHECK_DEADLOCK FALSE
