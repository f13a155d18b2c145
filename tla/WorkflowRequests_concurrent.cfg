SPECIFICATION FairSpec
CONSTANTS
    Requests = {r1, r2, r3}
    Kinds = {"run", "resume", "transition", "patch", "approve", "reject", "request_changes"}
    ManualTargets = {"APPROVED", "CANCELLED"}
    MaxRecords = 1
    MaxInFlight = 2
INVARIANTS
    TypeOK
    HistoryIsCommitted
    AuditNamesStatus
    RuntimeIsAtomic
PROPERTIES
    EveryRequestEnds
    EndsForGood
CHECK_DEADLOCK FALSE
