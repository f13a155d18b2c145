SPECIFICATION Spec
CONSTANTS
    Requests = {r1, r2, r3, r4}
    Kinds = {"run", "resume", "transition", "patch", "approve", "reject", "request_changes"}
    ManualTargets = {"PLANNING", "APPROVED", "CANCELLED"}
    MaxRecords = 1
    MaxInFlight = 1
SYMMETRY Interchangeable
INVARIANTS
    AuditIsAPath
    ResumesAreApproved
PROPERTIES
    ContractSpec
CHECK_DEADLOCK FALSE
