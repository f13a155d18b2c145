SPECIFICATION Spec
CONSTANTS
    Requests = {r1, r2, r3}
    Kinds = {"run", "resume", "transition", "patch", "approve", "reject", "request_changes"}
    ManualTargets = {"PLANNING", "CANCELLED"}
    MaxRecords = 1
    MaxInFlight = 2
SYMMETRY Interchangeable
INVARIANTS
    OneDecisionAccepted
CHECK_DEADLOCK FALSE
