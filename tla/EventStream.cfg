SPECIFICATION FairSpec
CONSTANTS
    Requests = {r1, r2}
    Pages = {p1}
    MaxEvents = 3
    MaxAttempts = 2
    BacklogLimit = 2
    PageLimit = 1
INVARIANTS
    TypeOK
    SentOnce
PROPERTIES
    NothingDropped
    ReconnectionRecovers
    NextEventReleases
CHECK_DEADLOCK FALSE
