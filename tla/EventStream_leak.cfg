SPECIFICATION FairSpec
CONSTANTS
    Requests = {r1, r2}
    Pages = {p1}
    MaxEvents = 2
    MaxAttempts = 2
    BacklogLimit = 2
    PageLimit = 1
PROPERTIES
    DisconnectReleases
CHECK_DEADLOCK FALSE
