SPECIFICATION FairSpec
CONSTANTS
    MaxUpdates = 2
    MaxSessions = 2
    Kinds <- MCKinds
    Configs <- MCConfigs
INVARIANTS
    OneWorkflowPerSession
    OnlyRequestsBecomeWorkflows
    RepliesAreTrue
PROPERTIES
    ImplementsInbox
    MessagesAreConfirmed
CHECK_DEADLOCK FALSE
