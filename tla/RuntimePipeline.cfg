SPECIFICATION Spec
CONSTANT LLMConfigurations <- Configurations
INVARIANTS
    TypeOK
    AttemptsAreBounded
    OnlyTransientFailuresAreFollowed
    AccountsAgree
    EvidenceIsKept
    OnlyValidatedCompletions
    FailureIsRecorded
PROPERTIES
    CompletedStagesAreFinal
    RunsStop
CHECK_DEADLOCK FALSE
