SPECIFICATION FairSpec
CONSTANTS
    NumInterfaces = 3
    NumAgents = 3
    NumNodes = 3
    MinWindows = 1
    MaxWindows = 2
    PretrainMode = "true"
    Performances <- MCPerformances
    MayFail = TRUE
    MayBeLate = TRUE
INVARIANTS
    TypeOK
    QueueHoldsOnePhase
    BestModelUsed
    ReportComplete
PROPERTIES
    EndsUnlessFailure
    AFailureIsForEver
    KeepsPhases
CHECK_DEADLOCK FALSE
