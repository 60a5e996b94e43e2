SPECIFICATION FairSpec
CONSTANTS
    NumInterfaces = 2
    NumAgents = 2
    NumNodes = 2
    MinWindows = 2
    MaxWindows = 2
    PretrainMode = "true"
    Performances <- MCPerformances
    MayFail = TRUE
    MayBeLate = FALSE
PROPERTIES
    ExperimentEnds
CHECK_DEADLOCK FALSE
