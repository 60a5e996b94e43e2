SPECIFICATION Spec
CONSTANTS
    Modes <- Deployed
    QoSValues <- MCQoSValues
    Epsilon = 1
    Windows = 4
INVARIANTS
    RewardJudgesPrediction
