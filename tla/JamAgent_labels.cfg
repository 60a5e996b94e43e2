SPECIFICATION Spec
CONSTANTS
    Modes <- Pretraining
    QoSValues <- MCQoSValues
    Epsilon = 1
    Windows = 4
INVARIANTS
    LearnsLabelOfItsWindow
