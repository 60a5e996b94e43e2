SPECIFICATION Spec
CONSTANTS
    Modes <- Mode
    QoSValues <- MCQoSValues
    Epsilon = 1
    Windows = 6
INVARIANTS
    TypeOK
    DecidesOnItsWindow
    CreditDelayed
    AccuracyBelowOne
    ConfusionExact
    UcbFirstRounds
    SendsUnlessOneSided
