SPECIFICATION Spec
CONSTANTS
    Senders = {s1}
    MaxQueueTime = 1
    LevelOutcomes = {TRUE}
    MaxTime = 1
    MaxWindows = 3
    MaxEvents = 2
INVARIANTS
    JammedMeansSent
