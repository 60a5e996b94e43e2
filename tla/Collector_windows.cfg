SPECIFICATION Spec
CONSTANTS
    Senders = {s1, s2}
    MaxQueueTime = 1
    LevelOutcomes = {TRUE, FALSE}
    MaxTime = 2
    MaxWindows = 4
    MaxEvents = 2
INVARIANTS
    TypeOK
    EventsInTheirWindow
    ChannelRecorded
    ControlWindowsObserved
    NeighboursOfLastReception
