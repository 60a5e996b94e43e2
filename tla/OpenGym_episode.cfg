\* Three learning agents, three nodes; a node may close no window at all.
SPECIFICATION FairSpec
CONSTANTS
  NumInterfaces = 3
  NumAgents = 3
  NumNodes = 3
  FirstCheckedRound = 2
  MayInterrupt = FALSE
  MinWindows = 0
  MaxWindows = 3
INVARIANTS Lockstep NoWindowLostOrStale CrashOnlyWhenShort NoOrphan KilledOnlyByInterrupt
PROPERTIES SimulationFrozen GameOverIsLast TurnTaking EveryoneFinishes
CHECK_DEADLOCK FALSE
