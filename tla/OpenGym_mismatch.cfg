\* run.Py -n 2: two agents, three interfaces.
SPECIFICATION FairSpec
CONSTANTS
  NumInterfaces = 3
  NumAgents = 2
  NumNodes = 3
  FirstCheckedRound = 2
  MayInterrupt = FALSE
  MinWindows = 2
  MaxWindows = 2
PROPERTIES EveryoneFinishes
CHECK_DEADLOCK FALSE
