\* ns3test.py clients under Ctrl-C, nodes with up to two windows.
SPECIFICATION FairSpec
CONSTANTS
  NumInterfaces = 2
  NumAgents = 2
  NumNodes = 2
  FirstCheckedRound = 1
  MayInterrupt = TRUE
  MinWindows = 0
  MaxWindows = 2
INVARIANTS Lockstep NoCircularWait NoOrphan KilledOnlyByInterrupt
PROPERTIES InterruptStopsSimulation TurnTaking
CHECK_DEADLOCK FALSE
