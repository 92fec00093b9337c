SPECIFICATION FairSpec
CONSTANTS
  Tasks <- Both
  Pids = {1, 2}
  NoPid = 0
  ExistInterval = 1
  ActiveInterval = 2
  StartTries = 2
  Jump = 2
  MaxCmds = 1
  MaxFaults = 2
PROPERTY DisabledStaysOff
PROPERTY SupervisionSpares
PROPERTY CommandsEnd
PROPERTY KeepsRunning
PROPERTY StopsForGood
CHECK_DEADLOCK FALSE
