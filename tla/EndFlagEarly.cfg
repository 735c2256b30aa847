\* The remote model and the command line of the README: -D 1h -T 1h -S 24h -m 100.
CONSTANTS
  Delay = 3600
  Period = 3600
  StopTime = 86400
  MaxGen = 100
  ExecTime = 9
  Remote = TRUE
  BatchSizes = {100}
  CallTimes = {8}
  ParseTimes = {30}
  Horizon = 172800
SPECIFICATION FairSpec
INVARIANT LastRoundWaited
CHECK_DEADLOCK FALSE
