\* A local model: -D 10m -T 20m -S 2h -m 60, calls of up to the 18 s reckoned with.
CONSTANTS
  Delay = 600
  Period = 1200
  StopTime = 7200
  MaxGen = 60
  ExecTime = 18
  Remote = FALSE
  BatchSizes <- MCSizes
  CallTimes = {3, 18}
  ParseTimes = {1, 200}
  Horizon = 14400
SPECIFICATION FairSpec
INVARIANTS LastRoundWaited OneBatchAtATime StopOverrun
PROPERTY LoopEnds
\* The loop ends.
CHECK_DEADLOCK FALSE
