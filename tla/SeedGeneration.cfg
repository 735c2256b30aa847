\* Two overlapping batches, one failing file operation, one kill.
CONSTANTS
  c1 = c1
  c2 = c2
  Calls <- MCCalls
  Names = {h1, h2}
  Slots = {b1, b2}
  Targets <- MCTargets
  RegenProb = 10
  MaxGen = 0
  MaxRounds = 2
  MaxFaults = 1
  MaxKills = 1
  None = None
SPECIFICATION FairSpec
INVARIANTS TypeOK AttemptsCapped HistoryBacked DeathsExplained TotalExact
PROPERTIES HistoryKept WriterRefined BatchesEnd
\* The model stops when its rounds are used up.
CHECK_DEADLOCK FALSE
