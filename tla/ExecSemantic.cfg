\* Two goroutines on two files; a program is given up at its second failure.
CONSTANTS
  Files <- TwoFiles
  Workers = {g1, g2}
  Repeat = 1
  MaxRetry = 0
  Yields = {0, 1, 2}
  MaxLoaded = 3
  None = None
SPECIFICATION FairSpec
INVARIANTS EveryProgramRun NamesExplained FailuresExplained
PROPERTIES TableImplemented RunEnds
\* The evaluation ends.
CHECK_DEADLOCK FALSE
