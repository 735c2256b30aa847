\* Two directories, three runs, one of which may die.
CONSTANTS
  c1 = c1
  c2 = c2
  p1 = p1
  p2 = p2
  p3 = p3
  Calls <- MCCalls
  Dirs = {corpus, external}
  Progs <- MCProgs
  Uses <- MCUses
  Skipped = {p3}
  MaxRuns = 3
  MaxCrashes = 1
SPECIFICATION Spec
INVARIANTS IndexedFilesWhole IndexedOnce UnindexedExplained
PROPERTY IndexGrows
