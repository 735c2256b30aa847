\* Two syscalls, a restart on either side, one file operation that fails; the
\* generator is started when EnabledCalls exists, before or after CoveredCalls.
CONSTANTS
  Calls = {c1, c2}
  EarlyStart = FALSE
  MaxRestarts = 1
  MaxFaults = 1
SPECIFICATION FairSpec
INVARIANTS LinesPerStart
PROPERTIES TargetsShrink CoverageReachesTargets WholeUniverse
