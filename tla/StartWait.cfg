\* The generator may be started first; nothing is restarted and nothing fails.
CONSTANTS
  Calls = {c1, c2}
  EarlyStart = TRUE
  MaxRestarts = 0
  MaxFaults = 0
SPECIFICATION FairSpec
PROPERTY WaitEnds
