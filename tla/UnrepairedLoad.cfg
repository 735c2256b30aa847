\* One seed, written once; the repair always runs to its end.
CONSTANTS
  Names = {h1}
  Other = Other
  Repair = TRUE
  MaxWrites = 1
  MaxStops = 0
  MaxCrashes = 0
SPECIFICATION FairSpec
PROPERTY RepairedBeforeLoading
CHECK_DEADLOCK FALSE
