\* Two seeds, either of which may be written again; a repair cut short, a restart.
CONSTANTS
  Names = {h1, h2}
  Other = Other
  Repair = TRUE
  MaxWrites = 3
  MaxStops = 1
  MaxCrashes = 1
SPECIFICATION Spec
INVARIANTS HandedTwiceAtMost WipedExplained PromisedLoaded
PROPERTIES UnrepairedExplained
SYMMETRY NameSymmetry
\* The loop ends after GENERATION_END.
CHECK_DEADLOCK FALSE
