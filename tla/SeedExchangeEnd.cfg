\* Two seeds, a restart; the repair always runs to its end.
CONSTANTS
  Names = {h1, h2}
  Other = Other
  Repair = TRUE
  MaxWrites = 2
  MaxStops = 0
  MaxCrashes = 1
SPECIFICATION FairSpec
PROPERTY EnrichmentEnds
\* The loop ends after GENERATION_END.
CHECK_DEADLOCK FALSE
