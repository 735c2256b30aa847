\* Every call the target rewrites; tables of two entries; names of one or two templates.
CONSTANTS
  Arches = {"amd64", "arm64", "sparc"}
  RawCalls <- Calls
  Picks <- PicksEnds
  MaxInterfaces = 2
  MaxEntries = 2
  EntrySizes = {1, 3}
  MaxTemplates = 2
  NameSize = 7
SPECIFICATION Spec
INVARIANTS ExecutedHarmless NeutralFixpoint UsbProbed TableWalkable EbtablesConsistent TimeAhead NameWellFormed
\* The program ends with its target unsupported.
CHECK_DEADLOCK FALSE
