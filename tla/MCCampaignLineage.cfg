SPECIFICATION LineageSpec
CONSTANTS
  Ann = Ann
  Ben = Ben
  Candidates <- Selection
  People <- Persons
  MaxRuns = 2
  MaxFaults = 1
  MaxEdits = 1
  MaxAncestors = 2
  RequiredKills = 1
  MaxReceipts = 1
SYMMETRY Symmetry
INVARIANTS
  MutationJournaled
  SurvivorsMarked
  KillsGenuine
  KillsBracketed
  AbortsInspected
  EndedAccepted
PROPERTIES
  ForeignKept
CHECK_DEADLOCK FALSE
