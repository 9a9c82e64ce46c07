SPECIFICATION LineageSpec
CONSTANTS
  Ann = Ann
  Ben = Ben
  Candidates <- Selection
  People <- Persons
  MaxRuns = 2
  MaxFaults = 1
  MaxEdits = 0
  MaxAncestors = 2
  RequiredKills = 1
  MaxReceipts = 1
SYMMETRY Symmetry
INVARIANTS
  ContainmentBlocks
CHECK_DEADLOCK FALSE
