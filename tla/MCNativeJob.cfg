SPECIFICATION JobSpec
CONSTANTS
  Required = 2
  MaxRows = 3
  MaxChanges = 1
INVARIANTS NothingUncapped CreditEarned CompleteIsWhole
PROPERTIES JobEnds
CHECK_DEADLOCK FALSE
