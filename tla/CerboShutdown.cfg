SPECIFICATION FairSpec
CONSTANTS
  MaxLosses = 3
INVARIANTS
  TypeOK
PROPERTIES
  ClosesBetween
CHECK_DEADLOCK FALSE
