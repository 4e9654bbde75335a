SPECIFICATION FairSpec
CONSTANTS
  MaxLosses = 3
PROPERTIES
  Closes
CHECK_DEADLOCK FALSE
