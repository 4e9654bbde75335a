SPECIFICATION FairSpec
CONSTANTS
  MaxChanges = 3
  MaxLosses = 2
  MaxOutbox = 4
  MaxToHa = 2
INVARIANTS BeliefsHold
PROPERTIES Settles EndReported
CHECK_DEADLOCK FALSE
