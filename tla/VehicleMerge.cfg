SPECIFICATION MergeSpec
CONSTANTS
  Fields = {soc, door}
  soc = soc
  door = door
  MaxTime = 3
  MaxEpochs = 3
INVARIANTS OneEpoch
PROPERTIES StreamMovesForward
