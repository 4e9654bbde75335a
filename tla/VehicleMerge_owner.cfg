SPECIFICATION MergeSpec
CONSTANTS
  Fields = {soc, door}
  soc = soc
  door = door
  MaxTime = 2
  MaxEpochs = 2
PROPERTIES
  OwnerDeliveredFull
