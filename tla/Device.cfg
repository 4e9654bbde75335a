CONSTANTS
  MaxTokens = 2
  Items = 1
  Versions = {v1, v2}
  Installed = v1
  Updaters = {u1}
  MaxUpdates = 1
SPECIFICATION Spec
INVARIANTS NoSpentToken NoMixture
PROPERTIES StoppedWhileChanging WholeAfterUpdate ComesBack
CHECK_DEADLOCK FALSE
