CONSTANTS
  MaxTokens = 0
  Items = 1
  Versions = {v1, v2}
  Installed = v1
  Updaters = {u1, u2}
  MaxUpdates = 2
SPECIFICATION Spec
INVARIANT NoMixture
CHECK_DEADLOCK FALSE
