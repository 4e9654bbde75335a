CONSTANTS
  MaxTokens = 0
  Items = 1
  Versions = {v1, v2}
  Installed = v1
  Updaters = {u1}
  MaxUpdates = 2
SPECIFICATION Spec
INVARIANT ConfigurationSurvives
CHECK_DEADLOCK FALSE
