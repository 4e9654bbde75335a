SPECIFICATION EvccFairSpec
CONSTANTS
  Interval = 2
  LoginInterval = 5
  FirstDelay = 1
  ReplyTimeout = 1
  EvccStaleTimeout = 5
  RetryAfters = {0, 6}
  SavesFail = TRUE
INVARIANTS FreshWhileAnswering
PROPERTIES RequestsAllowed AsksAgain
