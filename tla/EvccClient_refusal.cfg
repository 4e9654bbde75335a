SPECIFICATION EvccSpec
CONSTANTS
  Interval = 2
  LoginInterval = 5
  FirstDelay = 1
  ReplyTimeout = 1
  EvccStaleTimeout = 5
  RetryAfters = {0, 6}
  SavesFail = TRUE
PROPERTIES
  RefusalNeedsOperator
CHECK_DEADLOCK FALSE
