SPECIFICATION FairSpec
CONSTANTS
  NoTime = NoTime
  StaleTimeout = 1
  TickPeriod = 1
  JoinTimeout = 1
  Threshold = 1
  ResetTimeout = 1
  MaxTime = 2
PROPERTIES
  ShutdownClosesSession
CHECK_DEADLOCK FALSE
