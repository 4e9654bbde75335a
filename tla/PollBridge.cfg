SPECIFICATION FairSpec
CONSTANTS
  NoTime = NoTime
  StaleTimeout = 2
  TickPeriod = 1
  JoinTimeout = 1
  Threshold = 2
  ResetTimeout = 2
  MaxTime = 5
INVARIANTS FreshWhileResponsive
PROPERTIES DiscardAfterStop ImplementsContract PendingResolves ShutdownCompletes
CHECK_DEADLOCK FALSE
