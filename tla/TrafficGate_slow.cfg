SPECIFICATION Spec
CONSTANTS
  Callers = {c1, c2}
  Window = 4
  Budget = 2
  Spacing = 1
  FirstPause = 1
  MaxPause = 2
  RetryAfters = {0, 3}
PROPERTIES
  RequestSpacing
CHECK_DEADLOCK FALSE
