SPECIFICATION Spec
CONSTANTS
  Callers = {c1, c2}
  Window = 6
  Budget = 2
  Spacing = 2
  FirstPause = 1
  MaxPause = 2
  RetryAfters = {0, 3}
INVARIANTS BudgetKept CooldownKept
PROPERTIES TurnSpacing
CHECK_DEADLOCK FALSE
