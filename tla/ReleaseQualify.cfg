CONSTANTS
  MaxAttempts = 2
  MaxWait = 1
  MaxChanges = 2
SPECIFICATION QualifySpec
INVARIANTS OnlyQualifiedBytes
PROPERTIES SkippedIsReplaced FreshPublication
CHECK_DEADLOCK FALSE
