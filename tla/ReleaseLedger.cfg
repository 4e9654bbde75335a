CONSTANTS
  Runs = {r1, r2, r3}
  Bases = {"1.0"}
  MaxAttempts = 3
  MaxParallel = 2
SPECIFICATION Spec
SYMMETRY Symmetry
INVARIANTS UniqueReservations ConsumedOnce
PROPERTIES NoDowngrade ImplementsContract
CHECK_DEADLOCK FALSE
