SPECIFICATION Spec
CONSTANTS
  Id = {m1}
  MaxDeliveryAttempts = 2
  Caller = {c1, c2}
  Time = {1, 2}
  BatchSize = 1
  MaxEvents = 5
SYMMETRY Symmetry
INVARIANTS
  Accounted
  SettledWereConsumed
CHECK_DEADLOCK FALSE
