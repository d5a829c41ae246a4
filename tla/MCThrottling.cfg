SPECIFICATION Spec
CONSTANTS
  Ip = {a, b, c}
  Request = {r1, r2}
  Window = 2
  MaxFails = 3
  Lockout = 2
  Stale = 4
  MaxEntries = 2
  MaxWait = 1
  MaxClock = 5
SYMMETRY Symmetry
INVARIANTS
  TypeOK
  CapKept
  BurstsLock
PROPERTIES
  LockoutsKept
  LocksDeserved
CHECK_DEADLOCK FALSE
