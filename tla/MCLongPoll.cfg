SPECIFICATION Spec
CONSTANTS
  Poll = {p1, p2}
  Interval = 2
  Polling = 4
  MaxStatement = 3
  Handle = 10
  MaxClock = 12
SYMMETRY Symmetry
INVARIANTS
  TypeOK
  PollsEndInTime
  ReadyIsClaimed
PROPERTY
  EmptyWasEmpty
CHECK_DEADLOCK FALSE
