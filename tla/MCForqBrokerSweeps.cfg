SPECIFICATION Spec
CONSTANTS
  Id = {m1, m2}
  Base = {q}
  Caller = {c1}
  NULL = NULL
  MaxDeliveryAttempts = 1
  BackoffDelays <- MCBackoffDelays
  QueueTtl = 1
  DlqTtl = 2
  MaxProcessingTime = 1
  SweepBatchSize = 1
  NameLength <- MCNameLength
  DlqSuffixLength = 4
  MaxNameLength = 64
  RequestedDelays <- MCSweepDelays
  PastBuffer = 0
  MaxDelay = 1
  RequestTimeout = 0
  JobTimeout <- MCSweepTimeout
  MaxClock = 5
  MaxInFlight = 2
  Offered <- MCSweepOffered
SYMMETRY Symmetry
INVARIANTS
  DlqConsistent
PROPERTIES
  SweepsShrink
  ImplementsLife
