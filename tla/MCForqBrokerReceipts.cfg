SPECIFICATION Spec
CONSTANTS
  Id = {m1}
  Base = {q}
  Caller = {c1, c2}
  NULL = NULL
  MaxDeliveryAttempts = 2
  BackoffDelays <- MCBackoffDelays
  QueueTtl = 2
  DlqTtl = 2
  MaxProcessingTime = 1
  SweepBatchSize = 1
  NameLength <- MCNameLength
  DlqSuffixLength = 4
  MaxNameLength = 64
  RequestedDelays <- MCRequestedDelays
  PastBuffer = 0
  MaxDelay = 1
  RequestTimeout = 1
  JobTimeout <- MCJobTimeout
  MaxClock = 3
  MaxInFlight = 2
  Offered <- MCOffered
SYMMETRY Symmetry
INVARIANT
  RedeliveryGapAcrossMoves
