SPECIFICATION Spec
CONSTANTS
  Id = {m1}
  Base = {q}
  Caller = {c1}
  NULL = NULL
  MaxDeliveryAttempts = 2
  BackoffDelays <- MCBackoffDelays
  QueueTtl = 1
  DlqTtl = 1
  MaxProcessingTime = 0
  SweepBatchSize = 1
  RequestedDelays = {0}
  RequestTimeout = 1
  JobTimeout <- MCJobTimeout
  Horizon = 2
INVARIANTS
  TypeOK
PROPERTIES
  MessagesLeave
  ImplementsFairLife
