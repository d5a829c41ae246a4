SPECIFICATION GaugeSpec
CONSTANTS
  Id = {m1, m2, m3}
  MaxDeliveryAttempts = 1
INVARIANTS
  ShownOnce
PROPERTY
  GaugeFollows
