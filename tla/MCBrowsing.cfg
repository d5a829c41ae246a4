SPECIFICATION Spec
CONSTANTS
  Id = {1, 2, 3}
  MaxDeliveryAttempts = 1
  PageSize = 1
  Start = Start
  End = End
INVARIANTS
  NothingSkipped
  RowsInOrder
