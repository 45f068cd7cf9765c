SPECIFICATION Spec
CONSTANTS
  s1 = s1
  s2 = s2
  s3 = s3
  Sessions = {s1, s2, s3}
  Tries <- MCTries
  Qty <- MCQty
  Largest <- MCLargest
  Long = {s3}
  Couponed = {s1, s2}
  Stock = 2
  MaxRedemptions = 1
  EditLimit = 1
  FaultLimit = 1
INVARIANTS
  TypeOK
  LimitsHold
PROPERTIES
  PaidIsFulfilled
CHECK_DEADLOCK FALSE
