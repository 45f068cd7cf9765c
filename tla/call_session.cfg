SPECIFICATION Spec
CONSTANTS
  Ends = {e1}
  Approvals = {a1}
  Syncs = {s1, s2}
  Moments = {0, 2, 9}
  Free = 1
  Cap = 3
  Rate = 1
  QueueLimit = 2
  FaultLimit = 1
  None = None
SYMMETRY Interchangeable
INVARIANTS
  TypeOK
  ChargedWhatItCost
  CreatorGetsIt
  OfflineOrderKept
CHECK_DEADLOCK FALSE
