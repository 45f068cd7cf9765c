SPECIFICATION Spec
CONSTANTS
  g1 = g1
  r1 = r1
  r2 = r2
  Calls = {g1}
  Reversals = {r1, r2}
  Share = 2
  Fee = 1
  Start <- MCStart
  FaultLimit = 2
  None = None
SYMMETRY Interchangeable
INVARIANTS
  TypeOK
  AllOrNothing
  CreatorWalletFollows
CHECK_DEADLOCK FALSE
