SPECIFICATION Spec
CONSTANTS
  a1 = a1
  a2 = a2
  k1 = k1
  cycle = cycle
  Payouts = {1}
  Admins = {a1, a2}
  Clerks = {k1}
  Cycle = cycle
  MaxFaults = 0
INVARIANTS
  NoDuplicatePayout
CHECK_DEADLOCK FALSE
