SPECIFICATION Spec
CONSTANTS
  a1 = a1
  a2 = a2
  k1 = k1
  cycle = cycle
  Payouts = {1, 2}
  Admins = {}
  Clerks = {k1}
  Cycle = cycle
  MaxFaults = 0
PROPERTIES
  CycleServesCleared
CHECK_DEADLOCK FALSE
