SPECIFICATION Spec
CONSTANTS
  client = client
  d1 = d1
  d2 = d2
  Clients = {client}
  Deliveries = {d1, d2}
  PaymentEvents = {"pi", "cs"}
  DirectEvents = {"refund"}
  FaultLimit = 1
  OutageLimit = 1
  Nobody = Nobody
INVARIANTS
  TypeOK
  CreditedAtMostOnce
  FailureIsReal
  DirectlyOnce
PROPERTIES
  PaymentIsSettled
  CallsOnce
CHECK_DEADLOCK FALSE
