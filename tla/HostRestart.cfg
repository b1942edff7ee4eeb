\* A crash at any point, with two calls admitted at once.
SPECIFICATION Spec
CONSTANTS
  Inputs = {i1, i2}
  Injectable = {i1}
  Deliverers = {d1}
  None = None
  MaxQueue = 2
  DeliveryAttempts = 2
  MaxRuns = 2
  MaxExternal = 0
  MaxOps = 2
  MaxRestarts = 1
  MaxFailures = 1
  MaxPlans = 0
  ReplyBeforeSettle = TRUE
INVARIANTS
  HeldQueueRests
  CancelIsFinal
\* Every bound can be used up.
CHECK_DEADLOCK FALSE
