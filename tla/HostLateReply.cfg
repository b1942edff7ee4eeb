\* A prompt is acknowledged after its turn has ended.
SPECIFICATION Spec
CONSTANTS
  Inputs = {i1, i2}
  Injectable = {i1}
  Deliverers = {d1}
  None = None
  MaxQueue = 2
  DeliveryAttempts = 2
  MaxRuns = 2
  MaxExternal = 0
  MaxOps = 1
  MaxRestarts = 0
  MaxFailures = 0
  MaxPlans = 0
  ReplyBeforeSettle = TRUE
PROPERTY
  AcknowledgementRevivesNothing
\* Every bound can be used up.
CHECK_DEADLOCK FALSE
