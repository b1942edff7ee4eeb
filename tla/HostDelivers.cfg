\* Every queued input leaves the queue.
SPECIFICATION FairSpec
CONSTANTS
  Inputs = {i1, i2}
  Injectable = {i1, i2}
  Deliverers = {d1}
  None = None
  MaxQueue = 2
  DeliveryAttempts = 2
  MaxRuns = 2
  MaxExternal = 0
  MaxOps = 1
  MaxRestarts = 0
  MaxFailures = 0
  MaxPlans = 0
  ReplyBeforeSettle = TRUE
PROPERTY
  KeepsFairPromise
\* Every bound can be used up.
CHECK_DEADLOCK FALSE
