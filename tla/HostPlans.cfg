\* Plan executions and pending approvals beside the queue.
SPECIFICATION Spec
CONSTANTS
  Inputs = {i1, i2}
  Injectable = {i1, i2}
  Deliverers = {d1}
  None = None
  MaxQueue = 2
  DeliveryAttempts = 2
  MaxRuns = 3
  MaxExternal = 1
  MaxOps = 1
  MaxRestarts = 0
  MaxFailures = 0
  MaxPlans = 1
  ReplyBeforeSettle = TRUE
SYMMETRY Symmetry
INVARIANTS
  QueuedInputsWait
  NoQueuedInputLost
PROPERTY
  KeepsPromise
\* Every bound can be used up.
CHECK_DEADLOCK FALSE
