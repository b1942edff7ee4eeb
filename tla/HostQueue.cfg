\* Steering, promotion and failing calls of the store.
SPECIFICATION Spec
CONSTANTS
  Inputs = {i1, i2, i3}
  Injectable = {i1, i2, i3}
  Deliverers = {d1}
  None = None
  MaxQueue = 2
  DeliveryAttempts = 2
  MaxRuns = 3
  MaxExternal = 0
  MaxOps = 1
  MaxRestarts = 0
  MaxFailures = 2
  MaxPlans = 0
  ReplyBeforeSettle = TRUE
SYMMETRY Symmetry
INVARIANTS
  TypeOK
  OneActiveTurn
  NoOrphanedTurn
  QueueInOrder
  TakenAtMostOnce
PROPERTY
  PromotionIsFinal
\* Every bound can be used up.
CHECK_DEADLOCK FALSE
