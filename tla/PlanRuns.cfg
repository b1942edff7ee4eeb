\* Two contracts of one session, one abort or crash at any step.
SPECIFICATION FairSpec
CONSTANTS
  Kinds = {"plan"}
  MaxProposals = 2
  MaxTurns = 4
  MaxPrompts = 2
  MaxFaults = 1
  CrashDuringDrain = FALSE
  None = None
INVARIANTS
  TypeOK
  OneContract
  RunningIsOwned
  OwnedTurnIsAlive
PROPERTIES
  KeepsContract
  ExecutionsSettle
\* The session may come to rest with every bound used up.
CHECK_DEADLOCK FALSE
