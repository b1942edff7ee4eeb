SPECIFICATION FairSpec
CONSTANTS
    p1 = p1
    p2 = p2
    None = None
    Prompts = {p1, p2}
    Retention = 3
    MaxOutstanding = 2
    MaxEvents = 3
    MaxEpochs = 2
    MaxLosses = 1
    MaxReads = 1
    EarlyClose = FALSE
INVARIANTS
    TypeOK
    NothingLostInFlight
    LiveIsSubscribed
    BacklogBounded
PROPERTIES
    KeepsView
    CatchesUp
CHECK_DEADLOCK FALSE
