CONSTANTS
    Writers = {w1, w2}
    SegmentEvents = 2
    ClosesByAge = TRUE
    ShipsUnrecorded = FALSE
    MaxEvents = 5
    MaxIds = 5
SPECIFICATION FairSpec
INVARIANTS TypeOK LogInv NoFork NoLoss BrokenOnlyForCause
PROPERTIES ImplementsAppendOnlyLog Recovers
CHECK_DEADLOCK FALSE
