SPECIFICATION Spec
CONSTANTS
    Timestamps = 4
    MaxNodeID = 2
    SequenceCount = 2
    DefaultEpochMillis = 1
    NanosPerMilli = 2
    EpochMillis = 2
    NodeCode = 0
    MaxSequence = 1
    MaxTimestamp = 3
    SmallRollbackWait = 1
    OverCostLimit = 2
    Callers = {c1, c2}
    Windows <- MCAllWindows
    InitialWall = 1
    MaxMono = 4
    MaxWall = 5
    MaxAdjust = 1
    MaxIssued = 6
SYMMETRY Symmetry
INVARIANTS TypeOK BoundedLead StateIsLastIssued IssuedWithinBounds IDsReadBack
PROPERTIES AheadOnlyInOverCost ImplementsIDStream
CHECK_DEADLOCK FALSE
