SPECIFICATION FairSpec
CONSTANTS
    Timestamps = 5
    MaxNodeID = 4
    SequenceCount = 2
    DefaultEpochMillis = 1
    NanosPerMilli = 2
    EpochMillis = 2
    NodeCode = 3
    MaxSequence = 1
    MaxTimestamp = 4
    SmallRollbackWait = 1
    OverCostLimit = 0
    Callers = {c1, c2}
    Windows <- MCAllWindows
    InitialWall = 1
    MaxMono = 4
    MaxWall = 5
    MaxAdjust = 1
    MaxIssued = 4
INVARIANTS IDsGrow
PROPERTIES EveryCallReturns
CHECK_DEADLOCK FALSE
