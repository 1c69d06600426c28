SPECIFICATION Spec
CONSTANTS
    Timestamps = 31
    MaxNodeID = 4
    SequenceCount = 2
    DefaultEpochMillis = 1
    NanosPerMilli = 2
    EpochMillis = 1
    NodeCode = 3
    MaxSequence = 1
    MaxTimestamp = 30
    SmallRollbackWait = 1
    OverCostLimit = 2
    p1 = p1
    p2 = p2
    Owners <- MCProcs
    NoOwner = none
    LeaseWindow = 2
    MaxClockSkew = 1
    Procs <- MCOne
    OwnerOf <- SoloOwner
    FenceWindow = 2
    RefreshInterval = 0
    AcquireTimeout = 0
    InitialWall = 2
    MaxMono = 5
    ClockValues = {1, 4}
    MaxAdjust = 0
    MaxDbAdjust = 0
    MaxIssued = 9
INVARIANTS RefreshMakesRoom
CHECK_DEADLOCK FALSE
