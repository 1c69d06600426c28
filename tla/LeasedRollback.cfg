SPECIFICATION SpecAfterAnother
CONSTANTS
    Timestamps = 5
    MaxNodeID = 2
    SequenceCount = 2
    DefaultEpochMillis = 1
    NanosPerMilli = 2
    EpochMillis = 2
    NodeCode = 0
    MaxSequence = 1
    MaxTimestamp = 4
    SmallRollbackWait = 1
    OverCostLimit = 0
    p1 = p1
    p2 = p2
    Owners <- MCProcs
    NoOwner = none
    LeaseWindow = 3
    MaxClockSkew = 2
    Procs <- MCOne
    OwnerOf <- SoloOwner
    FenceWindow = 2
    RefreshInterval = 1
    AcquireTimeout = 2
    InitialWall = 3
    MaxMono = 5
    ClockValues = {1, 2, 4, 6}
    MaxAdjust = 2
    MaxDbAdjust = 0
    MaxIssued = 4
INVARIANTS NoIDTwice
PROPERTIES CallsReturn
CHECK_DEADLOCK FALSE
