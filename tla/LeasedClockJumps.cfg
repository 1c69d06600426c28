SPECIFICATION Spec
CONSTANTS
    Timestamps = 31
    MaxNodeID = 4
    SequenceCount = 2
    DefaultEpochMillis = 1
    NanosPerMilli = 2
    EpochMillis = 1
    NodeCode = 3
    MaxSequence = 1
    MaxTimestamp = 30
    SmallRollbackWait = 1
    OverCostLimit = 1
    p1 = p1
    p2 = p2
    Owners <- MCProcs
    NoOwner = none
    LeaseWindow = 2
    MaxClockSkew = 1
    Procs <- MCProcs
    OwnerOf <- OwnOwner
    FenceWindow = 2
    RefreshInterval = 1
    AcquireTimeout = 0
    InitialWall = 2
    MaxMono = 2
    ClockValues = {1, 4}
    MaxAdjust = 1
    MaxDbAdjust = 1
    MaxIssued = 2
SYMMETRY Symmetry
INVARIANTS UniqueIDs DisjointGrants DurableBeforeUse
PROPERTIES ImplementsFencedGrants
CHECK_DEADLOCK FALSE
