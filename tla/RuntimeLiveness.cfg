SPECIFICATION FairSpec
CONSTANTS
    Loop = loop
    user = user
    closer = closer
    other = other
    NoThread = nobody
    Threads <- FewThreads
    MayCall <- FewMayCall
    MayEnd <- FewMayEnd
    LeaseWindow = 3
    RefreshInterval = 1
    OperationTimeout = 1
    AcquireTimeout = 1
    MaxSleep = 1
PROPERTIES CallsReturn LoopEnds
