SPECIFICATION Spec
CONSTANTS
    Loop = loop
    user = user
    closer = closer
    other = other
    NoThread = nobody
    Threads <- MCThreads
    MayCall <- MCMayCall
    MayEnd <- MCMayEnd
    LeaseWindow = 4
    RefreshInterval = 1
    OperationTimeout = 2
    AcquireTimeout = 1
    MaxSleep = 1
INVARIANTS TypeOK OneStoreCall ClosersAgree ReleasedOnce CancelHarmless EndLeavesNothing StopTellsFailure NobodyWaitsInVain
PROPERTIES ImplementsLifecycle
