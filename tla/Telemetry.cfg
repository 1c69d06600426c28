SPECIFICATION FairSpec
CONSTANTS
    polled = polled
    Managers <- MCManagers
    Source = polled
    BufferSize = 1
    FailErrors <- MCFailErrors
    ReadyErrors <- MCReadyErrors
    CloseErrors <- MCCloseErrors
    MaxCounted = 2
INVARIANTS TypeOK NothingUnaccounted DrainedBeforeReturn ReportsFit
PROPERTIES CallbacksReturn ReporterReturns
CHECK_DEADLOCK FALSE
