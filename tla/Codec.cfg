SPECIFICATION Spec
CONSTANTS
    Timestamps = 4
    MaxNodeID = 2
    SequenceCount = 4
    DefaultEpochMillis = 20
    NanosPerMilli = 2
    Nodes <- MCNodes
    Seqs <- MCSeqs
    Instants <- MCInstants
    Epochs <- MCEpochs
    Leads <- MCLeads
    IDs <- MCIDs
    MaxCalls = 2
INVARIANTS RangeGuarded RoundTrip DecodedIsComposed IDsFollowStamps StrictIsExact
CHECK_DEADLOCK FALSE
