SPECIFICATION FairSpec
CONSTANTS
    a = a
    b = b
    Neighbor <- MCNeighbor
    First = a
    Joiner <- MCNeighbor
    NoNeighbor = NoNeighbor
    Timeout = 1
    MaxTime = 3
    MaxResponses = 1
    MaxDialErrors = 1
INVARIANTS
    TypeOK
PROPERTIES
    LoneWatcherIsPatient
    ListenerReturns
CHECK_DEADLOCK FALSE
