SPECIFICATION FairSpec
CONSTANTS
    a = a
    b = b
    Neighbor <- JustA
    First = a
    Joiner = {}
    NoNeighbor = NoNeighbor
    Timeout = 1
    MaxTime = 3
    MaxResponses = 0
    MaxDialErrors = 0
PROPERTY ReturningIsServed
CHECK_DEADLOCK FALSE
