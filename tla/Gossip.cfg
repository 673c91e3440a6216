SPECIFICATION Spec
CONSTANTS
    A = A
    B = B
    C = C
    Node <- MCNode
    PeerList <- Line
    NoForward <- JustC
    NoNode = NoNode
    MaxRumors <- TwoOfAOneOfC
    MaxNet = 2
    MaxRouting = 1
    MaxRepeats = 0
    MaxFaults = 0
    MaxRaces = 1
INVARIANTS
    TypeOK
    ClockIsBehind
    RouteIsNewest
    RoutesReachOrigin
CHECK_DEADLOCK FALSE
