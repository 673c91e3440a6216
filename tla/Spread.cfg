SPECIFICATION FairSpec
CONSTANTS
    A = A
    B = B
    C = C
    Node <- MCNode
    PeerList <- Line
    NoForward = {}
    NoNode = NoNode
    MaxRumors <- OneOfA
    MaxNet = 1
    MaxRouting = 0
    MaxRepeats = 1
    MaxFaults = 1
    MaxRaces = 0
PROPERTIES
    FirstRumorsSpread
CHECK_DEADLOCK FALSE
