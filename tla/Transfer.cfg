SPECIFICATION FairSpec
CONSTANTS
    A = A
    B = B
    C = C
    x = x
    y = y
    z = z
    f = f
    g = g
    Node <- MCNode
    Chunk <- MCChunk
    Disk <- OneByA
    Download = {1, 2, 3}
    Wanted <- BThenC
    KnownRoutes <- KnownAtFirst
    LaterRoutes <- ToB
    MaxLost = 1
    MaxRaces = 1
INVARIANTS
    TypeOK
    RightFileSaved

    
CHECK_DEADLOCK FALSE
