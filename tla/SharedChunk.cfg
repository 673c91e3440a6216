SPECIFICATION Spec
CONSTANTS
    A = A
    B = B
    C = C
    x = x
    y = y
    z = z
    f = f
    g = g
    Node <- MCNode
    Chunk <- MCChunk
    Disk <- AlikeByA
    Download = {1, 2}
    Wanted <- TwoAlike
    KnownRoutes <- Both
    LaterRoutes = {}
    MaxLost = 0
    MaxRaces = 0
INVARIANTS
    ChunksAreKeyedByHash
CHECK_DEADLOCK FALSE
