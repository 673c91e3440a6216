SPECIFICATION Spec
CONSTANTS
    A = A
    B = B
    C = C
    Node <- MCPair
    Genesis <- MCGenesis
    PeerList <- Pair
    Expiration = 1
    MaxStart = 1
    MaxTime = 3
    MaxMined = 3
    MaxGossip = 1
    MaxPeers = 2
    MaxFaults = 1
    NoBlock = NoBlock
    NoNode = NoNode
    NoJob = NoJob
INVARIANTS
    LedgerInv
    MembershipLapses
PROPERTIES
    GrowsTree
CHECK_DEADLOCK FALSE
