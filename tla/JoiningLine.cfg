SPECIFICATION FairSpec
CONSTANTS
    A = A
    B = B
    C = C
    Node <- MCNode
    Genesis <- MCGenesis
    PeerList <- Chained
    Expiration = 1
    MaxStart = 0
    MaxTime = 0
    MaxMined = 4
    MaxGossip = 1
    MaxPeers = 2
    MaxFaults = 0
    NoBlock = NoBlock
    NoNode = NoNode
    NoJob = NoJob
PROPERTIES
    EveryoneJoins
CHECK_DEADLOCK FALSE
