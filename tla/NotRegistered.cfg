SPECIFICATION Spec
CONSTANTS
    A = A
    B = B
    C = C
    Node <- MCNode
    Genesis <- MCGenesis
    PeerList <- Star
    Expiration = 1
    MaxStart = 0
    MaxTime = 2
    MaxMined = 3
    MaxGossip = 1
    MaxPeers = 2
    MaxFaults = 0
    NoBlock = NoBlock
    NoNode = NoNode
    NoJob = NoJob
INVARIANT AdmittedOnlyIfRegistered
CHECK_DEADLOCK FALSE
