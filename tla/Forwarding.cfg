SPECIFICATION FairMailSpec
CONSTANTS
    A = A
    B = B
    C = C
    Node <- MCNode
    PeerList <- Ring
    NoForward <- JustC
    NoNode = NoNode
    MaxRumors <- OneOfB
    MaxNet = 2
    MaxRouting = 1
    MaxRepeats = 0
    MaxFaults = 0
    MaxRaces = 0
    Letter = {1, 2, 3}
    Letters <- AskAndTell
    HopLimit = 3
    MaxLetters = 1
    MaxMailFaults = 1
INVARIANTS
    MailTypeOK
    NeverStranded
PROPERTIES
    Delivers
    MailArrives
CHECK_DEADLOCK FALSE
