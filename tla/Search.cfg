SPECIFICATION FairSpec
CONSTANTS
    A = A
    B = B
    C = C
    f = f
    v1 = v1
    v2 = v2
    k = k
    Node <- MCNode
    Peers <- OneWay
    Routes <- ToA
    Shared <- SameName
    Search = {1, 2, 3}
    Asked <- PagesAndClient
    MaxBudget = 3
    MaxFaults = 1
INVARIANTS
    TypeOK
    BudgetConserved
    ResultsAreHeld
PROPERTIES
    PagesReturn
CHECK_DEADLOCK FALSE
