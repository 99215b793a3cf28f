SPECIFICATION FairSpec
CONSTANTS
    n1 = n1
    n2 = n2
    n3 = n3
    Node = {n1, n2, n3}
    NumFaults = 0
    Kappa = 2
    MaxCrashes = 0
    SameSide = TRUE
CHECK_DEADLOCK FALSE
PROPERTY EveryoneOutputs
