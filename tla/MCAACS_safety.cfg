SPECIFICATION Spec
CONSTANTS
    n1 = n1
    n2 = n2
    n3 = n3
    Node = {n1, n2, n3}
    NumFaults = 1
    Kappa = 2
    MaxCrashes = 1
    SameSide = TRUE
CHECK_DEADLOCK FALSE
SYMMETRY Symmetry
INVARIANTS TypeOK Agreement SomethingDecided ResultLargeEnough DecidedIsHeld
PROPERTIES IsCommonSubset
