SPECIFICATION PromptSpec
CONSTANTS
    n1 = n1
    n2 = n2
    n3 = n3
    n4 = n4
    Node = {n1, n2, n3, n4}
    NumFaults = 1
    Rho = 2
    Exponent = 2
    TotalLevels = 2
    Rounds = 1
    Epsilon = 1
    Width = 7
    LowVal = 1
    HighVal = 17
    Joiners = {{n4}, {n2, n3}}
    Inputs <- Joined
    Prompt = {n1, n2, n3}
CHECK_DEADLOCK FALSE
INVARIANTS TypeOK LoneValueLoses OutputsInRange
PROPERTIES RunsPerCheckpoint KeepsPromise
