SPECIFICATION PromptSpec
CONSTANTS
    n1 = n1
    n2 = n2
    n3 = n3
    n4 = n4
    Node = {n1, n2, n3, n4}
    NumFaults = 1
    Rho = 2
    Exponent = 2
    TotalLevels = 1
    Rounds = 0
    Epsilon = 42
    Width = 6
    LowVal = 1
    HighVal = 4
    Joiners = {{n4}}
    Inputs <- Joined
    Prompt = {n1, n2}
CHECK_DEADLOCK FALSE
INVARIANT LoneValueLoses
