SPECIFICATION PromptFairSpec
CONSTANTS
    n1 = n1
    n2 = n2
    n3 = n3
    n4 = n4
    Node = {n1, n2, n3, n4}
    NumFaults = 1
    Checkpoints = {"zero", "lo", "hi"}
    Rounds = 0
    Inputs <- TwoLow
    MaxCrashes = 0
    Prompt = {n1, n3, n4}
CHECK_DEADLOCK FALSE
PROPERTY CompletedDelivers
