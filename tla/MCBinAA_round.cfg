SPECIFICATION PromptFairSpec
CONSTANTS
    n1 = n1
    n2 = n2
    n3 = n3
    n4 = n4
    Node = {n1, n2, n3, n4}
    NumFaults = 1
    Checkpoints = {"lo", "hi"}
    Rounds = 0
    Inputs <- AllHighOrTwoLow
    MaxCrashes = 1
    Prompt = {n1, n2}
CHECK_DEADLOCK FALSE
INVARIANTS TypeOK RoundValidity OppositesShareVoters
PROPERTIES PassedIsFinal AlikeOutput
