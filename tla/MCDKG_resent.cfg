SPECIFICATION PromptSpec
CONSTANTS
    Node <- Four
    NumFaults = 1
    Dealers = {0, 1, 2, 3}
    Again = {0, 1, 2, 3}
    BadShares <- NoneBad
    BadPublic = {}
    Instant = TRUE
    MaxCrashes = 0
    Prompt = {0, 1, 2, 3}
    MayStop = {}
    MaxResends = 1
    Resent = {"ALIVE", "StartVSS"}
CHECK_DEADLOCK FALSE
INVARIANT NoPanic
