SPECIFICATION PromptFairSpec
CONSTANTS
    Node <- Four
    NumFaults = 1
    Dealers = {0, 1, 2, 3}
    Again = {0, 1, 2, 3}
    BadShares <- NoneBad
    BadPublic = {}
    Instant = FALSE
    MaxCrashes = 1
    Prompt = {0, 1, 2, 3}
    MayStop = {3}
    MaxResends = 1
    Resent = {"StartVSS", "PkComplete"}
CHECK_DEADLOCK FALSE
INVARIANTS DKGTypeOK StopMeansDone
PROPERTIES StartedRunsEnd AllHearStop
