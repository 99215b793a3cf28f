SPECIFICATION PromptSpec
CONSTANTS
    Node <- Four
    NumFaults = 1
    NumNodes = 4
    Dealers = {0, 1, 2}
    Again = {2}
    BadShares <- OneBad
    BadPublic = {}
    Instant = FALSE
    MaxCrashes = 1
    Prompt = {0, 1, 2}
    MayStop = {3}
CHECK_DEADLOCK FALSE
INVARIANTS TypeOK SignersHoldShares TranscriptsAreBacked NoPanic SecretKeyAgreement OneDealerIsHonest PublicKeyMatches
PROPERTIES FormedIsFinal VerifiesAsSent GeneratesOneKey
