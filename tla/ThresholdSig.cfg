SPECIFICATION Spec
CONSTANTS
    Prime = 5
    UsizeSize = 8
    N = 4
    Thresholds = {1, 2, 3}
    MaxDegree = 2
    Message = 2
INVARIANTS
    TypeOK
    CombinedIsSignature
    CombinationsDisjoint
    InterpolationsAgree
    FewerTellNothing
    KzgBinds
    FeldmanBinds
    VectorBinds
    CoinIsFair
    DLEqBinds
CHECK_DEADLOCK FALSE
