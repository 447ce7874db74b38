SPECIFICATION SessionSpec
CONSTANTS
    c1 = c1
    c2 = c2
    t1 = t1
    t2 = t2
    t3 = t3
    Call <- TwoCalls
    Token <- ThreeTokens
    NoToken = NoToken
    MaxSessions = 1
    Ttl = 4
    IdleTtl = 3
    RotateEvery = 2
    StoreKinds <- BothKinds
    MaxClock = 4
SYMMETRY Symmetry
CHECK_DEADLOCK FALSE
INVARIANTS
    CapHolds
    SomeSessionSurvives
PROPERTIES
    RevokeAllIsComplete
