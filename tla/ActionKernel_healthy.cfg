SPECIFICATION FairSpec
CONSTANTS
    r1 = r1
    r2 = r2
    r3 = r3
    Req <- TwoRequests
    Nobody = Nobody
    MaxTime = 3
    StoreFaults = FALSE
    Crashes = FALSE
    TimersOnTime = TRUE
    LockTtl = 2
    RenewEvery = 1
    MaxDelay = 0
    MayWait = TRUE
    MaxFence = 3
    StampLocally = FALSE
    DrawFenceFirst = FALSE
    Renewable = TRUE
    IdemTtl = 2
    PayloadOf <- SamePayload
    ChecksExpiry = FALSE
    SplitBegin = FALSE
    Definitions <- RetriedOrKeyed
    OutboxDelivery = TRUE
    Timeout = 1
    LateWindow = 1
    RenewIdemEvery = 1
    TelemetryFaults = FALSE
    StartBy = 1
CHECK_DEADLOCK FALSE
INVARIANTS
    RetainsOwnership
    ErrorMeansNothingCommitted
    LockedWorkIsExclusive
PROPERTIES
    EveryRequestAnswered
    LateResourcesReturned
