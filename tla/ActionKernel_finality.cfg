SPECIFICATION Spec
CONSTANTS
    r1 = r1
    r2 = r2
    r3 = r3
    Req <- TwoRequests
    Nobody = Nobody
    MaxTime = 2
    StoreFaults = TRUE
    Crashes = FALSE
    TimersOnTime = TRUE
    LockTtl = 3
    RenewEvery = 1
    MaxDelay = 0
    MayWait = FALSE
    MaxFence = 3
    StampLocally = FALSE
    DrawFenceFirst = FALSE
    Renewable = TRUE
    IdemTtl = 3
    PayloadOf <- SamePayload
    ChecksExpiry = FALSE
    SplitBegin = FALSE
    Definitions <- Plain
    OutboxDelivery = TRUE
    Timeout = 3
    LateWindow = 3
    RenewIdemEvery = 1
    TelemetryFaults = FALSE
    StartBy = 1
SYMMETRY Symmetry
CHECK_DEADLOCK FALSE
INVARIANTS
    CommittedWorkNotRepeated
