SPECIFICATION Spec
CONSTANTS
    r1 = r1
    r2 = r2
    r3 = r3
    Req <- TwoRequests
    Nobody = Nobody
    MaxTime = 3
    StoreFaults = TRUE
    Crashes = TRUE
    TimersOnTime = FALSE
    LockTtl = 2
    RenewEvery = 1
    MaxDelay = 0
    MayWait = FALSE
    MaxFence = 2
    StampLocally = FALSE
    DrawFenceFirst = TRUE
    Renewable = TRUE
    IdemTtl = 1
    PayloadOf <- SamePayload
    ChecksExpiry = FALSE
    SplitBegin = FALSE
    Definitions <- KeyedOrLocked
    OutboxDelivery = TRUE
    Timeout = 1
    LateWindow = 1
    RenewIdemEvery = 1
    TelemetryFaults = TRUE
    StartBy = 2
SYMMETRY Symmetry
CHECK_DEADLOCK FALSE
INVARIANTS
    RepeatOnlyAfterForfeit
    OkMeansCommitted
    EffectsOnce
    FirstWriterOwns
PROPERTIES
    LiveRecordOnlyMovedByOwner
