SPECIFICATION LockSpec
CONSTANTS
    h1 = h1
    h2 = h2
    h3 = h3
    Req <- ThreeHandles
    Nobody = Nobody
    MaxTime = 5
    StoreFaults = FALSE
    Crashes = FALSE
    TimersOnTime = FALSE
    LockTtl = 2
    RenewEvery = 1
    MaxDelay = 1
    MaxFence = 4
    MayWait = TRUE
    StampLocally = FALSE
    DrawFenceFirst = TRUE
    Renewable = TRUE
SYMMETRY Symmetry
CHECK_DEADLOCK FALSE
INVARIANTS
    HolderHasNewestFence
