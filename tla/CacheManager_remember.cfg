SPECIFICATION CacheSpec
CONSTANTS
    h1 = h1
    h2 = h2
    h3 = h3
    Req = {h1, h2}
    Nobody = Nobody
    NothingStored = NothingStored
    Caller = {h1, h2}
    Ttl = 1
    Stale = 1
    MaxWrites = 1
    MaxTime = 3
    StoreFaults = TRUE
    Crashes = TRUE
    TimersOnTime = FALSE
    LockTtl = 1
    RenewEvery = 1
    MaxDelay = 1
    MaxFence = 3
    MayWait = TRUE
    StampLocally = TRUE
    DrawFenceFirst = FALSE
    Renewable = FALSE
SYMMETRY CacheSymmetry
CHECK_DEADLOCK FALSE
INVARIANTS
    InvalidationIsSeen BeliefWithinDelay OneCurrentBeliever
PROPERTIES
    StoresInOrder
