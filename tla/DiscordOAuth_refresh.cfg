SPECIFICATION OAuthSpec
CONSTANTS
    h1 = h1
    h2 = h2
    l1 = l1
    l2 = l2
    Req = {h1, h2}
    Login = {l1, l2}
    Nobody = Nobody
    NoCred = NoCred
    MaxTokens = 3
    MaxTime = 4
    StoreFaults = FALSE
    Crashes = FALSE
    TimersOnTime = TRUE
    LockTtl = 2
    RenewEvery = 1
    MaxDelay = 0
    MaxFence = 3
    MayWait = TRUE
    StampLocally = TRUE
    DrawFenceFirst = FALSE
    Renewable = TRUE
SYMMETRY OAuthSymmetry
CHECK_DEADLOCK FALSE
INVARIANTS
    OneLoginPerState SingleFlight NoReplacedTokenPresented RevocationUndoneOnlyInFlight
    HolderHasNewestFence RenewalKeepsLease
