SPECIFICATION IdemSpec
CONSTANTS
    r1 = r1
    r2 = r2
    r3 = r3
    r4 = r4
    Req <- ThreeRequests
    Nobody = Nobody
    MaxTime = 4
    StoreFaults = FALSE
    Crashes = FALSE
    TimersOnTime = FALSE
    IdemTtl = 2
    PayloadOf <- OneOtherPayload
    ChecksExpiry = TRUE
    SplitBegin = TRUE
CHECK_DEADLOCK FALSE
INVARIANTS
    FirstWriterOwns
