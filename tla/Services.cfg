SPECIFICATION ServicesSpec
CONSTANTS
    r3 = r3
    Req = {r1, r2, r3, r4}
    Nobody = Nobody
    MaxTime = 4
    StoreFaults = FALSE
    Crashes = FALSE
    TimersOnTime = FALSE
    IdemTtl = 2
    PayloadOf <- OneOtherPayload
    ChecksExpiry = TRUE
    SplitBegin = TRUE
    Conn = {c1, c2}
    Session = {s1}
    NoSession = NoSession
    IdleTimeout = 1
    ValidateEvery = 1
    BeatEvery = 2
    HubDelay = 1
    Client = {k1}
    Channel = {x, y}
    MaxSequence = 3
    LogSize = 2
    ReplayLimit = 2
    MaxSubs = 1
    MaxBuffered = 2
    MaxSent = 3
    Depth = 2
    MaxScopes = 3
    Attempt = {a1, a2, a3}
    Threshold = 2
    Cell = {o1, o2, o3, o4}
    NoCell = NoCell
    Request = {q1, q2}
    OwnerReq = {q1}
    Limit = 2
    Cost <- TwoForOwners
    MaxWindow = 2
    MaxChanges = 2
    NoHit = NoHit
    MaxStamp = 2
    MaxRecords = 4
    PageLimit = 1
    ListLimit = 3
    CacheKey = {e1}
    Tag = {t1, t2}
    Sweep = {d1, d2}
    Permission = {ADMINISTRATOR, use}
    ADMINISTRATOR = ADMINISTRATOR
    Role = {everyone, role}
    Everyone = everyone
CHECK_DEADLOCK FALSE
INVARIANTS
    ReplayIsFaithful
    DeadSessionsDropOut DeadSocketsDropOut JoinHasNoGap SubscriptionsWithinLimit StreamKeepsOrder
    CallbacksMatchOutcome ProbeIsUnderWay PolicyIsEnforced SpendingWithinLimit
    WalkIsComplete MissesOnlyOverlappingStores DecisionsFollowRoles
