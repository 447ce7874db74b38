--------------------------- MODULE ServicesProofs ---------------------------
(***************************************************************************)
(* What the components that share no state with each other promise for     *)
(* every value of their constants: the circuit breaker, admission by       *)
(* policies and rate limit, the permission algorithm, the tag sets of the  *)
(* Redis cache, the walk through the audit trail, and the callbacks of a   *)
(* transaction.                                                            *)
(***************************************************************************)
EXTENDS CircuitBreaker, Transactions, Admission, AuditPages, RedisCache, GuildAccess,
        FiniteSetTheorems, TLAPS

------------------------------------------------------------------------------
(* CircuitBreaker, for every number of overlapping calls and every         *)
(* threshold.                                                              *)

BreakerInv == BreakerTypeOK /\ ProbeIsUnderWay

\* run() always has a state object to continue with, the map's or a new one.
LEMMA FoundIsCell ==
    ASSUME BreakerTypeOK
    PROVE  Found \in Cell
<1>1. CASE states # NoCell
  BY <1>1 DEF Found, BreakerTypeOK
<1>2. CASE states = NoCell
  <2>1. \E o \in Cell : \A a \in Attempt : holds[a] # o
    BY ObjectsAreNew DEF BreakerTypeOK
  <2>2. QED
    BY <1>2, <2>1 DEF Found
<1>3. QED
  BY <1>1, <1>2

LEMMA FreshType == FreshCell \in CellState
  BY BreakerAssumption DEF FreshCell, CellState

LEMMA AfterFailureType ==
    ASSUME NEW state \in CellState
    PROVE  AfterFailure(state) \in CellState /\ ~AfterFailure(state).halfOpenInFlight
  BY BreakerAssumption DEF AfterFailure, CellState

LEMMA BreakerInitHolds == BreakerInit => BreakerInv
  BY FreshType DEF BreakerInit, BreakerInv, BreakerTypeOK, ProbeIsUnderWay

\* Whoever is let past the breaker holds the object the map then has.
LEMMA AdmitKeeps ==
    ASSUME BreakerInv, NEW a \in Attempt, Admit(a)
    PROVE  BreakerInv'
<1> DEFINE state == IF states = NoCell THEN FreshCell ELSE cell[states]
           admitted == [state EXCEPT !.halfOpenInFlight = @ \/ HalfOpen(state)]
<1> USE DEF BreakerInv
<1>1. Found \in Cell
  BY FoundIsCell
<1>2. state \in CellState
  BY FreshType DEF BreakerTypeOK
<1>3. admitted \in CellState
  <2>1. HalfOpen(state) \in BOOLEAN
    BY DEF HalfOpen
  <2>2. QED
    BY <1>2, <2>1 DEF CellState
<1>4. cell' = [cell EXCEPT ![Found] = admitted]
  BY DEF Admit
<1>5. BreakerTypeOK'
  <2> HIDE DEF admitted
  <2>1. QED
    BY <1>1, <1>3, <1>4 DEF BreakerTypeOK, Admit
<1>6. holds'[a] = states'
  BY DEF Admit, BreakerTypeOK
<1>7. QED
  BY <1>5, <1>6 DEF ProbeIsUnderWay

\* A failure puts back the object it found, with the flag cleared.
LEMMA FailKeeps ==
    ASSUME BreakerInv, NEW a \in Attempt, FailAttempt(a)
    PROVE  BreakerInv'
<1> USE DEF BreakerInv
<1>1. holds[a] \in Cell
  BY DEF FailAttempt, BreakerTypeOK
<1>2. cell[holds[a]] \in CellState
  BY <1>1 DEF BreakerTypeOK
<1>3. cell' = [cell EXCEPT ![holds[a]] = AfterFailure(cell[holds[a]])]
  BY DEF FailAttempt
<1>4. BreakerTypeOK'
  BY <1>1, <1>2, <1>3, AfterFailureType DEF BreakerTypeOK, FailAttempt
<1>5. ~cell'[states'].halfOpenInFlight
  BY <1>1, <1>2, <1>3, AfterFailureType DEF BreakerTypeOK, FailAttempt
<1>6. QED
  BY <1>4, <1>5 DEF ProbeIsUnderWay

LEMMA ElapseKeeps ==
    ASSUME BreakerInv, ResetElapses
    PROVE  BreakerInv'
<1> USE DEF BreakerInv
<1>1. PICK o \in Cell : cell' = [cell EXCEPT ![o].shut = FALSE]
  BY DEF ResetElapses
<1>2. UNCHANGED <<states, holds>>
  BY DEF ResetElapses
<1>3. cell[o] \in CellState
  BY DEF BreakerTypeOK
<1>4. cell' \in [Cell -> CellState]
  BY <1>1, <1>3 DEF BreakerTypeOK, CellState
<1>5. ASSUME NEW q \in Cell PROVE cell'[q].halfOpenInFlight = cell[q].halfOpenInFlight
  BY <1>1 DEF BreakerTypeOK, CellState
<1>6. QED
  BY <1>2, <1>4, <1>5 DEF BreakerTypeOK, ProbeIsUnderWay

LEMMA BreakerStep == BreakerInv /\ [BreakerNext]_breakerVars => BreakerInv'
<1> SUFFICES ASSUME BreakerInv, [BreakerNext]_breakerVars
             PROVE  BreakerInv'
  OBVIOUS
<1>1. ASSUME NEW a \in Attempt, Admit(a) PROVE BreakerInv'
  BY <1>1, AdmitKeeps
<1>2. ASSUME NEW a \in Attempt, Succeed(a) PROVE BreakerInv'
  BY <1>2 DEF Succeed, BreakerInv, BreakerTypeOK, ProbeIsUnderWay
<1>3. ASSUME NEW a \in Attempt, FailAttempt(a) PROVE BreakerInv'
  BY <1>3, FailKeeps
<1>4. CASE ResetElapses
  BY <1>4, ElapseKeeps
<1>5. CASE ResetBreaker
  BY <1>5 DEF ResetBreaker, BreakerInv, BreakerTypeOK, ProbeIsUnderWay
<1>6. CASE UNCHANGED breakerVars
  BY <1>6 DEF breakerVars, BreakerInv, BreakerTypeOK, ProbeIsUnderWay
<1>7. QED
  BY <1>1, <1>2, <1>3, <1>4, <1>5, <1>6 DEF BreakerNext

LEMMA BreakerInvariant == BreakerSpec => []BreakerInv
<1>1. QED
  BY BreakerInitHolds, BreakerStep, PTL DEF BreakerSpec

\* Type correctness of the breaker and of every call in flight.
THEOREM BreakerTypeCorrect == BreakerSpec => []BreakerTypeOK
<1>1. BreakerInv => BreakerTypeOK
  BY DEF BreakerInv
<1>2. QED
  BY <1>1, BreakerInvariant, PTL

\* A half-open circuit never waits for a probe that is not under way
\* (resilience.ts): no order of calls, failures and resets shuts it for ever.
THEOREM ProbeAlwaysUnderWay == BreakerSpec => []ProbeIsUnderWay
<1>1. BreakerInv => ProbeIsUnderWay
  BY DEF BreakerInv
<1>2. QED
  BY <1>1, BreakerInvariant, PTL

------------------------------------------------------------------------------
(* Admission.                                                              *)

\* The stages at which a request has been let past the reads of these policies.
Past(r, stages) == at[r] \in stages \cup {"rate", "locked", "selected", "admitted"}

\* A policy a request has met all along is still in force; and each read let it
\* past none of those it looks for.
PolicyInv ==
    \A r \in Request :
        LET met == since[r] \cap Against(r) IN
        /\ since[r] \subseteq policies
        /\ Past(r, {"user", "ip", "guild"}) => {"maintenance", "maintenanceForAll"} \cap met = {}
        /\ Past(r, {"ip", "guild"}) => "user" \notin met
        /\ Past(r, {"guild"}) => "ip" \notin met
        /\ Past(r, {}) => "guild" \notin met

\* The row of the rate key counts at least what it let through, and never more
\* than the limit; and the one who holds the lock knows the row, unless it was
\* deleted under it.
RateInv ==
    /\ spent <= bucket.count /\ bucket.count <= Limit
    /\ bucket.window = 0 => bucket = NoBucket
    /\ \A r \in Request :
        /\ at[r] \in {"locked", "selected"} => lockedBy = r /\ stamp[r] # 0
        /\ at[r] = "selected" => read[r] = bucket \/ bucket = NoBucket
        /\ read[r].count <= Limit
        /\ ~split => stamp[r] = 0

AdmissionInv == AdmissionTypeOK /\ PolicyInv /\ RateInv

LEMMA AdmissionInvInit == AdmissionInit => AdmissionInv
<1> SUFFICES ASSUME AdmissionInit PROVE AdmissionInv
  OBVIOUS
<1>1. NoBucket \in BucketRow /\ NoBucket.count = 0 /\ NoBucket.window = 0
  BY DEF NoBucket, BucketRow
<1>2. AdmissionTypeOK
  BY <1>1 DEF AdmissionInit, AdmissionTypeOK, Stage
<1>3. PolicyInv
  BY DEF AdmissionInit, PolicyInv, Past
<1>4. RateInv
  BY <1>1, AdmissionAssumption DEF AdmissionInit, RateInv
<1>5. QED
  BY <1>2, <1>3, <1>4 DEF AdmissionInv

\* The types, one action after the other.
LEMMA OpenedType ==
    ASSUME NEW known \in BucketRow, NEW w \in Nat
    PROVE  /\ Opened(known, w) \in BucketRow
           /\ Opened(known, w).count \in Nat /\ Opened(known, w).window \in Nat
           /\ Opened(known, w).count <= known.count
           /\ w # 0 => Opened(known, w).window # 0
           /\ Opened(known, w) = known \/ (Opened(known, w).count = 0 /\ Opened(known, w).window = w
                                       /\ (w # 0 => known.window # w))
  BY DEF Opened, BucketRow

\* What a hit makes of the known it knows: it leaves one that counts what was let
\* through, as long as it knows the present known, or there is none.
LEMMA HitKeeps ==
    ASSUME AdmissionInv, NEW r \in Request, NEW known \in BucketRow, NEW w \in Nat \ {0},
           Hit(r, known, w), known = bucket \/ bucket = NoBucket, known.count <= Limit
    PROVE  /\ bucket' \in BucketRow /\ spent' \in Nat
           /\ spent' <= bucket'.count /\ bucket'.count <= Limit
           /\ bucket'.window # 0
           /\ at' = [at EXCEPT ![r] = "admitted"] \/ at' = [at EXCEPT ![r] = "denied"]
<1> DEFINE b == Opened(known, w)
           allowed == b.count + Cost[r] <= Limit
           base == IF b.window # bucket.window THEN 0 ELSE spent
<1>1. /\ b \in BucketRow /\ b.count \in Nat /\ b.count <= known.count /\ b.window # 0
      /\ b = known \/ (b.count = 0 /\ b.window = w /\ known.window # w)
  BY OpenedType
<1>2. /\ spent \in Nat /\ bucket \in BucketRow /\ bucket.count \in Nat /\ bucket.window \in Nat
      /\ spent <= bucket.count /\ bucket.count <= Limit /\ Limit \in Nat
      /\ Cost[r] \in Nat /\ known.count \in Nat
  BY AdmissionAssumption DEF AdmissionInv, AdmissionTypeOK, RateInv, BucketRow
<1>3. bucket = NoBucket => bucket.window = 0
  BY DEF NoBucket
<1>4. base \in Nat /\ base <= b.count
  BY <1>1, <1>2, <1>3
<1>5. /\ bucket' = [b EXCEPT !.count = IF allowed THEN @ + Cost[r] ELSE @]
      /\ spent' = (IF allowed THEN base + Cost[r] ELSE base)
      /\ at' = [at EXCEPT ![r] = IF allowed THEN "admitted" ELSE "denied"]
  BY DEF Hit, GoesTo
<1> HIDE DEF b, base
<1>6. bucket' \in BucketRow /\ bucket'.window # 0
      /\ bucket'.count = IF allowed THEN b.count + Cost[r] ELSE b.count
  BY <1>1, <1>2, <1>5 DEF BucketRow
<1>7. at' = [at EXCEPT ![r] = "admitted"] \/ at' = [at EXCEPT ![r] = "denied"]
  BY <1>5
<1>8. CASE allowed
  <2>1. bucket'.count = b.count + Cost[r] /\ spent' = base + Cost[r] /\ b.count + Cost[r] <= Limit
    BY <1>5, <1>6, <1>8
  <2>2. QED
    BY <1>1, <1>2, <1>4, <1>6, <1>7, <2>1
<1>9. CASE ~allowed
  <2>1. bucket'.count = b.count /\ spent' = base
    BY <1>5, <1>6, <1>9
  <2>2. QED
    BY <1>1, <1>2, <1>4, <1>6, <1>7, <2>1
<1>10. QED
  BY <1>8, <1>9

LEMMA AdmissionInvStep == AdmissionInv /\ [AdmissionNext]_admissionVars => AdmissionInv'
<1> SUFFICES ASSUME AdmissionInv, [AdmissionNext]_admissionVars
             PROVE  AdmissionInv'
  OBVIOUS
<1> USE AdmissionAssumption
<1>t. AdmissionTypeOK /\ PolicyInv /\ RateInv
  BY DEF AdmissionInv
\* A step that moves policies leaves every request where it is.
<1>p. ASSUME policies' \subseteq Policy, version' \in Nat, bumping' \in Nat,
             since' \in [Request -> SUBSET Policy],
             \A r \in Request : since'[r] \subseteq since[r] \cap policies',
             UNCHANGED <<at, window, rateVars, split>>
      PROVE  AdmissionInv'
  <2>1. AdmissionTypeOK'
    BY <1>p, <1>t DEF AdmissionTypeOK, rateVars
  <2>2. PolicyInv'
    BY <1>p, <1>t DEF PolicyInv, Past, Against
  <2>3. RateInv'
    BY <1>p, <1>t DEF RateInv, rateVars
  <2>4. QED
    BY <2>1, <2>2, <2>3 DEF AdmissionInv
<1>1. CASE OwnerWrites
  <2>1. /\ policies' \subseteq Policy /\ version' = version /\ bumping' = bumping + 1
        /\ since' = [r \in Request |-> since[r] \cap policies']
        /\ UNCHANGED <<at, window, rateVars, split>>
    BY <1>1, <1>t DEF OwnerWrites, AdmissionTypeOK, Policy, Subject
  <2>2. since' \in [Request -> SUBSET Policy] /\ bumping' \in Nat /\ version' \in Nat
    BY <2>1, <1>t DEF AdmissionTypeOK
  <2>3. QED
    BY <1>p, <2>1, <2>2
<1>2. CASE BumpVersion
  <2>1. /\ policies' = policies /\ since' = since /\ version' = version + 1 /\ bumping' = bumping - 1
        /\ bumping > 0 /\ UNCHANGED <<at, window, rateVars, split>>
    BY <1>2 DEF BumpVersion
  <2>2. \A r \in Request : since'[r] \subseteq since[r] \cap policies'
    BY <2>1, <1>t DEF PolicyInv
  <2>3. version' \in Nat /\ bumping' \in Nat /\ policies' \subseteq Policy
        /\ since' \in [Request -> SUBSET Policy]
    BY <2>1, <1>t DEF AdmissionTypeOK
  <2>4. QED
    BY <1>p, <2>1, <2>2, <2>3
<1>3. CASE BlockExpires
  <2>1. PICK s \in Subject \cap policies :
            /\ policies' = policies \ {s}
            /\ since' = [r \in Request |-> since[r] \ {s}]
            /\ UNCHANGED <<version, bumping, at, window, rateVars, split>>
    BY <1>3 DEF BlockExpires
  <2>2. \A r \in Request : since'[r] \subseteq since[r] \cap policies'
    BY <2>1, <1>t DEF PolicyInv
  <2>3. version' \in Nat /\ bumping' \in Nat /\ policies' \subseteq Policy
        /\ since' \in [Request -> SUBSET Policy]
    BY <2>1, <1>t DEF AdmissionTypeOK
  <2>4. QED
    BY <1>p, <2>1, <2>2, <2>3
<1>4. ASSUME NEW r \in Request, Enter(r)
      PROVE  AdmissionInv'
  <2>1. /\ at[r] = "new" /\ at' = [at EXCEPT ![r] = "maintenance"]
        /\ since' = [since EXCEPT ![r] = policies]
        /\ UNCHANGED <<policyVars, window, rateVars, split>>
    BY <1>4 DEF Enter, GoesTo
  <2>2. AdmissionTypeOK'
    BY <2>1, <1>t DEF AdmissionTypeOK, policyVars, rateVars, Stage
  <2>3. PolicyInv'
    BY <2>1, <1>t DEF PolicyInv, Past, Against, policyVars, AdmissionTypeOK
  <2>4. RateInv'
    BY <2>1, <1>t DEF RateInv, rateVars, AdmissionTypeOK
  <2>5. QED
    BY <2>2, <2>3, <2>4 DEF AdmissionInv
<1>5. ASSUME NEW r \in Request, EnforcePolicies(r)
      PROVE  AdmissionInv'
  <2>1. UNCHANGED <<policyVars, since, window, rateVars, split>>
    BY <1>5 DEF EnforcePolicies
  <2>2. ASSUME NEW stage \in Stage \ {"locked", "selected"},
               NEW after \in Stage \ {"locked", "selected"},
               NEW denying, Check(r, stage, after, denying)
        PROVE  /\ at[r] = stage
               /\ \A x \in Request \ {r} : at'[x] = at[x]
               /\ at'[r] = "denied" \/ (at'[r] = after /\ denying \cap Against(r) \cap policies = {})
               /\ AdmissionTypeOK' /\ RateInv'
    <3>1. at[r] = stage /\ (at' = [at EXCEPT ![r] = "denied"]
                            \/ (at' = [at EXCEPT ![r] = after]
                                /\ denying \cap Against(r) \cap policies = {}))
      BY <2>2 DEF Check, GoesTo
    <3>2. AdmissionTypeOK'
      BY <2>1, <3>1, <1>t DEF AdmissionTypeOK, policyVars, rateVars, Stage
    <3>3. RateInv'
      BY <2>1, <3>1, <1>t DEF RateInv, rateVars, AdmissionTypeOK, Stage
    <3>4. QED
      BY <3>1, <3>2, <3>3, <1>t DEF AdmissionTypeOK
  <2>3. UNCHANGED <<policies, since>>
    BY <2>1 DEF policyVars
  <2>4. \A x \in Request : since[x] \subseteq policies
    BY <1>t DEF PolicyInv
  <2>5. CASE Check(r, "maintenance", "user", {"maintenance", "maintenanceForAll"})
    <3>1. /\ at[r] = "maintenance"
          /\ \A x \in Request \ {r} : at'[x] = at[x]
          /\ at'[r] = "denied" \/ (at'[r] = "user" /\ {"maintenance", "maintenanceForAll"}
                                                         \cap Against(r) \cap policies = {})
          /\ AdmissionTypeOK' /\ RateInv'
      BY <2>2, <2>5 DEF Stage
    <3>2. PolicyInv'
      BY <2>3, <2>4, <3>1, <1>t DEF PolicyInv, Past, Against
    <3>3. QED
      BY <3>1, <3>2 DEF AdmissionInv
  <2>6. CASE Check(r, "user", "ip", {"user"})
    <3>1. /\ at[r] = "user"
          /\ \A x \in Request \ {r} : at'[x] = at[x]
          /\ at'[r] = "denied" \/ (at'[r] = "ip" /\ {"user"} \cap Against(r) \cap policies = {})
          /\ AdmissionTypeOK' /\ RateInv'
      BY <2>2, <2>6 DEF Stage
    <3>2. PolicyInv'
      BY <2>3, <2>4, <3>1, <1>t DEF PolicyInv, Past, Against
    <3>3. QED
      BY <3>1, <3>2 DEF AdmissionInv
  <2>7. CASE Check(r, "ip", "guild", {"ip"})
    <3>1. /\ at[r] = "ip"
          /\ \A x \in Request \ {r} : at'[x] = at[x]
          /\ at'[r] = "denied" \/ (at'[r] = "guild" /\ {"ip"} \cap Against(r) \cap policies = {})
          /\ AdmissionTypeOK' /\ RateInv'
      BY <2>2, <2>7 DEF Stage
    <3>2. PolicyInv'
      BY <2>3, <2>4, <3>1, <1>t DEF PolicyInv, Past, Against
    <3>3. QED
      BY <3>1, <3>2 DEF AdmissionInv
  <2>8. CASE Check(r, "guild", "rate", {"guild"})
    <3>1. /\ at[r] = "guild"
          /\ \A x \in Request \ {r} : at'[x] = at[x]
          /\ at'[r] = "denied" \/ (at'[r] = "rate" /\ {"guild"} \cap Against(r) \cap policies = {})
          /\ AdmissionTypeOK' /\ RateInv'
      BY <2>2, <2>8 DEF Stage
    <3>2. PolicyInv'
      BY <2>3, <2>4, <3>1, <1>t DEF PolicyInv, Past, Against
    <3>3. QED
      BY <3>1, <3>2 DEF AdmissionInv
  <2>9. QED
    BY <1>5, <2>5, <2>6, <2>7, <2>8 DEF EnforcePolicies
\* A step of the rate limit: a request past the policies stays past them.
<1>r. ASSUME NEW r \in Request, UNCHANGED <<policyVars, since, window, split>>,
             at' \in [Request -> Stage], \A x \in Request \ {r} : at'[x] = at[x],
             at[r] \in {"rate", "locked", "selected"},
             at'[r] \in {"rate", "locked", "selected", "admitted", "denied"}
      PROVE  PolicyInv'
  <2>1. UNCHANGED <<policies, since>>
    BY <1>r DEF policyVars
  <2>2. QED
    BY <1>r, <2>1, <1>t DEF PolicyInv, Past, Against
<1>6. ASSUME NEW r \in Request, RateLimit(r)
      PROVE  AdmissionInv'
  <2>1. UNCHANGED <<policyVars, since, window, split>>
    BY <1>6 DEF RateLimit
  <2>2. /\ bucket \in BucketRow /\ read[r] \in BucketRow /\ stamp[r] \in Nat
        /\ window \in Nat \ {0} /\ lockedBy \in Request \cup {NoHit}
        /\ NoHit \notin Request
    BY <1>t DEF AdmissionTypeOK
  <2>3. CASE HitAtOnce(r)
    <3>1. /\ at[r] = "rate" /\ Hit(r, bucket, window) /\ UNCHANGED <<lockedBy, read, stamp>>
          /\ bucket.count <= Limit /\ ~split
      BY <2>3, <1>t DEF HitAtOnce, RateInv
    <3>2. /\ bucket' \in BucketRow /\ spent' \in Nat
          /\ spent' <= bucket'.count /\ bucket'.count <= Limit
          /\ bucket'.window # 0
          /\ at' = [at EXCEPT ![r] = "admitted"] \/ at' = [at EXCEPT ![r] = "denied"]
      BY <2>2, <3>1, HitKeeps
    <3>3. AdmissionTypeOK'
      BY <2>1, <3>1, <3>2, <1>t DEF AdmissionTypeOK, policyVars, Stage
    <3>4. PolicyInv'
      <4>1. at' \in [Request -> Stage] /\ (\A x \in Request \ {r} : at'[x] = at[x])
            /\ at'[r] \in {"admitted", "denied"}
        BY <3>2, <3>3, <1>t DEF AdmissionTypeOK
      <4>2. QED
        BY <1>r, <2>1, <3>1, <4>1
    <3>5. RateInv'
      <4>1. \A x \in Request : stamp[x] = 0 /\ at[x] \notin {"locked", "selected"}
        BY <3>1, <1>t DEF RateInv
      <4>2. \A x \in Request : at'[x] \notin {"locked", "selected"}
        BY <3>2, <4>1, <1>t DEF AdmissionTypeOK
      <4>3. QED
        BY <2>1, <3>1, <3>2, <4>1, <4>2, <1>t DEF RateInv
    <3>6. QED
      BY <3>3, <3>4, <3>5 DEF AdmissionInv
  <2>4. CASE HitStamps(r)
    <3>1. /\ at[r] = "rate" /\ split /\ stamp' = [stamp EXCEPT ![r] = window]
          /\ UNCHANGED <<at, bucket, lockedBy, read, spent>>
      BY <2>4 DEF HitStamps
    <3>2. AdmissionTypeOK'
      BY <2>1, <2>2, <3>1, <1>t DEF AdmissionTypeOK, policyVars
    <3>3. PolicyInv'
      BY <1>r, <2>1, <3>1, <1>t DEF AdmissionTypeOK
    <3>4. RateInv'
      BY <2>1, <2>2, <3>1, <1>t DEF RateInv, AdmissionTypeOK
    <3>5. QED
      BY <3>2, <3>3, <3>4 DEF AdmissionInv
  <2>5. CASE HitLocks(r)
    <3>1. /\ at[r] = "rate" /\ stamp[r] # 0 /\ lockedBy = NoHit /\ lockedBy' = r
          /\ at' = [at EXCEPT ![r] = "locked"]
          /\ UNCHANGED <<bucket, read, stamp, spent>>
      BY <2>5 DEF HitLocks, AdvisoryLock, GoesTo
    <3>2. AdmissionTypeOK'
      BY <2>1, <2>2, <3>1, <1>t DEF AdmissionTypeOK, policyVars, Stage
    <3>3. PolicyInv'
      BY <1>r, <2>1, <3>1, <3>2, <1>t DEF AdmissionTypeOK
    <3>4. RateInv'
      BY <2>1, <2>2, <3>1, <1>t DEF RateInv, AdmissionTypeOK
    <3>5. QED
      BY <3>2, <3>3, <3>4 DEF AdmissionInv
  <2>6. CASE HitSelects(r)
    <3>1. /\ at[r] = "locked" /\ at' = [at EXCEPT ![r] = "selected"]
          /\ read' = [read EXCEPT ![r] = bucket]
          /\ UNCHANGED <<bucket, lockedBy, stamp, spent>>
      BY <2>6 DEF HitSelects, GoesTo
    <3>2. AdmissionTypeOK'
      BY <2>1, <2>2, <3>1, <1>t DEF AdmissionTypeOK, policyVars, Stage
    <3>3. PolicyInv'
      BY <1>r, <2>1, <3>1, <3>2, <1>t DEF AdmissionTypeOK
    <3>4. RateInv'
      BY <2>1, <2>2, <3>1, <1>t DEF RateInv, AdmissionTypeOK
    <3>5. QED
      BY <3>2, <3>3, <3>4 DEF AdmissionInv
  <2>7. CASE HitUpserts(r)
    <3>1. /\ at[r] = "selected" /\ Hit(r, read[r], stamp[r]) /\ UNCHANGED <<read, stamp>>
          /\ lockedBy' \in {NoHit, lockedBy}
          /\ lockedBy = r /\ stamp[r] \in Nat \ {0} /\ read[r].count <= Limit
          /\ read[r] = bucket \/ bucket = NoBucket
      BY <2>2, <2>7, <1>t DEF HitUpserts, RateInv
    <3>2. /\ bucket' \in BucketRow /\ spent' \in Nat
          /\ spent' <= bucket'.count /\ bucket'.count <= Limit
          /\ bucket'.window # 0
          /\ at' = [at EXCEPT ![r] = "admitted"] \/ at' = [at EXCEPT ![r] = "denied"]
      BY <2>2, <3>1, HitKeeps
    <3>3. AdmissionTypeOK'
      BY <2>1, <3>1, <3>2, <1>t DEF AdmissionTypeOK, policyVars, Stage
    <3>4. at' \in [Request -> Stage] /\ (\A x \in Request \ {r} : at'[x] = at[x])
          /\ at'[r] \in {"admitted", "denied"}
      BY <3>2, <3>3, <1>t DEF AdmissionTypeOK
    <3>5. PolicyInv'
      BY <1>r, <2>1, <3>1, <3>4
    <3>6. RateInv'
      <4>1. \A x \in Request : at'[x] \notin {"locked", "selected"}
        BY <3>1, <3>4, <1>t DEF RateInv
      <4>2. QED
        BY <2>1, <3>1, <3>2, <4>1, <1>t DEF RateInv
    <3>7. QED
      BY <3>3, <3>5, <3>6 DEF AdmissionInv
  <2>8. CASE HitRejects(r)
    <3>1. /\ at[r] \in {"locked", "selected"} /\ at' = [at EXCEPT ![r] = "denied"]
          /\ lockedBy' \in {NoHit, lockedBy} /\ lockedBy = r
          /\ UNCHANGED <<bucket, read, stamp, spent>>
      BY <2>8, <1>t DEF HitRejects, GoesTo, RateInv
    <3>2. AdmissionTypeOK'
      BY <2>1, <2>2, <3>1, <1>t DEF AdmissionTypeOK, policyVars, Stage
    <3>3. at' \in [Request -> Stage] /\ (\A x \in Request \ {r} : at'[x] = at[x])
          /\ at'[r] = "denied"
      BY <3>1, <3>2, <1>t DEF AdmissionTypeOK
    <3>4. PolicyInv'
      BY <1>r, <2>1, <3>1, <3>3
    <3>5. RateInv'
      <4>1. \A x \in Request : at'[x] \notin {"locked", "selected"}
        BY <3>1, <3>3, <1>t DEF RateInv
      <4>2. QED
        BY <2>1, <3>1, <4>1, <1>t DEF RateInv
    <3>6. QED
      BY <3>2, <3>4, <3>5 DEF AdmissionInv
  <2>9. QED
    BY <1>6, <2>3, <2>4, <2>5, <2>6, <2>7, <2>8 DEF RateLimit
<1>7. CASE ResetRateLimit
  <2>1. /\ bucket' = NoBucket /\ spent' = 0
        /\ UNCHANGED <<policyVars, at, since, window, lockedBy, read, stamp, split>>
    BY <1>7 DEF ResetRateLimit
  <2>2. NoBucket \in BucketRow /\ NoBucket.count = 0 /\ NoBucket.window = 0
    BY DEF NoBucket, BucketRow
  <2>3. AdmissionTypeOK'
    BY <2>1, <2>2, <1>t DEF AdmissionTypeOK, policyVars
  <2>4. PolicyInv'
    BY <2>1, <1>t DEF PolicyInv, Past, Against, policyVars
  <2>5. RateInv'
    BY <2>1, <2>2, <1>t DEF RateInv
  <2>6. QED
    BY <2>3, <2>4, <2>5 DEF AdmissionInv
<1>8. CASE WindowPasses
  <2>1. /\ window' = window + 1 /\ UNCHANGED <<policyVars, at, since, rateVars, split>>
    BY <1>8 DEF WindowPasses
  <2>2. AdmissionTypeOK'
    BY <2>1, <1>t DEF AdmissionTypeOK, policyVars, rateVars
  <2>3. PolicyInv' /\ RateInv'
    BY <2>1, <1>t DEF PolicyInv, Past, Against, policyVars, RateInv, rateVars
  <2>4. QED
    BY <2>2, <2>3 DEF AdmissionInv
<1>9. CASE UNCHANGED admissionVars
  <2>1. UNCHANGED <<policyVars, rateVars, at, since, window, split>>
    BY <1>9 DEF admissionVars
  <2>2. AdmissionTypeOK'
    BY <2>1, <1>t DEF AdmissionTypeOK, policyVars, rateVars
  <2>3. PolicyInv' /\ RateInv'
    BY <2>1, <1>t DEF PolicyInv, Past, Against, policyVars, RateInv, rateVars
  <2>4. QED
    BY <2>2, <2>3 DEF AdmissionInv
<1>10. QED
  BY <1>1, <1>2, <1>3, <1>4, <1>5, <1>6, <1>7, <1>8, <1>9 DEF AdmissionNext

\* PolicyIsEnforced: the reads of enforcePolicies() are spread over time, and the
\* owner changes policies between them; no request gets past a policy that held
\* from its arrival on.  For any number of requests and changes.
THEOREM PoliciesAreEnforced == AdmissionSpec => []PolicyIsEnforced
<1>1. AdmissionInv => PolicyIsEnforced
  <2> SUFFICES ASSUME AdmissionInv, NEW r \in Request,
                      at[r] \in {"rate", "locked", "selected", "admitted"}
               PROVE  since[r] \cap Against(r) = {}
    BY DEF PolicyIsEnforced
  <2>1. since[r] \subseteq {"maintenance", "maintenanceForAll", "user", "ip", "guild"}
    BY DEF AdmissionInv, AdmissionTypeOK, Policy, Subject
  <2>2. QED
    BY <2>1 DEF AdmissionInv, PolicyInv, Past
<1>2. QED
  BY <1>1, AdmissionInvInit, AdmissionInvStep, PTL DEF AdmissionSpec

\* SpendingWithinLimit: whether hit() is one step or three statements under the
\* advisory lock, and whoever deletes the row meanwhile, a window never lets
\* through more than the limit; for all costs and limits.
THEOREM SpendingStaysWithinLimit == AdmissionSpec => []SpendingWithinLimit
<1>1. AdmissionInv => SpendingWithinLimit
  <2> SUFFICES ASSUME AdmissionInv PROVE spent <= Limit
    BY DEF SpendingWithinLimit
  <2>1. spent \in Nat /\ bucket.count \in Nat /\ Limit \in Nat
    BY AdmissionAssumption DEF AdmissionInv, AdmissionTypeOK, BucketRow
  <2>2. QED
    BY <2>1 DEF AdmissionInv, RateInv
<1>2. QED
  BY <1>1, AdmissionInvInit, AdmissionInvStep, PTL DEF AdmissionSpec

------------------------------------------------------------------------------
(* The permission algorithm.                                               *)

\* The word of a member holds exactly the permissions Discord's rule grants,
\* apart from the administrator's, who may do everything and whose word is full.
LEMMA BaseWord ==
    ASSUME NEW q \in Question, NEW who \in {"user", "bot"}, NEW roles \in SUBSET Role
    PROVE  LET bits == ComputeBase(q.words, q.owner = who, roles) IN
           /\ bits \subseteq Permission
           /\ \A p \in Permission : p \in bits <=> May(q, who, roles, p)
           /\ ADMINISTRATOR \in bits => bits = Permission
<1>1. \A role \in roles \cup {Everyone} : q.words[role] \in SUBSET Permission
  BY GuildAssumption DEF Question, Word
<1> DEFINE bits == UNION {q.words[role] : role \in roles \cup {Everyone}}
           full == q.owner = who \/ ADMINISTRATOR \in bits
<1>2. bits \subseteq Permission
  BY <1>1
<1>3. \A p : p \in bits <=> \E role \in roles \cup {Everyone} : p \in q.words[role]
  OBVIOUS
<1>4. ComputeBase(q.words, q.owner = who, roles) = IF full THEN Permission ELSE bits
  BY DEF ComputeBase
<1>5. ASSUME NEW p \in Permission
      PROVE  May(q, who, roles, p) <=> full \/ p \in bits
  BY <1>3 DEF May
<1>6. ADMINISTRATOR \in Permission
  BY GuildAssumption
<1> HIDE DEF bits
<1>7. QED
  BY <1>2, <1>4, <1>5, <1>6

\* What was decided was decided of a guild with its user and its bot.
GuildInv ==
    asked # NoQuestion =>
        /\ asked \in Question
        /\ verdict = [require |-> Require(asked), authorize |-> Authorize(asked)]

\* DecisionsFollowRoles: require() and authorize() compute words from roles, test
\* bits and let owners and administrators through, each in its own order; both
\* decide by Discord's rule.  For all permissions, roles and questions.
THEOREM DecisionsAreDiscords == GuildSpec => []DecisionsFollowRoles
<1>1. GuildInit => GuildInv
  BY DEF GuildInit, GuildInv
<1>2. GuildInv /\ [GuildNext]_guildVars => GuildInv'
  <2> SUFFICES ASSUME GuildInv, [GuildNext]_guildVars PROVE GuildInv'
    OBVIOUS
  <2>1. CASE GuildNext
    <3>1. PICK q \in Question :
              /\ asked' = q
              /\ verdict' = [require |-> Require(q), authorize |-> Authorize(q)]
      BY <2>1 DEF GuildNext
    <3>2. QED
      BY <3>1 DEF GuildInv
  <2>2. CASE UNCHANGED guildVars
    BY <2>2 DEF GuildInv, guildVars
  <2>3. QED
    BY <2>1, <2>2
<1>3. GuildInv => DecisionsFollowRoles
  <2> SUFFICES ASSUME GuildInv, asked # NoQuestion
               PROVE  LET user == \A p \in asked.ofUser : May(asked, "user", asked.userRoles, p)
                          bot == /\ asked.botPresent
                                 /\ \A p \in asked.ofBot : May(asked, "bot", asked.botRoles, p) IN
                      /\ verdict.require = "allowed" <=> user /\ bot
                      /\ verdict.authorize = "allowed" <=>
                            (user /\ bot) \/ (asked.allowGuildOwner /\ asked.owner = "user" /\ asked.botPresent)
    BY DEF DecisionsFollowRoles
  <2> DEFINE user == \A p \in asked.ofUser : May(asked, "user", asked.userRoles, p)
             trusted == \A p \in asked.ofBot : May(asked, "bot", asked.botRoles, p)
             userOwns == asked.owner = "user"
             botOwns == asked.owner = "bot"
             userBits == ComputeBase(asked.words, userOwns, asked.userRoles)
             botBits == ComputeBase(asked.words, botOwns, asked.botRoles)
  <2>1. /\ asked \in Question /\ asked.userRoles \in SUBSET Role /\ asked.botRoles \in SUBSET Role
        /\ asked.ofUser \in SUBSET Permission /\ asked.ofBot \in SUBSET Permission
        /\ asked.botPresent \in BOOLEAN /\ asked.allowGuildOwner \in BOOLEAN
        /\ verdict.require = Require(asked) /\ verdict.authorize = Authorize(asked)
    BY DEF GuildInv, Question, Word
  <2>2. /\ userBits \in SUBSET Permission
        /\ \A p \in Permission : p \in userBits <=> May(asked, "user", asked.userRoles, p)
        /\ ADMINISTRATOR \in userBits \/ userOwns => userBits = Permission
    <3>1. /\ userBits \subseteq Permission
          /\ \A p \in Permission : p \in userBits <=> May(asked, "user", asked.userRoles, p)
          /\ ADMINISTRATOR \in userBits => userBits = Permission
      BY <2>1, BaseWord
    <3>2. userOwns => \A p \in Permission : May(asked, "user", asked.userRoles, p)
      BY DEF May
    <3> HIDE DEF userBits, userOwns
    <3>3. QED
      BY <3>1, <3>2
  <2>3. /\ botBits \in SUBSET Permission
        /\ \A p \in Permission : p \in botBits <=> May(asked, "bot", asked.botRoles, p)
        /\ ADMINISTRATOR \in botBits => botBits = Permission
    BY <2>1, BaseWord
  <2>4. /\ Require(asked) =
              IF MissingPermissions(userBits, asked.ofUser, userOwns) # {}
              THEN "USER_PERMISSION_MISSING"
              ELSE IF ~asked.botPresent THEN "BOT_NOT_IN_GUILD"
              ELSE IF MissingPermissions(botBits, asked.ofBot, FALSE) # {}
              THEN "BOT_PERMISSION_MISSING" ELSE "allowed"
        /\ Authorize(asked) =
              IF ~asked.botPresent THEN "BOT_NOT_IN_GUILD"
              ELSE IF asked.allowGuildOwner /\ userOwns THEN "allowed"
              ELSE IF ~HasPermissions(userBits, asked.ofUser, FALSE) THEN "USER_PERMISSION_MISSING"
              ELSE IF ~HasPermissions(botBits, asked.ofBot, FALSE) THEN "BOT_PERMISSION_MISSING"
              ELSE "allowed"
    BY DEF Require, Authorize
  <2>a. userOwns \in BOOLEAN
    OBVIOUS
  <2> HIDE DEF userOwns, botOwns, userBits, botBits
  <2>5. /\ MissingPermissions(userBits, asked.ofUser, userOwns) = {} <=> user
        /\ HasPermissions(userBits, asked.ofUser, FALSE) <=> user
    <3>1. asked.ofUser \subseteq userBits <=> user
      BY <2>1, <2>2
    <3> HIDE DEF user
    <3>2. asked.ofUser \subseteq Permission
      BY <2>1
    <3>3. QED
      BY <2>1, <2>2, <3>1, <3>2 DEF MissingPermissions, HasPermissions
  <2>6. /\ MissingPermissions(botBits, asked.ofBot, FALSE) = {} <=> trusted
        /\ HasPermissions(botBits, asked.ofBot, FALSE) <=> trusted
    <3>1. asked.ofBot \subseteq botBits <=> trusted
      BY <2>1, <2>3
    <3> HIDE DEF trusted
    <3>2. asked.ofBot \subseteq Permission
      BY <2>1
    <3>3. QED
      BY <2>1, <2>3, <3>1, <3>2 DEF MissingPermissions, HasPermissions
  <2> HIDE DEF user, trusted
  <2>7. verdict.require = "allowed" <=> user /\ asked.botPresent /\ trusted
    BY <2>1, <2>4, <2>5, <2>6
  <2>8. verdict.authorize = "allowed" <=>
            (user /\ asked.botPresent /\ trusted)
            \/ (asked.allowGuildOwner /\ userOwns /\ asked.botPresent)
    BY <2>1, <2>4, <2>5, <2>6, <2>a
  <2>9. QED
    BY <2>7, <2>8 DEF user, trusted, userOwns
<1>4. QED
  BY <1>1, <1>2, <1>3, PTL DEF GuildSpec

------------------------------------------------------------------------------
(* Transactions, for every number of scopes in one transaction whose runs  *)
(* nest at most once.  (Nested deeper, `parent` is the wrong scope: a run  *)
(* shows what becomes of the callbacks then.)                              *)

\* The members of a list.
LEMMA MembersOfLists ==
    ASSUME NEW S, NEW xs \in Seq(S), NEW ys \in Seq(S), NEW x \in S
    PROVE  /\ Range(<<>>) = {}
           /\ Range(xs \o ys) = Range(xs) \cup Range(ys)
           /\ Range(Append(xs, x)) = Range(xs) \cup {x}
           /\ xs # <<>> => /\ Head(xs) \in S /\ Tail(xs) \in Seq(S)
                           /\ Range(xs) = {Head(xs)} \cup Range(Tail(xs))
<1>1. Range(<<>>) = {}
  BY DEF Range
<1>2. Range(xs \o ys) = Range(xs) \cup Range(ys)
  <2>1. ASSUME NEW z \in Range(xs \o ys) PROVE z \in Range(xs) \cup Range(ys)
    <3>1. PICK i \in 1..(Len(xs) + Len(ys)) : z = (xs \o ys)[i]
      BY <2>1 DEF Range
    <3>2. CASE i <= Len(xs)
      BY <3>1, <3>2 DEF Range
    <3>3. CASE i > Len(xs)
      <4>1. i - Len(xs) \in 1..Len(ys) /\ z = ys[i - Len(xs)]
        BY <3>1, <3>3
      <4>2. QED
        BY <4>1 DEF Range
    <3>4. QED
      BY <3>1, <3>2, <3>3
  <2>2. ASSUME NEW z \in Range(xs) PROVE z \in Range(xs \o ys)
    <3>1. PICK i \in 1..Len(xs) : z = xs[i]
      BY <2>2 DEF Range
    <3>2. i \in 1..(Len(xs) + Len(ys)) /\ z = (xs \o ys)[i]
      BY <3>1
    <3>3. QED
      BY <3>2 DEF Range
  <2>3. ASSUME NEW z \in Range(ys) PROVE z \in Range(xs \o ys)
    <3>1. PICK i \in 1..Len(ys) : z = ys[i]
      BY <2>3 DEF Range
    <3>2. i + Len(xs) \in 1..(Len(xs) + Len(ys)) /\ z = (xs \o ys)[i + Len(xs)]
      BY <3>1
    <3>3. QED
      BY <3>2 DEF Range
  <2>4. QED
    BY <2>1, <2>2, <2>3
<1>3. Range(Append(xs, x)) = Range(xs) \cup {x}
  <2>1. Append(xs, x)[Len(xs) + 1] = x /\ Len(xs) + 1 \in 1..(Len(xs) + 1)
    OBVIOUS
  <2>2. \A i \in 1..Len(xs) : i \in 1..(Len(xs) + 1) /\ Append(xs, x)[i] = xs[i]
    OBVIOUS
  <2>3. \A i \in 1..(Len(xs) + 1) : i \in 1..Len(xs) \/ i = Len(xs) + 1
    OBVIOUS
  <2>4. DOMAIN Append(xs, x) = 1..(Len(xs) + 1) /\ DOMAIN xs = 1..Len(xs)
    OBVIOUS
  <2>5. QED
    BY <2>1, <2>2, <2>3, <2>4 DEF Range
<1>4. ASSUME xs # <<>>
      PROVE  /\ Head(xs) \in S /\ Tail(xs) \in Seq(S)
             /\ Range(xs) = {Head(xs)} \cup Range(Tail(xs))
  <2>1. /\ Len(xs) \in Nat \ {0} /\ Head(xs) = xs[1] /\ Head(xs) \in S
        /\ Tail(xs) \in Seq(S) /\ Len(Tail(xs)) = Len(xs) - 1
        /\ \A i \in 1..Len(Tail(xs)) : Tail(xs)[i] = xs[i + 1]
    BY <1>4
  <2>2. DOMAIN Tail(xs) = 1..(Len(xs) - 1) /\ DOMAIN xs = 1..Len(xs)
    BY <2>1
  <2>3. \A i \in 1..Len(xs) : i = 1 \/ (i - 1 \in 1..(Len(xs) - 1) /\ xs[i] = Tail(xs)[i - 1])
    BY <2>1
  <2>4. \A i \in 1..(Len(xs) - 1) : i + 1 \in 1..Len(xs) /\ Tail(xs)[i] = xs[i + 1]
    BY <2>1
  <2>5. 1 \in 1..Len(xs)
    BY <2>1
  <2>6. Range(xs) \subseteq {Head(xs)} \cup Range(Tail(xs))
    <3>1. ASSUME NEW z \in Range(xs) PROVE z \in {Head(xs)} \cup Range(Tail(xs))
      <4>1. PICK i \in 1..Len(xs) : z = xs[i]
        BY <2>2, <3>1 DEF Range
      <4>2. CASE i = 1
        BY <2>1, <4>1, <4>2
      <4>3. CASE i # 1
        <5>1. i - 1 \in DOMAIN Tail(xs) /\ z = Tail(xs)[i - 1]
          BY <2>2, <2>3, <4>1, <4>3
        <5>2. QED
          BY <5>1 DEF Range
      <4>4. QED
        BY <4>2, <4>3
    <3>2. QED
      BY <3>1
  <2>7. {Head(xs)} \cup Range(Tail(xs)) \subseteq Range(xs)
    BY <2>1, <2>2, <2>4, <2>5 DEF Range
  <2>8. QED
    BY <2>1, <2>6, <2>7
<1>5. QED
  BY <1>1, <1>2, <1>3, <1>4

\* Where a scope stands while the transaction is worked in: what it registered,
\* where that has gone, and what has been called.  Scopes open one inside the
\* other, so that the second of two open ones is the newest.
ScopeOpen(s) == s \in Range(open) \ {1}

NestingOK ==
    \E n \in Scope :
        /\ \A s \in Scope : row[s] # "none" <=> s <= n
        /\ open = <<1>> \/ (n # 1 /\ open = <<1, n>>)

WorkingScope(s) ==
    /\ "commit" \notin ran[s]
    /\ s # 1 => Range(hooks[s]) \subseteq {s}
    /\ row[s] \in {"none", "empty"} =>
          s \notin Range(hooks[s]) /\ s \notin Range(hooks[1]) /\ ran[s] = {}
    /\ ~lost =>
          /\ row[s] # "durable"
          /\ row[s] = "pending" =>
                /\ ran[s] = {}
                /\ IF ScopeOpen(s) THEN s \in Range(hooks[s]) /\ s \notin Range(hooks[1])
                   ELSE s \in Range(hooks[1])
          /\ row[s] = "undone" =>
                ran[s] = {"rollback"} /\ s \notin Range(hooks[1]) /\ ~ScopeOpen(s) /\ s # 1

\* Where it stands once COMMIT has resolved, and at the end.
CommittedScope(s) ==
    /\ row[s] = "durable" => ran[s] \subseteq {"commit"} /\ (s \in Range(todo) \/ ran[s] = {"commit"})
    /\ row[s] = "undone" => ran[s] = {"rollback"} /\ s \notin Range(todo)

TxInv ==
    /\ TxTypeOK
    /\ txPhase \in {"begin", "working"} => NestingOK /\ \A s \in Scope : WorkingScope(s)
    /\ txPhase \in {"callbacks", "committed"} /\ ~aborted => \A s \in Scope : CommittedScope(s)
    /\ txPhase = "committed" => todo = <<>>
    /\ txPhase = "rejected" => \A s \in Scope : "commit" \notin ran[s]


\* What a well-formed state gives: the members of each list, and the open scopes.
LEMMA TxLists ==
    ASSUME TxTypeOK
    PROVE  /\ 1 \in Scope
           /\ \A s \in Scope : hooks[s] \in Seq(Scope)
  BY TransactionsAssumption DEF TxTypeOK, Scope

LEMMA OpenScopes ==
    ASSUME TxTypeOK, NestingOK
    PROVE  \E n \in Scope :
              /\ \A s \in Scope : row[s] # "none" <=> s <= n
              /\ \/ open = <<1>> /\ Current = 1 /\ Len(open) = 1 /\ Range(open) = {1}
                 \/ /\ n # 1
                    /\ open = <<1, n>> /\ Current = n /\ Len(open) = 2 /\ Range(open) = {1, n}
                    /\ Front(open) = <<1>>
<1>1. PICK n \in Scope :
         /\ \A s \in Scope : row[s] # "none" <=> s <= n
         /\ open = <<1>> \/ (n # 1 /\ open = <<1, n>>)
  BY DEF NestingOK
<1>2. CASE open = <<1>>
  <2>1. DOMAIN open = {1} /\ open[1] = 1 /\ Len(open) = 1
    BY <1>2
  <2>2. Range(open) = {1} /\ Current = 1
    BY <2>1 DEF Range, Current, Last
  <2>3. QED
    BY <1>1, <1>2, <2>1, <2>2
<1>3. CASE n # 1 /\ open = <<1, n>>
  <2>1. DOMAIN open = {1, 2} /\ open[1] = 1 /\ open[2] = n /\ Len(open) = 2
    BY <1>3
  <2>2. Range(open) = {1, n} /\ Current = n
    BY <2>1 DEF Range, Current, Last
  <2>3. Front(open) = <<1>>
    <3>1. /\ Front(open) \in Seq(Nat) /\ Len(Front(open)) = 1 /\ Front(open)[1] = 1
      BY <1>3, <2>1 DEF Front, Scope
    <3>2. \A xs \in Seq(Nat) : Len(xs) = 1 => xs = <<xs[1]>>
      OBVIOUS
    <3>3. QED
      BY <3>1, <3>2
  <2>4. QED
    BY <1>1, <1>3, <2>1, <2>2, <2>3
<1>4. QED
  BY <1>1, <1>2, <1>3

LEMMA FatedRow ==
    ASSUME TxTypeOK, NEW s \in Scope, NEW f \in {"durable", "undone"}
    PROVE  /\ Fated(s, f) \in [Scope -> {"none", "empty", "pending", "durable", "undone"}]
           /\ \A t \in Scope : Fated(s, f)[t] = IF t >= s /\ row[t] = "pending" THEN f ELSE row[t]
  BY DEF Fated, TxTypeOK

LEMMA RolledBackRan ==
    ASSUME TxTypeOK, NEW s \in Scope
    PROVE  /\ RolledBack(s) \in [Scope -> SUBSET {"commit", "rollback"}]
           /\ \A t \in Scope : RolledBack(s)[t] =
                 IF t \in Range(hooks[s]) THEN ran[t] \cup {"rollback"} ELSE ran[t]
  BY DEF RolledBack, TxTypeOK

LEMMA TxInitHolds == TxInit => TxInv
<1> SUFFICES ASSUME TxInit PROVE TxInv
  OBVIOUS
<1>1. 1 \in Scope /\ Scope \subseteq Nat /\ \A s \in Scope : s >= 1
  BY TransactionsAssumption DEF Scope
<1>2. TxTypeOK
  <2>1. open \in Seq(Scope) /\ todo \in Seq(Scope) /\ hooks \in [Scope -> Seq(Scope)]
    BY <1>1 DEF TxInit
  <2>2. /\ row \in [Scope -> {"none", "empty", "pending", "durable", "undone"}]
        /\ ran \in [Scope -> SUBSET {"commit", "rollback"}]
    BY DEF TxInit
  <2>3. QED
    BY <2>1, <2>2 DEF TxInit, TxTypeOK
<1>3. NestingOK
  <2>1. \A s \in Scope : row[s] # "none" <=> s <= 1
    BY <1>1 DEF TxInit
  <2>2. QED
    BY <1>1, <2>1 DEF TxInit, NestingOK
<1>4. ASSUME NEW s \in Scope PROVE WorkingScope(s)
  <2>1. Range(hooks[s]) = {} /\ Range(hooks[1]) = {}
    BY <1>1 DEF TxInit, Range
  <2>2. QED
    BY <2>1 DEF TxInit, WorkingScope
<1>5. QED
  BY <1>2, <1>3, <1>4 DEF TxInv, TxInit

LEMMA TxBeginKeeps == TxInv /\ TxBegin => TxInv'
<1> SUFFICES ASSUME TxInv, TxBegin PROVE TxInv'
  OBVIOUS
<1>1. TxTypeOK' /\ NestingOK'
  BY DEF TxInv, TxBegin, TxTypeOK, NestingOK
<1>2. \A s \in Scope : WorkingScope(s)'
  BY DEF TxInv, TxBegin, WorkingScope, ScopeOpen
<1>3. \A s \in Scope : "commit" \notin ran'[s]
  BY <1>2 DEF WorkingScope
<1>4. QED
  BY <1>1, <1>2, <1>3 DEF TxInv, TxBegin

LEMMA TxWriteKeeps == TxInv /\ TxWrite => TxInv'
<1> SUFFICES ASSUME TxInv, TxWrite PROVE TxInv'
  OBVIOUS
<1>0. /\ TxTypeOK /\ NestingOK /\ (\A s \in Scope : WorkingScope(s))
      /\ txPhase = "working" /\ txPhase' = "working"
      /\ open' = open /\ todo' = todo /\ ran' = ran /\ aborted' = aborted /\ lost' = lost
  BY DEF TxInv, TxWrite, Usable, Working
<1>1. PICK n \in Scope :
         /\ \A s \in Scope : row[s] # "none" <=> s <= n
         /\ \/ open = <<1>> /\ Current = 1 /\ Range(open) = {1}
            \/ n # 1 /\ open = <<1, n>> /\ Current = n /\ Range(open) = {1, n}
  BY <1>0, OpenScopes
<1> DEFINE c == Current
<1>2. c \in Scope /\ row[c] = "empty" /\ 1 \in Scope
  BY <1>0, <1>1, TxLists DEF TxWrite
<1>3. /\ row' \in [Scope -> {"none", "empty", "pending", "durable", "undone"}]
      /\ row'[c] = "pending" /\ \A s \in Scope \ {c} : row'[s] = row[s]
  BY <1>0, <1>2 DEF TxWrite, TxTypeOK
<1>4. /\ hooks' \in [Scope -> Seq(Scope)]
      /\ hooks'[c] = Append(hooks[c], c) /\ \A s \in Scope \ {c} : hooks'[s] = hooks[s]
  BY <1>0, <1>2 DEF TxWrite, TxTypeOK
<1> HIDE DEF c
<1>5. Range(hooks'[c]) = Range(hooks[c]) \cup {c}
  BY <1>0, <1>2, <1>4, TxLists, MembersOfLists
<1>6. TxTypeOK'
  BY <1>0, <1>3, <1>4 DEF TxTypeOK
<1>7. NestingOK'
  <2>1. \A s \in Scope : row'[s] # "none" <=> s <= n
    BY <1>1, <1>2, <1>3
  <2>2. QED
    BY <1>0, <1>1, <2>1 DEF NestingOK
<1>8. ASSUME NEW s \in Scope PROVE WorkingScope(s)'
  <2>1. WorkingScope(s) /\ WorkingScope(c)
    BY <1>0, <1>2
  <2>2. CASE s = c
    <3>1. ran[c] = {} /\ c \notin Range(hooks[c]) /\ c \notin Range(hooks[1])
      BY <1>2, <2>1 DEF WorkingScope
    <3>2. s # 1 => Range(hooks'[s]) \subseteq {s}
      BY <1>5, <2>1, <2>2 DEF WorkingScope
    <3>3. IF ScopeOpen(s) THEN s \in Range(hooks'[s]) /\ s \notin Range(hooks'[1])
          ELSE s \in Range(hooks'[1])
      BY <1>1, <1>2, <1>4, <1>5, <2>2, <3>1 DEF ScopeOpen, c
    <3>4. ScopeOpen(s)' <=> ScopeOpen(s)
      BY <1>0 DEF ScopeOpen
    <3>5. QED
      BY <1>0, <1>3, <2>2, <3>1, <3>2, <3>3, <3>4 DEF WorkingScope
  <2>3. CASE s # c
    <3>1. row'[s] = row[s] /\ hooks'[s] = hooks[s]
      BY <1>3, <1>4, <2>3
    <3>2. s \in Range(hooks'[1]) <=> s \in Range(hooks[1])
      BY <1>2, <1>4, <1>5, <2>3
    <3>3. ScopeOpen(s)' <=> ScopeOpen(s)
      BY <1>0 DEF ScopeOpen
    <3>4. QED
      BY <1>0, <2>1, <3>1, <3>2, <3>3 DEF WorkingScope
  <2>4. QED
    BY <2>2, <2>3
<1>9. QED
  BY <1>0, <1>6, <1>7, <1>8 DEF TxInv

LEMMA StatementRejectsKeeps == TxInv /\ StatementRejects => TxInv'
<1> SUFFICES ASSUME TxInv, StatementRejects PROVE TxInv'
  OBVIOUS
<1>0. /\ TxTypeOK /\ NestingOK /\ (\A s \in Scope : WorkingScope(s))
      /\ txPhase = "working" /\ txPhase' = "working"
      /\ open' = open /\ todo' = todo /\ ran' = ran /\ hooks' = hooks
  BY DEF TxInv, StatementRejects, Usable, Working
<1>1. CASE aborted' = TRUE /\ UNCHANGED <<row, lost>>
  <2>1. TxTypeOK' /\ NestingOK'
    BY <1>0, <1>1 DEF TxTypeOK, NestingOK
  <2>2. \A s \in Scope : WorkingScope(s)'
    BY <1>0, <1>1 DEF WorkingScope, ScopeOpen
  <2>3. QED
    BY <1>0, <2>1, <2>2 DEF TxInv
<1>2. CASE lost' = TRUE /\ row' = Fated(1, "undone") /\ UNCHANGED aborted
  <2>1. /\ row' \in [Scope -> {"none", "empty", "pending", "durable", "undone"}]
        /\ \A t \in Scope : row'[t] = IF t >= 1 /\ row[t] = "pending" THEN "undone" ELSE row[t]
    BY <1>0, <1>2, FatedRow, TxLists
  <2>2. \A t \in Scope : /\ row'[t] # "none" <=> row[t] # "none"
                         /\ row'[t] \in {"none", "empty"} <=> row[t] \in {"none", "empty"}
    BY <2>1
  <2>3. TxTypeOK'
    BY <1>0, <1>2, <2>1 DEF TxTypeOK
  <2>4. NestingOK'
    BY <1>0, <2>2 DEF NestingOK
  <2>5. \A s \in Scope : WorkingScope(s)'
    BY <1>0, <1>2, <2>2 DEF WorkingScope, ScopeOpen
  <2>6. QED
    BY <1>0, <2>3, <2>4, <2>5 DEF TxInv
<1>3. QED
  BY <1>1, <1>2 DEF StatementRejects

LEMMA OpenNestedKeeps == Depth <= 2 /\ TxInv /\ OpenNested => TxInv'
<1> SUFFICES ASSUME Depth <= 2, TxInv, OpenNested PROVE TxInv'
  OBVIOUS
<1>0. /\ TxTypeOK /\ NestingOK /\ (\A s \in Scope : WorkingScope(s))
      /\ txPhase = "working" /\ txPhase' = "working"
      /\ todo' = todo /\ ran' = ran /\ hooks' = hooks /\ aborted' = aborted /\ lost' = lost
  BY DEF TxInv, OpenNested, Usable, Working
<1>1. PICK n \in Scope :
         /\ \A s \in Scope : row[s] # "none" <=> s <= n
         /\ \/ open = <<1>> /\ Len(open) = 1 /\ Range(open) = {1}
            \/ n # 1 /\ open = <<1, n>> /\ Len(open) = 2 /\ Range(open) = {1, n}
  BY <1>0, OpenScopes
<1>2. open = <<1>> /\ Range(open) = {1}
  BY <1>1, TransactionsAssumption DEF OpenNested
<1>3. Cardinality(Used) = n
  <2>1. Used = 1..n
    BY <1>1, TransactionsAssumption DEF Used, Scope
  <2>2. QED
    BY <2>1, FS_Interval DEF Scope
<1> DEFINE m == n + 1
<1>4. /\ m \in Scope /\ m # 1 /\ row[m] = "none" /\ n \in Nat
      /\ open' = Append(open, m) /\ row' = [row EXCEPT ![m] = "empty"]
  BY <1>1, <1>3, TransactionsAssumption DEF OpenNested, Scope
<1>5. open' = <<1, m>> /\ open' \in Seq(Scope) /\ Range(open') = {1, m}
  <2>1. <<1>> \in Seq(Scope) /\ m \in Scope
    BY <1>0, <1>4, TxLists
  <2> HIDE DEF m
  <2>2. open' \in Seq(Scope) /\ Len(open') = 2 /\ open'[1] = 1 /\ open'[2] = m
    BY <1>2, <1>4, <2>1
  <2>3. DOMAIN open' = {1, 2} /\ open' = <<1, m>>
    BY <2>2
  <2>4. QED
    BY <2>2, <2>3 DEF Range
<1>6. /\ row' \in [Scope -> {"none", "empty", "pending", "durable", "undone"}]
      /\ row'[m] = "empty" /\ \A s \in Scope \ {m} : row'[s] = row[s]
  BY <1>0, <1>4 DEF TxTypeOK
<1>7. TxTypeOK'
  BY <1>0, <1>5, <1>6 DEF TxTypeOK
<1>8. NestingOK'
  <2>1. \A s \in Scope : row'[s] # "none" <=> s <= m
    BY <1>1, <1>4, <1>6 DEF Scope
  <2>2. QED
    BY <1>4, <1>5, <2>1 DEF NestingOK
<1> HIDE DEF m
<1>9. ASSUME NEW s \in Scope PROVE WorkingScope(s)'
  <2>1. WorkingScope(s)
    BY <1>0
  <2>2. CASE s = m
    BY <1>0, <1>4, <1>6, <2>1, <2>2 DEF WorkingScope
  <2>3. CASE s # m
    <3>1. ScopeOpen(s)' <=> ScopeOpen(s)
      BY <1>2, <1>5, <2>3 DEF ScopeOpen
    <3>2. row'[s] = row[s]
      BY <1>6, <2>3
    <3>3. QED
      BY <1>0, <2>1, <3>1, <3>2 DEF WorkingScope
  <2>4. QED
    BY <2>2, <2>3
<1>10. QED
  BY <1>0, <1>7, <1>8, <1>9 DEF TxInv

LEMMA NestedOkKeeps == TxInv /\ NestedOk => TxInv'
<1> SUFFICES ASSUME TxInv, NestedOk PROVE TxInv'
  OBVIOUS
<1>0. /\ TxTypeOK /\ NestingOK /\ (\A s \in Scope : WorkingScope(s))
      /\ txPhase = "working" /\ txPhase' = "working" /\ ~lost /\ lost' = lost
      /\ row' = row /\ todo' = todo /\ ran' = ran /\ aborted' = aborted
  BY DEF TxInv, NestedOk, Usable, Working
<1>1. PICK n \in Scope :
         /\ \A s \in Scope : row[s] # "none" <=> s <= n
         /\ n # 1 /\ Current = n /\ Range(open) = {1, n} /\ Front(open) = <<1>>
  <2>1. Len(open) # 1
    <3>1. Len(open) \in Nat /\ Len(open) > 1
      BY <1>0 DEF TxTypeOK, NestedOk
    <3>2. \A x \in Nat : x > 1 => x # 1
      OBVIOUS
    <3>3. QED
      BY <3>1, <3>2
  <2>2. PICK n \in Scope :
           /\ \A s \in Scope : row[s] # "none" <=> s <= n
           /\ \/ Len(open) = 1
              \/ n # 1 /\ Current = n /\ Range(open) = {1, n} /\ Front(open) = <<1>>
    BY <1>0, OpenScopes
  <2>3. n # 1 /\ Current = n /\ Range(open) = {1, n} /\ Front(open) = <<1>>
    BY <2>1, <2>2
  <2>4. QED
    BY <2>2, <2>3
<1>2. open' = <<1>> /\ open' \in Seq(Scope) /\ Range(open') = {1}
  <2>1. open' = <<1>>
    BY <1>1 DEF NestedOk
  <2>2. open' \in Seq(Scope) /\ DOMAIN open' = {1} /\ open'[1] = 1
    BY <1>0, <2>1, TxLists
  <2>3. QED
    BY <2>1, <2>2 DEF Range
<1>3. /\ hooks' = [hooks EXCEPT ![1] = @ \o hooks[n]]
      /\ hooks[1] \in Seq(Scope) /\ hooks[n] \in Seq(Scope) /\ 1 \in Scope
  BY <1>0, <1>1, TxLists DEF NestedOk
<1>4. /\ hooks' \in [Scope -> Seq(Scope)]
      /\ hooks'[1] = hooks[1] \o hooks[n] /\ \A s \in Scope \ {1} : hooks'[s] = hooks[s]
  <2>1. hooks[1] \o hooks[n] \in Seq(Scope)
    BY <1>3
  <2>2. QED
    BY <1>0, <1>3, <2>1 DEF TxTypeOK
<1>5. Range(hooks'[1]) = Range(hooks[1]) \cup Range(hooks[n]) /\ Range(hooks[n]) \subseteq {n}
  BY <1>0, <1>1, <1>3, <1>4, MembersOfLists DEF WorkingScope
<1>6. TxTypeOK' /\ NestingOK'
  BY <1>0, <1>1, <1>2, <1>4 DEF TxTypeOK, NestingOK
<1>7. ASSUME NEW s \in Scope PROVE WorkingScope(s)'
  <2>1. WorkingScope(s)
    BY <1>0
  <2>2. CASE s = n
    <3>1. ScopeOpen(s) /\ ~ScopeOpen(s)' /\ hooks'[s] = hooks[s]
      BY <1>1, <1>2, <1>4, <2>2 DEF ScopeOpen
    <3>2. QED
      BY <1>0, <1>1, <1>5, <2>1, <2>2, <3>1 DEF WorkingScope
  <2>3. CASE s # n
    <3>1. ScopeOpen(s)' <=> ScopeOpen(s)
      BY <1>1, <1>2, <2>3 DEF ScopeOpen
    <3>2. s \in Range(hooks'[1]) <=> s \in Range(hooks[1])
      BY <1>5, <2>3
    <3>3. CASE s = 1
      BY <1>0, <2>1, <3>1, <3>2, <3>3 DEF WorkingScope
    <3>4. CASE s # 1
      BY <1>0, <1>4, <2>1, <3>1, <3>2, <3>4 DEF WorkingScope
    <3>5. QED
      BY <3>3, <3>4
  <2>4. QED
    BY <2>2, <2>3
<1>8. QED
  BY <1>0, <1>6, <1>7 DEF TxInv

LEMMA NestedFailsKeeps == TxInv /\ NestedFails => TxInv'
<1> SUFFICES ASSUME TxInv, NestedFails PROVE TxInv'
  OBVIOUS
<1>0. /\ TxTypeOK /\ NestingOK /\ (\A s \in Scope : WorkingScope(s))
      /\ txPhase = "working" /\ txPhase' = "working" /\ lost' = lost
      /\ hooks' = hooks /\ todo' = todo
  BY DEF TxInv, NestedFails, NestedRollsBack, Working
<1>1. PICK n \in Scope :
         /\ \A s \in Scope : row[s] # "none" <=> s <= n
         /\ n # 1 /\ Current = n /\ Range(open) = {1, n} /\ Front(open) = <<1>>
  BY <1>0, OpenScopes DEF NestedFails
<1>2. open' = <<1>> /\ open' \in Seq(Scope) /\ Range(open') = {1}
  <2>1. open' = <<1>>
    BY <1>1 DEF NestedFails
  <2>2. open' \in Seq(Scope) /\ DOMAIN open' = {1} /\ open'[1] = 1
    BY <1>0, <2>1, TxLists
  <2>3. QED
    BY <2>1, <2>2 DEF Range
<1>3. /\ row' \in [Scope -> {"none", "empty", "pending", "durable", "undone"}]
      /\ \A t \in Scope : row'[t] = IF t >= n /\ row[t] = "pending" THEN "undone" ELSE row[t]
  BY <1>0, <1>1, FatedRow DEF NestedFails
<1>4. /\ ran' \in [Scope -> SUBSET {"commit", "rollback"}]
      /\ \A t \in Scope : ran'[t] = IF t \in Range(hooks[n]) THEN ran[t] \cup {"rollback"} ELSE ran[t]
  BY <1>0, <1>1, RolledBackRan DEF NestedFails, NestedRollsBack
<1>5. Range(hooks[n]) \subseteq {n}
  BY <1>0, <1>1 DEF WorkingScope
<1>6. TxTypeOK'
  BY <1>0, <1>2, <1>3, <1>4 DEF TxTypeOK, NestedFails
<1>7. NestingOK'
  <2>1. \A s \in Scope : row'[s] # "none" <=> s <= n
    BY <1>1, <1>3
  <2>2. QED
    BY <1>1, <1>2, <2>1 DEF NestingOK
<1>8. ASSUME NEW s \in Scope PROVE WorkingScope(s)'
  <2>1. WorkingScope(s)
    BY <1>0
  <2>2. CASE s = n
    <3>1. ScopeOpen(s) /\ ~ScopeOpen(s)' /\ row'[s] = IF row[s] = "pending" THEN "undone" ELSE row[s]
      BY <1>1, <1>2, <1>3, <2>2 DEF ScopeOpen, Scope
    <3>2. ran'[s] = IF s \in Range(hooks[s]) THEN ran[s] \cup {"rollback"} ELSE ran[s]
      BY <1>4, <2>2
    <3>3. QED
      BY <1>0, <1>1, <2>1, <2>2, <3>1, <3>2 DEF WorkingScope
  <2>3. CASE s # n
    <3>1. row[s] # "none" <=> s < n
      BY <1>1, <2>3 DEF Scope
    <3>2. row'[s] = row[s] /\ ran'[s] = ran[s]
      BY <1>3, <1>4, <1>5, <2>3, <3>1 DEF Scope
    <3>3. ScopeOpen(s)' <=> ScopeOpen(s)
      BY <1>1, <1>2, <2>3 DEF ScopeOpen
    <3>4. QED
      BY <1>0, <2>1, <3>2, <3>3 DEF WorkingScope
  <2>4. QED
    BY <2>2, <2>3
<1>9. QED
  BY <1>0, <1>6, <1>7, <1>8 DEF TxInv

LEMMA TxCommitKeeps == TxInv /\ TxCommit => TxInv'
<1> SUFFICES ASSUME TxInv, TxCommit PROVE TxInv'
  OBVIOUS
<1>0. /\ TxTypeOK /\ NestingOK /\ (\A s \in Scope : WorkingScope(s))
      /\ txPhase' = "callbacks" /\ ~lost /\ todo' = hooks[1]
      /\ open' = open /\ ran' = ran /\ aborted' = aborted /\ hooks' = hooks /\ lost' = lost
  BY DEF TxInv, TxCommit, Working
<1>1. Range(open) = {1}
  BY <1>0, OpenScopes DEF TxCommit
<1>2. /\ row' \in [Scope -> {"none", "empty", "pending", "durable", "undone"}]
      /\ \A t \in Scope : row'[t] = IF t >= 1 /\ row[t] = "pending"
                                    THEN IF aborted THEN "undone" ELSE "durable" ELSE row[t]
  BY <1>0, FatedRow, TxLists DEF TxCommit
<1>3. TxTypeOK'
  BY <1>0, <1>2, TxLists DEF TxTypeOK
<1>4. ASSUME NEW s \in Scope, ~aborted PROVE CommittedScope(s)'
  <2>1. WorkingScope(s) /\ ~ScopeOpen(s) /\ s >= 1
    BY <1>0, <1>1 DEF ScopeOpen, Scope
  <2>2. row'[s] = IF row[s] = "pending" THEN "durable" ELSE row[s]
    BY <1>2, <1>4, <2>1
  <2>3. QED
    BY <1>0, <2>1, <2>2 DEF WorkingScope, CommittedScope
<1>5. QED
  BY <1>0, <1>3, <1>4 DEF TxInv

LEMMA OutermostFailsKeeps == TxInv /\ OutermostFails => TxInv'
<1> SUFFICES ASSUME TxInv, OutermostFails PROVE TxInv'
  OBVIOUS
<1>0. /\ TxTypeOK /\ NestingOK /\ (\A s \in Scope : WorkingScope(s))
      /\ txPhase' = "rejected" /\ 1 \in Scope
      /\ open' = open /\ todo' = todo /\ aborted' = aborted /\ hooks' = hooks
  BY TxLists DEF TxInv, OutermostFails, Working
<1>1. row' \in [Scope -> {"none", "empty", "pending", "durable", "undone"}]
  BY <1>0, FatedRow DEF OutermostFails
<1>2. /\ ran' \in [Scope -> SUBSET {"commit", "rollback"}]
      /\ \A t \in Scope : ran'[t] = IF t \in Range(hooks[1]) THEN ran[t] \cup {"rollback"} ELSE ran[t]
  BY <1>0, RolledBackRan DEF OutermostFails
<1>3. lost' \in BOOLEAN
  BY <1>0 DEF OutermostFails, TxTypeOK
<1>4. TxTypeOK'
  BY <1>0, <1>1, <1>2, <1>3 DEF TxTypeOK
<1>5. \A s \in Scope : "commit" \notin ran'[s]
  BY <1>0, <1>2 DEF WorkingScope
<1>6. QED
  BY <1>0, <1>4, <1>5 DEF TxInv

LEMMA CallbackRunsKeeps == TxInv /\ CallbackRuns => TxInv'
<1> SUFFICES ASSUME TxInv, CallbackRuns PROVE TxInv'
  OBVIOUS
<1>0. /\ TxTypeOK /\ (~aborted => \A s \in Scope : CommittedScope(s))
      /\ txPhase = "callbacks" /\ txPhase' = "callbacks"
      /\ open' = open /\ row' = row /\ aborted' = aborted /\ hooks' = hooks /\ lost' = lost
  BY DEF TxInv, CallbackRuns
<1> DEFINE h == Head(todo)
<1>1. /\ h \in Scope /\ todo' \in Seq(Scope)
      /\ Range(todo) = {h} \cup Range(todo')
  BY <1>0, MembersOfLists DEF TxTypeOK, CallbackRuns
<1>2. /\ ran' \in [Scope -> SUBSET {"commit", "rollback"}]
      /\ ran'[h] = ran[h] \cup {"commit"} /\ \A s \in Scope \ {h} : ran'[s] = ran[s]
  BY <1>0, <1>1 DEF TxTypeOK, CallbackRuns
<1> HIDE DEF h
<1>3. TxTypeOK'
  BY <1>0, <1>1, <1>2 DEF TxTypeOK
<1>4. ASSUME NEW s \in Scope, ~aborted PROVE CommittedScope(s)'
  <2>1. CommittedScope(s)
    BY <1>0, <1>4
  <2>2. CASE s = h
    BY <1>0, <1>1, <1>2, <2>1, <2>2 DEF CommittedScope
  <2>3. CASE s # h
    BY <1>0, <1>1, <1>2, <2>1, <2>3 DEF CommittedScope
  <2>4. QED
    BY <2>2, <2>3
<1>5. QED
  BY <1>0, <1>3, <1>4 DEF TxInv

LEMMA TxEndsKeeps == TxInv /\ TxEnds => TxInv'
  BY DEF TxInv, TxEnds, TxTypeOK, CommittedScope

\* CallbacksMatchOutcome: no afterCommit callback of a transaction that rejects
\* is called; of one that resolves, each scope's afterCommit is called exactly if
\* its row is durable and its afterRollback exactly if the row was undone,
\* whatever statements reject, savepoints roll back and connections break.
THEOREM CallbacksTellTheTruth ==
    ASSUME Depth <= 2
    PROVE  TxSpec => []CallbacksMatchOutcome
<1>1. TxInv /\ [TxNext]_txVars => TxInv'
  <2> SUFFICES ASSUME TxInv, [TxNext]_txVars PROVE TxInv'
    OBVIOUS
  <2>1. CASE TxNext
    BY <2>1, TxBeginKeeps, TxWriteKeeps, StatementRejectsKeeps, OpenNestedKeeps, NestedOkKeeps,
       NestedFailsKeeps, TxCommitKeeps, OutermostFailsKeeps, CallbackRunsKeeps, TxEndsKeeps
       DEF TxNext
  <2>2. CASE UNCHANGED txVars
    <3>1. TxTypeOK' /\ (NestingOK => NestingOK')
      BY <2>2 DEF TxInv, TxTypeOK, NestingOK, txVars
    <3>2. \A s \in Scope : /\ WorkingScope(s) => WorkingScope(s)'
                           /\ CommittedScope(s) => CommittedScope(s)'
      BY <2>2 DEF WorkingScope, CommittedScope, ScopeOpen, txVars
    <3>3. QED
      BY <2>2, <3>1, <3>2 DEF TxInv, txVars
  <2>3. QED
    BY <2>1, <2>2
<1>2. TxInv => CallbacksMatchOutcome
  <2> SUFFICES ASSUME TxInv PROVE CallbacksMatchOutcome
    OBVIOUS
  <2>1. ASSUME txPhase = "committed", ~aborted, NEW s \in Used
        PROVE  /\ row[s] = "durable" => ran[s] = {"commit"}
               /\ row[s] = "undone" => ran[s] = {"rollback"}
    <3>1. CommittedScope(s) /\ Range(todo) = {}
      BY <2>1 DEF TxInv, Used, Range
    <3>2. QED
      BY <3>1 DEF CommittedScope
  <2>2. QED
    BY <2>1 DEF TxInv, CallbacksMatchOutcome
<1>3. QED
  BY <1>1, <1>2, TxInitHolds, PTL DEF TxSpec

------------------------------------------------------------------------------
(* AuditPages, for every size of page, of list() and of trail.             *)

\* A set of naturals that is not empty has a least member, and a bounded one a
\* greatest.
LEMMA LeastMember ==
    ASSUME NEW T, T \subseteq Nat, T # {}
    PROVE  \E m \in T : \A n \in T : m <= n
<1>1. PICK m \in T : \A n \in T : <<n, m>> \notin OpToRel(<, Nat)
  BY NatLessThanWellFounded, WFMin
<1>2. \A n \in T : ~(n < m)
  BY <1>1 DEF OpToRel
<1>3. QED
  BY <1>2

LEMMA GreatestMember ==
    ASSUME NEW N \in Nat, NEW T, T \subseteq 0..N, T # {}
    PROVE  \E m \in T : \A n \in T : n <= m
<1> DEFINE U == {N - n : n \in T}
<1>1. U \subseteq Nat /\ U # {}
  <2>1. \A n \in T : N - n \in Nat
    OBVIOUS
  <2>2. U \subseteq Nat
    BY <2>1
  <2>3. PICK n \in T : TRUE
    OBVIOUS
  <2>4. N - n \in U
    OBVIOUS
  <2>5. QED
    BY <2>2, <2>4
<1>2. PICK u \in U : \A v \in U : u <= v
  <2> HIDE DEF U
  <2>1. QED
    BY <1>1, LeastMember
<1>3. PICK m \in T : u = N - m
  BY <1>2
<1>4. ASSUME NEW n \in T PROVE n <= m
  <2>1. u <= N - n
    BY <1>2
  <2>2. QED
    BY <1>3, <2>1
<1>5. QED
  BY <1>4

\* The order of the trail is a strict total order on rows.
LEMMA TrailOrder ==
    /\ \A x \in Row : ~Precedes(x, x)
    /\ \A x, y \in Row : x = y \/ Precedes(x, y) \/ Precedes(y, x)
    /\ \A x, y \in Row : Precedes(x, y) => ~Precedes(y, x)
    /\ \A x, y, z \in Row : Precedes(x, y) /\ Precedes(y, z) => Precedes(x, z)
<1>1. \A x \in Row : x.createdAt \in Nat /\ x.id \in Nat
  BY AuditAssumption DEF Row
<1>2. \A x, y \in Row : x.createdAt = y.createdAt /\ x.id = y.id => x = y
  BY DEF Row
<1>3. QED
  BY <1>1, <1>2 DEF Precedes

LEMMA TrailHasEnds ==
    ASSUME NEW rows, rows \subseteq Row, rows # {}
    PROVE  /\ \E x \in rows : \A y \in rows : ~Precedes(y, x)
           /\ \E x \in rows : \A y \in rows : ~Precedes(x, y)
<1>1. \A x \in rows : x.createdAt \in 0..MaxStamp /\ x.id \in 0..MaxRecords
  BY AuditAssumption DEF Row
<1>2. MaxStamp \in Nat /\ MaxRecords \in Nat
  BY AuditAssumption
<1>3. \E x \in rows : \A y \in rows : ~Precedes(y, x)
  <2> DEFINE stamps == {x.createdAt : x \in rows}
  <2>1. PICK m \in stamps : \A n \in stamps : n <= m
    <3>1. stamps \subseteq 0..MaxStamp /\ stamps # {}
      BY <1>1
    <3> HIDE DEF stamps
    <3>2. QED
      BY <1>2, <3>1, GreatestMember
  <2> DEFINE ids == {x.id : x \in {z \in rows : z.createdAt = m}}
  <2>2. PICK j \in ids : \A n \in ids : n <= j
    <3>1. ids \subseteq 0..MaxRecords /\ ids # {}
      BY <1>1, <2>1
    <3> HIDE DEF ids
    <3>2. QED
      BY <1>2, <3>1, GreatestMember
  <2>3. PICK x \in rows : x.createdAt = m /\ x.id = j
    BY <2>2
  <2>4. ASSUME NEW y \in rows PROVE ~Precedes(y, x)
    <3>1. y.createdAt <= m /\ (y.createdAt = m => y.id <= j)
      BY <2>1, <2>2
    <3>2. QED
      BY <1>1, <2>3, <3>1 DEF Precedes
  <2>5. QED
    BY <2>4
<1>4. \E x \in rows : \A y \in rows : ~Precedes(x, y)
  <2> DEFINE stamps == {x.createdAt : x \in rows}
  <2>1. PICK m \in stamps : \A n \in stamps : m <= n
    <3>1. stamps \subseteq Nat /\ stamps # {}
      BY <1>1
    <3> HIDE DEF stamps
    <3>2. QED
      BY <3>1, LeastMember
  <2> DEFINE ids == {x.id : x \in {z \in rows : z.createdAt = m}}
  <2>2. PICK j \in ids : \A n \in ids : j <= n
    <3>1. ids \subseteq Nat /\ ids # {}
      BY <1>1, <2>1
    <3> HIDE DEF ids
    <3>2. QED
      BY <3>1, LeastMember
  <2>3. PICK x \in rows : x.createdAt = m /\ x.id = j
    BY <2>2
  <2>4. ASSUME NEW y \in rows PROVE ~Precedes(x, y)
    <3>1. m <= y.createdAt /\ (y.createdAt = m => j <= y.id)
      BY <2>1, <2>2
    <3>2. QED
      BY <1>1, <2>3, <3>1 DEF Precedes
  <2>5. QED
    BY <2>4
<1>5. QED
  BY <1>3, <1>4

\* A page is the beginning of the rows up to its last, and all of them if they
\* fit; one that is full has a last row.
LEMMA PageIsBeginning ==
    ASSUME NEW rows, rows \subseteq Row, IsFiniteSet(rows)
    PROVE  LET items == FirstOf(rows, PageLimit) IN
           /\ items \subseteq rows
           /\ Cardinality(rows) <= PageLimit => items = rows
           /\ Cardinality(rows) > PageLimit =>
                 /\ LastOf(items) \in rows
                 /\ \A x \in rows : x \in items <=> ~Precedes(LastOf(items), x)
<1> DEFINE before(x) == {y \in rows : Precedes(y, x)}
           items == FirstOf(rows, PageLimit)
           l == LastOf(items)
<1>1. /\ items \subseteq rows
      /\ \A x \in rows : x \in items <=> Cardinality(before(x)) < PageLimit
  BY DEF FirstOf
<1>2. PageLimit \in Nat \ {0} /\ Cardinality(rows) \in Nat
  BY AuditAssumption, FS_CardinalityType
<1>3. ASSUME NEW x \in rows
      PROVE  /\ IsFiniteSet(before(x)) /\ Cardinality(before(x)) \in Nat
             /\ Cardinality(before(x)) < Cardinality(rows)
  <2>1. before(x) \subseteq rows \ {x}
    BY TrailOrder
  <2>2. IsFiniteSet(rows \ {x}) /\ Cardinality(rows \ {x}) = Cardinality(rows) - 1
    BY FS_RemoveElement
  <2> HIDE DEF before
  <2>3. IsFiniteSet(before(x)) /\ Cardinality(before(x)) <= Cardinality(rows \ {x})
    BY <2>1, <2>2, FS_Subset
  <2>4. Cardinality(before(x)) \in Nat
    BY <2>3, FS_CardinalityType
  <2>5. QED
    BY <1>2, <2>2, <2>3, <2>4
<1>4. ASSUME Cardinality(rows) <= PageLimit PROVE items = rows
  <2> HIDE DEF before, items
  <2>1. \A x \in rows : Cardinality(before(x)) < PageLimit
    BY <1>2, <1>3, <1>4
  <2>2. QED
    BY <1>1, <2>1
<1>5. ASSUME NEW x \in items, NEW y \in rows, Precedes(y, x) PROVE y \in items
  <2>1. before(y) \subseteq before(x)
    BY <1>1, <1>5, TrailOrder
  <2> HIDE DEF before, items
  <2>2. /\ IsFiniteSet(before(x)) /\ Cardinality(before(x)) \in Nat
        /\ Cardinality(before(y)) \in Nat /\ Cardinality(before(x)) < PageLimit
    BY <1>1, <1>3
  <2>3. Cardinality(before(y)) <= Cardinality(before(x))
    BY <2>1, <2>2, FS_Subset
  <2>4. Cardinality(before(y)) < PageLimit
    BY <1>2, <2>2, <2>3
  <2>5. QED
    BY <1>1, <2>4
<1>6. ASSUME Cardinality(rows) > PageLimit
      PROVE  l \in rows /\ \A x \in rows : x \in items <=> ~Precedes(l, x)
  <2>1. rows # {}
    BY <1>2, <1>6, FS_EmptySet
  <2>2. PICK t \in rows : \A y \in rows : ~Precedes(y, t)
    BY <2>1, TrailHasEnds
  <2>3. before(t) = {}
    BY <2>2
  <2> HIDE DEF before
  <2>4. t \in items
    BY <1>1, <1>2, <2>3, FS_EmptySet
  <2> HIDE DEF items
  <2>5. items \subseteq Row /\ items # {}
    BY <1>1, <2>4
  <2>6. \E x \in items : \A y \in items \ {x} : Precedes(y, x)
    <3>1. PICK x \in items : \A y \in items : ~Precedes(x, y)
      BY <2>5, TrailHasEnds
    <3>2. \A y \in items \ {x} : Precedes(y, x)
      BY <2>5, <3>1, TrailOrder
    <3>3. QED
      BY <3>2
  <2>7. l \in items /\ \A y \in items \ {l} : Precedes(y, l)
    BY <2>6 DEF LastOf
  <2> HIDE DEF l
  <2>8. \A x \in items : ~Precedes(l, x)
    BY <2>5, <2>7, TrailOrder
  <2>9. ASSUME NEW x \in rows, ~Precedes(l, x) PROVE x \in items
    <3>1. x = l \/ Precedes(x, l)
      BY <2>5, <2>7, <2>9, TrailOrder
    <3>2. QED
      BY <1>5, <2>7, <3>1
  <2>10. QED
    BY <1>1, <2>7, <2>8, <2>9
<1>7. QED
  BY <1>1, <1>4, <1>6

\* What a walk that has not strayed has shown: of the rows up to its cursor, all
\* that were there from the beginning, none twice; and none of the others.
\* Records keep their ids, so that a retired one does not come back.
ShownSoFar ==
    \A r \in Row :
        /\ visits[r] \in {0, 1}
        /\ walk = "new" => visits[r] = 0
        /\ walk = "more" /\ visits[r] = 1 => ~Precedes(cursor, r)
        /\ r \in first \ retired /\ (walk = "done" \/ (walk = "more" /\ ~Precedes(cursor, r))) =>
              visits[r] = 1

AuditInv ==
    /\ AuditTypeOK
    /\ IsFiniteSet(trail)
    /\ \A x, y \in trail \cup retired : x.id = y.id => x = y
    /\ walk = "new" => cursor = NoRow
    /\ walk = "more" => cursor \in Row
    /\ first \subseteq trail \cup retired
    /\ ~strayed => ShownSoFar

LEMMA AuditInitHolds == AuditInit => AuditInv
<1> SUFFICES ASSUME AuditInit PROVE AuditInv
  OBVIOUS
<1>1. AuditTypeOK
  BY DEF AuditInit, AuditTypeOK
<1>2. ShownSoFar
  BY DEF AuditInit, ShownSoFar
<1>3. QED
  BY <1>1, <1>2, FS_EmptySet DEF AuditInit, AuditInv

LEMMA WriteAuditKeeps == AuditInv /\ WriteAudit => AuditInv'
<1> SUFFICES ASSUME AuditInv, WriteAudit PROVE AuditInv'
  OBVIOUS
<1>1. PICK r \in Row :
         /\ \A x \in trail \cup retired : x.id # r.id
         /\ trail' = trail \cup {r}
         /\ UNCHANGED <<paged, retired, walk, cursor, first, visits, strayed>>
  BY DEF WriteAudit
<1>2. AuditTypeOK' /\ first' \subseteq trail' \cup retired'
  BY <1>1 DEF AuditInv, AuditTypeOK
<1>3. IsFiniteSet(trail')
  BY <1>1, FS_AddElement DEF AuditInv
<1>4. \A x, y \in trail' \cup retired' : x.id = y.id => x = y
  BY <1>1 DEF AuditInv
<1>5. ShownSoFar <=> ShownSoFar'
  BY <1>1 DEF ShownSoFar, Precedes
<1>6. QED
  BY <1>1, <1>2, <1>3, <1>4, <1>5 DEF AuditInv

LEMMA RetireKeeps == AuditInv /\ Retire => AuditInv'
<1> SUFFICES ASSUME AuditInv, Retire PROVE AuditInv'
  OBVIOUS
<1>1. PICK r \in trail :
         /\ trail' = trail \ {r} /\ retired' = retired \cup {r}
         /\ UNCHANGED <<paged, walk, cursor, first, visits, strayed>>
  BY DEF Retire
<1>2. AuditTypeOK' /\ first' \subseteq trail' \cup retired'
  BY <1>1 DEF AuditInv, AuditTypeOK
<1>3. IsFiniteSet(trail')
  BY <1>1, FS_RemoveElement DEF AuditInv
<1>4. \A x, y \in trail' \cup retired' : x.id = y.id => x = y
  BY <1>1 DEF AuditInv
<1>5. ShownSoFar => ShownSoFar'
  BY <1>1 DEF ShownSoFar, Precedes
<1>6. QED
  BY <1>1, <1>2, <1>3, <1>4, <1>5 DEF AuditInv

LEMMA NextPageKeeps == AuditInv /\ NextPage => AuditInv'
<1> SUFFICES ASSUME AuditInv, NextPage PROVE AuditInv'
  OBVIOUS
<1>1. /\ walk \in {"new", "more"}
      /\ first' = IF walk = "new" THEN trail ELSE first
      /\ paged' = paged /\ trail' = trail /\ retired' = retired
      /\ trail \subseteq Row /\ retired \subseteq Row /\ first \subseteq Row /\ IsFiniteSet(trail)
      /\ paged \in BOOLEAN /\ strayed \in BOOLEAN
      /\ visits \in [Row -> Nat]
      /\ walk = "new" => cursor = NoRow
      /\ walk = "more" => cursor \in Row
      /\ first \subseteq trail \cup retired
  BY DEF AuditInv, AuditTypeOK, NextPage
<1>2. NoRow \notin Row
  BY AuditAssumption DEF Row, NoRow
<1>3. \E rest \in SUBSET trail :
         /\ Show(rest) /\ strayed' \in BOOLEAN
         /\ ~strayed' => ~strayed /\ rest = PastCursor(trail)
  <2>1. \A rows : PastCursor(rows) \subseteq rows /\ PastPosition(rows) \subseteq rows
    BY DEF PastCursor, PastPosition
  <2>2. CASE ListPage
    BY <1>1, <2>1, <2>2 DEF ListPage
  <2>3. CASE ListAndPaginate
    <3> DEFINE rows == FirstOf(trail, ListLimit)
    <3>1. /\ Show(PastPosition(rows))
          /\ strayed' = (strayed \/ rows # trail \/ (walk = "more" /\ cursor \notin rows))
      BY <2>3 DEF ListAndPaginate
    <3>2. rows \subseteq trail
      BY DEF FirstOf
    <3> HIDE DEF rows
    <3>3. PastPosition(rows) \subseteq trail
      BY <2>1, <3>2
    <3>4. ASSUME ~strayed' PROVE ~strayed /\ PastPosition(rows) = PastCursor(trail)
      <4>1. ~strayed /\ rows = trail /\ (walk = "more" => cursor \in rows)
        BY <3>1, <3>4
      <4>2. CASE walk = "more"
        BY <4>1, <4>2 DEF PastPosition
      <4>3. CASE walk = "new"
        BY <1>1, <1>2, <4>1, <4>3 DEF PastPosition, PastCursor
      <4>4. QED
        BY <1>1, <4>1, <4>2, <4>3
    <3>5. strayed' \in BOOLEAN
      BY <1>1, <3>1
    <3>6. QED
      BY <3>1, <3>3, <3>4, <3>5
  <2>4. QED
    BY <2>2, <2>3 DEF NextPage
<1>4. PICK rest \in SUBSET trail :
         /\ Show(rest) /\ strayed' \in BOOLEAN
         /\ ~strayed' => ~strayed /\ rest = PastCursor(trail)
  BY <1>3
<1> DEFINE items == FirstOf(rest, PageLimit)
           more == Cardinality(rest) > PageLimit
           l == LastOf(items)
<1>5. /\ items \subseteq rest
      /\ ~more => items = rest
      /\ more => l \in rest /\ \A x \in rest : x \in items <=> ~Precedes(l, x)
  <2>1. rest \subseteq Row /\ IsFiniteSet(rest)
    BY <1>1, FS_Subset
  <2>2. Cardinality(rest) \in Nat /\ PageLimit \in Nat
    BY <2>1, FS_CardinalityType, AuditAssumption
  <2>3. QED
    BY <2>1, <2>2, PageIsBeginning
<1>6. /\ visits' = [r \in Row |-> IF r \in items THEN visits[r] + 1 ELSE visits[r]]
      /\ walk' = IF more THEN "more" ELSE "done"
      /\ cursor' = IF more THEN l ELSE NoRow
  BY <1>4 DEF Show
<1> HIDE DEF items, more, l
<1>7. AuditTypeOK' /\ first' \subseteq trail' \cup retired'
  <2>1. visits' \in [Row -> Nat]
    BY <1>1, <1>6
  <2>2. cursor' \in Row \cup {NoRow} /\ walk' \in {"new", "more", "done"}
    BY <1>1, <1>5, <1>6
  <2>3. QED
    BY <1>1, <1>4, <2>1, <2>2 DEF AuditTypeOK
<1>8. /\ walk' # "new" /\ (walk' = "more" => cursor' \in Row /\ more)
      /\ walk' = "done" => ~more
  BY <1>1, <1>5, <1>6
<1>9. ASSUME ~strayed' PROVE ShownSoFar'
  <2>1. ShownSoFar /\ rest = PastCursor(trail)
    BY <1>4, <1>9 DEF AuditInv
  <2>2. \A r \in trail : r \in rest <=> walk = "new" \/ Precedes(cursor, r)
    BY <1>1, <1>2, <2>1 DEF PastCursor
  <2> SUFFICES ASSUME NEW r \in Row
               PROVE  /\ visits'[r] \in {0, 1}
                      /\ walk' = "more" /\ visits'[r] = 1 => ~Precedes(cursor', r)
                      /\ r \in first' \ retired'
                         /\ (walk' = "done" \/ (walk' = "more" /\ ~Precedes(cursor', r))) =>
                            visits'[r] = 1
    BY <1>8 DEF ShownSoFar, Precedes
  <2>3. /\ visits[r] \in {0, 1}
        /\ walk = "new" => visits[r] = 0
        /\ walk = "more" /\ visits[r] = 1 => ~Precedes(cursor, r)
        /\ r \in first \ retired /\ walk = "more" /\ ~Precedes(cursor, r) => visits[r] = 1
    BY <2>1 DEF ShownSoFar
  <2>4. visits'[r] = IF r \in items THEN visits[r] + 1 ELSE visits[r]
    BY <1>6
  <2>5. r \in items => r \in rest /\ visits[r] = 0
    BY <1>1, <1>5, <2>2, <2>3
  <2>6. visits'[r] \in {0, 1} /\ (visits'[r] = 1 <=> r \in items \/ visits[r] = 1)
    BY <2>3, <2>4, <2>5
  <2>7. ASSUME walk' = "more", visits'[r] = 1 PROVE ~Precedes(cursor', r)
    <3>1. cursor' = l /\ l \in rest /\ l \in Row
      BY <1>1, <1>5, <1>6, <1>8, <2>7
    <3>2. CASE r \in items
      BY <1>5, <1>8, <2>5, <2>7, <3>1, <3>2
    <3>3. CASE r \notin items
      <4>1. visits[r] = 1 /\ walk = "more"
        BY <1>1, <2>3, <2>6, <2>7, <3>3
      <4>2. ~Precedes(cursor, r) /\ Precedes(cursor, l) /\ cursor \in Row
        BY <1>1, <2>2, <2>3, <3>1, <4>1
      <4>3. QED
        BY <3>1, <4>2, TrailOrder
    <3>4. QED
      BY <3>2, <3>3
  <2>8. ASSUME r \in first' \ retired',
               walk' = "done" \/ (walk' = "more" /\ ~Precedes(cursor', r))
        PROVE  visits'[r] = 1
    <3>1. r \in trail /\ r \notin retired
      BY <1>1, <2>8
    <3>2. CASE r \in rest
      <4>1. r \in items
        BY <1>5, <1>6, <1>8, <2>8, <3>2
      <4>2. QED
        BY <2>6, <4>1
    <3>3. CASE r \notin rest
      <4>1. walk = "more" /\ ~Precedes(cursor, r) /\ r \in first
        BY <1>1, <2>2, <2>8, <3>1, <3>3
      <4>2. QED
        BY <2>3, <2>6, <3>1, <4>1
    <3>4. QED
      BY <3>2, <3>3
  <2>9. QED
    BY <2>6, <2>7, <2>8
<1>10. QED
  BY <1>1, <1>7, <1>8, <1>9 DEF AuditInv

\* WalkIsComplete: a walk shows every record that is there from its first page to
\* its last exactly once and none twice, whatever is written or retired meanwhile
\* and however many rows share a moment; without listPage() as long as all records
\* fit into list() and the cursor's row is not retired.
THEOREM WalksMissNothing == AuditSpec => []WalkIsComplete
<1>1. AuditInv /\ [AuditNext]_auditVars => AuditInv'
  <2> SUFFICES ASSUME AuditInv, [AuditNext]_auditVars PROVE AuditInv'
    OBVIOUS
  <2>1. CASE AuditNext
    BY <2>1, WriteAuditKeeps, RetireKeeps, NextPageKeeps DEF AuditNext
  <2>2. CASE UNCHANGED auditVars
    BY <2>2 DEF AuditInv, AuditTypeOK, ShownSoFar, Precedes, auditVars
  <2>3. QED
    BY <2>1, <2>2
<1>2. AuditInv => WalkIsComplete
  BY DEF AuditInv, AuditTypeOK, ShownSoFar, WalkIsComplete
<1>3. QED
  BY <1>1, <1>2, AuditInitHolds, PTL DEF AuditSpec

------------------------------------------------------------------------------
(* RedisCache, for every set of keys and tags and any number of            *)
(* deleteByTags() calls at once.                                           *)

\* The candidates of a call were found under tags it is to clear, and are gone
\* through before the sets are cleaned.
SweepOK(d) ==
    LET s == sweep[d] IN
    /\ s.at = "idle" => s = NoSweep
    /\ s.todo \subseteq s.asked /\ s.tag \subseteq s.asked
    /\ \A k \in CacheKey : found[d][k] \subseteq s.asked
    /\ s.at \in {"idle", "clean", "drop"} => \A k \in CacheKey : found[d][k] = {}

\* Call d will still come by the entry k because of its tag t, or is not to clear
\* that tag.
Pursues(d, k, t) ==
    LET s == sweep[d] IN
    t \in s.asked =>
        /\ s.at = "members" => t \in s.todo \/ t \in found[d][k]
        /\ s.at \in {"keys", "delete", "repair"} => t \in found[d][k]
        /\ s.at = "repair" => k \notin s.key
        /\ s.at \notin {"clean", "drop"}

\* An entry that was not stored beside a call is in its tags' sets, and no call
\* passes it over.
RedisInv ==
    /\ RedisTypeOK
    /\ \A d \in Sweep : SweepOK(d)
    /\ \A k \in CacheKey : \A t \in tagsOf[k] :
          <<k, t>> \in touched \/ (k \in index[t] /\ \A d \in Sweep : Pursues(d, k, t))

LEMMA RedisInitHolds == RedisInit => RedisInv
<1> SUFFICES ASSUME RedisInit PROVE RedisInv
  OBVIOUS
<1>1. RedisTypeOK
  BY DEF RedisInit, RedisTypeOK, SweepState, NoSweep
<1>2. \A d \in Sweep : SweepOK(d)
  BY DEF RedisInit, SweepOK, NoSweep
<1>3. QED
  BY <1>1, <1>2 DEF RedisInit, RedisInv

\* Reindexed() concerns one key only.
LEMMA ReindexedKeys ==
    ASSUME RedisTypeOK, NEW k \in CacheKey, NEW lost0 \in SUBSET Tag, NEW gained \in SUBSET Tag
    PROVE  /\ Reindexed(k, lost0, gained) \in [Tag -> SUBSET CacheKey]
           /\ \A t \in Tag : \A j \in CacheKey \ {k} :
                 j \in Reindexed(k, lost0, gained)[t] <=> j \in index[t]
           /\ \A t \in gained : k \in Reindexed(k, lost0, gained)[t]
  BY DEF Reindexed, RedisTypeOK

\* A step that leaves the calls alone keeps the invariant if what it leaves
\* untouched was so before, and stays in the sets.
LEMMA CallsRest ==
    ASSUME RedisInv, RedisTypeOK', sweep' = sweep, found' = found,
           \A k \in CacheKey : \A t \in tagsOf'[k] :
              <<k, t>> \notin touched' =>
                  /\ k \in index'[t]
                  /\ \/ t \in tagsOf[k] /\ <<k, t>> \notin touched
                     \/ \A d \in Sweep : sweep[d] = NoSweep
    PROVE  RedisInv'
<1>1. \A d \in Sweep : SweepOK(d)'
  BY DEF RedisInv, SweepOK
<1>2. \A d \in Sweep : \A k \in CacheKey : \A t \in Tag : Pursues(d, k, t)' <=> Pursues(d, k, t)
  BY DEF Pursues
<1>3. \A d \in Sweep : sweep[d] = NoSweep => \A k \in CacheKey : \A t \in Tag : Pursues(d, k, t)
  BY DEF Pursues, NoSweep
<1>4. ASSUME NEW k \in CacheKey, NEW t \in tagsOf'[k], <<k, t>> \notin touched'
      PROVE  k \in index'[t] /\ \A d \in Sweep : Pursues(d, k, t)'
  <2>1. t \in Tag
    BY <1>4 DEF RedisTypeOK
  <2>2. CASE t \in tagsOf[k] /\ <<k, t>> \notin touched
    BY <1>2, <1>4, <2>1, <2>2 DEF RedisInv
  <2>3. CASE \A d \in Sweep : sweep[d] = NoSweep
    BY <1>2, <1>3, <1>4, <2>1, <2>3
  <2>4. QED
    BY <1>4, <2>2, <2>3
<1>5. QED
  BY <1>1, <1>4 DEF RedisInv

LEMMA CacheSetKeeps == RedisInv /\ CacheSet => RedisInv'
<1> SUFFICES ASSUME RedisInv, CacheSet PROVE RedisInv'
  OBVIOUS
<1>1. PICK j \in CacheKey, tags \in SUBSET Tag \ {{}} :
         /\ tagsOf' = [tagsOf EXCEPT ![j] = tags]
         /\ index' = Reindexed(j, tagsOf[j], tags)
         /\ touched' = (touched \ ({j} \X Tag))
                       \cup (IF \A d \in Sweep : sweep[d] = NoSweep THEN {} ELSE {j} \X tags)
         /\ UNCHANGED <<sweep, found>>
  BY DEF CacheSet
<1>2. RedisTypeOK /\ tagsOf[j] \in SUBSET Tag /\ tags \in SUBSET Tag
  BY DEF RedisInv, RedisTypeOK
<1>3. /\ index' \in [Tag -> SUBSET CacheKey]
      /\ \A t \in Tag : \A k \in CacheKey \ {j} : k \in index'[t] <=> k \in index[t]
      /\ \A t \in tags : j \in index'[t]
  BY <1>1, <1>2, ReindexedKeys
<1>4. /\ tagsOf' \in [CacheKey -> SUBSET Tag] /\ touched' \subseteq CacheKey \X Tag
      /\ tagsOf'[j] = tags /\ \A k \in CacheKey \ {j} : tagsOf'[k] = tagsOf[k]
  BY <1>1, <1>2 DEF RedisTypeOK
<1>5. RedisTypeOK'
  BY <1>1, <1>2, <1>3, <1>4 DEF RedisTypeOK
<1>6. ASSUME NEW k \in CacheKey, NEW t \in tagsOf'[k], <<k, t>> \notin touched'
      PROVE  /\ k \in index'[t]
             /\ \/ t \in tagsOf[k] /\ <<k, t>> \notin touched
                \/ \A d \in Sweep : sweep[d] = NoSweep
  <2>1. t \in Tag
    BY <1>4, <1>6
  <2>2. CASE k = j
    BY <1>1, <1>3, <1>4, <1>6, <2>2
  <2>3. CASE k # j
    <3>1. t \in tagsOf[k] /\ <<k, t>> \notin touched
      BY <1>1, <1>4, <1>6, <2>1, <2>3
    <3>2. k \in index[t]
      BY <3>1 DEF RedisInv
    <3>3. QED
      BY <1>3, <2>1, <2>3, <3>1, <3>2
  <2>4. QED
    BY <2>2, <2>3
<1>7. QED
  BY <1>1, <1>5, <1>6, CallsRest

\* Deleting an entry leaves the others where they are.
LEMMA DeletedKeeps ==
    ASSUME RedisInv, NEW j \in CacheKey, Deleted(j)
    PROVE  /\ tagsOf' \in [CacheKey -> SUBSET Tag] /\ index' \in [Tag -> SUBSET CacheKey]
           /\ touched' \subseteq CacheKey \X Tag
           /\ tagsOf'[j] = {}
           /\ \A k \in CacheKey : \A t \in tagsOf'[k] : <<k, t>> \notin touched' =>
                 k # j /\ t \in tagsOf[k] /\ <<k, t>> \notin touched /\ k \in index'[t]
<1>1. RedisTypeOK /\ tagsOf[j] \in SUBSET Tag
  BY DEF RedisInv, RedisTypeOK
<1>2. /\ index' \in [Tag -> SUBSET CacheKey]
      /\ \A t \in Tag : \A k \in CacheKey \ {j} : k \in index'[t] <=> k \in index[t]
  BY <1>1, ReindexedKeys DEF Deleted
<1>3. /\ tagsOf' \in [CacheKey -> SUBSET Tag] /\ touched' \subseteq CacheKey \X Tag
      /\ tagsOf'[j] = {} /\ \A k \in CacheKey \ {j} : tagsOf'[k] = tagsOf[k]
  BY <1>1 DEF Deleted, RedisTypeOK
<1>4. ASSUME NEW k \in CacheKey, NEW t \in tagsOf'[k], <<k, t>> \notin touched'
      PROVE  k # j /\ t \in tagsOf[k] /\ <<k, t>> \notin touched /\ k \in index'[t]
  <2>1. k # j /\ t \in Tag /\ t \in tagsOf[k]
    BY <1>3, <1>4
  <2>2. <<k, t>> \notin touched
    BY <1>4, <2>1 DEF Deleted
  <2>3. k \in index[t]
    BY <2>1, <2>2 DEF RedisInv
  <2>4. QED
    BY <1>2, <2>1, <2>2, <2>3
<1>5. QED
  BY <1>2, <1>3, <1>4

LEMMA CacheDeleteKeeps == RedisInv /\ CacheDelete => RedisInv'
<1> SUFFICES ASSUME RedisInv, CacheDelete PROVE RedisInv'
  OBVIOUS
<1>1. PICK j \in CacheKey : Deleted(j) /\ UNCHANGED <<sweep, found>>
  BY DEF CacheDelete
<1>2. RedisTypeOK'
  BY <1>1, DeletedKeeps DEF RedisInv, RedisTypeOK
<1>3. QED
  BY <1>1, <1>2, DeletedKeeps, CallsRest

LEMMA EntryExpiresKeeps == RedisInv /\ EntryExpires => RedisInv'
<1> SUFFICES ASSUME RedisInv, EntryExpires PROVE RedisInv'
  OBVIOUS
<1>1. PICK j \in CacheKey :
         /\ tagsOf' = [tagsOf EXCEPT ![j] = {}]
         /\ touched' = touched \ ({j} \X Tag)
         /\ UNCHANGED <<index, sweep, found>>
  BY DEF EntryExpires
<1>2. /\ tagsOf' \in [CacheKey -> SUBSET Tag] /\ touched' \subseteq CacheKey \X Tag
      /\ tagsOf'[j] = {} /\ \A k \in CacheKey \ {j} : tagsOf'[k] = tagsOf[k]
  BY <1>1 DEF RedisInv, RedisTypeOK
<1>3. RedisTypeOK'
  BY <1>1, <1>2 DEF RedisInv, RedisTypeOK
<1>4. ASSUME NEW k \in CacheKey, NEW t \in tagsOf'[k], <<k, t>> \notin touched'
      PROVE  k \in index'[t] /\ t \in tagsOf[k] /\ <<k, t>> \notin touched
  <2>1. k # j /\ t \in tagsOf[k]
    BY <1>2, <1>4
  <2>2. <<k, t>> \notin touched
    BY <1>1, <1>4, <2>1
  <2>3. QED
    BY <1>1, <2>1, <2>2 DEF RedisInv
<1>5. QED
  BY <1>1, <1>3, <1>4, CallsRest

LEMMA IndexExpiresKeeps == RedisInv /\ IndexExpires => RedisInv'
<1> SUFFICES ASSUME RedisInv, IndexExpires PROVE RedisInv'
  OBVIOUS
<1>1. PICK u \in Tag :
         /\ \A k \in CacheKey : u \notin tagsOf[k]
         /\ index' = [index EXCEPT ![u] = {}]
         /\ UNCHANGED <<tagsOf, sweep, found, touched>>
  BY DEF IndexExpires
<1>2. /\ index' \in [Tag -> SUBSET CacheKey]
      /\ \A t \in Tag \ {u} : index'[t] = index[t]
  BY <1>1 DEF RedisInv, RedisTypeOK
<1>3. RedisTypeOK'
  BY <1>1, <1>2 DEF RedisInv, RedisTypeOK
<1>4. ASSUME NEW k \in CacheKey, NEW t \in tagsOf'[k], <<k, t>> \notin touched'
      PROVE  k \in index'[t] /\ t \in tagsOf[k] /\ <<k, t>> \notin touched
  <2>1. t \in tagsOf[k] /\ <<k, t>> \notin touched /\ t # u /\ t \in Tag
    BY <1>1, <1>4 DEF RedisInv, RedisTypeOK
  <2>2. k \in index[t]
    BY <2>1 DEF RedisInv
  <2>3. QED
    BY <1>2, <2>1, <2>2
<1>5. QED
  BY <1>1, <1>3, <1>4, CallsRest

\* A step of one call keeps the invariant if it keeps that call in order and lets
\* no untouched entry slip by it.
LEMMA OneCallMoves ==
    ASSUME RedisInv, RedisTypeOK', NEW d \in Sweep,
           \A e \in Sweep \ {d} : sweep'[e] = sweep[e] /\ found'[e] = found[e],
           SweepOK(d)',
           \A k \in CacheKey : \A t \in tagsOf'[k] : <<k, t>> \notin touched' =>
              /\ t \in tagsOf[k] /\ <<k, t>> \notin touched
              /\ k \in index'[t] /\ Pursues(d, k, t)'
    PROVE  RedisInv'
<1>1. ASSUME NEW e \in Sweep PROVE SweepOK(e)'
  <2>1. CASE e # d
    BY <2>1 DEF RedisInv, SweepOK
  <2>2. QED
    BY <2>1
<1>2. ASSUME NEW k \in CacheKey, NEW t \in tagsOf'[k], <<k, t>> \notin touched', NEW e \in Sweep
      PROVE  Pursues(e, k, t)'
  <2>1. CASE e # d
    <3>1. Pursues(e, k, t)
      BY <1>2 DEF RedisInv
    <3>2. QED
      BY <2>1, <3>1 DEF Pursues
  <2>2. QED
    BY <1>2, <2>1
<1>3. QED
  BY <1>1, <1>2 DEF RedisInv

\* What a step of call d starts from.
LEMMA CallFacts ==
    ASSUME RedisInv, NEW d \in Sweep
    PROVE  /\ RedisTypeOK /\ SweepOK(d) /\ sweep[d] \in SweepState
           /\ found[d] \in [CacheKey -> SUBSET Tag]
           /\ \A k \in CacheKey : \A t \in tagsOf[k] : <<k, t>> \notin touched =>
                 t \in Tag /\ k \in index[t] /\ Pursues(d, k, t)
  BY DEF RedisInv, RedisTypeOK

LEMMA SweepBeginsKeeps ==
    ASSUME RedisInv, NEW d \in Sweep, SweepBegins(d)
    PROVE  RedisInv'
<1>1. PICK tags \in SUBSET Tag :
         sweep' = [sweep EXCEPT ![d] = [at |-> "members", asked |-> tags, todo |-> tags,
                                        key |-> {}, tag |-> {}]]
  BY DEF SweepBegins
<1>2. /\ sweep[d].at = "idle" /\ tagsOf' = tagsOf /\ index' = index
      /\ found' = found /\ touched' = touched
  BY DEF SweepBegins
<1>3. /\ sweep'[d].at = "members" /\ sweep'[d].asked = tags /\ sweep'[d].todo = tags
      /\ sweep'[d].key = {} /\ sweep'[d].tag = {} /\ sweep'[d] \in SweepState
      /\ \A e \in Sweep \ {d} : sweep'[e] = sweep[e]
      /\ sweep' \in [Sweep -> SweepState]
  BY <1>1 DEF RedisInv, RedisTypeOK, SweepState
<1>4. RedisTypeOK'
  BY <1>2, <1>3 DEF RedisInv, RedisTypeOK
<1>5. SweepOK(d)'
  BY <1>2, <1>3, CallFacts DEF SweepOK
<1>6. \A k \in CacheKey : \A t \in Tag : Pursues(d, k, t)'
  BY <1>3 DEF Pursues
<1>7. QED
  BY <1>2, <1>3, <1>4, <1>5, <1>6, CallFacts, OneCallMoves

LEMMA ReadMembersKeeps ==
    ASSUME RedisInv, NEW d \in Sweep, ReadMembers(d)
    PROVE  RedisInv'
<1>1. PICK u \in sweep[d].todo :
         /\ found' = [found EXCEPT ![d] = [k \in CacheKey |->
                         IF k \in index[u] THEN found[d][k] \cup {u} ELSE found[d][k]]]
         /\ sweep' = [sweep EXCEPT ![d].todo = @ \ {u},
                                   ![d].at = IF sweep[d].todo = {u} THEN "keys" ELSE @]
  BY DEF ReadMembers, RedisInv, RedisTypeOK
<1>2. /\ sweep[d].at = "members" /\ tagsOf' = tagsOf /\ index' = index /\ touched' = touched
  BY DEF ReadMembers
<1>3. /\ sweep'[d].at = IF sweep[d].todo = {u} THEN "keys" ELSE "members"
      /\ sweep'[d].asked = sweep[d].asked /\ sweep'[d].todo = sweep[d].todo \ {u}
      /\ sweep'[d].key = sweep[d].key /\ sweep'[d].tag = sweep[d].tag
      /\ sweep'[d] \in SweepState
      /\ \A e \in Sweep \ {d} : sweep'[e] = sweep[e]
      /\ sweep' \in [Sweep -> SweepState]
  <2>1. /\ sweep'[d] = [sweep[d] EXCEPT !.todo = @ \ {u},
                                     !.at = IF sweep[d].todo = {u} THEN "keys" ELSE @]
        /\ \A e \in Sweep \ {d} : sweep'[e] = sweep[e]
        /\ sweep' = [e \in Sweep |-> sweep'[e]]
    BY <1>1 DEF RedisInv, RedisTypeOK
  <2>2. sweep[d] \in SweepState
    BY CallFacts
  <2>3. sweep'[d] \in SweepState
    BY <2>1, <2>2, <1>2 DEF SweepState
  <2>4. sweep' \in [Sweep -> SweepState]
    BY <2>1, <2>3 DEF RedisInv, RedisTypeOK
  <2>5. QED
    BY <2>1, <2>2, <2>3, <2>4, <1>2 DEF SweepState
<1>4. u \in Tag
  BY <1>1, CallFacts DEF SweepState
<1>5. /\ \A k \in CacheKey : found'[d][k] =
            IF k \in index[u] THEN found[d][k] \cup {u} ELSE found[d][k]
      /\ \A e \in Sweep \ {d} : found'[e] = found[e]
      /\ found' \in [Sweep -> [CacheKey -> SUBSET Tag]]
  BY <1>1, <1>4 DEF RedisInv, RedisTypeOK
<1>6. RedisTypeOK'
  BY <1>2, <1>3, <1>5 DEF RedisInv, RedisTypeOK
<1>7. SweepOK(d)'
  BY <1>1, <1>2, <1>3, <1>5, CallFacts DEF SweepOK
<1>8. ASSUME NEW k \in CacheKey, NEW t \in tagsOf'[k], <<k, t>> \notin touched'
      PROVE  /\ t \in tagsOf[k] /\ <<k, t>> \notin touched
             /\ k \in index'[t] /\ Pursues(d, k, t)'
  <2>1. /\ t \in tagsOf[k] /\ <<k, t>> \notin touched /\ k \in index[t]
        /\ Pursues(d, k, t)
    BY <1>2, <1>8, CallFacts
  <2>2. t \in sweep[d].asked => t \in sweep[d].todo \/ t \in found[d][k]
    BY <1>2, <2>1 DEF Pursues
  <2>3. t \in sweep[d].asked => t \in sweep'[d].todo \/ t \in found'[d][k]
    BY <1>3, <1>5, <2>1, <2>2
  <2>4. Pursues(d, k, t)'
    BY <1>3, <2>3 DEF Pursues
  <2>5. QED
    BY <1>2, <2>1, <2>4
<1>9. QED
  BY <1>3, <1>5, <1>6, <1>7, <1>8, OneCallMoves

LEMMA GetCandidateKeeps ==
    ASSUME RedisInv, NEW d \in Sweep, GetCandidate(d)
    PROVE  RedisInv'
<1>1. PICK j \in CacheKey :
         sweep' = [sweep EXCEPT ![d].key = {j},
                                ![d].at = IF Carries(d, j) THEN "delete" ELSE "repair"]
  BY DEF GetCandidate
<1>2. /\ sweep[d].at = "keys" /\ tagsOf' = tagsOf /\ index' = index
      /\ found' = found /\ touched' = touched
  BY DEF GetCandidate
<1>3. /\ sweep'[d].at = IF Carries(d, j) THEN "delete" ELSE "repair"
      /\ sweep'[d].asked = sweep[d].asked /\ sweep'[d].todo = sweep[d].todo
      /\ sweep'[d].key = {j} /\ sweep'[d].tag = sweep[d].tag
      /\ \A e \in Sweep \ {d} : sweep'[e] = sweep[e]
      /\ sweep' \in [Sweep -> SweepState]
  <2> DEFINE next == IF Carries(d, j) THEN "delete" ELSE "repair"
  <2>0. next \in {"delete", "repair"}
    OBVIOUS
  <2> HIDE DEF next
  <2>1. /\ sweep'[d] = [sweep[d] EXCEPT !.key = {j}, !.at = next]
        /\ \A e \in Sweep \ {d} : sweep'[e] = sweep[e]
        /\ sweep' = [e \in Sweep |-> sweep'[e]]
    BY <1>1 DEF RedisInv, RedisTypeOK, next
  <2>2. sweep[d] \in SweepState
    BY CallFacts
  <2>3. sweep'[d] \in SweepState
    <3>1. sweep'[d] = [at |-> next, asked |-> sweep[d].asked, todo |-> sweep[d].todo,
                       key |-> {j}, tag |-> sweep[d].tag]
      BY <2>1, <2>2 DEF SweepState
    <3>2. {j} \in SUBSET CacheKey
      OBVIOUS
    <3>3. /\ sweep[d].asked \in SUBSET Tag /\ sweep[d].todo \in SUBSET Tag
          /\ sweep[d].tag \in SUBSET Tag
      BY <2>2 DEF SweepState
    <3>4. QED
      BY <2>0, <3>1, <3>2, <3>3 DEF SweepState
  <2>4. sweep' \in [Sweep -> SweepState]
    BY <2>1, <2>3 DEF RedisInv, RedisTypeOK
  <2>5. QED
    BY <2>1, <2>2, <2>3, <2>4 DEF SweepState, next
<1>4. RedisTypeOK'
  BY <1>2, <1>3 DEF RedisInv, RedisTypeOK
<1>5. SweepOK(d)'
  BY <1>2, <1>3, CallFacts DEF SweepOK
<1>6. ASSUME NEW k \in CacheKey, NEW t \in tagsOf'[k], <<k, t>> \notin touched'
      PROVE  /\ t \in tagsOf[k] /\ <<k, t>> \notin touched
             /\ k \in index'[t] /\ Pursues(d, k, t)'
  <2>1. /\ t \in tagsOf[k] /\ <<k, t>> \notin touched /\ k \in index[t]
        /\ Pursues(d, k, t)
    BY <1>2, <1>6, CallFacts
  <2>2. t \in sweep[d].asked => t \in found[d][k]
    BY <1>2, <2>1 DEF Pursues
  <2>3. t \in sweep[d].asked /\ sweep'[d].at = "repair" => k # j
    BY <1>3, <2>1 DEF Carries
  <2>4. Pursues(d, k, t)'
    BY <1>2, <1>3, <2>2, <2>3 DEF Pursues
  <2>5. QED
    BY <1>2, <2>1, <2>4
<1>7. QED
  BY <1>2, <1>3, <1>4, <1>5, <1>6, OneCallMoves

LEMMA DeleteCandidateKeeps ==
    ASSUME RedisInv, NEW d \in Sweep, DeleteCandidate(d)
    PROVE  RedisInv'
<1>1. PICK j \in sweep[d].key :
         /\ Deleted(j)
         /\ found' = [found EXCEPT ![d][j] = {}]
         /\ sweep' = [sweep EXCEPT ![d].key = {}, ![d].at = "keys"]
  BY DEF DeleteCandidate
<1>2. sweep[d].at = "delete" /\ j \in CacheKey
  BY CallFacts DEF DeleteCandidate, SweepState
<1>3. /\ sweep'[d].at = "keys" /\ sweep'[d].key = {}
      /\ sweep'[d].asked = sweep[d].asked /\ sweep'[d].todo = sweep[d].todo
      /\ sweep'[d].tag = sweep[d].tag
      /\ \A e \in Sweep \ {d} : sweep'[e] = sweep[e]
      /\ sweep' \in [Sweep -> SweepState]
  <2>1. /\ sweep'[d] = [sweep[d] EXCEPT !.key = {}, !.at = "keys"]
        /\ \A e \in Sweep \ {d} : sweep'[e] = sweep[e]
        /\ sweep' = [e \in Sweep |-> sweep'[e]]
    BY <1>1 DEF RedisInv, RedisTypeOK
  <2>2. sweep[d] \in SweepState
    BY CallFacts
  <2>3. sweep'[d] \in SweepState
    BY <2>1, <2>2 DEF SweepState
  <2>4. sweep' \in [Sweep -> SweepState]
    BY <2>1, <2>3 DEF RedisInv, RedisTypeOK
  <2>5. QED
    BY <2>1, <2>2, <2>3, <2>4 DEF SweepState
<1>4. /\ found'[d][j] = {} /\ \A k \in CacheKey \ {j} : found'[d][k] = found[d][k]
      /\ \A e \in Sweep \ {d} : found'[e] = found[e]
      /\ found' \in [Sweep -> [CacheKey -> SUBSET Tag]]
  BY <1>1, <1>2 DEF RedisInv, RedisTypeOK
<1>5. RedisTypeOK'
  BY <1>1, <1>2, <1>3, <1>4, DeletedKeeps DEF RedisTypeOK
<1>6. SweepOK(d)'
  BY <1>2, <1>3, <1>4, CallFacts DEF SweepOK
<1>7. ASSUME NEW k \in CacheKey, NEW t \in tagsOf'[k], <<k, t>> \notin touched'
      PROVE  /\ t \in tagsOf[k] /\ <<k, t>> \notin touched
             /\ k \in index'[t] /\ Pursues(d, k, t)'
  <2>1. k # j /\ t \in tagsOf[k] /\ <<k, t>> \notin touched /\ k \in index'[t]
    BY <1>1, <1>2, <1>7, DeletedKeeps
  <2>2. Pursues(d, k, t)
    BY <2>1, CallFacts
  <2>3. t \in sweep[d].asked => t \in found'[d][k]
    BY <1>2, <1>4, <2>1, <2>2 DEF Pursues
  <2>4. Pursues(d, k, t)'
    BY <1>3, <2>3 DEF Pursues
  <2>5. QED
    BY <2>1, <2>4
<1>8. QED
  BY <1>3, <1>4, <1>5, <1>6, <1>7, OneCallMoves

LEMMA RepairIndexKeeps ==
    ASSUME RedisInv, NEW d \in Sweep, RepairIndex(d)
    PROVE  RedisInv'
<1>1. PICK j \in sweep[d].key : \E u \in found[d][j] :
         /\ index' = [index EXCEPT ![u] = @ \ {j}]
         /\ found' = [found EXCEPT ![d][j] = @ \ {u}]
         /\ sweep' = IF found[d][j] = {u} THEN [sweep EXCEPT ![d].key = {}, ![d].at = "keys"]
                     ELSE sweep
  BY DEF RepairIndex
<1>2. PICK u \in found[d][j] :
         /\ index' = [index EXCEPT ![u] = @ \ {j}]
         /\ found' = [found EXCEPT ![d][j] = @ \ {u}]
         /\ sweep' = IF found[d][j] = {u} THEN [sweep EXCEPT ![d].key = {}, ![d].at = "keys"]
                     ELSE sweep
  BY <1>1
<1>3. /\ sweep[d].at = "repair" /\ j \in CacheKey /\ tagsOf' = tagsOf /\ touched' = touched
  BY CallFacts DEF RepairIndex, SweepState
<1>4. u \in Tag /\ u \in sweep[d].asked
  BY <1>3, CallFacts DEF SweepOK
<1>5. /\ sweep'[d].at \in {"repair", "keys"} /\ sweep'[d].asked = sweep[d].asked
      /\ sweep'[d].todo = sweep[d].todo /\ sweep'[d].tag = sweep[d].tag
      /\ sweep'[d].key \subseteq sweep[d].key
      /\ \A e \in Sweep \ {d} : sweep'[e] = sweep[e]
      /\ sweep' \in [Sweep -> SweepState]
  <2>1. CASE found[d][j] = {u}
    BY <1>2, <1>3, <2>1 DEF RedisInv, RedisTypeOK, SweepState
  <2>2. CASE found[d][j] # {u}
    BY <1>2, <1>3, <2>2 DEF RedisInv, RedisTypeOK
  <2>3. QED
    BY <2>1, <2>2
<1>6. /\ found'[d][j] = found[d][j] \ {u}
      /\ \A k \in CacheKey \ {j} : found'[d][k] = found[d][k]
      /\ \A e \in Sweep \ {d} : found'[e] = found[e]
      /\ found' \in [Sweep -> [CacheKey -> SUBSET Tag]]
  BY <1>2, <1>3 DEF RedisInv, RedisTypeOK
<1>7. /\ index'[u] = index[u] \ {j} /\ \A t \in Tag \ {u} : index'[t] = index[t]
      /\ index' \in [Tag -> SUBSET CacheKey]
  BY <1>2, <1>4 DEF RedisInv, RedisTypeOK
<1>8. RedisTypeOK'
  BY <1>3, <1>5, <1>6, <1>7 DEF RedisInv, RedisTypeOK
<1>9. SweepOK(d)'
  <2>1. \A k \in CacheKey : found'[d][k] \subseteq found[d][k]
    BY <1>3, <1>6
  <2>2. SweepOK(d)
    BY CallFacts
  <2>3. QED
    BY <1>3, <1>5, <2>1, <2>2 DEF SweepOK
<1>10. ASSUME NEW k \in CacheKey, NEW t \in tagsOf'[k], <<k, t>> \notin touched'
       PROVE  /\ t \in tagsOf[k] /\ <<k, t>> \notin touched
              /\ k \in index'[t] /\ Pursues(d, k, t)'
  <2>1. /\ t \in tagsOf[k] /\ <<k, t>> \notin touched /\ t \in Tag /\ k \in index[t]
        /\ Pursues(d, k, t)
    BY <1>3, <1>10, CallFacts
  <2>2. t \in sweep[d].asked => t \in found[d][k] /\ k # j
    BY <1>3, <2>1 DEF Pursues
  <2>3. k \in index'[t]
    BY <1>4, <1>7, <2>1, <2>2
  <2>4. t \in sweep[d].asked => t \in found'[d][k] /\ k \notin sweep[d].key
    BY <1>3, <1>6, <2>1, <2>2 DEF Pursues
  <2>5. Pursues(d, k, t)'
    BY <1>5, <2>4 DEF Pursues
  <2>6. QED
    BY <2>1, <2>3, <2>5
<1>11. QED
  BY <1>5, <1>6, <1>8, <1>9, <1>10, OneCallMoves

LEMMA KeysDoneKeeps ==
    ASSUME RedisInv, NEW d \in Sweep, KeysDone(d)
    PROVE  RedisInv'
<1>1. /\ sweep[d].at = "keys" /\ \A k \in CacheKey : found[d][k] = {}
      /\ tagsOf' = tagsOf /\ index' = index /\ found' = found /\ touched' = touched
  BY DEF KeysDone
<1>2. /\ sweep'[d].at = "clean" /\ sweep'[d].asked = sweep[d].asked
      /\ sweep'[d].todo = sweep[d].asked /\ sweep'[d].tag = sweep[d].tag
      /\ \A e \in Sweep \ {d} : sweep'[e] = sweep[e]
      /\ sweep' \in [Sweep -> SweepState]
  <2>1. /\ sweep'[d] = [sweep[d] EXCEPT !.at = "clean", !.todo = sweep[d].asked]
        /\ \A e \in Sweep \ {d} : sweep'[e] = sweep[e]
        /\ sweep' = [e \in Sweep |-> sweep'[e]]
    BY DEF KeysDone, RedisInv, RedisTypeOK
  <2>2. sweep[d] \in SweepState
    BY CallFacts
  <2>3. sweep'[d] \in SweepState
    BY <2>1, <2>2 DEF SweepState
  <2>4. sweep' \in [Sweep -> SweepState]
    BY <2>1, <2>3 DEF RedisInv, RedisTypeOK
  <2>5. QED
    BY <2>1, <2>2, <2>3, <2>4 DEF SweepState
<1>3. RedisTypeOK'
  BY <1>1, <1>2 DEF RedisInv, RedisTypeOK
<1>4. SweepOK(d)'
  BY <1>1, <1>2, CallFacts DEF SweepOK
<1>5. ASSUME NEW k \in CacheKey, NEW t \in tagsOf'[k], <<k, t>> \notin touched'
      PROVE  /\ t \in tagsOf[k] /\ <<k, t>> \notin touched
             /\ k \in index'[t] /\ Pursues(d, k, t)'
  <2>1. /\ t \in tagsOf[k] /\ <<k, t>> \notin touched /\ k \in index[t] /\ Pursues(d, k, t)
    BY <1>1, <1>5, CallFacts
  <2>2. t \notin sweep[d].asked
    BY <1>1, <2>1 DEF Pursues
  <2>3. QED
    BY <1>1, <1>2, <2>1, <2>2 DEF Pursues
<1>6. QED
  BY <1>1, <1>2, <1>3, <1>4, <1>5, OneCallMoves

\* While the sets are cleaned, no untouched entry has a tag that was to be cleared.
LEMMA CleanedTags ==
    ASSUME RedisInv, NEW d \in Sweep, sweep[d].at \in {"clean", "drop"},
           NEW k \in CacheKey, NEW t \in tagsOf[k], <<k, t>> \notin touched
    PROVE  t \in Tag /\ k \in index[t] /\ t \notin sweep[d].asked
  BY CallFacts DEF Pursues

LEMMA CheckEmptyKeeps ==
    ASSUME RedisInv, NEW d \in Sweep, CheckEmpty(d)
    PROVE  RedisInv'
<1>1. PICK u \in sweep[d].todo :
         sweep' = IF index[u] = {}
                  THEN [sweep EXCEPT ![d].todo = @ \ {u}, ![d].tag = {u}, ![d].at = "drop"]
                  ELSE [sweep EXCEPT ![d].todo = @ \ {u}]
  BY DEF CheckEmpty
<1>2. /\ sweep[d].at = "clean" /\ u \in Tag /\ u \in sweep[d].asked
      /\ tagsOf' = tagsOf /\ index' = index /\ found' = found /\ touched' = touched
  BY CallFacts DEF CheckEmpty, SweepState, SweepOK
<1>3. /\ sweep'[d].at \in {"clean", "drop"} /\ sweep'[d].asked = sweep[d].asked
      /\ sweep'[d].todo \subseteq sweep[d].todo /\ sweep'[d].tag \subseteq sweep[d].tag \cup {u}
      /\ \A e \in Sweep \ {d} : sweep'[e] = sweep[e]
      /\ sweep' \in [Sweep -> SweepState]
  <2>1. CASE index[u] = {}
    BY <1>1, <1>2, <2>1 DEF RedisInv, RedisTypeOK, SweepState
  <2>2. CASE index[u] # {}
    BY <1>1, <1>2, <2>2 DEF RedisInv, RedisTypeOK, SweepState
  <2>3. QED
    BY <2>1, <2>2
<1>4. RedisTypeOK'
  BY <1>2, <1>3 DEF RedisInv, RedisTypeOK
<1>5. SweepOK(d)'
  BY <1>2, <1>3, CallFacts DEF SweepOK
<1>6. ASSUME NEW k \in CacheKey, NEW t \in tagsOf'[k], <<k, t>> \notin touched'
      PROVE  /\ t \in tagsOf[k] /\ <<k, t>> \notin touched
             /\ k \in index'[t] /\ Pursues(d, k, t)'
  BY <1>2, <1>3, <1>6, CleanedTags DEF Pursues
<1>7. QED
  BY <1>2, <1>3, <1>4, <1>5, <1>6, OneCallMoves

LEMMA DropIndexKeeps ==
    ASSUME RedisInv, NEW d \in Sweep, DropIndex(d)
    PROVE  RedisInv'
<1>1. /\ sweep[d].at = "drop" /\ tagsOf' = tagsOf /\ found' = found /\ touched' = touched
      /\ index' = [t \in Tag |-> IF t \in sweep[d].tag THEN {} ELSE index[t]]
  BY DEF DropIndex
<1>2. /\ sweep'[d].at = "clean" /\ sweep'[d].asked = sweep[d].asked
      /\ sweep'[d].todo = sweep[d].todo /\ sweep'[d].tag = {}
      /\ \A e \in Sweep \ {d} : sweep'[e] = sweep[e]
      /\ sweep' \in [Sweep -> SweepState]
  BY DEF DropIndex, RedisInv, RedisTypeOK, SweepState
<1>3. RedisTypeOK'
  BY <1>1, <1>2 DEF RedisInv, RedisTypeOK
<1>4. SweepOK(d)'
  BY <1>1, <1>2, CallFacts DEF SweepOK
<1>5. ASSUME NEW k \in CacheKey, NEW t \in tagsOf'[k], <<k, t>> \notin touched'
      PROVE  /\ t \in tagsOf[k] /\ <<k, t>> \notin touched
             /\ k \in index'[t] /\ Pursues(d, k, t)'
  <2>1. /\ t \in tagsOf[k] /\ <<k, t>> \notin touched
        /\ t \in Tag /\ k \in index[t] /\ t \notin sweep[d].asked
    BY <1>1, <1>5, CleanedTags
  <2>2. t \notin sweep[d].tag
    BY <2>1, CallFacts DEF SweepOK
  <2>3. QED
    BY <1>1, <1>2, <2>1, <2>2 DEF Pursues
<1>6. QED
  BY <1>1, <1>2, <1>3, <1>4, <1>5, OneCallMoves

LEMMA SweepEndsKeeps ==
    ASSUME RedisInv, NEW d \in Sweep, SweepEnds(d)
    PROVE  RedisInv'
<1>1. /\ sweep[d].at = "clean" /\ tagsOf' = tagsOf /\ index' = index
      /\ found' = found /\ touched' = touched
  BY DEF SweepEnds
<1>2. /\ sweep'[d] = NoSweep /\ \A e \in Sweep \ {d} : sweep'[e] = sweep[e]
      /\ sweep' \in [Sweep -> SweepState]
  BY DEF SweepEnds, RedisInv, RedisTypeOK, SweepState, NoSweep
<1>3. RedisTypeOK'
  BY <1>1, <1>2 DEF RedisInv, RedisTypeOK
<1>4. SweepOK(d)'
  BY <1>1, <1>2, CallFacts DEF SweepOK, NoSweep
<1>5. \A k \in CacheKey : \A t \in Tag : Pursues(d, k, t)'
  BY <1>2 DEF Pursues, NoSweep
<1>6. QED
  BY <1>1, <1>2, <1>3, <1>4, <1>5, CallFacts, OneCallMoves

\* MissesOnlyOverlappingStores: deleteByTags() reads and repairs the tag sets with
\* one command after the other; it neither loses nor leaves behind an entry but
\* such as were stored while a call was under way, however many calls, stores and
\* expirations cross.
THEOREM SweepsMissNothingElse == RedisSpec => []MissesOnlyOverlappingStores
<1>1. RedisInv /\ [RedisNext]_redisVars => RedisInv'
  <2> SUFFICES ASSUME RedisInv, [RedisNext]_redisVars PROVE RedisInv'
    OBVIOUS
  <2>1. CASE CacheSet \/ CacheDelete \/ EntryExpires \/ IndexExpires
    BY <2>1, CacheSetKeeps, CacheDeleteKeeps, EntryExpiresKeeps, IndexExpiresKeeps
  <2>2. ASSUME NEW d \in Sweep, SweepStep(d) PROVE RedisInv'
    BY <2>2, SweepBeginsKeeps, ReadMembersKeeps, GetCandidateKeeps, DeleteCandidateKeeps,
       RepairIndexKeeps, KeysDoneKeeps, CheckEmptyKeeps, DropIndexKeeps, SweepEndsKeeps
       DEF SweepStep
  <2>3. CASE UNCHANGED redisVars
    BY <2>3 DEF RedisInv, RedisTypeOK, SweepOK, Pursues, redisVars
  <2>4. QED
    BY <2>1, <2>2, <2>3 DEF RedisNext
<1>2. RedisInv => MissesOnlyOverlappingStores
  BY DEF RedisInv, RedisTypeOK, Pursues, MissesOnlyOverlappingStores
<1>3. QED
  BY <1>1, <1>2, RedisInitHolds, PTL DEF RedisSpec
==============================================================================
