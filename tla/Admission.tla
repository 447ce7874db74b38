------------------------------ MODULE Admission ------------------------------
(***************************************************************************)
(* What a request passes before it may reserve, lock or execute anything   *)
(* (kernel.ts): enforcePolicies() with one store call after the other,     *)
(* against the owner's changes, and the rate limit, whose hit() is one     *)
(* step in memory and Redis and three statements under an advisory lock in *)
(* PostgreSQL.  The clock of the rate windows counts windows: a bucket is  *)
(* named by the window it was opened in.                                   *)
(***************************************************************************)
EXTENDS Integers, FiniteSets

CONSTANTS
    Request,      \* requests of one subject under one rate key
    OwnerReq,     \* those whose session belongs to an owner
    Limit,        \* rateLimit.limit
    Cost,         \* rateLimit.cost of each request
    MaxWindow,    \* bound on the windows
    MaxChanges,   \* bound on the owner's changes
    NoHit         \* nobody holds the advisory lock

ASSUME AdmissionAssumption ==
    /\ OwnerReq \subseteq Request /\ NoHit \notin Request
    /\ {Limit, MaxWindow, MaxChanges} \subseteq Nat
    /\ Cost \in [Request -> Nat \ {0}]

Subject == {"user", "ip", "guild"}
\* What turns a request away: maintenance that spares owners or not, and blocks.
Policy == Subject \cup {"maintenance", "maintenanceForAll"}
NoBucket == [count |-> 0, window |-> 0]

VARIABLES
    policies,   \* the policies in force
    version,    \* getPolicyVersion()
    bumping,    \* owner operations between their write and bumpPolicyVersion()
    at,         \* where each request stands
    since,      \* the policies in force ever since a request came in
    window,     \* the present window
    bucket,     \* the row of the rate key
    lockedBy,   \* who holds the advisory lock
    read,       \* the row a hit has selected
    stamp,      \* nowMs of a request's hit
    spent,      \* cost let through since the bucket was opened or reset
    split       \* the rate limit store is PostgreSQL's

policyVars == <<policies, version, bumping>>
rateVars == <<bucket, lockedBy, read, stamp, spent>>
admissionVars == <<policyVars, rateVars, at, since, window, split>>

AdmissionInit ==
    /\ policies = {} /\ version = 1 /\ bumping = 0
    /\ at = [r \in Request |-> "new"]
    /\ since = [r \in Request |-> {}]
    /\ window = 1
    /\ bucket = NoBucket /\ lockedBy = NoHit
    /\ read = [r \in Request |-> NoBucket]
    /\ stamp = [r \in Request |-> 0]
    /\ spent = 0
    /\ split \in BOOLEAN

Stage == {"new", "maintenance", "user", "ip", "guild", "rate", "locked", "selected", "admitted", "denied"}

BucketRow == [count : Nat, window : Nat]

AdmissionTypeOK ==
    /\ policies \subseteq Policy /\ version \in Nat /\ bumping \in Nat
    /\ at \in [Request -> Stage]
    /\ since \in [Request -> SUBSET Policy]
    /\ window \in Nat \ {0}
    /\ bucket \in BucketRow /\ read \in [Request -> BucketRow]
    /\ lockedBy \in Request \cup {NoHit}
    /\ stamp \in [Request -> Nat] /\ spent \in Nat
    /\ split \in BOOLEAN

GoesTo(r, stage) == at' = [at EXCEPT ![r] = stage]

\* The policies that apply to a request.
Against(r) == IF r \in OwnerReq THEN Policy \ {"maintenance"} ELSE Policy

------------------------------------------------------------------------------
\* owner.setMaintenance(), block() and unblock(): the policy is written, and the
\* version is bumped by another call.
OwnerWrites ==
    /\ version + bumping <= MaxChanges
    /\ \E next \in SUBSET Policy :
        /\ \/ \E s \in Subject : next = policies \cup {s} \/ next = policies \ {s}
           \/ next \ policies \subseteq {"maintenance", "maintenanceForAll"} /\ next \cap Subject = policies \cap Subject
        /\ ~({"maintenance", "maintenanceForAll"} \subseteq next)
        /\ next # policies
        /\ policies' = next
    /\ since' = [r \in Request |-> since[r] \cap policies']
    /\ bumping' = bumping + 1
    /\ UNCHANGED <<version, at, window, rateVars, split>>

BumpVersion ==
    /\ bumping > 0
    /\ version' = version + 1
    /\ bumping' = bumping - 1
    /\ UNCHANGED <<policies, at, since, window, rateVars, split>>

\* A block runs out: getBlock() does not return it any more.
BlockExpires ==
    \E s \in Subject \cap policies :
        /\ policies' = policies \ {s}
        /\ since' = [r \in Request |-> since[r] \ {s}]
        /\ UNCHANGED <<version, bumping, at, window, rateVars, split>>

------------------------------------------------------------------------------
Enter(r) ==
    /\ at[r] = "new"
    /\ GoesTo(r, "maintenance")
    /\ since' = [since EXCEPT ![r] = policies]
    /\ UNCHANGED <<policyVars, window, rateVars, split>>

\* Slip: a user who is not blocked is not looked up any further.
CheckUserOnly(r, stage, after, denying) ==
    /\ at[r] = stage
    /\ GoesTo(r, IF denying \cap Against(r) \cap policies # {} THEN "denied"
                 ELSE IF stage = "user" THEN "rate" ELSE after)

\* One awaited read of enforcePolicies().
Check(r, stage, after, denying) ==
    /\ at[r] = stage
    /\ GoesTo(r, IF denying \cap Against(r) \cap policies # {} THEN "denied" ELSE after)

EnforcePolicies(r) ==
    /\ \/ Check(r, "maintenance", "user", {"maintenance", "maintenanceForAll"})
       \/ Check(r, "user", "ip", {"user"})
       \/ Check(r, "ip", "guild", {"ip"})
       \/ Check(r, "guild", "rate", {"guild"})
    /\ UNCHANGED <<policyVars, since, window, rateVars, split>>

------------------------------------------------------------------------------
Opened(row, w) == IF row.window = 0 \/ row.window < w THEN [count |-> 0, window |-> w] ELSE row

\* The verdict of hit() on the row it knows, and what it leaves behind.
Hit(r, row, w) ==
    LET b == Opened(row, w)
        allowed == b.count + Cost[r] <= Limit
        base == IF b.window # bucket.window THEN 0 ELSE spent IN
    /\ bucket' = [b EXCEPT !.count = IF allowed THEN @ + Cost[r] ELSE @]
    /\ spent' = IF allowed THEN base + Cost[r] ELSE base
    /\ GoesTo(r, IF allowed THEN "admitted" ELSE "denied")

HitAtOnce(r) ==
    /\ at[r] = "rate" /\ ~split
    /\ Hit(r, bucket, window)
    /\ UNCHANGED <<lockedBy, read, stamp>>

\* Slip: the hits of one key are not serialised.
LockNothing(r) == UNCHANGED lockedBy

\* pg_advisory_xact_lock()
AdvisoryLock(r) == lockedBy = NoHit /\ lockedBy' = r

\* transactions.run("rate-limit"): nowMs was taken before the lock was waited for.
HitStamps(r) ==
    /\ at[r] = "rate" /\ split /\ stamp[r] = 0
    /\ stamp' = [stamp EXCEPT ![r] = window]
    /\ UNCHANGED <<at, bucket, lockedBy, read, spent>>

HitLocks(r) ==
    /\ at[r] = "rate" /\ stamp[r] # 0
    /\ AdvisoryLock(r)
    /\ GoesTo(r, "locked")
    /\ UNCHANGED <<bucket, read, stamp, spent>>

HitSelects(r) ==
    /\ at[r] = "locked"
    /\ read' = [read EXCEPT ![r] = bucket]
    /\ GoesTo(r, "selected")
    /\ UNCHANGED <<bucket, lockedBy, stamp, spent>>

\* INSERT ... ON CONFLICT DO UPDATE and the commit, which frees the lock.
HitUpserts(r) ==
    /\ at[r] = "selected"
    /\ Hit(r, read[r], stamp[r])
    /\ lockedBy' = IF lockedBy = r THEN NoHit ELSE lockedBy
    /\ UNCHANGED <<read, stamp>>

\* A statement rejects: ROLLBACK frees the lock, and the request fails.
HitRejects(r) ==
    /\ at[r] \in {"locked", "selected"}
    /\ GoesTo(r, "denied")
    /\ lockedBy' = IF lockedBy = r THEN NoHit ELSE lockedBy
    /\ UNCHANGED <<bucket, read, stamp, spent>>

RateLimit(r) ==
    /\ \/ HitAtOnce(r) \/ HitStamps(r) \/ HitLocks(r)
       \/ HitSelects(r) \/ HitUpserts(r) \/ HitRejects(r)
    /\ UNCHANGED <<policyVars, since, window, split>>

\* The operator's resetRateLimit action: the row is deleted, lock or not.
ResetRateLimit ==
    /\ bucket # NoBucket
    /\ bucket' = NoBucket
    /\ spent' = 0
    /\ UNCHANGED <<policyVars, at, since, window, lockedBy, read, stamp, split>>

WindowPasses ==
    /\ window < MaxWindow
    /\ window' = window + 1
    /\ UNCHANGED <<policyVars, at, since, rateVars, split>>

AdmissionNext ==
    \/ OwnerWrites \/ BumpVersion \/ BlockExpires
    \/ ResetRateLimit \/ WindowPasses
    \/ \E r \in Request : Enter(r) \/ EnforcePolicies(r) \/ RateLimit(r)

AdmissionSpec == AdmissionInit /\ [][AdmissionNext]_admissionVars

------------------------------------------------------------------------------

\* A policy holds for every request that came in after it: with reads one after
\* the other, interleaved with changes, none gets through that an applicable
\* block or maintenance was against from its arrival to its last check.
PolicyIsEnforced ==
    \A r \in Request :
        at[r] \in {"rate", "locked", "selected", "admitted"} =>
            since[r] \cap Against(r) = {}

\* No window lets through more than the limit, however its hits interleave with
\* each other, with the end of the window and with the operator's reset.
SpendingWithinLimit == spent <= Limit
==============================================================================
