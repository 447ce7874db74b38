------------------------------ MODULE LeaseLock ------------------------------
(***************************************************************************)
(* The distributed lock: DistributedLockManager (src/locks.ts) over the    *)
(* lease stores of memory-store.ts, redis.ts and postgres.ts, for one key. *)
(* Every execution owns one handle, made with a fresh token, so the token  *)
(* is the execution.  A call to the store is a request, the moment the     *)
(* store applies it, and the reply: other handles move in between.         *)
(***************************************************************************)
EXTENDS Runtime

CONSTANTS
    LockTtl,        \* ttlMs of the lease
    RenewEvery,     \* period of the renewal interval
    MaxDelay,       \* bound on one round trip to the store
    MayWait,        \* TRUE: waitMs > 0, a refused acquire polls again
    MaxFence,       \* bound on the fences PostgreSQL draws
    StampLocally,   \* TRUE: the reply sets expiresAtMs = Date.now() + ttlMs (Redis)
    DrawFenceFirst, \* TRUE: the fence is drawn before the row is taken (PostgreSQL)
    Renewable       \* FALSE: a plain LockStore, without acquireLease and renew

ASSUME LeaseLockAssumption ==
    /\ LockTtl \in Nat \ {0}
    /\ RenewEvery \in Nat \ {0}
    /\ Renewable => RenewEvery < LockTtl
    /\ MaxDelay \in Nat
    /\ MaxFence \in Nat
    /\ MayWait \in BOOLEAN
    /\ StampLocally \in BOOLEAN
    /\ DrawFenceFirst \in BOOLEAN
    /\ Renewable \in BOOLEAN
    /\ DrawFenceFirst => Renewable

VARIABLES
    lease,        \* the row of the key in the store, or NoLease
    fence,        \* the store's fencing counter
    phase,        \* where each handle is in its life
    heldFence,    \* lease.fencingToken of the handle
    asOf,         \* the store's now() for the statement in flight
    sentAt,       \* when the call in flight was sent
    grantedUntil, \* the expiry the store last granted to the handle
    belief,       \* lease.expiresAtMs of the handle
    owned,        \* the handle's local flag
    renewal,      \* the renewal call in flight
    nextRenewal   \* when the renewal interval fires next

handleVars == <<phase, heldFence, asOf, sentAt, grantedUntil, belief, owned,
                renewal, nextRenewal>>
lockVars == <<lease, fence, handleVars>>

NoLease == [holder |-> Nobody, expiresAt |-> 0, fence |-> 0]
Lease == [holder : Req, expiresAt : Nat, fence : Nat]
Phase == {"idle", "drawn", "granted", "held", "refused", "released", "dead"}
Renewal == {"idle", "sent", "renewed", "denied"}

LockTypeOK ==
    /\ now \in Nat
    /\ lease \in Lease \cup {NoLease}
    /\ fence \in Nat
    /\ phase \in [Req -> Phase]
    /\ heldFence \in [Req -> Nat]
    /\ asOf \in [Req -> Nat]
    /\ sentAt \in [Req -> Nat]
    /\ grantedUntil \in [Req -> Nat]
    /\ belief \in [Req -> Nat]
    /\ owned \in [Req -> BOOLEAN]
    /\ renewal \in [Req -> Renewal]
    /\ nextRenewal \in [Req -> Nat]

LockInit ==
    /\ lease = NoLease
    /\ fence = 0
    /\ phase = [h \in Req |-> "idle"]
    /\ heldFence = [h \in Req |-> 0]
    /\ asOf = [h \in Req |-> 0]
    /\ sentAt = [h \in Req |-> 0]
    /\ grantedUntil = [h \in Req |-> 0]
    /\ belief = [h \in Req |-> 0]
    /\ owned = [h \in Req |-> FALSE]
    /\ renewal = [h \in Req |-> "idle"]
    /\ nextRenewal = [h \in Req |-> 0]

------------------------------------------------------------------------------
(* What the code tests.                                                    *)

\* Nobody's lease is in force at time t.
Vacant(t) == lease = NoLease \/ lease.expiresAt <= t

\* The store still holds an unexpired lease under h's token.
Leased(h) == lease.holder = h /\ now < lease.expiresAt

\* Slip: assertOwned() trusts the flag and forgets the expiry.
BelievesFlagOnly(h) == owned[h]

\* HeldLock.assertOwned() returns instead of throwing.
Believes(h) == owned[h] /\ now < belief[h]

\* A call of h is on its way to the store or back.
InFlight(h) == phase[h] \in {"drawn", "granted"} \/ renewal[h] # "idle"

------------------------------------------------------------------------------
(* Acquiring.                                                              *)

\* PostgreSQL evaluates nextval() and now() when the INSERT starts, and may
\* then wait for, or lose the row to, another statement.
LockDraw(h) ==
    /\ DrawFenceFirst
    /\ phase[h] = "idle"
    /\ fence < MaxFence
    /\ fence' = fence + 1
    /\ heldFence' = [heldFence EXCEPT ![h] = fence + 1]
    /\ asOf' = [asOf EXCEPT ![h] = now]
    /\ sentAt' = [sentAt EXCEPT ![h] = now]
    /\ phase' = [phase EXCEPT ![h] = "drawn"]
    /\ UNCHANGED <<lease, grantedUntil, belief, owned, renewal, nextRenewal>>

\* The statement, or the store's single atomic step, reaches the row.
Reaches(h) == phase[h] = IF DrawFenceFirst THEN "drawn" ELSE "idle"
StatementTime(h) == IF DrawFenceFirst THEN asOf[h] ELSE now

GrantFence(h) ==
    IF DrawFenceFirst
    THEN UNCHANGED <<fence, heldFence, sentAt>>
    ELSE /\ fence' = IF Renewable THEN fence + 1 ELSE fence
         /\ heldFence' = [heldFence EXCEPT ![h] = fence']
         /\ sentAt' = [sentAt EXCEPT ![h] = now]

\* Slip: SET without NX, an upsert without its WHERE.
GrantOverAnyLease(h) ==
    /\ Reaches(h)
    /\ GrantFence(h)
    /\ lease' = [holder |-> h, expiresAt |-> StatementTime(h) + LockTtl, fence |-> heldFence'[h]]
    /\ grantedUntil' = [grantedUntil EXCEPT ![h] = StatementTime(h) + LockTtl]
    /\ phase' = [phase EXCEPT ![h] = "granted"]
    /\ UNCHANGED <<asOf, belief, owned, renewal, nextRenewal>>

LockGrant(h) ==
    /\ Reaches(h)
    /\ Vacant(StatementTime(h))
    /\ GrantFence(h)
    /\ lease' = [holder |-> h, expiresAt |-> StatementTime(h) + LockTtl, fence |-> heldFence'[h]]
    /\ grantedUntil' = [grantedUntil EXCEPT ![h] = StatementTime(h) + LockTtl]
    /\ phase' = [phase EXCEPT ![h] = "granted"]
    /\ UNCHANGED <<asOf, belief, owned, renewal, nextRenewal>>

\* Somebody holds the row: poll again until waitMs, then lockUnavailable.
LockRefuse(h) ==
    /\ Reaches(h)
    /\ ~Vacant(StatementTime(h))
    /\ \E p \in {"idle", "refused"} : /\ p = "idle" => MayWait
                                      /\ phase' = [phase EXCEPT ![h] = p]
    /\ UNCHANGED <<lease, fence, heldFence, asOf, sentAt, grantedUntil, belief,
                   owned, renewal, nextRenewal>>

\* Slip: the first renewal waits a whole ttl.
ReplyWithLateInterval(h) ==
    /\ phase[h] = "granted"
    /\ phase' = [phase EXCEPT ![h] = "held"]
    /\ owned' = [owned EXCEPT ![h] = TRUE]
    /\ belief' = [belief EXCEPT ![h] = now + LockTtl]
    /\ nextRenewal' = [nextRenewal EXCEPT ![h] = now + LockTtl]
    /\ UNCHANGED <<lease, fence, heldFence, asOf, sentAt, grantedUntil, renewal>>

\* acquire() resolves: the handle exists and its renewal interval starts.
LockReply(h) ==
    /\ phase[h] = "granted"
    /\ phase' = [phase EXCEPT ![h] = "held"]
    /\ owned' = [owned EXCEPT ![h] = TRUE]
    /\ belief' = [belief EXCEPT ![h] = IF StampLocally \/ ~Renewable
                                       THEN now + LockTtl
                                       ELSE grantedUntil[h]]
    /\ nextRenewal' = [nextRenewal EXCEPT ![h] = now + RenewEvery]
    /\ UNCHANGED <<lease, fence, heldFence, asOf, sentAt, grantedUntil, renewal>>

\* acquireLease() rejects: whatever row it took stays until it expires.
LockAcquireThrows(h) ==
    /\ StoreFaults
    /\ phase[h] \in {"drawn", "granted"}
    /\ phase' = [phase EXCEPT ![h] = "refused"]
    /\ UNCHANGED <<lease, fence, heldFence, asOf, sentAt, grantedUntil, belief,
                   owned, renewal, nextRenewal>>

------------------------------------------------------------------------------
(* Renewing.                                                               *)

\* The renewal interval fires; it does nothing while a renewal is running or
\* once the handle is lost.
LockRenewTick(h) ==
    /\ Renewable
    /\ phase[h] = "held"
    /\ now >= nextRenewal[h]
    /\ nextRenewal' = [nextRenewal EXCEPT ![h] = now + RenewEvery]
    /\ IF renewal[h] = "idle" /\ owned[h]
       THEN /\ renewal' = [renewal EXCEPT ![h] = "sent"]
            /\ sentAt' = [sentAt EXCEPT ![h] = now]
       ELSE UNCHANGED <<renewal, sentAt>>
    /\ UNCHANGED <<lease, fence, phase, heldFence, asOf, grantedUntil, belief, owned>>

\* The store compares the token and extends an unexpired lease.
LockRenewApply(h) ==
    /\ renewal[h] = "sent"
    /\ IF Leased(h)
       THEN /\ lease' = [lease EXCEPT !.expiresAt = now + LockTtl]
            /\ grantedUntil' = [grantedUntil EXCEPT ![h] = now + LockTtl]
            /\ renewal' = [renewal EXCEPT ![h] = "renewed"]
       ELSE /\ renewal' = [renewal EXCEPT ![h] = "denied"]
            /\ UNCHANGED <<lease, grantedUntil>>
    /\ UNCHANGED <<fence, phase, heldFence, asOf, sentAt, belief, owned, nextRenewal>>

\* The reply: the new expiry is counted from the moment it arrives.
LockRenewReply(h) ==
    /\ renewal[h] \in {"renewed", "denied"}
    /\ renewal' = [renewal EXCEPT ![h] = "idle"]
    /\ IF renewal[h] = "renewed"
       THEN /\ belief' = [belief EXCEPT ![h] = now + LockTtl]
            /\ UNCHANGED owned
       ELSE /\ owned' = [owned EXCEPT ![h] = FALSE]
            /\ UNCHANGED belief
    /\ UNCHANGED <<lease, fence, phase, heldFence, asOf, sentAt, grantedUntil, nextRenewal>>

\* renew() rejects, before or after the store applied it: markLost(error).
LockRenewThrows(h) ==
    /\ StoreFaults
    /\ renewal[h] # "idle"
    /\ renewal' = [renewal EXCEPT ![h] = "idle"]
    /\ owned' = [owned EXCEPT ![h] = FALSE]
    /\ UNCHANGED <<lease, fence, phase, heldFence, asOf, sentAt, grantedUntil,
                   belief, nextRenewal>>

------------------------------------------------------------------------------
(* Giving it up.                                                           *)

\* The expiry timer of a plain lock store.
LockExpiryTimer(h) ==
    /\ ~Renewable
    /\ phase[h] = "held"
    /\ owned[h]
    /\ now >= belief[h]
    /\ owned' = [owned EXCEPT ![h] = FALSE]
    /\ UNCHANGED <<lease, fence, phase, heldFence, asOf, sentAt, grantedUntil,
                   belief, renewal, nextRenewal>>

\* assertOwned(): a handle past its expiry is marked lost.
LockAssertFails(h) ==
    /\ phase[h] = "held"
    /\ ~Believes(h)
    /\ owned' = [owned EXCEPT ![h] = FALSE]
    /\ UNCHANGED <<lease, fence, phase, heldFence, asOf, sentAt, grantedUntil,
                   belief, renewal, nextRenewal>>

\* Slip: the fencing counter is deleted with the row.
ReleaseForgetsFence(h) ==
    /\ phase[h] = "held"
    /\ phase' = [phase EXCEPT ![h] = "released"]
    /\ owned' = [owned EXCEPT ![h] = FALSE]
    /\ lease' = IF lease.holder = h THEN NoLease ELSE lease
    /\ fence' = 0
    /\ UNCHANGED <<heldFence, asOf, sentAt, grantedUntil, belief, renewal, nextRenewal>>

\* release(): the interval is cleared and the row deleted if it is still ours;
\* a rejecting store leaves the row to its expiry.
LockRelease(h) ==
    /\ phase[h] = "held"
    /\ phase' = [phase EXCEPT ![h] = "released"]
    /\ owned' = [owned EXCEPT ![h] = FALSE]
    /\ \/ lease' = IF lease.holder = h THEN NoLease ELSE lease
       \/ StoreFaults /\ UNCHANGED lease
    /\ UNCHANGED <<fence, heldFence, asOf, sentAt, grantedUntil, belief, renewal, nextRenewal>>

\* The process of h dies: its timers and its pending replies die with it.
LockCrash(h) ==
    /\ Crashes
    /\ phase[h] # "dead"
    /\ phase' = [phase EXCEPT ![h] = "dead"]
    /\ owned' = [owned EXCEPT ![h] = FALSE]
    /\ renewal' = [renewal EXCEPT ![h] = "idle"]
    /\ UNCHANGED <<lease, fence, heldFence, asOf, sentAt, grantedUntil, belief, nextRenewal>>

------------------------------------------------------------------------------
(* Time.  A round trip takes at most MaxDelay; when timers are on time, an *)
(* interval that is due has fired before the clock moves.                  *)

LockMayTick ==
    \A h \in Req :
        /\ InFlight(h) => now < sentAt[h] + MaxDelay
        /\ TimersOnTime /\ Renewable /\ phase[h] = "held" => now < nextRenewal[h]

LockTick == LockMayTick /\ Advance /\ UNCHANGED lockVars

HandleStep(h) ==
    \/ LockDraw(h) \/ LockGrant(h) \/ LockRefuse(h) \/ LockReply(h) \/ LockAcquireThrows(h)
    \/ LockRenewTick(h) \/ LockRenewApply(h) \/ LockRenewReply(h) \/ LockRenewThrows(h)
    \/ LockExpiryTimer(h) \/ LockAssertFails(h) \/ LockRelease(h) \/ LockCrash(h)

LockNext == LockTick \/ \E h \in Req : HandleStep(h) /\ UNCHANGED now

\* The store by itself, from the beginning of time.
LockStart == now = 0 /\ LockInit

LockSpec == LockStart /\ [][LockNext]_<<now, lockVars>>

------------------------------------------------------------------------------
(* Properties.                                                             *)

\* A handle that still passes assertOwned() was granted the lease by the store
\* until at most one round trip ago: the expiry it counts from the reply
\* overshoots the store's by no more than the reply was late.
BeliefWithinDelay ==
    \A h \in Req : Believes(h) => now < grantedUntil[h] + MaxDelay

\* Two handles pass assertOwned() at once only in the slack left by late
\* replies: one of them has outlived what the store granted it.
OneCurrentBeliever ==
    \A g, h \in Req :
        (g # h /\ Believes(g) /\ Believes(h))
            => (grantedUntil[g] <= now \/ grantedUntil[h] <= now)

\* Fencing tokens order the holders: every handle ever granted the lease before
\* carries a token below the one in the store's row, so a durable write of the
\* current holder is never taken for a stale one, nor a stale one for current.
HolderHasNewestFence ==
    lease # NoLease =>
        \A h \in Req \ {lease.holder} :
            phase[h] \in {"granted", "held", "released"} => heldFence[h] < lease.fence

\* With timers on time, and a cadence that leaves room for two round trips, a
\* live handle never loses the lease it is working under.
RenewalKeepsLease ==
    \A h \in Req : phase[h] = "held" /\ owned[h] => Leased(h)
==============================================================================
