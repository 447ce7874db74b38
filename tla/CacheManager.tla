----------------------------- MODULE CacheManager ----------------------------
(***************************************************************************)
(* CacheManager (cache.ts) for one key: remember() with its load under the *)
(* distributed lock, its stale answer and its unlocked load when the lock  *)
(* is busy, set(), and invalidateTags() after a write to what is cached.   *)
(* A value is the version of the source it was loaded from.  The call is   *)
(* the owner of its lock handle.  A set() is sent, applied by the store    *)
(* within MaxDelay, and answered: anything may happen in between.          *)
(***************************************************************************)
EXTENDS LeaseLock, FiniteSets

CONSTANTS
    Caller,      \* the calls of remember() among the executions
    Ttl, Stale,  \* ttlMs and staleMs of every entry
    MaxWrites,   \* bound on the versions of the source
    NothingStored

ASSUME CacheAssumption ==
    /\ Caller \subseteq Req
    /\ Ttl \in Nat \ {0}
    /\ {Stale, MaxWrites} \subseteq Nat
    /\ NothingStored \notin [version : Nat, expiresAt : Nat, leased : BOOLEAN]
    /\ NothingStored \notin [version : Nat, expiresAt : Nat, locked : BOOLEAN]

VARIABLES
    source,  \* the version of what is cached
    stored,  \* the cache store's row; leased: loaded under the lock, and applied while it was held
    sent,    \* the set() each caller, or the application, has on its way to the store
    load,    \* each remember()
    floor    \* no load or set() begun before it is still under way

cacheVars == <<source, stored, sent, load, floor>>

NoVersion == -1
LoadWith(at, stale, value, since) == [at |-> at, stale |-> stale, value |-> value, floor |-> since]

\* The callers of remember(), and the application with a set() of its own.
Setter == Caller \cup {Nobody}

Entry == [version : 0..MaxWrites, expiresAt : Nat, leased : BOOLEAN]
Sent == [version : 0..MaxWrites, expiresAt : Nat, locked : BOOLEAN]

CacheTypeOK ==
    /\ source \in 0..MaxWrites /\ floor \in 0..MaxWrites
    /\ stored \in Entry \cup {NothingStored}
    /\ sent \in [Setter -> Sent \cup {NothingStored}]
    /\ load \in [Caller -> [at : {"idle", "locking", "locked", "loading", "loaded", "busy", "loadingFree",
                               "loadedFree", "storing", "storingFree", "leaving", "done"},
                         stale : NoVersion..MaxWrites, value : NoVersion..MaxWrites, floor : 0..MaxWrites]]

CacheInit ==
    /\ LockStart
    /\ source = 0 /\ stored = NothingStored /\ floor = 0
    /\ sent = [c \in Setter |-> NothingStored]
    /\ load = [h \in Caller |-> LoadWith("idle", NoVersion, NoVersion, 0)]

\* The store forgets an entry when it is no longer even stale.
Kept == stored # NothingStored /\ now < stored.expiresAt + Stale
IsFresh == Kept /\ now < stored.expiresAt

Moves(h, at) == load' = [load EXCEPT ![h].at = at]
Returns(h, at, value) == load' = [load EXCEPT ![h].at = at, ![h].value = value]
Loading(h) == load[h].at \in {"loading", "loaded", "loadingFree", "loadedFree"}
Storing(h) == load[h].at \in {"storing", "storingFree"}
InTransit(c) == sent[c] # NothingStored

\* set() stamps the expiry and sends the entry in one stretch with its caller.
Sends(c, version, locked) ==
    sent' = [sent EXCEPT ![c] = [version |-> version, expiresAt |-> now + Ttl, locked |-> locked]]
SentTime(c) == sent[c].expiresAt - Ttl

------------------------------------------------------------------------------
(* The source and its invalidation.                                        *)

\* What is cached changes; whoever changed it invalidates the tags afterwards.
SourceChanges ==
    /\ source < MaxWrites
    /\ source' = source + 1
    /\ UNCHANGED <<stored, sent, load, floor>>

UnderWay == (\E h \in Caller : Loading(h)) \/ (\E c \in Setter : InTransit(c))

\* Slip: deleteByTags() looks at entries that are still fresh only.
InvalidateFresh ==
    /\ stored' = IF IsFresh THEN NothingStored ELSE stored
    /\ floor' = IF UnderWay THEN floor ELSE source
    /\ UNCHANGED <<source, sent, load>>

\* deleteByTags().
InvalidateTags ==
    /\ stored' = NothingStored
    /\ floor' = IF UnderWay THEN floor ELSE source
    /\ UNCHANGED <<source, sent, load>>

\* set() by the application, one at a time.
SetDirectly ==
    /\ ~InTransit(Nobody)
    /\ Sends(Nobody, source, FALSE)
    /\ UNCHANGED <<source, stored, load, floor>>

------------------------------------------------------------------------------
(* An entry on its way to the store.                                       *)

SetApplies(c) ==
    /\ InTransit(c)
    /\ stored' = [version |-> sent[c].version, expiresAt |-> sent[c].expiresAt,
                  leased |-> sent[c].locked /\ Leased(c)]
    /\ sent' = [sent EXCEPT ![c] = NothingStored]
    /\ UNCHANGED <<source, load, floor>>

\* A set() whose caller has been told of a failure, or has died, may be lost; until
\* then it may still be applied.
SetLost(c) ==
    /\ InTransit(c)
    /\ c = Nobody => StoreFaults \/ Crashes
    /\ c # Nobody => ~Storing(c)
    /\ sent' = [sent EXCEPT ![c] = NothingStored]
    /\ UNCHANGED <<source, stored, load, floor>>

------------------------------------------------------------------------------
(* remember().                                                             *)

\* A fresh entry is the answer; a stale one is kept for later.
Remember(h) ==
    /\ load[h].at = "idle"
    /\ IF IsFresh
       THEN load' = [load EXCEPT ![h] = LoadWith("done", NoVersion, stored.version, floor)]
       ELSE load' = [load EXCEPT ![h] =
                       LoadWith("locking", IF Kept THEN stored.version ELSE NoVersion, NoVersion, floor)]
    /\ UNCHANGED <<source, stored, sent, floor>>

LockAnswers(h) ==
    /\ load[h].at = "locking"
    /\ \/ phase[h] = "held" /\ load' = [load EXCEPT ![h].at = "locked", ![h].stale = NoVersion]
       \/ phase[h] = "refused" /\ Moves(h, "busy")
    /\ UNCHANGED <<source, stored, sent, floor>>

\* RESOURCE_BUSY: the stale entry will do, or the value is loaded without the lock.
Busy(h) ==
    /\ load[h].at = "busy"
    /\ IF load[h].stale # NoVersion THEN Returns(h, "done", load[h].stale) ELSE Moves(h, "loadingFree")
    /\ UNCHANGED <<source, stored, sent, floor>>

\* Under the lock the entry is read again.
LookAgain(h) ==
    /\ load[h].at = "locked"
    /\ IF IsFresh THEN Returns(h, "leaving", stored.version) ELSE Moves(h, "loading")
    /\ UNCHANGED <<source, stored, sent, floor>>

\* load() sees the source at some moment before it answers.
Load(h) ==
    /\ load[h].at \in {"loading", "loadingFree"}
    /\ Returns(h, IF load[h].at = "loading" THEN "loaded" ELSE "loadedFree", source)
    /\ UNCHANGED <<source, stored, sent, floor>>

\* load() or assertOwned() throws.
LoadThrows(h) ==
    /\ Loading(h)
    /\ Returns(h, IF load[h].at \in {"loading", "loaded"} THEN "leaving" ELSE "done", NoVersion)
    /\ UNCHANGED <<source, stored, sent, floor>>

\* Slip: the lock is not looked at again after the load.
SendUnasserted(h) ==
    /\ load[h].at = "loaded"
    /\ Sends(h, load[h].value, TRUE)
    /\ Moves(h, "storing")
    /\ UNCHANGED <<source, stored, floor>>

\* assertOwned() passes and the value is sent.
SendLoaded(h) ==
    /\ load[h].at = "loaded" /\ Believes(h)
    /\ Sends(h, load[h].value, TRUE)
    /\ Moves(h, "storing")
    /\ UNCHANGED <<source, stored, floor>>

SendFree(h) ==
    /\ load[h].at = "loadedFree"
    /\ Sends(h, load[h].value, FALSE)
    /\ Moves(h, "storingFree")
    /\ UNCHANGED <<source, stored, floor>>

AfterSet(h) == IF load[h].at = "storing" THEN "leaving" ELSE "done"

SetReplies(h) ==
    /\ Storing(h) /\ ~InTransit(h)
    /\ Moves(h, AfterSet(h))
    /\ UNCHANGED <<source, stored, sent, floor>>

\* set() rejects, before or after the store has applied it.
SetRejects(h) ==
    /\ StoreFaults
    /\ Storing(h)
    /\ Returns(h, AfterSet(h), NoVersion)
    /\ UNCHANGED <<source, stored, sent, floor>>

------------------------------------------------------------------------------

\* acquire() while the call waits for it, the handle's renewals until the finally
\* block releases it, and the end of the process at any moment.  The expiry timer
\* of a plain lock store marks the handle lost as assertOwned() does.
CacheLockStep(h) ==
    \/ /\ load[h].at = "locking"
       /\ \/ (LockGrant(h) \/ LockRefuse(h) \/ LockReply(h)) /\ UNCHANGED load
          \/ LockAcquireThrows(h) /\ Moves(h, "done")
    \/ /\ load[h].at \in {"locked", "loading", "loaded", "storing"}
       /\ LockRenewTick(h) \/ LockAssertFails(h)
       /\ UNCHANGED load
    \/ /\ load[h].at # "idle"
       /\ LockRenewApply(h) \/ LockRenewReply(h) \/ LockRenewThrows(h)
       /\ UNCHANGED load
    \/ /\ load[h].at = "leaving"
       /\ LockRelease(h)
       /\ Moves(h, "done")
    \/ /\ load[h].at \notin {"idle", "done"}
       /\ LockCrash(h)
       /\ Returns(h, "done", NoVersion)

RememberStep(h) ==
    \/ Remember(h) \/ LockAnswers(h) \/ Busy(h) \/ LookAgain(h)
    \/ Load(h) \/ LoadThrows(h) \/ SendLoaded(h) \/ SendFree(h) \/ SetReplies(h) \/ SetRejects(h)

\* A set() takes at most MaxDelay to be applied, as every call of the store does.
CacheTick ==
    /\ \A c \in Setter : InTransit(c) => now < SentTime(c) + MaxDelay
    /\ LockTick
    /\ UNCHANGED cacheVars

CacheNext ==
    \/ CacheTick
    \/ /\ \E h \in Caller : CacheLockStep(h)
       /\ UNCHANGED <<now, source, stored, sent, floor>>
    \/ /\ \/ SourceChanges \/ InvalidateTags \/ SetDirectly
          \/ \E h \in Caller : RememberStep(h)
          \/ \E c \in Setter : SetApplies(c) \/ SetLost(c)
       /\ UNCHANGED <<now, lockVars>>

CacheSpec == CacheInit /\ [][CacheNext]_<<now, lockVars, cacheVars>>

------------------------------------------------------------------------------
(* Properties.                                                             *)

\* A remember() that begins after invalidateTags() never answers with what was
\* invalidated, unless a load or a set() was under way at that invalidation: neither
\* the stale answer nor the unlocked load brings an old value back.
InvalidationIsSeen ==
    \A h \in Caller : (load[h].at = "done" /\ load[h].value # NoVersion) => load[h].value >= load[h].floor

\* A version that was loaded and stored while its call held the lease is replaced
\* by an older one from under the lock only by a call that has lost the lease: its
\* set() was sent in the slack a late reply leaves, or was still on its way.  Two
\* round trips after the lease that is over: what assertOwned() is for.
StoresInOrder ==
    [][\A h \in Caller :
          (/\ SetApplies(h) /\ sent[h].locked
           /\ stored # NothingStored /\ stored.leased /\ sent[h].version < stored.version)
            => ~Leased(h) /\ now < grantedUntil[h] + 2 * MaxDelay]_<<now, lockVars, cacheVars>>
==============================================================================
