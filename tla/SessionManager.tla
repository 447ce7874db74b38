---------------------------- MODULE SessionManager ----------------------------
(***************************************************************************)
(* SessionManager (src/session.ts) over a session store, for the sessions  *)
(* of one user.  Logins, requests that resolve their token, and            *)
(* revocations run concurrently; every call to the store is a step of its  *)
(* own, so other calls come between what a call reads and what it writes.  *)
(* Tokens are random and never drawn twice; only their hashes are stored.  *)
(***************************************************************************)
EXTENDS Integers, FiniteSets

CONSTANTS
    Call,         \* calls in flight at once; a slot is used again when its call ends
    Token,        \* bound: the tokens ever drawn
    NoToken,
    MaxSessions,  \* maximumSessionsPerUser
    Ttl,          \* ttlMs
    IdleTtl,      \* idleTimeoutMs
    RotateEvery,  \* rotateAfterMs
    StoreKinds,   \* which stores: TRUE has an atomic create(), FALSE has set() only
    MaxClock      \* bound on the clock

ASSUME SessionAssumption ==
    /\ NoToken \notin Token
    /\ {MaxSessions, Ttl, IdleTtl, RotateEvery} \subseteq Nat \ {0}
    /\ StoreKinds \subseteq BOOLEAN
    /\ MaxClock \in Nat

VARIABLES
    clock,
    atomicCreate, \* the kind of store, fixed for a behaviour
    store,        \* token hash -> record
    issued,       \* tokens drawn
    call,         \* what each call waits for, and what it remembers meanwhile
    revived,      \* history: tokens written back after they were deleted
    loggedIn,     \* history: a session has been stored
    ended,        \* history: a session was revoked, or found lapsed
    cutShort,     \* history: a create failed before it had enforced the cap
    overlap       \* history: tokens of the calls that ran beside a revocation in flight

historyVars == <<revived, loggedIn, ended, cutShort, overlap>>
sessionVars == <<clock, atomicCreate, store, issued, call, historyVars>>

NoSession == [lastSeen |-> 0, expiresAt |-> 0, idleUntil |-> 0, rotateAfter |-> 0]
Session == [lastSeen : Nat, expiresAt : Nat, idleUntil : Nat, rotateAfter : Nat]

\* token is the session a call presents, drawn the token it has drawn, draft the
\* record it is about to write, doomed the sessions it has yet to delete.
CallAt(p, t, d, s, gone) == [pc |-> p, token |-> t, drawn |-> d, draft |-> s, doomed |-> gone]
Idle == CallAt("idle", NoToken, NoToken, NoSession, {})
CallState ==
    [pc : {"idle", "insert", "limit", "evicting", "touch", "deleting", "listing", "revoking"},
     token : Token \cup {NoToken}, drawn : Token \cup {NoToken},
     draft : Session, doomed : SUBSET Token]

SessionTypeOK ==
    /\ clock \in Nat
    /\ atomicCreate \in StoreKinds
    /\ store \in [Token -> Session]
    /\ issued \subseteq Token
    /\ call \in [Call -> CallState]
    /\ \A c \in Call : call[c].drawn \notin call[c].doomed
    /\ revived \subseteq Token
    /\ loggedIn \in BOOLEAN /\ ended \in BOOLEAN /\ cutShort \in BOOLEAN
    /\ overlap \in [Call -> SUBSET Token]

SessionInit ==
    /\ clock = 0
    /\ atomicCreate \in StoreKinds
    /\ store = [t \in Token |-> NoSession]
    /\ issued = {}
    /\ call = [c \in Call |-> Idle]
    /\ revived = {}
    /\ loggedIn = FALSE
    /\ ended = FALSE
    /\ cutShort = FALSE
    /\ overlap = [c \in Call |-> {}]

------------------------------------------------------------------------------
\* listByUser.
Sessions == {t \in Token : store[t] # NoSession}

FreshRecord == [lastSeen |-> clock, expiresAt |-> clock + Ttl,
                idleUntil |-> clock + IdleTtl, rotateAfter |-> clock + RotateEvery]

Touched(s) == [lastSeen |-> clock, expiresAt |-> s.expiresAt,
               idleUntil |-> clock + IdleTtl, rotateAfter |-> s.rotateAfter]
Lapsed(s) == s.expiresAt <= clock \/ s.idleUntil <= clock
DueForRotation(s) == s.rotateAfter <= clock

\* The rows a cap of n sorts off the end: the least recently seen, ties by hash.
Excess(rows, at, n) ==
    {gone \in SUBSET rows :
        /\ Cardinality(rows \ gone) = IF Cardinality(rows) < n THEN Cardinality(rows) ELSE n
        /\ \A g \in gone, k \in rows \ gone : at[g].lastSeen <= at[k].lastSeen}

At(c, p) == call[c].pc = p
Become(c, state) == call' = [call EXCEPT ![c] = state]
End(c) == Become(c, Idle)

\* A call beginning with tokens ts runs beside the revocations in flight.
Beside(c, ts) ==
    overlap' = [d \in Call |-> IF d # c /\ call[d].pc \in {"listing", "revoking"}
                               THEN overlap[d] \cup (ts \ {NoToken}) ELSE overlap[d]]

\* A call that may be a revocation ends: nothing runs beside it any more.
EndAll(c) == End(c) /\ overlap' = [overlap EXCEPT ![c] = {}]

\* A call that deletes what is listed in doomed and then ends.
Deleting(gone) == CallAt("deleting", NoToken, NoToken, NoSession, gone)

------------------------------------------------------------------------------
(* create().                                                               *)

\* create() draws a token and builds the record; old is the session it replaces.
BeginCreate(c, old) ==
    \E t \in Token \ issued :
        /\ issued' = issued \cup {t}
        /\ Become(c, CallAt("insert", old, t, FreshRecord, {}))
        /\ Beside(c, {t, old})

Login(c) ==
    /\ At(c, "idle")
    /\ BeginCreate(c, NoToken)
    /\ UNCHANGED <<clock, atomicCreate, store, revived, loggedIn, ended, cutShort>>

\* The record is in place and the cap enforced: a login returns, a rotation goes
\* on to delete the session it replaces.
AfterCreate(c) ==
    IF call[c].token = NoToken THEN End(c) ELSE Become(c, Deleting({call[c].token}))

\* store.create inserts and evicts in one step, newest lastSeenAt first.
CreateAtomically(c) ==
    /\ At(c, "insert")
    /\ atomicCreate
    /\ LET with == [store EXCEPT ![call[c].drawn] = call[c].draft] IN
       \E gone \in Excess(Sessions \cup {call[c].drawn}, with, MaxSessions) :
          store' = [t \in Token |-> IF t \in gone THEN NoSession ELSE with[t]]
    /\ loggedIn' = TRUE
    /\ AfterCreate(c)
    /\ UNCHANGED <<clock, atomicCreate, issued, revived, ended, cutShort, overlap>>

\* Without it, set() and then enforceSessionLimit.
CreateBySet(c) ==
    /\ At(c, "insert")
    /\ ~atomicCreate
    /\ store' = [store EXCEPT ![call[c].drawn] = call[c].draft]
    /\ loggedIn' = TRUE
    /\ Become(c, CallAt("limit", call[c].token, call[c].drawn, NoSession, {}))
    /\ UNCHANGED <<clock, atomicCreate, issued, revived, ended, cutShort, overlap>>

Evicting(c, gone) == CallAt("evicting", call[c].token, call[c].drawn, NoSession, gone)

\* Slip: the new session is not counted at all.
LimitForgetsToCountOwn(c) ==
    /\ At(c, "limit")
    /\ \E gone \in Excess(Sessions \ {call[c].drawn}, store, MaxSessions) :
          IF gone = {}
          THEN AfterCreate(c)
          ELSE Become(c, Evicting(c, gone))
    /\ UNCHANGED <<clock, atomicCreate, store, issued, historyVars>>

\* enforceSessionLimit lists everybody else's rows and keeps its own.
ListForLimit(c) ==
    /\ At(c, "limit")
    /\ \E gone \in Excess(Sessions \ {call[c].drawn}, store, MaxSessions - 1) :
          IF gone = {}
          THEN AfterCreate(c)
          ELSE Become(c, Evicting(c, gone))
    /\ UNCHANGED <<clock, atomicCreate, store, issued, historyVars>>

\* One of the deletes sent together; the last answer lets the call go on.
Evict(c) ==
    /\ At(c, "evicting")
    /\ \E t \in call[c].doomed :
          /\ store' = [store EXCEPT ![t] = NoSession]
          /\ IF call[c].doomed = {t}
             THEN AfterCreate(c)
             ELSE Become(c, Evicting(c, call[c].doomed \ {t}))
    /\ UNCHANGED <<clock, atomicCreate, issued, historyVars>>

------------------------------------------------------------------------------
(* resolve() and validate().                                               *)

\* resolve() and validate() delete a lapsed session and refuse it.
FindLapsed(c, t) ==
    /\ At(c, "idle")
    /\ store[t] # NoSession
    /\ Lapsed(store[t])
    /\ Become(c, Deleting({t}))
    /\ ended' = TRUE
    /\ Beside(c, {t})
    /\ UNCHANGED <<clock, atomicCreate, store, issued, revived, loggedIn, cutShort>>

\* Slip: the old session is deleted before its replacement is created.
RotateDroppingFirst(c, t) ==
    /\ At(c, "idle")
    /\ store[t] # NoSession
    /\ ~Lapsed(store[t]) /\ DueForRotation(store[t])
    /\ BeginCreate(c, t)
    /\ store' = [store EXCEPT ![t] = NoSession]
    /\ UNCHANGED <<clock, atomicCreate, revived, loggedIn, ended, cutShort>>

\* A session due for rotation is replaced.
Rotate(c, t) ==
    /\ At(c, "idle")
    /\ store[t] # NoSession
    /\ ~Lapsed(store[t]) /\ DueForRotation(store[t])
    /\ BeginCreate(c, t)
    /\ UNCHANGED <<clock, atomicCreate, store, revived, loggedIn, ended, cutShort>>

\* Any other session is written back with a new idle deadline.
ReadForTouch(c, t) ==
    /\ At(c, "idle")
    /\ store[t] # NoSession
    /\ ~Lapsed(store[t]) /\ ~DueForRotation(store[t])
    /\ Become(c, CallAt("touch", t, NoToken, Touched(store[t]), {}))
    /\ Beside(c, {t})
    /\ UNCHANGED <<clock, atomicCreate, store, issued, revived, loggedIn, ended, cutShort>>

\* set(updated) writes the whole record, whatever became of it since the read.
Touch(c) ==
    /\ At(c, "touch")
    /\ store' = [store EXCEPT ![call[c].token] = call[c].draft]
    /\ revived' = IF store[call[c].token] = NoSession
                  THEN revived \cup {call[c].token} ELSE revived
    /\ End(c)
    /\ UNCHANGED <<clock, atomicCreate, issued, loggedIn, ended, cutShort, overlap>>

\* The delete of a lapsed session, of a rotated one, or of a logout.
Delete(c) ==
    /\ At(c, "deleting")
    /\ store' = [t \in Token |-> IF t \in call[c].doomed THEN NoSession ELSE store[t]]
    /\ End(c)
    /\ UNCHANGED <<clock, atomicCreate, issued, historyVars>>

------------------------------------------------------------------------------
(* Revocation.                                                             *)

\* revokeToken and revokeHash.
Revoke(c, t) ==
    /\ At(c, "idle")
    /\ t \in issued
    /\ Become(c, Deleting({t}))
    /\ ended' = TRUE
    /\ Beside(c, {t})
    /\ UNCHANGED <<clock, atomicCreate, store, issued, revived, loggedIn, cutShort>>

RevokeAll(c) ==
    /\ At(c, "idle")
    /\ Become(c, CallAt("listing", NoToken, NoToken, NoSession, {}))
    /\ ended' = TRUE
    /\ overlap' = [overlap EXCEPT ![c] =
                     (UNION {{call[d].token, call[d].drawn} : d \in Call}) \ {NoToken}]
    /\ UNCHANGED <<clock, atomicCreate, store, issued, revived, loggedIn, cutShort>>

Revoking(gone) == CallAt("revoking", NoToken, NoToken, NoSession, gone)

\* Slip: a page of the list is taken for the whole.
ListOnePage(c) ==
    /\ At(c, "listing")
    /\ \E t \in Sessions : Become(c, Revoking({t}))
    /\ UNCHANGED <<clock, atomicCreate, store, issued, historyVars>>

ListForRevocation(c) ==
    /\ At(c, "listing")
    /\ IF Sessions = {}
       THEN EndAll(c)
       ELSE Become(c, Revoking(Sessions)) /\ UNCHANGED overlap
    /\ UNCHANGED <<clock, atomicCreate, store, issued, revived, loggedIn, ended, cutShort>>

RevokeOne(c) ==
    /\ At(c, "revoking")
    /\ \E t \in call[c].doomed :
          /\ store' = [store EXCEPT ![t] = NoSession]
          /\ IF call[c].doomed = {t}
             THEN EndAll(c)
             ELSE Become(c, Revoking(call[c].doomed \ {t})) /\ UNCHANGED overlap
    /\ UNCHANGED <<clock, atomicCreate, issued, revived, loggedIn, ended, cutShort>>

------------------------------------------------------------------------------
\* The store rejects the call in hand, or the process dies.
Fail(c) ==
    /\ ~At(c, "idle")
    /\ EndAll(c)
    /\ cutShort' = (cutShort \/ At(c, "limit") \/ At(c, "evicting"))
    /\ UNCHANGED <<clock, atomicCreate, store, issued, revived, loggedIn, ended>>

SessionTick ==
    /\ clock < MaxClock
    /\ clock' = clock + 1
    /\ UNCHANGED <<atomicCreate, store, issued, call, historyVars>>

CallStep(c) ==
    \/ Login(c) \/ CreateAtomically(c) \/ CreateBySet(c) \/ ListForLimit(c) \/ Evict(c)
    \/ \E t \in Token : FindLapsed(c, t) \/ Rotate(c, t) \/ ReadForTouch(c, t) \/ Revoke(c, t)
    \/ Touch(c) \/ Delete(c)
    \/ RevokeAll(c) \/ ListForRevocation(c) \/ RevokeOne(c)
    \/ Fail(c)

SessionNext == SessionTick \/ \E c \in Call : CallStep(c)

SessionSpec == SessionInit /\ [][SessionNext]_sessionVars

------------------------------------------------------------------------------
(* Properties.                                                             *)

\* maximumSessionsPerUser: however logins and rotations interleave, the user has
\* no more sessions than that, but for those a concurrent resolve() wrote back
\* after they were deleted, and for those of a create() still at work, or cut
\* short, on a store that has to list and delete by itself.
CapHolds ==
    (~cutShort /\ \A c \in Call : ~At(c, "limit") /\ ~At(c, "evicting"))
        => Cardinality(Sessions \ revived) <= MaxSessions

\* Eviction and rotation never log a user out altogether: with an atomic
\* create(), a user who has logged in keeps a session until one is revoked or
\* expires, whatever rotations and logins do to each other, as long as no
\* resolve() writes a session back after it was deleted.
SomeSessionSurvives == atomicCreate /\ loggedIn /\ ~ended /\ revived = {} => Sessions # {}

\* revokeAll() is complete: a session that is there when its last delete is done
\* belongs to a call that ran beside it.
RevokeAllIsComplete ==
    [][\A c \in Call : (RevokeOne(c) /\ At(c, "idle")') => Sessions' \subseteq overlap[c]]_sessionVars
==============================================================================
