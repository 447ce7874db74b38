-------------------------- MODULE IdempotencyStore --------------------------
(***************************************************************************)
(* The idempotency record of one key, as the memory, Redis and PostgreSQL  *)
(* stores keep it (IdempotencyStore in src/stores.ts).  Every execution    *)
(* begins once, with a fresh reservationId, so the reservation is named    *)
(* after the execution, and so is the response it stores.                  *)
(***************************************************************************)
EXTENDS Runtime

CONSTANTS
    IdemTtl,       \* idempotency.ttlMs
    PayloadOf,     \* the request hash of every execution
    ChecksExpiry,  \* TRUE: complete() and renew() want an unexpired record (Redis, PostgreSQL)
    SplitBegin     \* TRUE: begin() is INSERT, SELECT FOR UPDATE, UPDATE (PostgreSQL)

ASSUME IdempotencyAssumption ==
    /\ IdemTtl \in Nat \ {0}
    /\ DOMAIN PayloadOf = Req
    /\ ChecksExpiry \in BOOLEAN
    /\ SplitBegin \in BOOLEAN

VARIABLES
    entry,     \* the record of the key, or NoEntry
    claim,     \* what the store last answered to each execution
    replayOf,  \* whose response a replay returned
    ousted     \* executions whose record another begin() replaced

idemVars == <<entry, claim, replayOf, ousted>>

NoEntry == [state |-> "none", owner |-> Nobody, expiresAt |-> 0]
Entry == [state : {"inflight", "completed"}, owner : Req, expiresAt : Nat]
Claim == {"new", "selecting", "updating", "started", "conflict", "inflight",
          "replayed", "completed", "lost", "failed"}

IdemTypeOK ==
    /\ now \in Nat
    /\ entry \in Entry \cup {NoEntry}
    /\ claim \in [Req -> Claim]
    /\ replayOf \in [Req -> Req \cup {Nobody}]
    /\ ousted \subseteq Req

IdemInit ==
    /\ entry = NoEntry
    /\ claim = [r \in Req |-> "new"]
    /\ replayOf = [r \in Req |-> Nobody]
    /\ ousted = {}

------------------------------------------------------------------------------
Live == entry.state # "none" /\ now < entry.expiresAt

\* Slip: any inflight record will do.
HoldsAny(r) == entry.state = "inflight" /\ (ChecksExpiry => now < entry.expiresAt)

\* The compare of complete() and renew().
Holds(r) ==
    /\ entry.state = "inflight"
    /\ entry.owner = r
    /\ ChecksExpiry => now < entry.expiresAt

Answer(r, a) == claim' = [claim EXCEPT ![r] = a]

\* r's record replaces whatever is there.
Store(r) ==
    /\ entry' = [state |-> "inflight", owner |-> r, expiresAt |-> now + IdemTtl]
    /\ ousted' = IF entry = NoEntry THEN ousted ELSE ousted \cup {entry.owner}
    /\ Answer(r, "started")
    /\ UNCHANGED replayOf

\* Slips: the request hash is not compared, and an inflight record is
\* no obstacle.
AnswerAnyPayload(r) ==
    /\ IF entry.state = "completed"
       THEN Answer(r, "replayed") /\ replayOf' = [replayOf EXCEPT ![r] = entry.owner]
       ELSE Answer(r, "inflight") /\ UNCHANGED replayOf
    /\ UNCHANGED <<entry, ousted>>

AnswerInflightAsStarted(r) ==
    /\ Answer(r, IF entry.state = "completed" THEN "replayed" ELSE "started")
    /\ replayOf' = [replayOf EXCEPT ![r] = IF entry.state = "completed" THEN entry.owner ELSE @]
    /\ UNCHANGED <<entry, ousted>>

\* The answers to a request that finds a live record.
AnswerFromRecord(r) ==
    /\ IF PayloadOf[entry.owner] # PayloadOf[r]
       THEN Answer(r, "conflict") /\ UNCHANGED replayOf
       ELSE IF entry.state = "completed"
       THEN Answer(r, "replayed") /\ replayOf' = [replayOf EXCEPT ![r] = entry.owner]
       ELSE Answer(r, "inflight") /\ UNCHANGED replayOf
    /\ UNCHANGED <<entry, ousted>>

\* begin() of the memory store, and the Redis script.
IdemBegin(r) ==
    /\ ~SplitBegin
    /\ claim[r] = "new"
    /\ IF Live THEN AnswerFromRecord(r) ELSE Store(r)

\* begin() of PostgreSQL, statement by statement.  INSERT ... DO NOTHING only
\* asks whether a row exists, expired or not.
IdemInsert(r) ==
    /\ SplitBegin
    /\ claim[r] = "new"
    /\ IF entry = NoEntry
       THEN Store(r)
       ELSE Answer(r, "selecting") /\ UNCHANGED <<entry, replayOf, ousted>>

\* SELECT ... FOR UPDATE: a row it finds stays locked to the end; without a row
\* there is nothing to lock, and the UPDATE is a step of its own.
IdemSelect(r) ==
    /\ claim[r] = "selecting"
    /\ IF entry = NoEntry
       THEN Answer(r, "updating") /\ UNCHANGED <<entry, replayOf, ousted>>
       ELSE IF Live THEN AnswerFromRecord(r) ELSE Store(r)

\* UPDATE ... WHERE key: it rewrites a row inserted meanwhile, or no row at
\* all, and begin() answers "started" either way.
IdemUpdate(r) ==
    /\ claim[r] = "updating"
    /\ IF entry = NoEntry
       THEN Answer(r, "started") /\ UNCHANGED <<entry, replayOf, ousted>>
       ELSE Store(r)

IdemComplete(r) ==
    /\ claim[r] = "started"
    /\ IF Holds(r)
       THEN /\ entry' = [state |-> "completed", owner |-> r, expiresAt |-> now + IdemTtl]
            /\ Answer(r, "completed")
       ELSE /\ Answer(r, "lost")
            /\ UNCHANGED entry
    /\ UNCHANGED <<replayOf, ousted>>

\* The caller computed the new expiry when it sent the call.
IdemRenew(r, until) ==
    /\ claim[r] = "started"
    /\ entry' = IF Holds(r) THEN [entry EXCEPT !.expiresAt = until] ELSE entry
    /\ UNCHANGED <<claim, replayOf, ousted>>

\* Slip: fail() deletes whoever's inflight record is there.
FailAnyInflight(r) ==
    /\ claim[r] \in {"started", "conflict", "inflight", "lost"}
    /\ entry' = IF entry.state = "inflight" THEN NoEntry ELSE entry
    /\ Answer(r, "failed")
    /\ UNCHANGED <<replayOf, ousted>>

\* fail() compares owner and state, never the expiry.  The kernel also calls it
\* after "conflict", "inflight" and "lost": it finds nothing of its own then.
IdemFail(r) ==
    /\ claim[r] \in {"started", "conflict", "inflight", "lost"}
    /\ IF entry.state = "inflight" /\ entry.owner = r
       THEN entry' = NoEntry
       ELSE UNCHANGED entry
    /\ Answer(r, "failed")
    /\ UNCHANGED <<replayOf, ousted>>

IdemTick == Advance /\ UNCHANGED idemVars

ReservationStep(r) ==
    \/ IdemBegin(r) \/ IdemInsert(r) \/ IdemSelect(r) \/ IdemUpdate(r)
    \/ IdemComplete(r) \/ IdemFail(r)
    \/ \E t0 \in 0..now : IdemRenew(r, t0 + IdemTtl)

IdemNext == IdemTick \/ \E r \in Req : ReservationStep(r) /\ UNCHANGED now

\* The store by itself, from the beginning of time.
IdemStart == now = 0 /\ IdemInit

IdemSpec == IdemStart /\ [][IdemNext]_<<now, idemVars>>

------------------------------------------------------------------------------
(* Properties.                                                             *)

\* first-writer ownership: an execution that was told "started" owns the
\* inflight record until it completes or fails it, or until the record has
\* expired and a later begin() replaced it.
FirstWriterOwns ==
    \A r \in Req : claim[r] = "started" /\ r \notin ousted
                      => entry.state = "inflight" /\ entry.owner = r

\* A record in force is moved by nobody but its owner: it disappears only when
\* the owner fails it, changes only when the owner renews or completes it, and
\* once completed does not change at all.
LiveRecordOnlyMovedByOwner ==
    [][Live /\ entry' # entry =>
         /\ entry.state = "inflight"
         /\ entry' = NoEntry => claim[entry.owner] # "failed" /\ claim'[entry.owner] = "failed"
         /\ entry' # NoEntry => entry'.owner = entry.owner
         /\ entry'.state = "completed" => claim'[entry.owner] = "completed"]_<<now, idemVars>>

\* A replay returns the response of an execution with the same payload that
\* completed, and never that of one which failed.
ReplayIsFaithful ==
    \A r \in Req : claim[r] = "replayed" =>
        /\ replayOf[r] \in Req \ {r}
        /\ PayloadOf[replayOf[r]] = PayloadOf[r]
        /\ claim[replayOf[r]] = "completed"
==============================================================================
