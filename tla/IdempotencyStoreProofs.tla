----------------------- MODULE IdempotencyStoreProofs -----------------------
(***************************************************************************)
(* What IdempotencyStore promises for every set of executions, every ttl   *)
(* and every assignment of payloads.                                       *)
(***************************************************************************)
EXTENDS IdempotencyStore, TLAPS

\* Only PostgreSQL is ever between two statements of begin().
BeginIsAtomic == ~SplitBegin => \A r \in Req : claim[r] \notin {"selecting", "updating"}

\* A completed record was completed by its owner, who is through with it.
CompletedByOwner == entry.state = "completed" => claim[entry.owner] = "completed"

IdemInv == IdemTypeOK /\ BeginIsAtomic /\ CompletedByOwner /\ ReplayIsFaithful

------------------------------------------------------------------------------
LEMMA IdemTypeInit == IdemInit /\ now = 0 => IdemTypeOK
  BY RuntimeAssumption DEF IdemInit, IdemTypeOK, NoEntry, Claim

\* A record of the store has an owner among the executions.
LEMMA EntryShape ==
    ASSUME IdemTypeOK
    PROVE  /\ entry # NoEntry <=> entry \in Entry
           /\ entry = NoEntry => entry.state = "none" /\ entry.owner \notin Req
           /\ entry # NoEntry => entry.state \in {"inflight", "completed"} /\ entry.owner \in Req
  BY RuntimeAssumption DEF IdemTypeOK, Entry, NoEntry

LEMMA StoreType ==
    ASSUME IdemTypeOK, NEW r \in Req, Store(r), now' = now
    PROVE  IdemTypeOK'
<1> USE RuntimeAssumption, IdempotencyAssumption DEF IdemTypeOK
<1>1. entry' \in Entry
  BY DEF Store, Entry
<1>2. ousted' \subseteq Req
  BY EntryShape DEF Store
<1>3. claim' \in [Req -> Claim] /\ replayOf' = replayOf
  BY DEF Store, Answer, Claim
<1>4. QED
  BY <1>1, <1>2, <1>3

LEMMA AnswerType ==
    ASSUME IdemTypeOK, NEW r \in Req, AnswerFromRecord(r), now' = now, Live
    PROVE  IdemTypeOK'
<1>1. entry.owner \in Req
  BY EntryShape DEF Live
<1>2. QED
  BY <1>1 DEF IdemTypeOK, AnswerFromRecord, Answer, Claim

\* Every step of an execution keeps the types.
LEMMA IdemTypeStep ==
    ASSUME IdemTypeOK, NEW r \in Req, ReservationStep(r), now' = now
    PROVE  IdemTypeOK'
<1> USE RuntimeAssumption, IdempotencyAssumption
<1>1. CASE IdemBegin(r)
  BY <1>1, StoreType, AnswerType DEF IdemBegin
<1>2. CASE IdemInsert(r)
  <2>1. CASE entry = NoEntry
    BY <1>2, <2>1, StoreType DEF IdemInsert
  <2>2. CASE entry # NoEntry
    BY <1>2, <2>2 DEF IdemInsert, IdemTypeOK, Answer, Claim
  <2>3. QED
    BY <2>1, <2>2
<1>3. CASE IdemSelect(r)
  <2>1. CASE entry = NoEntry
    BY <1>3, <2>1 DEF IdemSelect, IdemTypeOK, Answer, Claim
  <2>2. CASE entry # NoEntry
    BY <1>3, <2>2, StoreType, AnswerType DEF IdemSelect
  <2>3. QED
    BY <2>1, <2>2
<1>4. CASE IdemUpdate(r)
  <2>1. CASE entry = NoEntry
    BY <1>4, <2>1 DEF IdemUpdate, IdemTypeOK, Answer, Claim
  <2>2. CASE entry # NoEntry
    BY <1>4, <2>2, StoreType DEF IdemUpdate
  <2>3. QED
    BY <2>1, <2>2
<1>5. CASE IdemComplete(r)
  <2>1. CASE Holds(r)
    <3>1. entry \in Entry /\ entry' = [state |-> "completed", owner |-> r, expiresAt |-> now + IdemTtl]
      BY <1>5, <2>1, EntryShape DEF IdemComplete, Holds
    <3>2. entry' \in Entry
      BY <3>1 DEF Entry, IdemTypeOK
    <3>3. claim' \in [Req -> Claim] /\ UNCHANGED <<replayOf, ousted>>
      BY <1>5, <2>1 DEF IdemComplete, IdemTypeOK, Answer, Claim
    <3>4. QED
      BY <3>2, <3>3 DEF IdemTypeOK
  <2>2. CASE ~Holds(r)
    BY <1>5, <2>2 DEF IdemComplete, IdemTypeOK, Answer, Claim
  <2>3. QED
    BY <2>1, <2>2
<1>6. CASE IdemFail(r)
  BY <1>6 DEF IdemFail, IdemTypeOK, Answer, Claim
<1>7. ASSUME NEW t0 \in 0..now, IdemRenew(r, t0 + IdemTtl)
      PROVE  IdemTypeOK'
  <2>1. t0 + IdemTtl \in Nat
    BY DEF IdemTypeOK
  <2>2. CASE Holds(r)
    <3>1. entry \in Entry /\ entry' = [entry EXCEPT !.expiresAt = t0 + IdemTtl]
      BY <1>7, <2>2, EntryShape DEF IdemRenew, Holds
    <3>2. entry' \in Entry
      BY <2>1, <3>1 DEF Entry
    <3>3. QED
      BY <1>7, <3>2 DEF IdemRenew, IdemTypeOK
  <2>3. CASE ~Holds(r)
    BY <1>7, <2>3 DEF IdemRenew, IdemTypeOK
  <2>4. QED
    BY <2>2, <2>3
<1>8. QED
  BY <1>1, <1>2, <1>3, <1>4, <1>5, <1>6, <1>7 DEF ReservationStep

LEMMA IdemTypeTick == IdemTypeOK /\ IdemTick => IdemTypeOK'
  BY RuntimeAssumption DEF IdemTypeOK, IdemTick, Advance, idemVars

\* The record, the answers and the history sets always have their types.
THEOREM IdemTypeCorrect == IdemSpec => []IdemTypeOK
<1>1. IdemTypeOK /\ [IdemNext]_<<now, idemVars>> => IdemTypeOK'
  <2> SUFFICES ASSUME IdemTypeOK, [IdemNext]_<<now, idemVars>>
               PROVE  IdemTypeOK'
    OBVIOUS
  <2>1. CASE IdemTick
    BY <2>1, IdemTypeTick
  <2>2. ASSUME NEW r \in Req, ReservationStep(r), UNCHANGED now
        PROVE  IdemTypeOK'
    BY <2>2, IdemTypeStep
  <2>3. CASE UNCHANGED <<now, idemVars>>
    BY <2>3 DEF IdemTypeOK, idemVars
  <2>4. QED
    BY <2>1, <2>2, <2>3 DEF IdemNext
<1>2. QED
  BY <1>1, IdemTypeInit, PTL DEF IdemSpec, IdemStart
------------------------------------------------------------------------------
(* The inductive invariant.                                                *)

LEMMA IdemInvInit == IdemInit /\ now = 0 => IdemInv
  BY IdemTypeInit, RuntimeAssumption
  DEF IdemInv, IdemInit, BeginIsAtomic, CompletedByOwner, ReplayIsFaithful, NoEntry

\* The answer to an execution that had none is the only one to change.
LEMMA OneAnswer ==
    ASSUME IdemTypeOK, NEW r \in Req, NEW a, Answer(r, a)
    PROVE  claim'[r] = a /\ \A q \in Req \ {r} : claim'[q] = claim[q]
  BY DEF IdemTypeOK, Answer

\* A fresh record disturbs neither what was completed nor what was replayed.
LEMMA StoreKeeps ==
    ASSUME IdemInv, NEW r \in Req, claim[r] \notin {"replayed", "completed"}, Store(r)
    PROVE  CompletedByOwner' /\ ReplayIsFaithful'
<1>1. claim'[r] = "started" /\ \A q \in Req \ {r} : claim'[q] = claim[q]
  BY OneAnswer DEF Store, IdemInv
<1>2. entry'.state = "inflight" /\ replayOf' = replayOf
  BY DEF Store
<1>3. CompletedByOwner'
  BY <1>2 DEF CompletedByOwner
<1>4. ReplayIsFaithful'
  BY <1>1, <1>2 DEF ReplayIsFaithful, IdemInv
<1>5. QED
  BY <1>3, <1>4

\* Nothing but the answer to one execution without a response changes.
LEMMA OtherAnswerKeeps ==
    ASSUME IdemInv, NEW r \in Req, claim[r] \notin {"replayed", "completed"},
           NEW a \in Claim \ {"replayed"}, Answer(r, a), UNCHANGED <<entry, replayOf>>
    PROVE  CompletedByOwner' /\ ReplayIsFaithful'
<1>1. claim'[r] = a /\ \A q \in Req \ {r} : claim'[q] = claim[q]
  BY OneAnswer DEF IdemInv
<1>2. CompletedByOwner'
  BY <1>1, EntryShape DEF CompletedByOwner, IdemInv
<1>3. ReplayIsFaithful'
  BY <1>1 DEF ReplayIsFaithful, IdemInv
<1>4. QED
  BY <1>2, <1>3

\* Whoever is answered from a record in force is told the truth about it.
LEMMA AnswerKeeps ==
    ASSUME IdemInv, NEW r \in Req, claim[r] \notin {"replayed", "completed"},
           Live, AnswerFromRecord(r)
    PROVE  CompletedByOwner' /\ ReplayIsFaithful'
<1>1. entry.owner \in Req /\ entry.state \in {"inflight", "completed"} /\ entry' = entry
  BY EntryShape DEF Live, IdemInv, AnswerFromRecord
<1>2. CASE PayloadOf[entry.owner] # PayloadOf[r] \/ entry.state # "completed"
  BY <1>1, <1>2, OtherAnswerKeeps DEF AnswerFromRecord, Claim
<1>3. CASE PayloadOf[entry.owner] = PayloadOf[r] /\ entry.state = "completed"
  <2>1. claim[entry.owner] = "completed" /\ entry.owner # r
    BY <1>3 DEF IdemInv, CompletedByOwner
  <2>2. claim'[r] = "replayed" /\ \A q \in Req \ {r} : claim'[q] = claim[q]
    BY <1>3, OneAnswer DEF AnswerFromRecord, IdemInv
  <2>3. replayOf' = [replayOf EXCEPT ![r] = entry.owner] /\ replayOf \in [Req -> Req \cup {Nobody}]
    BY <1>3 DEF AnswerFromRecord, IdemInv, IdemTypeOK
  <2>4. CompletedByOwner'
    BY <1>1, <2>1, <2>2 DEF CompletedByOwner
  <2>5. ASSUME NEW q \in Req, claim'[q] = "replayed"
        PROVE  /\ replayOf'[q] \in Req \ {q}
               /\ PayloadOf[replayOf'[q]] = PayloadOf[q]
               /\ claim'[replayOf'[q]] = "completed"
    <3>1. CASE q = r
      BY <1>1, <1>3, <2>1, <2>2, <2>3, <3>1
    <3>2. CASE q # r
      <4>1. replayOf'[q] = replayOf[q] /\ claim[q] = "replayed"
        BY <2>2, <2>3, <2>5, <3>2
      <4>2. /\ replayOf[q] \in Req \ {q} /\ PayloadOf[replayOf[q]] = PayloadOf[q]
            /\ claim[replayOf[q]] = "completed"
        BY <4>1 DEF IdemInv, ReplayIsFaithful
      <4>3. QED
        BY <2>2, <4>1, <4>2
    <3>3. QED
      BY <3>1, <3>2
  <2>6. QED
    BY <2>4, <2>5 DEF ReplayIsFaithful
<1>4. QED
  BY <1>1, <1>2, <1>3

LEMMA IdemInvStep ==
    ASSUME IdemInv, NEW r \in Req, ReservationStep(r), now' = now
    PROVE  IdemInv'
<1>1. IdemTypeOK /\ IdemTypeOK'
  BY IdemTypeStep DEF IdemInv
<1>2. BeginIsAtomic'
  <2> USE <1>1 DEF IdemTypeOK, BeginIsAtomic, IdemInv
  <2>1. CASE IdemBegin(r)
    BY <2>1 DEF IdemBegin, Store, AnswerFromRecord, Answer
  <2>2. CASE IdemInsert(r) \/ IdemSelect(r) \/ IdemUpdate(r)
    BY <2>2 DEF IdemInsert, IdemSelect, IdemUpdate
  <2>3. CASE IdemComplete(r) \/ IdemFail(r)
    BY <2>3 DEF IdemComplete, IdemFail, Answer
  <2>4. ASSUME NEW t0 \in 0..now, IdemRenew(r, t0 + IdemTtl)
        PROVE  BeginIsAtomic'
    BY <2>4 DEF IdemRenew
  <2>5. QED
    BY <2>1, <2>2, <2>3, <2>4 DEF ReservationStep
<1>3. CompletedByOwner' /\ ReplayIsFaithful'
  <2>1. CASE IdemBegin(r)
    BY <2>1, StoreKeeps, AnswerKeeps DEF IdemBegin
  <2>2. CASE IdemInsert(r)
    <3>1. CASE entry = NoEntry
      BY <2>2, <3>1, StoreKeeps DEF IdemInsert
    <3>2. CASE entry # NoEntry
      BY <2>2, <3>2, OtherAnswerKeeps DEF IdemInsert, Claim
    <3>3. QED
      BY <3>1, <3>2
  <2>3. CASE IdemSelect(r)
    <3>1. CASE entry = NoEntry
      BY <2>3, <3>1, OtherAnswerKeeps DEF IdemSelect, Claim
    <3>2. CASE entry # NoEntry
      BY <2>3, <3>2, StoreKeeps, AnswerKeeps DEF IdemSelect
    <3>3. QED
      BY <3>1, <3>2
  <2>4. CASE IdemUpdate(r)
    <3>1. CASE entry = NoEntry
      BY <2>4, <3>1, OtherAnswerKeeps DEF IdemUpdate, Claim
    <3>2. CASE entry # NoEntry
      BY <2>4, <3>2, StoreKeeps DEF IdemUpdate
    <3>3. QED
      BY <3>1, <3>2
  <2>5. CASE IdemComplete(r)
    <3>1. CASE Holds(r)
      <4>1. entry \in Entry /\ entry.owner = r
        BY <1>1, <3>1, EntryShape DEF Holds
      <4>2. entry'.owner = r /\ replayOf' = replayOf
        BY <2>5, <3>1, <4>1 DEF IdemComplete, Entry
      <4>3. claim'[r] = "completed" /\ \A q \in Req \ {r} : claim'[q] = claim[q]
        BY <1>1, <2>5, <3>1, OneAnswer DEF IdemComplete
      <4>4. claim[r] = "started"
        BY <2>5 DEF IdemComplete
      <4>5. QED
        BY <4>2, <4>3, <4>4 DEF CompletedByOwner, ReplayIsFaithful, IdemInv
    <3>2. CASE ~Holds(r)
      BY <2>5, <3>2, OtherAnswerKeeps DEF IdemComplete, Claim
    <3>3. QED
      BY <3>1, <3>2
  <2>6. CASE IdemFail(r)
    <3>1. claim'[r] = "failed" /\ \A q \in Req \ {r} : claim'[q] = claim[q]
      BY <1>1, <2>6, OneAnswer DEF IdemFail
    <3>2. claim[r] \in {"started", "conflict", "inflight", "lost"} /\ replayOf' = replayOf
      BY <2>6 DEF IdemFail
    <3>3. entry' = NoEntry \/ entry' = entry
      BY <2>6 DEF IdemFail
    <3>4. CompletedByOwner'
      BY <1>1, <3>1, <3>2, <3>3, EntryShape DEF CompletedByOwner, IdemInv, NoEntry
    <3>5. ReplayIsFaithful'
      BY <3>1, <3>2 DEF ReplayIsFaithful, IdemInv
    <3>6. QED
      BY <3>4, <3>5
  <2>7. ASSUME NEW t0 \in 0..now, IdemRenew(r, t0 + IdemTtl)
        PROVE  CompletedByOwner' /\ ReplayIsFaithful'
    <3>1. entry'.state = entry.state /\ entry'.owner = entry.owner
      BY <1>1, <2>7, EntryShape DEF IdemRenew, Holds, Entry
    <3>2. UNCHANGED <<claim, replayOf>>
      BY <2>7 DEF IdemRenew
    <3>3. QED
      BY <3>1, <3>2 DEF CompletedByOwner, ReplayIsFaithful, IdemInv
  <2>8. QED
    BY <2>1, <2>2, <2>3, <2>4, <2>5, <2>6, <2>7 DEF ReservationStep
<1>4. QED
  BY <1>1, <1>2, <1>3 DEF IdemInv

LEMMA IdemInvNext == IdemInv /\ [IdemNext]_<<now, idemVars>> => IdemInv'
<1> SUFFICES ASSUME IdemInv, [IdemNext]_<<now, idemVars>>
             PROVE  IdemInv'
  OBVIOUS
<1>1. CASE IdemTick
  BY <1>1, IdemTypeTick
  DEF IdemInv, IdemTick, idemVars, BeginIsAtomic, CompletedByOwner, ReplayIsFaithful
<1>2. ASSUME NEW r \in Req, ReservationStep(r), UNCHANGED now
      PROVE  IdemInv'
  BY <1>2, IdemInvStep
<1>3. CASE UNCHANGED <<now, idemVars>>
  BY <1>3 DEF IdemInv, idemVars, IdemTypeOK, BeginIsAtomic, CompletedByOwner, ReplayIsFaithful
<1>4. QED
  BY <1>1, <1>2, <1>3 DEF IdemNext

\* A replay is always the stored response of an execution that completed under
\* the same payload, for the atomic stores and for PostgreSQL.
THEOREM ReplaysAreFaithful == IdemSpec => []ReplayIsFaithful
<1>1. IdemInv => ReplayIsFaithful
  BY DEF IdemInv
<1>2. QED
  BY <1>1, IdemInvInit, IdemInvNext, PTL DEF IdemSpec, IdemStart

------------------------------------------------------------------------------
(* Ownership, for the stores whose begin() is one step.                    *)

LEMMA OwnStep ==
    ASSUME ~SplitBegin, IdemInv, FirstWriterOwns, NEW r \in Req, ReservationStep(r)
    PROVE  FirstWriterOwns'
<1>1. IdemTypeOK
  BY DEF IdemInv
<1>2. SUFFICES ASSUME NEW q \in Req, claim'[q] = "started", q \notin ousted'
               PROVE  entry'.state = "inflight" /\ entry'.owner = q
  BY DEF FirstWriterOwns
<1>3. claim[r] \notin {"selecting", "updating"}
  BY DEF IdemInv, BeginIsAtomic
<1>4. CASE IdemBegin(r)
  <2>1. CASE Live
    <3>1. claim'[r] # "started" /\ \A p \in Req \ {r} : claim'[p] = claim[p]
      BY <1>1, <1>4, <2>1 DEF IdemBegin, AnswerFromRecord, Answer, IdemTypeOK
    <3>2. entry' = entry /\ ousted' = ousted
      BY <1>4, <2>1 DEF IdemBegin, AnswerFromRecord
    <3>3. QED
      BY <1>2, <3>1, <3>2 DEF FirstWriterOwns
  <2>2. CASE ~Live
    <3>1. Store(r)
      BY <1>4, <2>2 DEF IdemBegin
    <3>2. CASE q = r
      BY <3>1, <3>2 DEF Store
    <3>3. CASE q # r
      <4>1. claim[q] = "started"
        BY <1>1, <1>2, <3>1, <3>3, OneAnswer DEF Store
      <4>2. q \notin ousted /\ (entry # NoEntry => entry.owner # q)
        BY <1>2, <3>1 DEF Store
      <4>3. QED
        BY <1>1, <4>1, <4>2, EntryShape DEF FirstWriterOwns
    <3>4. QED
      BY <3>2, <3>3
  <2>3. QED
    BY <2>1, <2>2
<1>5. CASE IdemInsert(r) \/ IdemSelect(r) \/ IdemUpdate(r)
  BY <1>3, <1>5 DEF IdemInsert, IdemSelect, IdemUpdate
<1>6. CASE IdemComplete(r)
  <2>1. claim'[r] # "started" /\ \A p \in Req \ {r} : claim'[p] = claim[p]
    BY <1>1, <1>6 DEF IdemComplete, Answer, IdemTypeOK
  <2>2. q # r /\ entry.state = "inflight" /\ entry.owner = q
    BY <1>2, <1>6, <2>1 DEF FirstWriterOwns, IdemComplete
  <2>3. entry' = entry
    BY <1>6, <2>2 DEF IdemComplete, Holds
  <2>4. QED
    BY <2>2, <2>3
<1>7. CASE IdemFail(r)
  <2>1. claim'[r] # "started" /\ \A p \in Req \ {r} : claim'[p] = claim[p]
    BY <1>1, <1>7 DEF IdemFail, Answer, IdemTypeOK
  <2>2. q # r /\ entry.state = "inflight" /\ entry.owner = q
    BY <1>2, <1>7, <2>1 DEF FirstWriterOwns, IdemFail
  <2>3. QED
    BY <1>7, <2>2 DEF IdemFail
<1>8. ASSUME NEW t0 \in 0..now, IdemRenew(r, t0 + IdemTtl)
      PROVE  entry'.state = "inflight" /\ entry'.owner = q
  <2>1. entry.state = "inflight" /\ entry.owner = q
    BY <1>2, <1>8 DEF IdemRenew, FirstWriterOwns
  <2>2. QED
    BY <1>1, <1>8, <2>1, EntryShape DEF IdemRenew, Entry
<1>9. QED
  BY <1>4, <1>5, <1>6, <1>7, <1>8 DEF ReservationStep

\* First-writer ownership: an execution told "started" owns the inflight record
\* until it completes or fails it, or until the record expired and was replaced.
THEOREM StartedMeansOwner ==
    ASSUME ~SplitBegin
    PROVE  IdemSpec => []FirstWriterOwns
<1>1. IdemInit => FirstWriterOwns
  BY DEF IdemInit, FirstWriterOwns
<1>2. IdemInv /\ FirstWriterOwns /\ [IdemNext]_<<now, idemVars>> => FirstWriterOwns'
  <2> SUFFICES ASSUME IdemInv, FirstWriterOwns, [IdemNext]_<<now, idemVars>>
               PROVE  FirstWriterOwns'
    OBVIOUS
  <2>1. CASE UNCHANGED idemVars
    BY <2>1 DEF FirstWriterOwns, idemVars
  <2>2. ASSUME NEW r \in Req, ReservationStep(r)
        PROVE  FirstWriterOwns'
    BY <2>2, OwnStep
  <2>3. QED
    BY <2>1, <2>2 DEF IdemNext, IdemTick, idemVars
<1>3. QED
  BY <1>1, <1>2, IdemInvInit, IdemInvNext, PTL DEF IdemSpec, IdemStart

\* While a record is in force, nobody but its owner removes, renews or completes
\* it, and a completed one is not touched at all.
THEOREM LiveRecordIsTheOwners ==
    ASSUME ~SplitBegin
    PROVE  IdemSpec => LiveRecordOnlyMovedByOwner
<1> DEFINE OwnMove ==
             Live /\ entry' # entry =>
                 /\ entry.state = "inflight"
                 /\ entry' = NoEntry => claim[entry.owner] # "failed" /\ claim'[entry.owner] = "failed"
                 /\ entry' # NoEntry => entry'.owner = entry.owner
                 /\ entry'.state = "completed" => claim'[entry.owner] = "completed"
<1>1. ASSUME IdemInv, NEW r \in Req, ReservationStep(r)
      PROVE  OwnMove
  <2>1. IdemTypeOK /\ claim[r] \notin {"selecting", "updating"}
    BY <1>1 DEF IdemInv, BeginIsAtomic
  <2>2. SUFFICES ASSUME Live, entry' # entry
                 PROVE  /\ entry.state = "inflight"
                        /\ entry' = NoEntry => claim[entry.owner] # "failed" /\ claim'[entry.owner] = "failed"
                        /\ entry' # NoEntry => entry'.owner = entry.owner
                        /\ entry'.state = "completed" => claim'[entry.owner] = "completed"
    OBVIOUS
  <2>3. entry \in Entry /\ entry.owner \in Req
    BY <2>1, <2>2, EntryShape DEF Live
  <2>4. ~IdemBegin(r) /\ ~IdemInsert(r) /\ ~IdemSelect(r) /\ ~IdemUpdate(r)
    BY <2>1, <2>2 DEF IdemBegin, IdemInsert, IdemSelect, IdemUpdate, AnswerFromRecord
  <2>5. CASE IdemComplete(r)
    <3>1. Holds(r) /\ entry' = [state |-> "completed", owner |-> r, expiresAt |-> now + IdemTtl]
      BY <2>2, <2>5 DEF IdemComplete
    <3>2. entry'.owner = r /\ entry.owner = r /\ entry.state = "inflight"
      BY <2>3, <3>1 DEF Holds, Entry
    <3>3. claim'[r] = "completed"
      BY <2>1, <2>5, <3>1, OneAnswer DEF IdemComplete
    <3>4. entry' # NoEntry
      BY <3>2, RuntimeAssumption DEF NoEntry
    <3>5. QED
      BY <3>2, <3>3, <3>4
  <2>6. CASE IdemFail(r)
    <3>1. entry.state = "inflight" /\ entry.owner = r /\ entry' = NoEntry
      BY <2>2, <2>6 DEF IdemFail
    <3>2. claim'[r] = "failed" /\ claim[r] # "failed"
      BY <2>1, <2>6, OneAnswer DEF IdemFail
    <3>3. QED
      BY <3>1, <3>2 DEF NoEntry
  <2>7. ASSUME NEW t0 \in 0..now, IdemRenew(r, t0 + IdemTtl)
        PROVE  /\ entry.state = "inflight"
               /\ entry' # NoEntry /\ entry'.owner = entry.owner
               /\ entry'.state # "completed"
    <3>1. Holds(r) /\ entry' = [entry EXCEPT !.expiresAt = t0 + IdemTtl]
      BY <2>2, <2>7 DEF IdemRenew
    <3>2. entry.state = "inflight" /\ entry'.owner = entry.owner /\ entry'.state = "inflight"
      BY <2>3, <3>1 DEF Holds, Entry
    <3>3. QED
      BY <2>3, <3>2, RuntimeAssumption DEF NoEntry
  <2>8. QED
    BY <1>1, <2>4, <2>5, <2>6, <2>7 DEF ReservationStep
<1>2. IdemInv /\ [IdemNext]_<<now, idemVars>> => [OwnMove]_<<now, idemVars>>
  <2> SUFFICES ASSUME IdemInv, IdemNext
               PROVE  OwnMove
    BY DEF idemVars
  <2>1. CASE IdemTick
    BY <2>1 DEF IdemTick, idemVars
  <2>2. QED
    BY <1>1, <2>1 DEF IdemNext
<1>3. QED
  BY <1>2, IdemInvInit, IdemInvNext, PTL DEF IdemSpec, IdemStart, LiveRecordOnlyMovedByOwner
==============================================================================
