---------------------------- MODULE ActionKernel ----------------------------
(***************************************************************************)
(* kernel.execute (src/kernel.ts) of one action definition: idempotency    *)
(* reservation, lease, deadline with retries, transaction, late settlement *)
(* and the effects after the commit.  Executions run in separate processes *)
(* and contend for one idempotency key and one lock key.  The foreground   *)
(* handler (pc), the application's promise (op) and the late-settlement    *)
(* observer (bg) of an execution interleave at every await.                *)
(***************************************************************************)
EXTENDS LeaseLock, IdempotencyStore

CONSTANTS
    Definitions,     \* the action definitions a behaviour may be about
    OutboxDelivery,  \* realtime.delivery = "outbox"
    Timeout,         \* timeoutMs
    LateWindow,      \* reliability.maximumLateSettlementMs
    RenewIdemEvery,  \* the reservation's renewal interval, a third of the ttl
    TelemetryFaults, \* TRUE: telemetry.actionFinished may reject
    StartBy          \* bound: a request has started by then, so its timers fit under MaxTime

\* validateActionDefinition: the ttl covers the timeout, and a fail-closed audit
\* asks for idempotency.  The stores the package ships all renew leases.
ASSUME ActionKernelAssumption ==
    /\ Definitions \subseteq [keyed : BOOLEAN, locked : BOOLEAN, failClosed : BOOLEAN,
                             attempts : Nat \ {0}]
    /\ {OutboxDelivery, TelemetryFaults} \subseteq BOOLEAN
    /\ {Timeout, LateWindow, RenewIdemEvery} \subseteq Nat \ {0}
    /\ StartBy \in Nat
    /\ \A d \in Definitions :
         /\ d.keyed => Timeout <= IdemTtl
         /\ d.failClosed => d.keyed
    /\ Renewable

VARIABLES
    def,             \* the action definition the executions are of
    pc,              \* the foreground handler
    op,              \* the promise of the current attempt
    bg,              \* the late-settlement observer
    attempt,         \* attempts started
    timer,           \* the timer of the race the execution is in
    idemTimer,       \* next tick of the reservation's renewal interval, 0 when cleared
    idemRenewing,    \* idempotencyRenewalRunning: the expiry the call carries, else 0
    reservationLost, \* idempotencyOwnershipLost
    enqueued,        \* transactionalOutboxEnqueued
    auditWritten,    \* successAuditWritten
    resp,            \* the answer to the caller
    committed,       \* executions whose transaction committed
    outboxRows,      \* committed outbox rows of each execution
    successAudits,   \* success rows in the audit log
    forfeited        \* executions that gave the reservation up with work done or running

envVars == <<def, now, lockVars, idemVars>>
raceVars == <<op, attempt, timer>>
renewVars == <<idemTimer, idemRenewing, reservationLost>>
flagVars == <<enqueued, auditWritten>>
effectVars == <<committed, outboxRows, successAudits, forfeited>>
vars == <<envVars, pc, bg, raceVars, renewVars, flagVars, resp, effectVars>>

\* The action is idempotent and the requests carry a key; it has a concurrency
\* policy; it is in audit.failClosedActions; retry.attempts.
UseKey == def.keyed
UseLock == def.locked
FailClosedAudit == def.failClosed
Attempts == def.attempts

Pc == {"idle", "begin", "preflight", "attempt", "running", "complete", "publish",
       "failing", "release", "done", "dead"}
Op == {"none", "work", "staged", "settling", "fulfilled", "rejected", "dead"}
Bg == {"none", "watching", "complete", "publish", "fail", "release", "done", "dead"}
Resp == {"none", "ok", "replay", "error", "timeout", "aborted"}

KernelTypeOK ==
    /\ def \in Definitions
    /\ pc \in [Req -> Pc]
    /\ op \in [Req -> Op]
    /\ bg \in [Req -> Bg]
    /\ attempt \in [Req -> 0..Attempts]
    /\ timer \in [Req -> Nat]
    /\ idemTimer \in [Req -> Nat]
    /\ idemRenewing \in [Req -> Nat]
    /\ reservationLost \in [Req -> BOOLEAN]
    /\ enqueued \in [Req -> BOOLEAN]
    /\ auditWritten \in [Req -> BOOLEAN]
    /\ resp \in [Req -> Resp]
    /\ committed \subseteq Req
    /\ outboxRows \in [Req -> Nat]
    /\ successAudits \in [Req -> Nat]
    /\ forfeited \subseteq Req

TypeOK == LockTypeOK /\ IdemTypeOK /\ KernelTypeOK

Init ==
    /\ def \in Definitions
    /\ now = 0
    /\ LockInit
    /\ IdemInit
    /\ pc = [r \in Req |-> "idle"]
    /\ op = [r \in Req |-> "none"]
    /\ bg = [r \in Req |-> "none"]
    /\ attempt = [r \in Req |-> 0]
    /\ timer = [r \in Req |-> 0]
    /\ idemTimer = [r \in Req |-> 0]
    /\ idemRenewing = [r \in Req |-> 0]
    /\ reservationLost = [r \in Req |-> FALSE]
    /\ enqueued = [r \in Req |-> FALSE]
    /\ auditWritten = [r \in Req |-> FALSE]
    /\ resp = [r \in Req |-> "none"]
    /\ committed = {}
    /\ outboxRows = [r \in Req |-> 0]
    /\ successAudits = [r \in Req |-> 0]
    /\ forfeited = {}

------------------------------------------------------------------------------
\* The promise of the current attempt has not settled.
Running(r) == op[r] \in {"work", "staged", "settling"}

Goto(r, p) == pc' = [pc EXCEPT ![r] = p]
Observe(r, b) == bg' = [bg EXCEPT ![r] = b]
SettleOp(r, o) == op' = [op EXCEPT ![r] = o]
Respond(r, a) == resp' = [resp EXCEPT ![r] = a]
StopRenewal(r) == idemTimer' = [idemTimer EXCEPT ![r] = 0]
ClearTimer(r) == timer' = [timer EXCEPT ![r] = 0]
Raise(flag, r) == [flag EXCEPT ![r] = TRUE]

------------------------------------------------------------------------------
(* Admission.                                                              *)

\* What comes after the reservation, and after the outcome is known.
Prepare == IF UseLock THEN "preflight" ELSE "attempt"
Record == IF UseKey THEN "complete" ELSE "publish"
Leave(r) == IF phase[r] = "held" THEN "release" ELSE "done"

\* Session, origin, CSRF, input, policies, rate limit and authorization pass.
Arrive(r) ==
    /\ pc[r] = "idle"
    /\ now <= StartBy
    /\ Goto(r, IF UseKey THEN "begin" ELSE Prepare)
    /\ UNCHANGED <<envVars, bg, raceVars, renewVars, flagVars, resp, effectVars>>

\* One of them throws, before the request owns anything.
Deny(r) ==
    /\ pc[r] = "idle"
    /\ now <= StartBy
    /\ Goto(r, "done")
    /\ Respond(r, "error")
    /\ UNCHANGED <<envVars, bg, raceVars, renewVars, flagVars, effectVars>>

\* idempotency.begin: run, replay, or throw.  A call that rejects although it
\* reached the store leaves its record behind for the catch block to delete.
Begin(r) ==
    /\ pc[r] = "begin"
    /\ IdemBegin(r) \/ IdemInsert(r) \/ IdemSelect(r) \/ IdemUpdate(r)
    /\ \/ /\ claim'[r] \in {"selecting", "updating"}
          /\ UNCHANGED <<pc, resp, idemTimer>>
       \/ /\ claim'[r] = "started"
          /\ Goto(r, Prepare)
          /\ idemTimer' = [idemTimer EXCEPT ![r] = now + RenewIdemEvery]
          /\ UNCHANGED resp
       \/ /\ claim'[r] = "replayed"
          /\ Goto(r, "done")
          /\ Respond(r, "replay")
          /\ UNCHANGED idemTimer
       \/ /\ claim'[r] \in {"conflict", "inflight"} \/ (StoreFaults /\ claim'[r] = "started")
          /\ Goto(r, "failing")
          /\ UNCHANGED <<resp, idemTimer>>
    /\ UNCHANGED <<def, now, lockVars, bg, raceVars, idemRenewing, reservationLost,
                   flagVars, effectVars>>

\* The optimistic revision check throws before the lock is asked for, the
\* request's signal aborted before the next attempt, or a begin() never reached
\* the store.
GiveUpEarly(r) ==
    /\ \/ pc[r] = "begin" /\ StoreFaults
       \/ pc[r] = "preflight" /\ phase[r] = "idle"
       \/ pc[r] = "attempt"
    /\ Goto(r, "failing")
    /\ ClearTimer(r)
    /\ UNCHANGED <<envVars, bg, op, attempt, renewVars, flagVars, resp, effectVars>>

\* lockManager.acquire: lockUnavailable goes to the catch block.
AcquireLock(r) ==
    /\ pc[r] = "preflight"
    /\ LockDraw(r) \/ LockGrant(r) \/ LockRefuse(r) \/ LockReply(r) \/ LockAcquireThrows(r)
    /\ CASE phase'[r] = "held" -> Goto(r, "attempt")
         [] phase'[r] = "refused" -> Goto(r, "failing")
         [] OTHER -> UNCHANGED pc
    /\ UNCHANGED <<def, now, idemVars, bg, raceVars, renewVars, flagVars, resp, effectVars>>

------------------------------------------------------------------------------
(* The promise of an attempt: executeWithinTransaction in a transaction.   *)

\* execute() resolved and both ownership checks pass; the outbox row and the
\* fail-closed audit row are written inside the transaction.
Stage(r) ==
    /\ op[r] = "work"
    /\ UseLock => Believes(r)
    /\ ~reservationLost[r]
    /\ SettleOp(r, "staged")
    /\ enqueued' = IF OutboxDelivery THEN Raise(enqueued, r) ELSE enqueued
    /\ UNCHANGED <<envVars, pc, bg, attempt, timer, renewVars, auditWritten, resp, effectVars>>

\* COMMIT, with everything staged, and the callback that notes the audit row.
Commit(r) ==
    /\ op[r] = "staged"
    /\ SettleOp(r, "settling")
    /\ committed' = committed \cup {r}
    /\ outboxRows' = IF OutboxDelivery THEN [outboxRows EXCEPT ![r] = @ + 1] ELSE outboxRows
    /\ IF FailClosedAudit
       THEN /\ successAudits' = [successAudits EXCEPT ![r] = @ + 1]
            /\ auditWritten' = Raise(auditWritten, r)
       ELSE UNCHANGED <<successAudits, auditWritten>>
    /\ UNCHANGED <<envVars, pc, bg, attempt, timer, renewVars, enqueued, resp, forfeited>>

\* The afterCommit hooks end, their failures only reported.  Whoever awaits the
\* promise goes on: the race in the foreground, or the late observer.
Resolve(r) ==
    /\ op[r] = "settling"
    /\ SettleOp(r, "fulfilled")
    /\ IF pc[r] = "running" THEN Goto(r, Record) ELSE UNCHANGED pc
    /\ IF bg[r] = "watching" THEN Observe(r, Record) ELSE UNCHANGED bg
    /\ ClearTimer(r)
    /\ UNCHANGED <<envVars, attempt, renewVars, flagVars, resp, effectVars>>

\* The transaction rolls back: assertOwned() or the reservation check throws, or
\* the application, a hook, the outbox, the audit store or the database rejects.
Reject(r) ==
    /\ op[r] \in {"work", "staged"}
    /\ SettleOp(r, "rejected")
    /\ (op[r] = "work" /\ LockAssertFails(r)) \/ UNCHANGED lockVars
    /\ UNCHANGED <<def, now, idemVars, attempt, renewVars, flagVars, effectVars>>

------------------------------------------------------------------------------
(* runWithDeadline.                                                        *)

\* The deadline covers all attempts; the first one sets it.
StartAttempt(r) ==
    /\ pc[r] = "attempt"
    /\ attempt[r] > 0 => now < timer[r]
    /\ Goto(r, "running")
    /\ SettleOp(r, "work")
    /\ attempt' = [attempt EXCEPT ![r] = @ + 1]
    /\ timer' = IF attempt[r] = 0 THEN [timer EXCEPT ![r] = now + Timeout] ELSE timer
    /\ UNCHANGED <<envVars, bg, renewVars, flagVars, resp, effectVars>>

\* Not retryable, or no attempt left: the error leaves the loop.
RejectFinally(r) ==
    /\ pc[r] = "running"
    /\ Reject(r)
    /\ Goto(r, "failing")
    /\ ClearTimer(r)
    /\ UNCHANGED <<bg, resp>>

\* Retryable, with an attempt and time left: back off and go round.
RejectAndRetry(r) ==
    /\ pc[r] = "running"
    /\ attempt[r] < Attempts
    /\ now < timer[r]
    /\ Reject(r)
    /\ Goto(r, "attempt")
    /\ UNCHANGED <<bg, timer, resp>>

\* Nobody but the observer, or nobody at all, waits for the promise.
RejectLate(r) ==
    /\ pc[r] # "running"
    /\ Reject(r)
    /\ IF bg[r] = "watching" THEN Observe(r, "fail") ELSE UNCHANGED bg
    /\ ClearTimer(r)
    /\ UNCHANGED <<pc, resp>>

\* The catch block hands the settlement to the observer, which keeps the
\* reservation and the lease; the caller is answered without waiting for it.
HandOver(r, a, b, deadline) ==
    /\ Goto(r, "done")
    /\ Respond(r, a)
    /\ Observe(r, b)
    /\ timer' = [timer EXCEPT ![r] = deadline]
    /\ UNCHANGED <<def, now, idemVars, attempt, renewVars, flagVars, effectVars>>

\* Slips: the catch block stops the reservation's renewal, the finally block
\* releases the lock, and the handler waits for the promise after all.
DeadlineStopsRenewal(r) ==
    /\ pc[r] = "running"
    /\ now >= timer[r]
    /\ Goto(r, "done")
    /\ Respond(r, "timeout")
    /\ Observe(r, "watching")
    /\ StopRenewal(r)
    /\ timer' = [timer EXCEPT ![r] = now + LateWindow]
    /\ UNCHANGED <<def, now, lockVars, idemVars, op, attempt, idemRenewing, reservationLost,
                   flagVars, effectVars>>

DeadlineReleasesLock(r) ==
    /\ pc[r] = "running"
    /\ now >= timer[r]
    /\ Goto(r, "release")
    /\ Respond(r, "timeout")
    /\ Observe(r, "watching")
    /\ timer' = [timer EXCEPT ![r] = now + LateWindow]
    /\ UNCHANGED <<def, now, lockVars, idemVars, op, attempt, renewVars, flagVars, effectVars>>

DeadlineAwaitsPromise(r) ==
    /\ pc[r] = "running"
    /\ now >= timer[r]
    /\ ~Running(r)
    /\ HandOver(r, "timeout", "watching", now + LateWindow)
    /\ UNCHANGED <<lockVars, op>>

\* The deadline timer wins the race.
DeadlineFires(r) ==
    /\ pc[r] = "running"
    /\ now >= timer[r]
    /\ HandOver(r, "timeout", "watching", now + LateWindow)
    /\ UNCHANGED <<lockVars, op>>

\* The time is up when a retryable attempt has failed, or after the backoff: the
\* settlement handed over is already rejected.
DeadlineBetweenAttempts(r) ==
    /\ now >= timer[r]
    /\ \/ /\ pc[r] = "attempt" /\ attempt[r] > 0
          /\ UNCHANGED <<lockVars, op>>
       \/ /\ pc[r] = "running" /\ attempt[r] < Attempts
          /\ Reject(r)
    /\ HandOver(r, "timeout", "fail", 0)

\* Slip: an abort is an error like any other.
AbortFailsOutright(r) ==
    /\ pc[r] = "running"
    /\ Goto(r, "failing")
    /\ ClearTimer(r)
    /\ UNCHANGED <<envVars, bg, op, attempt, renewVars, flagVars, resp, effectVars>>

\* The caller goes away while an attempt is running.
ClientAborts(r) ==
    /\ pc[r] = "running"
    /\ HandOver(r, "aborted", "watching", now + LateWindow)
    /\ UNCHANGED <<lockVars, op>>

------------------------------------------------------------------------------
(* finalizeCommittedResult, in the foreground and in the observer.         *)

\* Slip: the FALSE of complete() is ignored.
CompleteUnread(r, won, lost) ==
    /\ IdemComplete(r)
    /\ won
    /\ StopRenewal(r)
    /\ UNCHANGED <<def, now, lockVars, raceVars, idemRenewing, reservationLost,
                   flagVars, resp, effectVars>>

\* complete() is a compare-and-set: FALSE throws.  A rejecting call may or may
\* not have reached the store.
CompleteRecord(r, won, lost) ==
    /\ IdemComplete(r) \/ (StoreFaults /\ UNCHANGED idemVars)
    /\ \/ claim'[r] = "completed" /\ won /\ StopRenewal(r)
       \/ (claim'[r] # "completed" \/ StoreFaults) /\ lost /\ UNCHANGED idemTimer
    /\ UNCHANGED <<def, now, lockVars, raceVars, idemRenewing, reservationLost,
                   flagVars, resp, effectVars>>

Complete(r) ==
    /\ pc[r] = "complete"
    /\ CompleteRecord(r, Goto(r, "publish"), Goto(r, "failing"))
    /\ UNCHANGED bg

\* Slip: successAuditWritten is not looked at.
AuditAgain(r) ==
    /\ UNCHANGED outboxRows
    /\ successAudits' = [successAudits EXCEPT ![r] = @ + 1]
    /\ UNCHANGED <<envVars, raceVars, renewVars, flagVars, committed, forfeited>>

\* Cache tags, realtime and the success audit: each failure becomes a
\* post-commit issue and nothing else.
PublishEffects(r) ==
    /\ \/ UNCHANGED outboxRows
       \/ /\ OutboxDelivery /\ ~enqueued[r]
          /\ outboxRows' = [outboxRows EXCEPT ![r] = @ + 1]
    /\ \/ UNCHANGED successAudits
       \/ /\ ~auditWritten[r]
          /\ successAudits' = [successAudits EXCEPT ![r] = @ + 1]
    /\ UNCHANGED <<envVars, raceVars, renewVars, flagVars, committed, forfeited>>

\* telemetry.actionFinished is awaited inside the try block: its rejection goes
\* to the catch block like any other.
Publish(r) ==
    /\ pc[r] = "publish"
    /\ PublishEffects(r)
    /\ \/ Goto(r, Leave(r)) /\ Respond(r, "ok")
       \/ TelemetryFaults /\ Goto(r, "failing") /\ UNCHANGED resp
    /\ UNCHANGED bg

------------------------------------------------------------------------------
(* The catch block, the finally block and the observer.                    *)

\* idempotency.fail, whose rejection is swallowed.
GiveUpReservation(r) ==
    \/ /\ IdemFail(r)
       /\ forfeited' = IF entry.owner = r /\ (Running(r) \/ op[r] = "fulfilled")
                       THEN forfeited \cup {r} ELSE forfeited
    \/ /\ StoreFaults \/ claim[r] \notin {"started", "conflict", "inflight", "lost"}
       /\ UNCHANGED <<idemVars, forfeited>>

\* Then the failed or denied audit row and the telemetry, both swallowed.
Fail(r) ==
    /\ pc[r] = "failing"
    /\ GiveUpReservation(r)
    /\ StopRenewal(r)
    /\ Goto(r, Leave(r))
    /\ Respond(r, "error")
    /\ UNCHANGED <<def, now, lockVars, bg, raceVars, idemRenewing, reservationLost, flagVars,
                   committed, outboxRows, successAudits>>

ReleaseLock(r) == IF phase[r] = "held" THEN LockRelease(r) ELSE UNCHANGED lockVars

Finish(r) ==
    /\ pc[r] = "release"
    /\ ReleaseLock(r)
    /\ Goto(r, "done")
    /\ UNCHANGED <<def, now, idemVars, bg, raceVars, renewVars, flagVars, resp, effectVars>>

\* Slip: the observer waits for the promise without a bound.
WindowWithoutEnd(r) ==
    /\ bg[r] = "watching"
    /\ now >= timer[r]
    /\ ~Running(r)
    /\ Observe(r, "fail")
    /\ ClearTimer(r)
    /\ UNCHANGED <<envVars, pc, op, attempt, renewVars, flagVars, resp, effectVars>>

\* waitForLateSettlement gives up; the promise runs on.
WindowExpires(r) ==
    /\ bg[r] = "watching"
    /\ now >= timer[r]
    /\ Observe(r, "fail")
    /\ ClearTimer(r)
    /\ UNCHANGED <<envVars, pc, op, attempt, renewVars, flagVars, resp, effectVars>>

LateComplete(r) ==
    /\ bg[r] = "complete"
    /\ CompleteRecord(r, Observe(r, "publish"), Observe(r, "release"))
    /\ UNCHANGED pc

LatePublish(r) ==
    /\ bg[r] = "publish"
    /\ PublishEffects(r)
    /\ Observe(r, "release")
    /\ UNCHANGED <<pc, resp>>

LateFail(r) ==
    /\ bg[r] = "fail"
    /\ GiveUpReservation(r)
    /\ Observe(r, "release")
    /\ UNCHANGED <<def, now, lockVars, pc, raceVars, renewVars, flagVars, resp,
                   committed, outboxRows, successAudits>>

LateRelease(r) ==
    /\ bg[r] = "release"
    /\ StopRenewal(r)
    /\ ReleaseLock(r)
    /\ Observe(r, "done")
    /\ UNCHANGED <<def, now, idemVars, pc, raceVars, idemRenewing, reservationLost,
                   flagVars, resp, effectVars>>

------------------------------------------------------------------------------
(* The renewal intervals.                                                  *)

RenewTick(r) ==
    /\ idemTimer[r] > 0
    /\ now >= idemTimer[r]
    /\ idemTimer' = [idemTimer EXCEPT ![r] = now + RenewIdemEvery]
    /\ idemRenewing' = IF reservationLost[r] \/ idemRenewing[r] > 0
                       THEN idemRenewing
                       ELSE [idemRenewing EXCEPT ![r] = now + IdemTtl]
    /\ UNCHANGED <<envVars, pc, bg, raceVars, reservationLost, flagVars, resp, effectVars>>

\* FALSE, or a rejecting store, is a lost reservation.
RenewReply(r) ==
    /\ idemRenewing[r] > 0
    /\ IF claim[r] = "started" THEN IdemRenew(r, idemRenewing[r]) ELSE UNCHANGED idemVars
    /\ idemRenewing' = [idemRenewing EXCEPT ![r] = 0]
    /\ reservationLost' = IF Holds(r) THEN reservationLost ELSE Raise(reservationLost, r)
    /\ UNCHANGED <<def, now, lockVars, pc, bg, raceVars, idemTimer, flagVars, resp, effectVars>>

RenewThrows(r) ==
    /\ StoreFaults
    /\ idemRenewing[r] > 0
    /\ idemRenewing' = [idemRenewing EXCEPT ![r] = 0]
    /\ reservationLost' = Raise(reservationLost, r)
    /\ UNCHANGED <<envVars, pc, bg, raceVars, idemTimer, flagVars, resp, effectVars>>

LockBackground(r) ==
    /\ \/ LockRenewTick(r) \/ LockRenewApply(r) \/ LockRenewReply(r)
       \/ LockRenewThrows(r)
    /\ UNCHANGED <<def, now, idemVars, pc, bg, raceVars, renewVars, flagVars, resp, effectVars>>

------------------------------------------------------------------------------
\* The process of r dies: handler, observer, promise and timers with it.
Crash(r) ==
    /\ pc[r] \notin {"idle", "dead"}
    /\ pc[r] = "done" => bg[r] \notin {"none", "done"}
    /\ LockCrash(r)
    /\ Goto(r, "dead")
    /\ Observe(r, "dead")
    /\ SettleOp(r, "dead")
    /\ ClearTimer(r)
    /\ StopRenewal(r)
    /\ idemRenewing' = [idemRenewing EXCEPT ![r] = 0]
    /\ UNCHANGED <<def, now, idemVars, attempt, reservationLost, flagVars, resp, effectVars>>

Starting(r) == pc[r] \in {"begin", "preflight"} \/ (pc[r] = "attempt" /\ attempt[r] = 0)

\* Timers on time have fired before the clock moves on.
Tick ==
    /\ LockMayTick
    /\ \A r \in Req : Starting(r) => now < StartBy
    /\ TimersOnTime =>
         \A r \in Req :
            /\ idemRenewing[r] = 0
            /\ idemTimer[r] > 0 => now < idemTimer[r]
            /\ timer[r] > 0 => now < timer[r]
    /\ Advance
    /\ UNCHANGED <<def, lockVars, idemVars, pc, bg, raceVars, renewVars, flagVars, resp, effectVars>>

\* What the code does by itself once a request has arrived.
Handle(r) ==
    \/ Begin(r) \/ AcquireLock(r) \/ StartAttempt(r)
    \/ DeadlineFires(r) \/ DeadlineBetweenAttempts(r)
    \/ Complete(r) \/ Publish(r) \/ Fail(r) \/ Finish(r)

ObserveLate(r) ==
    \/ WindowExpires(r) \/ LateComplete(r) \/ LatePublish(r) \/ LateFail(r) \/ LateRelease(r)

Settle(r) ==
    \/ Stage(r) \/ Commit(r) \/ Resolve(r)
    \/ RejectFinally(r) \/ RejectAndRetry(r) \/ RejectLate(r)

Renew(r) == RenewTick(r) \/ RenewReply(r) \/ RenewThrows(r) \/ LockBackground(r)

Environment(r) == Arrive(r) \/ Deny(r) \/ GiveUpEarly(r) \/ ClientAborts(r) \/ Crash(r)

Next ==
    \/ Tick
    \/ \E r \in Req : \/ Handle(r) \/ ObserveLate(r) \/ Settle(r) \/ Renew(r) \/ Environment(r)

Spec == Init /\ [][Next]_vars

\* The event loop keeps running handlers, observers and timers, and stores
\* answer; the application's promise, callers and crashes owe nothing.
Fairness ==
    /\ WF_vars(Tick)
    /\ \A r \in Req : WF_vars(Handle(r)) /\ WF_vars(ObserveLate(r)) /\ WF_vars(Renew(r))

FairSpec == Spec /\ Fairness

------------------------------------------------------------------------------
(* Properties.                                                             *)

\* The domain operation runs to a commit twice under one key only if the
\* reservation of one of the two was given up or had expired: no interleaving
\* of handlers, retries, late settlements, renewals and crashes does it alone.
RepeatOnlyAfterForfeit ==
    UseKey => \A q, r \in committed :
                 q # r => q \in forfeited \cup ousted \/ r \in forfeited \cup ousted

\* A success answer is true: the work committed and is recorded for replay, and
\* a replay hands out the response of an execution that committed.
OkMeansCommitted ==
    \A r \in Req :
        /\ resp[r] = "ok" => r \in committed /\ (UseKey => claim[r] = "completed")
        /\ resp[r] = "replay" => replayOf[r] \in committed

\* An error answer that is neither a timeout nor a cancellation is final: the
\* work neither committed nor can still commit.
ErrorMeansNothingCommitted ==
    \A r \in Req : resp[r] = "error" => r \notin committed /\ ~Running(r)

\* While nothing but a store call can go wrong, and every promise settles inside
\* its deadline, no request repeats a domain operation that committed.
CommittedWorkNotRepeated == UseKey => \A q, r \in committed : q = r

\* Until it has recorded the outcome, through every retry and through the late
\* settlement window, an execution keeps its reservation and its lease.
RetainsOwnership ==
    \A r \in Req :
        pc[r] \in {"preflight", "attempt", "running", "complete"}
            \/ bg[r] \in {"watching", "complete"}
        => /\ claim[r] = "started" => Live /\ entry.owner = r
           /\ phase[r] = "held" => Leased(r)

\* Under one lock key the promises of two executions overlap only when one of
\* them has outlived its late-settlement window.
LockedWorkIsExclusive ==
    UseLock => \A q, r \in Req :
        (q # r /\ Running(q) /\ Running(r))
            => bg[q] \in {"fail", "release", "done"} \/ bg[r] \in {"fail", "release", "done"}

\* Whatever was retried or settled late, an execution leaves one outbox row if
\* it committed and none otherwise, and one success audit row at most; a
\* fail-closed action never commits without its audit row.
EffectsOnce ==
    \A r \in Req :
        /\ outboxRows[r] = IF OutboxDelivery /\ r \in committed THEN 1 ELSE 0
        /\ successAudits[r] <= 1
        /\ successAudits[r] = 1 => r \in committed
        /\ FailClosedAudit /\ r \in committed => successAudits[r] = 1

\* Every request that arrived is answered, also when its promise never settles.
EveryRequestAnswered ==
    \A r \in Req : pc[r] # "idle" ~> pc[r] \in {"done", "dead"}

\* The observer of a late settlement gives its lease and its timers back, also
\* when the promise never settles.
LateResourcesReturned ==
    \A r \in Req : bg[r] = "watching" ~>
        bg[r] = "dead" \/ (bg[r] = "done" /\ idemTimer[r] = 0 /\ phase[r] # "held")
==============================================================================
