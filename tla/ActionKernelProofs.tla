------------------------- MODULE ActionKernelProofs -------------------------
(***************************************************************************)
(* What kernel.execute promises for every set of executions, every action  *)
(* definition, timeout, ttl and cadence, and that it uses the lease store  *)
(* and the idempotency store by their rules, so that what is proved of the *)
(* stores by themselves holds under the kernel.                            *)
(***************************************************************************)
EXTENDS ActionKernel, LeaseLockProofs, IdempotencyStoreProofs

\* One step of the execution r.
Step(r) == Handle(r) \/ ObserveLate(r) \/ Settle(r) \/ Renew(r) \/ Environment(r)

\* A renewal in flight carries an expiry computed when it was sent.
RenewalsSent ==
    \A r \in Req : idemRenewing[r] = 0 \/ idemRenewing[r] \in IdemTtl..(now + IdemTtl)

\* Where the handler, the promise and the observer of an execution can be at once.
Course(r) ==
    /\ pc[r] \in {"idle", "begin", "preflight"} => op[r] = "none" /\ attempt[r] = 0
    /\ pc[r] = "attempt" => op[r] \in {"none", "rejected"} /\ attempt[r] < Attempts
    /\ pc[r] = "running" => Running(r)
    /\ pc[r] \in {"complete", "publish"} => op[r] = "fulfilled"
    /\ pc[r] \in {"failing", "release"} => ~Running(r)
    /\ pc[r] = "done" /\ bg[r] = "none" => ~Running(r)
    /\ bg[r] = "watching" => Running(r)
    /\ bg[r] \in {"complete", "publish"} => op[r] = "fulfilled"
    /\ bg[r] # "none" => pc[r] \in {"done", "dead"}
    /\ pc[r] = "dead" <=> op[r] = "dead"
    /\ pc[r] = "dead" <=> bg[r] = "dead"

\* The execution is past its post-commit effects.
Published(r) ==
    /\ pc[r] \in {"failing", "release", "done", "dead"}
    /\ bg[r] \notin {"watching", "complete", "publish"}

\* What the promise has done, and what is left of it in the stores.
Effects(r) ==
    /\ op[r] \in {"none", "work", "staged", "rejected"} => r \notin committed
    /\ op[r] \in {"settling", "fulfilled"} => r \in committed
    /\ OutboxDelivery /\ op[r] \in {"staged", "settling", "fulfilled"} => enqueued[r]
    /\ outboxRows[r] = IF OutboxDelivery /\ r \in committed THEN 1 ELSE 0
    /\ FailClosedAudit /\ r \in committed => auditWritten[r]
    /\ auditWritten[r] => successAudits[r] = 1
    /\ successAudits[r] \in {0, 1}
    /\ successAudits[r] = 1 => r \in committed /\ (auditWritten[r] \/ Published(r))

\* What the idempotency store has told the execution.
Told(r) ==
    /\ UseKey /\ (pc[r] \in {"preflight", "attempt", "running", "complete"}
                     \/ bg[r] \in {"watching", "complete"})
          => claim[r] = "started"
    /\ UseKey /\ (pc[r] = "publish" \/ bg[r] = "publish") => claim[r] = "completed"
    /\ claim[r] = "completed" => r \in committed
    /\ resp[r] = "ok" => r \in committed /\ (UseKey => claim[r] = "completed")
    /\ resp[r] = "replay" => claim[r] = "replayed"

------------------------------------------------------------------------------
(* The stores under the kernel.                                            *)

\* Most steps leave the clock, the lease and the record alone.
LEMMA QuietSteps ==
    ASSUME NEW r \in Req,
           \/ StartAttempt(r) \/ WindowExpires(r) \/ Publish(r) \/ LatePublish(r)
           \/ Stage(r) \/ Commit(r) \/ Resolve(r) \/ RenewTick(r) \/ RenewThrows(r)
           \/ Arrive(r) \/ Deny(r) \/ GiveUpEarly(r)
    PROVE  UNCHANGED envVars
  BY DEF StartAttempt, WindowExpires, Publish, LatePublish, PublishEffects, Stage, Commit,
         Resolve, RenewTick, RenewThrows, Arrive, Deny, GiveUpEarly

\* Whatever an execution does, its lease handle takes one of its own steps.
LEMMA StepUsesLock ==
    ASSUME NEW r \in Req, Step(r)
    PROVE  now' = now /\ def' = def /\ (HandleStep(r) \/ UNCHANGED lockVars)
<1> USE DEF HandleStep
<1>1. CASE UNCHANGED envVars
  BY <1>1 DEF envVars
<1>2. CASE Begin(r) \/ Complete(r) \/ LateComplete(r) \/ Fail(r) \/ LateFail(r) \/ RenewReply(r)
  BY <1>2 DEF Begin, Complete, LateComplete, CompleteRecord, Fail, LateFail, RenewReply
<1>3. CASE AcquireLock(r) \/ LockBackground(r) \/ Crash(r)
  BY <1>3 DEF AcquireLock, LockBackground, Crash
<1>4. CASE Finish(r) \/ LateRelease(r)
  BY <1>4 DEF Finish, LateRelease, ReleaseLock
<1>5. CASE DeadlineFires(r) \/ DeadlineBetweenAttempts(r) \/ ClientAborts(r)
  BY <1>5 DEF DeadlineFires, DeadlineBetweenAttempts, ClientAborts, HandOver, Reject
<1>6. CASE RejectFinally(r) \/ RejectAndRetry(r) \/ RejectLate(r)
  BY <1>6 DEF RejectFinally, RejectAndRetry, RejectLate, Reject
<1>7. QED
  BY <1>1, <1>2, <1>3, <1>4, <1>5, <1>6, QuietSteps
  DEF Step, Handle, ObserveLate, Settle, Renew, Environment

\* The record of the key moves only by the operations of its store.
LEMMA StepUsesStore ==
    ASSUME IdemTypeOK, RenewalsSent, NEW r \in Req, Step(r)
    PROVE  ReservationStep(r) \/ UNCHANGED idemVars
<1> USE DEF ReservationStep
<1>1. CASE UNCHANGED envVars
  BY <1>1 DEF envVars
<1>2. CASE Begin(r)
  BY <1>2 DEF Begin
<1>3. CASE Complete(r) \/ LateComplete(r)
  BY <1>3 DEF Complete, LateComplete, CompleteRecord
<1>4. CASE Fail(r) \/ LateFail(r)
  BY <1>4 DEF Fail, LateFail, GiveUpReservation, idemVars
<1>5. CASE RenewReply(r)
  <2>1. idemRenewing[r] \in IdemTtl..(now + IdemTtl)
    BY <1>5, IdempotencyAssumption DEF RenewReply, RenewalsSent
  <2>2. PICK t0 \in 0..now : idemRenewing[r] = t0 + IdemTtl
    <3>1. idemRenewing[r] - IdemTtl \in 0..now
      BY <2>1, IdempotencyAssumption DEF IdemTypeOK
    <3>2. idemRenewing[r] = (idemRenewing[r] - IdemTtl) + IdemTtl
      BY <2>1, IdempotencyAssumption DEF IdemTypeOK
    <3>3. QED
      BY <3>1, <3>2
  <2>3. QED
    BY <1>5, <2>2 DEF RenewReply
<1>6. CASE AcquireLock(r) \/ LockBackground(r) \/ Crash(r) \/ Finish(r) \/ LateRelease(r)
  BY <1>6 DEF AcquireLock, LockBackground, Crash, Finish, LateRelease
<1>7. CASE DeadlineFires(r) \/ DeadlineBetweenAttempts(r) \/ ClientAborts(r)
  BY <1>7 DEF DeadlineFires, DeadlineBetweenAttempts, ClientAborts, HandOver
<1>8. CASE RejectFinally(r) \/ RejectAndRetry(r) \/ RejectLate(r)
  BY <1>8 DEF RejectFinally, RejectAndRetry, RejectLate, Reject
<1>9. QED
  BY <1>1, <1>2, <1>3, <1>4, <1>5, <1>6, <1>7, <1>8, QuietSteps
  DEF Step, Handle, ObserveLate, Settle, Renew, Environment

------------------------------------------------------------------------------
(* Types.                                                                  *)

\* The kernel's variables keep their types when r takes a step.
LEMMA KernelTypeStep ==
    ASSUME IdemTypeOK, KernelTypeOK, NEW r \in Req, Course(r), Step(r)
    PROVE  KernelTypeOK'
<1> USE IdempotencyAssumption, ActionKernelAssumption
        DEF KernelTypeOK, Pc, Op, Bg, Resp, Attempts, envVars, raceVars, renewVars,
            flagVars, effectVars, Goto, Observe, SettleOp, Respond, StopRenewal, ClearTimer,
            Raise, Leave, Prepare, Record
<1>0. now \in Nat
  BY DEF IdemTypeOK
<1> USE <1>0
<1>1. CASE Begin(r)
  BY <1>1 DEF Begin
<1>2. CASE AcquireLock(r)
  BY <1>2 DEF AcquireLock
<1>3. CASE StartAttempt(r)
  BY <1>3 DEF StartAttempt, Course, Attempts
<1>4. CASE DeadlineFires(r)
  BY <1>4 DEF DeadlineFires, HandOver
<1>5. CASE DeadlineBetweenAttempts(r)
  BY <1>5 DEF DeadlineBetweenAttempts, HandOver, Reject
<1>6. CASE Complete(r)
  BY <1>6 DEF Complete, CompleteRecord
<1>7. CASE Publish(r)
  BY <1>7 DEF Publish, PublishEffects
<1>8. CASE Fail(r)
  BY <1>8 DEF Fail, GiveUpReservation
<1>9. CASE Finish(r)
  BY <1>9 DEF Finish, ReleaseLock
<1>10. CASE WindowExpires(r)
  BY <1>10 DEF WindowExpires
<1>11. CASE LateComplete(r)
  BY <1>11 DEF LateComplete, CompleteRecord
<1>12. CASE LatePublish(r)
  BY <1>12 DEF LatePublish, PublishEffects
<1>13. CASE LateFail(r)
  BY <1>13 DEF LateFail, GiveUpReservation
<1>14. CASE LateRelease(r)
  BY <1>14 DEF LateRelease, ReleaseLock
<1>15. CASE Stage(r)
  BY <1>15 DEF Stage
<1>16. CASE Commit(r)
  <2>1. committed' \subseteq Req
    BY <1>16 DEF Commit
  <2>2. outboxRows' \in [Req -> Nat] /\ successAudits' \in [Req -> Nat]
    BY <1>16 DEF Commit
  <2>3. auditWritten' \in [Req -> BOOLEAN] /\ op' \in [Req -> Op]
    BY <1>16 DEF Commit
  <2>4. QED
    BY <1>16, <2>1, <2>2, <2>3 DEF Commit
<1>17. CASE Resolve(r)
  BY <1>17 DEF Resolve
<1>18. CASE RejectFinally(r)
  BY <1>18 DEF RejectFinally, Reject
<1>19. CASE RejectAndRetry(r)
  BY <1>19 DEF RejectAndRetry, Reject
<1>20. CASE RejectLate(r)
  BY <1>20 DEF RejectLate, Reject
<1>21. CASE RenewTick(r)
  BY <1>21 DEF RenewTick
<1>22. CASE RenewReply(r)
  BY <1>22 DEF RenewReply
<1>23. CASE RenewThrows(r)
  BY <1>23 DEF RenewThrows
<1>24. CASE LockBackground(r)
  BY <1>24 DEF LockBackground
<1>25. CASE Arrive(r)
  BY <1>25 DEF Arrive
<1>26. CASE Deny(r)
  BY <1>26 DEF Deny
<1>27. CASE GiveUpEarly(r)
  BY <1>27 DEF GiveUpEarly
<1>28. CASE ClientAborts(r)
  BY <1>28 DEF ClientAborts, HandOver
<1>29. CASE Crash(r)
  BY <1>29 DEF Crash
<1>30. QED
  BY <1>1, <1>2, <1>3, <1>4, <1>5, <1>6, <1>7, <1>8, <1>9, <1>10, <1>11, <1>12, <1>13,
     <1>14, <1>15, <1>16, <1>17, <1>18, <1>19, <1>20, <1>21, <1>22, <1>23, <1>24, <1>25,
     <1>26, <1>27, <1>28, <1>29
  DEF Step, Handle, ObserveLate, Settle, Renew, Environment

\* A step of r moves nothing that belongs to another execution.
LEMMA OthersUnmoved ==
    ASSUME KernelTypeOK, NEW r \in Req, NEW q \in Req \ {r}, Step(r)
    PROVE  /\ def' = def
           /\ pc'[q] = pc[q] /\ op'[q] = op[q] /\ bg'[q] = bg[q] /\ resp'[q] = resp[q]
           /\ attempt'[q] = attempt[q] /\ timer'[q] = timer[q]
           /\ idemTimer'[q] = idemTimer[q] /\ idemRenewing'[q] = idemRenewing[q]
           /\ reservationLost'[q] = reservationLost[q]
           /\ enqueued'[q] = enqueued[q] /\ auditWritten'[q] = auditWritten[q]
           /\ outboxRows'[q] = outboxRows[q] /\ successAudits'[q] = successAudits[q]
           /\ q \in committed' <=> q \in committed
           /\ q \in forfeited' <=> q \in forfeited
<1> USE DEF KernelTypeOK, envVars, raceVars, renewVars, flagVars,
            effectVars, Goto, Observe, SettleOp, Respond, StopRenewal, ClearTimer, Raise
<1>1. CASE Begin(r)
  BY <1>1 DEF Begin
<1>2. CASE AcquireLock(r)
  BY <1>2 DEF AcquireLock
<1>3. CASE StartAttempt(r)
  BY <1>3 DEF StartAttempt
<1>4. CASE DeadlineFires(r)
  BY <1>4 DEF DeadlineFires, HandOver
<1>5. CASE DeadlineBetweenAttempts(r)
  BY <1>5 DEF DeadlineBetweenAttempts, HandOver, Reject
<1>6. CASE Complete(r)
  BY <1>6 DEF Complete, CompleteRecord
<1>7. CASE Publish(r)
  BY <1>7 DEF Publish, PublishEffects
<1>8. CASE Fail(r)
  BY <1>8 DEF Fail, GiveUpReservation
<1>9. CASE Finish(r)
  BY <1>9 DEF Finish, ReleaseLock
<1>10. CASE WindowExpires(r)
  BY <1>10 DEF WindowExpires
<1>11. CASE LateComplete(r)
  BY <1>11 DEF LateComplete, CompleteRecord
<1>12. CASE LatePublish(r)
  BY <1>12 DEF LatePublish, PublishEffects
<1>13. CASE LateFail(r)
  BY <1>13 DEF LateFail, GiveUpReservation
<1>14. CASE LateRelease(r)
  BY <1>14 DEF LateRelease, ReleaseLock
<1>15. CASE Stage(r)
  BY <1>15 DEF Stage
<1>16. CASE Commit(r)
  BY <1>16 DEF Commit
<1>17. CASE Resolve(r)
  BY <1>17 DEF Resolve
<1>18. CASE RejectFinally(r)
  BY <1>18 DEF RejectFinally, Reject
<1>19. CASE RejectAndRetry(r)
  BY <1>19 DEF RejectAndRetry, Reject
<1>20. CASE RejectLate(r)
  BY <1>20 DEF RejectLate, Reject
<1>21. CASE RenewTick(r)
  BY <1>21 DEF RenewTick
<1>22. CASE RenewReply(r)
  BY <1>22 DEF RenewReply
<1>23. CASE RenewThrows(r)
  BY <1>23 DEF RenewThrows
<1>24. CASE LockBackground(r)
  BY <1>24 DEF LockBackground
<1>25. CASE Arrive(r)
  BY <1>25 DEF Arrive
<1>26. CASE Deny(r)
  BY <1>26 DEF Deny
<1>27. CASE GiveUpEarly(r)
  BY <1>27 DEF GiveUpEarly
<1>28. CASE ClientAborts(r)
  BY <1>28 DEF ClientAborts, HandOver
<1>29. CASE Crash(r)
  BY <1>29 DEF Crash
<1>30. QED
  BY <1>1, <1>2, <1>3, <1>4, <1>5, <1>6, <1>7, <1>8, <1>9, <1>10, <1>11, <1>12, <1>13,
     <1>14, <1>15, <1>16, <1>17, <1>18, <1>19, <1>20, <1>21, <1>22, <1>23, <1>24, <1>25,
     <1>26, <1>27, <1>28, <1>29
  DEF Step, Handle, ObserveLate, Settle, Renew, Environment

\* The handler, the promise and the observer stay coherent.
LEMMA CourseStep ==
    ASSUME KernelTypeOK, NEW r \in Req, Course(r), Step(r)
    PROVE  Course(r)'
<1> USE ActionKernelAssumption
        DEF KernelTypeOK, Course, Running, Attempts, Op, Bg, Pc, envVars, raceVars, renewVars,
            flagVars,
            effectVars, Goto, Observe, SettleOp, Respond, ClearTimer, Leave, Prepare, Record
<1>1. CASE Begin(r)
  BY <1>1 DEF Begin
<1>2. CASE AcquireLock(r)
  BY <1>2 DEF AcquireLock
<1>3. CASE StartAttempt(r)
  BY <1>3 DEF StartAttempt
<1>4. CASE DeadlineFires(r)
  BY <1>4 DEF DeadlineFires, HandOver
<1>5. CASE DeadlineBetweenAttempts(r)
  BY <1>5 DEF DeadlineBetweenAttempts, HandOver, Reject
<1>6. CASE Complete(r)
  BY <1>6 DEF Complete, CompleteRecord
<1>7. CASE Publish(r)
  BY <1>7 DEF Publish, PublishEffects
<1>8. CASE Fail(r)
  BY <1>8 DEF Fail, GiveUpReservation
<1>9. CASE Finish(r)
  BY <1>9 DEF Finish, ReleaseLock
<1>10. CASE WindowExpires(r)
  BY <1>10 DEF WindowExpires
<1>11. CASE LateComplete(r)
  BY <1>11 DEF LateComplete, CompleteRecord
<1>12. CASE LatePublish(r)
  BY <1>12 DEF LatePublish, PublishEffects
<1>13. CASE LateFail(r)
  BY <1>13 DEF LateFail, GiveUpReservation
<1>14. CASE LateRelease(r)
  BY <1>14 DEF LateRelease, ReleaseLock
<1>15. CASE Stage(r)
  BY <1>15 DEF Stage
<1>16. CASE Commit(r)
  BY <1>16 DEF Commit
<1>17. CASE Resolve(r)
  BY <1>17 DEF Resolve
<1>18. CASE RejectFinally(r)
  BY <1>18 DEF RejectFinally, Reject
<1>19. CASE RejectAndRetry(r)
  BY <1>19 DEF RejectAndRetry, Reject
<1>20. CASE RejectLate(r)
  BY <1>20 DEF RejectLate, Reject
<1>21. CASE RenewTick(r)
  BY <1>21 DEF RenewTick
<1>22. CASE RenewReply(r)
  BY <1>22 DEF RenewReply
<1>23. CASE RenewThrows(r)
  BY <1>23 DEF RenewThrows
<1>24. CASE LockBackground(r)
  BY <1>24 DEF LockBackground
<1>25. CASE Arrive(r)
  BY <1>25 DEF Arrive
<1>26. CASE Deny(r)
  BY <1>26 DEF Deny
<1>27. CASE GiveUpEarly(r)
  BY <1>27 DEF GiveUpEarly
<1>28. CASE ClientAborts(r)
  BY <1>28 DEF ClientAborts, HandOver
<1>29. CASE Crash(r)
  BY <1>29 DEF Crash
<1>30. QED
  BY <1>1, <1>2, <1>3, <1>4, <1>5, <1>6, <1>7, <1>8, <1>9, <1>10, <1>11, <1>12, <1>13,
     <1>14, <1>15, <1>16, <1>17, <1>18, <1>19, <1>20, <1>21, <1>22, <1>23, <1>24, <1>25,
     <1>26, <1>27, <1>28, <1>29
  DEF Step, Handle, ObserveLate, Settle, Renew, Environment

\* A commit is made once, and its rows are written once.
LEMMA EffectsStep ==
    ASSUME KernelTypeOK, NEW r \in Req, Course(r), Effects(r), Step(r)
    PROVE  Effects(r)'
<1> USE ActionKernelAssumption
        DEF KernelTypeOK, Course, Effects, Published, Running, FailClosedAudit, Op, envVars,
            raceVars, renewVars, flagVars,
            effectVars, Goto, Observe, SettleOp, Raise, Leave, Prepare, Record
<1>1. CASE Begin(r)
  BY <1>1 DEF Begin
<1>2. CASE AcquireLock(r)
  BY <1>2 DEF AcquireLock
<1>3. CASE StartAttempt(r)
  BY <1>3 DEF StartAttempt
<1>4. CASE DeadlineFires(r)
  BY <1>4 DEF DeadlineFires, HandOver
<1>5. CASE DeadlineBetweenAttempts(r)
  BY <1>5 DEF DeadlineBetweenAttempts, HandOver, Reject
<1>6. CASE Complete(r)
  BY <1>6 DEF Complete, CompleteRecord
<1>7. CASE Publish(r)
  BY <1>7 DEF Publish, PublishEffects
<1>8. CASE Fail(r)
  BY <1>8 DEF Fail, GiveUpReservation
<1>9. CASE Finish(r)
  BY <1>9 DEF Finish, ReleaseLock
<1>10. CASE WindowExpires(r)
  BY <1>10 DEF WindowExpires
<1>11. CASE LateComplete(r)
  BY <1>11 DEF LateComplete, CompleteRecord
<1>12. CASE LatePublish(r)
  BY <1>12 DEF LatePublish, PublishEffects
<1>13. CASE LateFail(r)
  BY <1>13 DEF LateFail, GiveUpReservation
<1>14. CASE LateRelease(r)
  BY <1>14 DEF LateRelease, ReleaseLock
<1>15. CASE Stage(r)
  BY <1>15 DEF Stage
<1>16. CASE Commit(r)
  BY <1>16 DEF Commit
<1>17. CASE Resolve(r)
  BY <1>17 DEF Resolve
<1>18. CASE RejectFinally(r)
  BY <1>18 DEF RejectFinally, Reject
<1>19. CASE RejectAndRetry(r)
  BY <1>19 DEF RejectAndRetry, Reject
<1>20. CASE RejectLate(r)
  BY <1>20 DEF RejectLate, Reject
<1>21. CASE RenewTick(r)
  BY <1>21 DEF RenewTick
<1>22. CASE RenewReply(r)
  BY <1>22 DEF RenewReply
<1>23. CASE RenewThrows(r)
  BY <1>23 DEF RenewThrows
<1>24. CASE LockBackground(r)
  BY <1>24 DEF LockBackground
<1>25. CASE Arrive(r)
  BY <1>25 DEF Arrive
<1>26. CASE Deny(r)
  BY <1>26 DEF Deny
<1>27. CASE GiveUpEarly(r)
  BY <1>27 DEF GiveUpEarly
<1>28. CASE ClientAborts(r)
  BY <1>28 DEF ClientAborts, HandOver
<1>29. CASE Crash(r)
  BY <1>29 DEF Crash
<1>30. QED
  BY <1>1, <1>2, <1>3, <1>4, <1>5, <1>6, <1>7, <1>8, <1>9, <1>10, <1>11, <1>12, <1>13,
     <1>14, <1>15, <1>16, <1>17, <1>18, <1>19, <1>20, <1>21, <1>22, <1>23, <1>24, <1>25,
     <1>26, <1>27, <1>28, <1>29
  DEF Step, Handle, ObserveLate, Settle, Renew, Environment

\* An answer of the store is to the execution that asked, and the last one stands.
LEMMA AnswersStand ==
    ASSUME IdemTypeOK, NEW r \in Req, ReservationStep(r) \/ UNCHANGED idemVars
    PROVE  /\ \A q \in Req \ {r} : claim'[q] = claim[q]
           /\ claim[r] \in {"replayed", "completed"} => claim'[r] = claim[r]
<1> USE DEF IdemTypeOK, Answer
<1>1. CASE IdemBegin(r)
  BY <1>1 DEF IdemBegin, AnswerFromRecord, Store
<1>2. CASE IdemInsert(r)
  BY <1>2 DEF IdemInsert, Store
<1>3. CASE IdemSelect(r)
  BY <1>3 DEF IdemSelect, AnswerFromRecord, Store
<1>4. CASE IdemUpdate(r)
  BY <1>4 DEF IdemUpdate, Store
<1>5. CASE IdemComplete(r)
  BY <1>5 DEF IdemComplete
<1>6. CASE IdemFail(r)
  BY <1>6 DEF IdemFail
<1>7. ASSUME NEW t0 \in 0..now, IdemRenew(r, t0 + IdemTtl)
      PROVE  claim' = claim
  BY <1>7 DEF IdemRenew
<1>8. CASE UNCHANGED idemVars
  BY <1>8 DEF idemVars
<1>9. QED
  BY <1>1, <1>2, <1>3, <1>4, <1>5, <1>6, <1>7, <1>8 DEF ReservationStep

\* The handler knows what the store has told it.
LEMMA ToldStep ==
    ASSUME IdemTypeOK, KernelTypeOK, NEW r \in Req, Course(r), Effects(r), Told(r), Step(r),
           ReservationStep(r) \/ UNCHANGED idemVars
    PROVE  Told(r)'
<1>0. claim[r] \in {"replayed", "completed"} => claim'[r] = claim[r]
  BY AnswersStand
<1> USE <1>0, ActionKernelAssumption
        DEF KernelTypeOK, IdemTypeOK, Course, Effects, Told, UseKey, Running, envVars,
            idemVars, raceVars, renewVars, flagVars,
            effectVars, Goto, Observe, SettleOp, Respond, Leave, Prepare, Record, Answer
<1>1. CASE Begin(r)
  BY <1>1 DEF Begin, IdemBegin, IdemInsert, IdemSelect, IdemUpdate
<1>2. CASE AcquireLock(r)
  BY <1>2 DEF AcquireLock
<1>3. CASE StartAttempt(r)
  BY <1>3 DEF StartAttempt
<1>4. CASE DeadlineFires(r)
  BY <1>4 DEF DeadlineFires, HandOver
<1>5. CASE DeadlineBetweenAttempts(r)
  BY <1>5 DEF DeadlineBetweenAttempts, HandOver, Reject
<1>6. CASE Complete(r)
  BY <1>6 DEF Complete, CompleteRecord, IdemComplete
<1>7. CASE Publish(r)
  BY <1>7 DEF Publish, PublishEffects
<1>8. CASE Fail(r)
  BY <1>8 DEF Fail, GiveUpReservation, IdemFail
<1>9. CASE Finish(r)
  BY <1>9 DEF Finish, ReleaseLock
<1>10. CASE WindowExpires(r)
  BY <1>10 DEF WindowExpires
<1>11. CASE LateComplete(r)
  BY <1>11 DEF LateComplete, CompleteRecord, IdemComplete
<1>12. CASE LatePublish(r)
  BY <1>12 DEF LatePublish, PublishEffects
<1>13. CASE LateFail(r)
  BY <1>13 DEF LateFail, GiveUpReservation, IdemFail
<1>14. CASE LateRelease(r)
  BY <1>14 DEF LateRelease, ReleaseLock
<1>15. CASE Stage(r)
  BY <1>15 DEF Stage
<1>16. CASE Commit(r)
  BY <1>16 DEF Commit
<1>17. CASE Resolve(r)
  BY <1>17 DEF Resolve
<1>18. CASE RejectFinally(r)
  BY <1>18 DEF RejectFinally, Reject
<1>19. CASE RejectAndRetry(r)
  BY <1>19 DEF RejectAndRetry, Reject
<1>20. CASE RejectLate(r)
  BY <1>20 DEF RejectLate, Reject
<1>21. CASE RenewTick(r)
  BY <1>21 DEF RenewTick
<1>22. CASE RenewReply(r)
  BY <1>22 DEF RenewReply, IdemRenew
<1>23. CASE RenewThrows(r)
  BY <1>23 DEF RenewThrows
<1>24. CASE LockBackground(r)
  BY <1>24 DEF LockBackground
<1>25. CASE Arrive(r)
  BY <1>25 DEF Arrive
<1>26. CASE Deny(r)
  BY <1>26 DEF Deny
<1>27. CASE GiveUpEarly(r)
  BY <1>27 DEF GiveUpEarly
<1>28. CASE ClientAborts(r)
  BY <1>28 DEF ClientAborts, HandOver
<1>29. CASE Crash(r)
  BY <1>29 DEF Crash
<1>30. QED
  BY <1>1, <1>2, <1>3, <1>4, <1>5, <1>6, <1>7, <1>8, <1>9, <1>10, <1>11, <1>12, <1>13,
     <1>14, <1>15, <1>16, <1>17, <1>18, <1>19, <1>20, <1>21, <1>22, <1>23, <1>24, <1>25,
     <1>26, <1>27, <1>28, <1>29
  DEF Step, Handle, ObserveLate, Settle, Renew, Environment

\* A renewal in flight is never from the future.
LEMMA RenewalsSentStep ==
    ASSUME IdemTypeOK, KernelTypeOK, RenewalsSent, [Next]_vars
    PROVE  RenewalsSent'
<1> USE IdempotencyAssumption DEF IdemTypeOK, KernelTypeOK, RenewalsSent
<1>1. ASSUME NEW r \in Req, Step(r)
      PROVE  RenewalsSent'
  <2>1. now' = now
    BY <1>1, StepUsesLock
  <2>2. \A q \in Req \ {r} : idemRenewing'[q] = idemRenewing[q]
    BY <1>1, OthersUnmoved
  <2>3. CASE RenewTick(r)
    BY <2>1, <2>2, <2>3 DEF RenewTick
  <2>4. CASE ~RenewTick(r)
    <3>1. idemRenewing'[r] \in {0, idemRenewing[r]}
      <4> USE DEF renewVars
      <4>1. CASE RenewReply(r) \/ RenewThrows(r) \/ LockBackground(r)
        BY <4>1 DEF RenewReply, RenewThrows, LockBackground
      <4>2. CASE Handle(r)
        BY <4>2 DEF Handle, Begin, AcquireLock, StartAttempt, DeadlineFires,
          DeadlineBetweenAttempts, HandOver, Complete, CompleteRecord, Publish,
          PublishEffects, Fail, Finish
      <4>3. CASE ObserveLate(r)
        BY <4>3 DEF ObserveLate, WindowExpires, LateComplete, CompleteRecord, LatePublish,
          PublishEffects, LateFail, LateRelease
      <4>4. CASE Settle(r)
        BY <4>4 DEF Settle, Stage, Commit, Resolve, RejectFinally, RejectAndRetry, RejectLate,
          Reject
      <4>5. CASE Environment(r)
        BY <4>5 DEF Environment, Arrive, Deny, GiveUpEarly, ClientAborts, HandOver, Crash
      <4>6. QED
        BY <1>1, <2>4, <4>1, <4>2, <4>3, <4>4, <4>5 DEF Step, Renew
    <3>2. QED
      BY <2>1, <2>2, <3>1
  <2>5. QED
    BY <2>3, <2>4
<1>2. CASE Tick
  BY <1>2 DEF Tick, Advance, renewVars
<1>3. CASE UNCHANGED vars
  BY <1>3 DEF vars, envVars, renewVars
<1>4. QED
  BY <1>1, <1>2, <1>3 DEF Next, Step

------------------------------------------------------------------------------
(* The inductive invariant.                                                *)

KernelInv ==
    /\ LockTypeOK /\ IdemInv /\ KernelTypeOK
    /\ RenewalsSent
    /\ \A r \in Req : Course(r) /\ Effects(r) /\ Told(r)

LEMMA KernelInvInit == Init => KernelInv
<1> SUFFICES ASSUME Init
             PROVE  KernelInv
  OBVIOUS
<1>1. LockTypeOK /\ IdemInv
  BY LockTypeInit, IdemInvInit DEF Init
<1>2. KernelTypeOK
  BY ActionKernelAssumption DEF Init, KernelTypeOK, Attempts, Pc, Op, Bg, Resp
<1>3. RenewalsSent
  BY DEF Init, RenewalsSent
<1>4. ASSUME NEW r \in Req
      PROVE  Course(r) /\ Effects(r) /\ Told(r)
  <2>1. pc[r] = "idle" /\ op[r] = "none" /\ bg[r] = "none" /\ resp[r] = "none" /\ claim[r] = "new"
    BY DEF Init, IdemInit
  <2>2. ~auditWritten[r] /\ r \notin committed
    BY DEF Init
  <2>3. outboxRows[r] = 0 /\ successAudits[r] = 0 /\ attempt[r] = 0
    BY DEF Init
  <2>4. Course(r)
    BY <2>1, <2>3 DEF Course
  <2>5. Effects(r)
    BY <2>1, <2>2, <2>3 DEF Effects
  <2>6. Told(r)
    BY <2>1 DEF Told
  <2>7. QED
    BY <2>4, <2>5, <2>6
<1>5. QED
  BY <1>1, <1>2, <1>3, <1>4 DEF KernelInv

\* What belongs to an execution, and the clock alone, leave its part as it is.
LEMMA KernelInvOthers ==
    ASSUME KernelInv, NEW r \in Req, Step(r), NEW q \in Req \ {r}
    PROVE  Course(q)' /\ Effects(q)' /\ Told(q)'
<1>1. IdemTypeOK /\ KernelTypeOK /\ Course(q) /\ Effects(q) /\ Told(q)
  BY DEF KernelInv, IdemInv
<1>2. claim'[q] = claim[q]
  BY <1>1, StepUsesStore, AnswersStand DEF KernelInv
<1>3. QED
  BY <1>1, <1>2, OthersUnmoved
  DEF Course, Effects, Told, Published, Running, Attempts, UseKey, FailClosedAudit

LEMMA KernelInvStep == KernelInv /\ [Next]_vars => KernelInv'
<1> SUFFICES ASSUME KernelInv, [Next]_vars
             PROVE  KernelInv'
  OBVIOUS
<1>1. IdemTypeOK /\ KernelTypeOK /\ RenewalsSent'
  BY RenewalsSentStep DEF KernelInv, IdemInv
<1>2. ASSUME NEW r \in Req, Step(r)
      PROVE  KernelInv'
  <2>1. Course(r) /\ Effects(r) /\ Told(r)
    BY DEF KernelInv
  <2>2. now' = now /\ (HandleStep(r) \/ UNCHANGED lockVars)
    BY <1>2, StepUsesLock
  <2>3. ReservationStep(r) \/ UNCHANGED idemVars
    BY <1>1, <1>2, StepUsesStore DEF KernelInv
  <2>4. LockTypeOK'
    BY <2>2, LockTypeStep DEF KernelInv, LockNext
  <2>5. IdemInv'
    BY <2>2, <2>3, IdemInvNext DEF KernelInv, IdemNext
  <2>6. KernelTypeOK'
    BY <1>1, <1>2, <2>1, KernelTypeStep
  <2>7. Course(r)' /\ Effects(r)' /\ Told(r)'
    BY <1>1, <1>2, <2>1, <2>3, CourseStep, EffectsStep, ToldStep
  <2>8. QED
    BY <1>1, <1>2, <2>4, <2>5, <2>6, <2>7, KernelInvOthers DEF KernelInv
<1>3. CASE Tick \/ UNCHANGED vars
  <2>1. UNCHANGED <<def, lockVars, idemVars, pc, bg, raceVars, renewVars, flagVars, resp, effectVars>>
    BY <1>3 DEF Tick, vars, envVars
  <2>2. LockTick \/ UNCHANGED <<now, lockVars>>
    BY <1>3 DEF Tick, LockTick, vars, envVars
  <2>3. IdemTick \/ UNCHANGED <<now, idemVars>>
    BY <1>3 DEF Tick, IdemTick, vars, envVars
  <2>4. LockTypeOK'
    BY <2>2, LockTypeStep DEF KernelInv, LockNext
  <2>5. IdemInv'
    BY <2>3, IdemInvNext DEF KernelInv, IdemNext
  <2>6. KernelTypeOK'
    BY <1>1, <2>1 DEF KernelTypeOK, Attempts, raceVars, renewVars, flagVars, effectVars
  <2>7. \A r \in Req : Course(r)' /\ Effects(r)' /\ Told(r)'
    BY <2>1 DEF KernelInv, Course, Effects, Told, Published, Running, Attempts, UseKey,
      FailClosedAudit, idemVars, raceVars, flagVars, effectVars
  <2>8. QED
    BY <1>1, <2>4, <2>5, <2>6, <2>7 DEF KernelInv
<1>4. QED
  BY <1>2, <1>3 DEF Next, Step

\* Every variable of the kernel and of the stores under it keeps its type; no
\* retry takes an execution past the attempts of its definition.
THEOREM KernelTypeCorrect == Spec => []TypeOK
<1>1. KernelInv => TypeOK
  BY DEF KernelInv, IdemInv, TypeOK
<1>2. QED
  BY <1>1, KernelInvInit, KernelInvStep, PTL DEF Spec

\* The kernel uses the lease store by its rules: whatever handlers, observers,
\* timers and crashes do, the leases behave as LeaseLock says.
THEOREM KernelUsesLeases == Spec => LockSpec
<1>1. Init => LockStart
  BY DEF Init, LockStart
<1>2. [Next]_vars => [LockNext]_<<now, lockVars>>
  <2> SUFFICES ASSUME [Next]_vars
               PROVE  [LockNext]_<<now, lockVars>>
    OBVIOUS
  <2>1. ASSUME NEW r \in Req, Step(r)
        PROVE  [LockNext]_<<now, lockVars>>
    BY <2>1, StepUsesLock DEF LockNext
  <2>2. CASE Tick
    BY <2>2 DEF Tick, LockTick, LockNext
  <2>3. CASE UNCHANGED vars
    BY <2>3 DEF vars, envVars
  <2>4. QED
    BY <2>1, <2>2, <2>3 DEF Next, Step
<1>3. QED
  BY <1>1, <1>2, PTL DEF Spec, LockSpec

\* The kernel uses the idempotency store by its rules: begin, complete, renew
\* and fail as the handler and the observer call them are a behaviour of it.
THEOREM KernelUsesReservations == Spec => IdemSpec
<1>1. Init => IdemStart
  BY DEF Init, IdemStart
<1>2. KernelInv /\ [Next]_vars => [IdemNext]_<<now, idemVars>>
  <2> SUFFICES ASSUME KernelInv, [Next]_vars
               PROVE  [IdemNext]_<<now, idemVars>>
    OBVIOUS
  <2>1. ASSUME NEW r \in Req, Step(r)
        PROVE  [IdemNext]_<<now, idemVars>>
    BY <2>1, StepUsesLock, StepUsesStore DEF IdemNext, KernelInv, IdemInv
  <2>2. CASE Tick
    BY <2>2 DEF Tick, IdemTick, IdemNext
  <2>3. CASE UNCHANGED vars
    BY <2>3 DEF vars, envVars
  <2>4. QED
    BY <2>1, <2>2, <2>3 DEF Next, Step
<1>3. QED
  BY <1>1, <1>2, KernelInvInit, KernelInvStep, PTL DEF Spec, IdemSpec

\* Under the kernel, too, an execution told "started" owns the inflight record
\* until it completes or fails it or is replaced after the expiry.
THEOREM KernelStartedMeansOwner ==
    ASSUME ~SplitBegin
    PROVE  Spec => []FirstWriterOwns
  BY KernelUsesReservations, StartedMeansOwner, PTL

\* Under the kernel, too, a record in force is moved by nobody but its owner.
THEOREM KernelLiveRecordIsTheOwners ==
    ASSUME ~SplitBegin
    PROVE  Spec => LiveRecordOnlyMovedByOwner
  BY KernelUsesReservations, LiveRecordIsTheOwners, PTL

------------------------------------------------------------------------------
(* Answers and effects.                                                    *)

\* A success answer is about work that committed and is recorded for replay, and
\* a replay hands out the response of an execution that committed, whatever
\* fails, crashes or expires.
THEOREM AnswersAreTrue == Spec => []OkMeansCommitted
<1>1. KernelInv => OkMeansCommitted
  <2> SUFFICES ASSUME KernelInv, NEW r \in Req
               PROVE  /\ resp[r] = "ok" => r \in committed /\ (UseKey => claim[r] = "completed")
                      /\ resp[r] = "replay" => replayOf[r] \in committed
    BY DEF OkMeansCommitted
  <2>1. Told(r)
    BY DEF KernelInv
  <2>2. claim[r] = "replayed" => replayOf[r] \in Req /\ claim[replayOf[r]] = "completed"
    BY DEF KernelInv, IdemInv, ReplayIsFaithful
  <2>3. \A q \in Req : claim[q] = "completed" => q \in committed
    BY DEF KernelInv, Told
  <2>4. QED
    BY <2>1, <2>2, <2>3 DEF Told
<1>2. QED
  BY <1>1, KernelInvInit, KernelInvStep, PTL DEF Spec

\* Retried, settled late or crashed, an execution leaves one outbox row if it
\* committed and none otherwise, one success audit row at most, and never
\* commits a fail-closed action without its audit row.
THEOREM EffectsHappenOnce == Spec => []EffectsOnce
<1>1. KernelInv => EffectsOnce
  <2> SUFFICES ASSUME KernelInv, NEW r \in Req
               PROVE  /\ outboxRows[r] = IF OutboxDelivery /\ r \in committed THEN 1 ELSE 0
                      /\ successAudits[r] <= 1
                      /\ successAudits[r] = 1 => r \in committed
                      /\ FailClosedAudit /\ r \in committed => successAudits[r] = 1
    BY DEF EffectsOnce
  <2>1. Effects(r)
    BY DEF KernelInv
  <2>2. QED
    BY <2>1 DEF Effects
<1>2. QED
  BY <1>1, KernelInvInit, KernelInvStep, PTL DEF Spec

------------------------------------------------------------------------------
(* Repetition.                                                             *)

\* The domain operation is under way, or it has committed.
Working(r) == op[r] \in {"work", "staged", "settling", "fulfilled"} \/ r \in committed

\* Such an execution has the record, unless it gave it up or lost it to a later one.
Owed(r) == UseKey /\ Working(r) /\ r \notin forfeited \cup ousted => entry.owner = r

\* Work begins with an attempt and nowhere else.
LEMMA WorkBegins ==
    ASSUME KernelTypeOK, NEW r \in Req, Step(r), Working(r)', ~Working(r)
    PROVE  StartAttempt(r)
<1> USE DEF KernelTypeOK, Working, raceVars, effectVars, SettleOp
<1>1. CASE Begin(r)
  BY <1>1 DEF Begin
<1>2. CASE AcquireLock(r)
  BY <1>2 DEF AcquireLock
<1>3. CASE StartAttempt(r)
  BY <1>3
<1>4. CASE DeadlineFires(r)
  BY <1>4 DEF DeadlineFires, HandOver
<1>5. CASE DeadlineBetweenAttempts(r)
  BY <1>5 DEF DeadlineBetweenAttempts, HandOver, Reject
<1>6. CASE Complete(r)
  BY <1>6 DEF Complete, CompleteRecord
<1>7. CASE Publish(r)
  BY <1>7 DEF Publish, PublishEffects
<1>8. CASE Fail(r)
  BY <1>8 DEF Fail, GiveUpReservation
<1>9. CASE Finish(r)
  BY <1>9 DEF Finish, ReleaseLock
<1>10. CASE WindowExpires(r)
  BY <1>10 DEF WindowExpires
<1>11. CASE LateComplete(r)
  BY <1>11 DEF LateComplete, CompleteRecord
<1>12. CASE LatePublish(r)
  BY <1>12 DEF LatePublish, PublishEffects
<1>13. CASE LateFail(r)
  BY <1>13 DEF LateFail, GiveUpReservation
<1>14. CASE LateRelease(r)
  BY <1>14 DEF LateRelease, ReleaseLock
<1>15. CASE Stage(r)
  BY <1>15 DEF Stage
<1>16. CASE Commit(r)
  BY <1>16 DEF Commit
<1>17. CASE Resolve(r)
  BY <1>17 DEF Resolve
<1>18. CASE RejectFinally(r)
  BY <1>18 DEF RejectFinally, Reject
<1>19. CASE RejectAndRetry(r)
  BY <1>19 DEF RejectAndRetry, Reject
<1>20. CASE RejectLate(r)
  BY <1>20 DEF RejectLate, Reject
<1>21. CASE RenewTick(r)
  BY <1>21 DEF RenewTick
<1>22. CASE RenewReply(r)
  BY <1>22 DEF RenewReply
<1>23. CASE RenewThrows(r)
  BY <1>23 DEF RenewThrows
<1>24. CASE LockBackground(r)
  BY <1>24 DEF LockBackground
<1>25. CASE Arrive(r)
  BY <1>25 DEF Arrive
<1>26. CASE Deny(r)
  BY <1>26 DEF Deny
<1>27. CASE GiveUpEarly(r)
  BY <1>27 DEF GiveUpEarly
<1>28. CASE ClientAborts(r)
  BY <1>28 DEF ClientAborts, HandOver
<1>29. CASE Crash(r)
  BY <1>29 DEF Crash
<1>30. QED
  BY <1>1, <1>2, <1>3, <1>4, <1>5, <1>6, <1>7, <1>8, <1>9, <1>10, <1>11, <1>12, <1>13,
     <1>14, <1>15, <1>16, <1>17, <1>18, <1>19, <1>20, <1>21, <1>22, <1>23, <1>24, <1>25,
     <1>26, <1>27, <1>28, <1>29
  DEF Step, Handle, ObserveLate, Settle, Renew, Environment

\* Whoever gives up a record under which it works is on the list.
LEMMA GivingUpForfeits ==
    ASSUME KernelInv, NEW r \in Req, Step(r), Working(r), entry.owner = r, entry'.owner # r
    PROVE  r \in forfeited'
<1>1. /\ IdemTypeOK /\ KernelTypeOK /\ RenewalsSent /\ Course(r) /\ Effects(r)
  BY DEF KernelInv, IdemInv
<1>2. entry \in Entry /\ r # Nobody
  BY <1>1, EntryShape, RuntimeAssumption DEF NoEntry
<1>3. ReservationStep(r)
  BY <1>1, StepUsesStore DEF idemVars
<1>4. IdemFail(r)
  <2>1. ~IdemComplete(r)
    BY DEF IdemComplete
  <2>2. \A t0 \in 0..now : ~IdemRenew(r, t0 + IdemTtl)
    BY <1>2 DEF IdemRenew, Entry
  <2>3. ~(IdemBegin(r) \/ IdemInsert(r) \/ IdemSelect(r) \/ IdemUpdate(r))
    BY DEF IdemBegin, IdemInsert, IdemSelect, IdemUpdate, AnswerFromRecord, Store
  <2>4. QED
    BY <1>3, <2>1, <2>2, <2>3 DEF ReservationStep
<1>5. claim[r] \in {"started", "conflict", "inflight", "lost"} /\ claim'[r] = "failed"
  BY <1>1, <1>4, OneAnswer DEF IdemFail
<1>6. entry' # entry
  OBVIOUS
<1>7. CASE Fail(r)
  BY <1>1, <1>6, <1>7 DEF Fail, GiveUpReservation, Course, Effects, Working, Running,
    KernelTypeOK, Op, idemVars
<1>8. CASE LateFail(r)
  BY <1>1, <1>6, <1>8 DEF LateFail, GiveUpReservation, Course, Effects, Working, Running,
    KernelTypeOK, Op, idemVars
<1>9. CASE Begin(r)
  BY <1>5, <1>9 DEF Begin
<1>10. CASE Complete(r) \/ LateComplete(r)
  BY <1>5, <1>6, <1>10, OneAnswer, <1>1
  DEF Complete, LateComplete, CompleteRecord, IdemComplete, idemVars
<1>11. CASE RenewReply(r)
  BY <1>5, <1>6, <1>11 DEF RenewReply, IdemRenew, idemVars
<1>12. CASE UNCHANGED idemVars
  BY <1>6, <1>12 DEF idemVars
<1>13. QED
  <2> USE DEF envVars
  <2>1. CASE AcquireLock(r) \/ LockBackground(r) \/ Crash(r) \/ Finish(r) \/ LateRelease(r)
    BY <1>12, <2>1 DEF AcquireLock, LockBackground, Crash, Finish, LateRelease
  <2>2. CASE DeadlineFires(r) \/ DeadlineBetweenAttempts(r) \/ ClientAborts(r)
    BY <1>12, <2>2 DEF DeadlineFires, DeadlineBetweenAttempts, ClientAborts, HandOver
  <2>3. CASE RejectFinally(r) \/ RejectAndRetry(r) \/ RejectLate(r)
    BY <1>12, <2>3 DEF RejectFinally, RejectAndRetry, RejectLate, Reject
  <2>4. QED
    BY <1>7, <1>8, <1>9, <1>10, <1>11, <1>12, <2>1, <2>2, <2>3, QuietSteps
    DEF Step, Handle, ObserveLate, Settle, Renew, Environment

\* A record that another begin() replaces ousts its owner.
LEMMA ReplacedIsOusted ==
    ASSUME ~SplitBegin, IdemInv, NEW r \in Req, ReservationStep(r) \/ UNCHANGED idemVars
    PROVE  /\ ousted \subseteq ousted'
           /\ \A q \in Req \ {r} : entry.owner = q => entry'.owner = q \/ q \in ousted'
<1>1. IdemTypeOK /\ claim[r] \notin {"selecting", "updating"}
  BY DEF IdemInv, BeginIsAtomic
<1>2. CASE UNCHANGED idemVars
  BY <1>2 DEF idemVars
<1>3. ASSUME ReservationStep(r), IdemTypeOK, claim[r] \notin {"selecting", "updating"},
             NEW q \in Req \ {r}, entry.owner = q
      PROVE  entry'.owner = q \/ q \in ousted'
  <2>1. entry # NoEntry /\ entry \in Entry
    BY <1>3, EntryShape
  <2>2. CASE IdemBegin(r)
    BY <1>3, <2>1, <2>2 DEF IdemBegin, AnswerFromRecord, Store
  <2>3. CASE IdemComplete(r) \/ IdemFail(r)
    BY <1>3, <2>3 DEF IdemComplete, IdemFail, Holds
  <2>4. ASSUME NEW t0 \in 0..now, IdemRenew(r, t0 + IdemTtl)
        PROVE  entry'.owner = q
    BY <1>3, <2>4 DEF IdemRenew, Holds
  <2>5. QED
    BY <1>3, <2>2, <2>3, <2>4 DEF ReservationStep, IdemInsert, IdemSelect, IdemUpdate
<1>4. ASSUME ReservationStep(r), claim[r] \notin {"selecting", "updating"}
      PROVE  ousted \subseteq ousted'
  BY <1>4 DEF ReservationStep, IdemBegin, IdemInsert, IdemSelect, IdemUpdate, AnswerFromRecord,
    Store, IdemComplete, IdemFail, IdemRenew
<1>5. QED
  BY <1>1, <1>2, <1>3, <1>4

\* The list of those who gave up only grows.
LEMMA ForfeitsStand ==
    ASSUME KernelTypeOK, NEW r \in Req, Step(r)
    PROVE  forfeited \subseteq forfeited'
<1> USE DEF effectVars
<1>1. CASE Begin(r)
  BY <1>1 DEF Begin
<1>2. CASE AcquireLock(r)
  BY <1>2 DEF AcquireLock
<1>3. CASE StartAttempt(r)
  BY <1>3 DEF StartAttempt
<1>4. CASE DeadlineFires(r)
  BY <1>4 DEF DeadlineFires, HandOver
<1>5. CASE DeadlineBetweenAttempts(r)
  BY <1>5 DEF DeadlineBetweenAttempts, HandOver, Reject
<1>6. CASE Complete(r)
  BY <1>6 DEF Complete, CompleteRecord
<1>7. CASE Publish(r)
  BY <1>7 DEF Publish, PublishEffects
<1>8. CASE Fail(r)
  BY <1>8 DEF Fail, GiveUpReservation
<1>9. CASE Finish(r)
  BY <1>9 DEF Finish, ReleaseLock
<1>10. CASE WindowExpires(r)
  BY <1>10 DEF WindowExpires
<1>11. CASE LateComplete(r)
  BY <1>11 DEF LateComplete, CompleteRecord
<1>12. CASE LatePublish(r)
  BY <1>12 DEF LatePublish, PublishEffects
<1>13. CASE LateFail(r)
  BY <1>13 DEF LateFail, GiveUpReservation
<1>14. CASE LateRelease(r)
  BY <1>14 DEF LateRelease, ReleaseLock
<1>15. CASE Stage(r)
  BY <1>15 DEF Stage
<1>16. CASE Commit(r)
  BY <1>16 DEF Commit
<1>17. CASE Resolve(r)
  BY <1>17 DEF Resolve
<1>18. CASE RejectFinally(r)
  BY <1>18 DEF RejectFinally, Reject
<1>19. CASE RejectAndRetry(r)
  BY <1>19 DEF RejectAndRetry, Reject
<1>20. CASE RejectLate(r)
  BY <1>20 DEF RejectLate, Reject
<1>21. CASE RenewTick(r)
  BY <1>21 DEF RenewTick
<1>22. CASE RenewReply(r)
  BY <1>22 DEF RenewReply
<1>23. CASE RenewThrows(r)
  BY <1>23 DEF RenewThrows
<1>24. CASE LockBackground(r)
  BY <1>24 DEF LockBackground
<1>25. CASE Arrive(r)
  BY <1>25 DEF Arrive
<1>26. CASE Deny(r)
  BY <1>26 DEF Deny
<1>27. CASE GiveUpEarly(r)
  BY <1>27 DEF GiveUpEarly
<1>28. CASE ClientAborts(r)
  BY <1>28 DEF ClientAborts, HandOver
<1>29. CASE Crash(r)
  BY <1>29 DEF Crash
<1>30. QED
  BY <1>1, <1>2, <1>3, <1>4, <1>5, <1>6, <1>7, <1>8, <1>9, <1>10, <1>11, <1>12, <1>13,
     <1>14, <1>15, <1>16, <1>17, <1>18, <1>19, <1>20, <1>21, <1>22, <1>23, <1>24, <1>25,
     <1>26, <1>27, <1>28, <1>29
  DEF Step, Handle, ObserveLate, Settle, Renew, Environment

LEMMA OwedStep ==
    ASSUME ~SplitBegin, KernelInv, FirstWriterOwns, NEW r \in Req, NEW q \in Req, Owed(q), Step(r)
    PROVE  Owed(q)'
<1>1. IdemTypeOK /\ KernelTypeOK /\ Told(r)
  BY DEF KernelInv, IdemInv
<1>2. ReservationStep(r) \/ UNCHANGED idemVars
  BY <1>1, StepUsesStore DEF KernelInv
<1>3. /\ ousted \subseteq ousted' /\ forfeited \subseteq forfeited'
      /\ q # r /\ entry.owner = q => entry'.owner = q \/ q \in ousted'
  BY <1>1, <1>2, ReplacedIsOusted, ForfeitsStand DEF KernelInv
<1>4. SUFFICES ASSUME UseKey', Working(q)', q \notin forfeited' \cup ousted'
               PROVE  entry'.owner = q
  BY DEF Owed
<1>5. q \notin forfeited \cup ousted
  BY <1>3, <1>4
<1>6. CASE Working(q) /\ UseKey
  <2>1. entry.owner = q
    BY <1>5, <1>6 DEF Owed
  <2>2. QED
    BY <1>3, <1>4, <1>6, <2>1, GivingUpForfeits
<1>7. CASE q = r /\ ~Working(r)
  <2>1. StartAttempt(r)
    BY <1>1, <1>4, <1>7, WorkBegins
  <2>2. UseKey /\ entry' = entry
    BY <1>4, <2>1 DEF StartAttempt, UseKey, envVars, idemVars
  <2>3. claim[r] = "started"
    BY <1>1, <2>1, <2>2 DEF StartAttempt, Told
  <2>4. QED
    BY <1>5, <1>7, <2>2, <2>3 DEF FirstWriterOwns
<1>8. UseKey /\ (q # r => Working(q))
  BY <1>1, <1>4, StepUsesLock, OthersUnmoved DEF UseKey, Working
<1>9. QED
  BY <1>6, <1>7, <1>8

\* Two executions under one key both reach their commit only if one of them gave
\* its reservation up or let it expire: the handler, retries, late settlements,
\* renewals and crashes cannot bring it about in any order, for any number of
\* executions, over a store whose begin() is one step.
THEOREM RepetitionNeedsForfeit ==
    ASSUME ~SplitBegin
    PROVE  Spec => []RepeatOnlyAfterForfeit
<1> DEFINE Owing == FirstWriterOwns /\ \A r \in Req : Owed(r)
<1>1. Init => Owing
  BY DEF Init, IdemInit, FirstWriterOwns, Owed, Working
<1>2. KernelInv /\ Owing /\ [Next]_vars => Owing'
  <2> SUFFICES ASSUME KernelInv, Owing, [Next]_vars
               PROVE  Owing'
    OBVIOUS
  <2>1. ASSUME NEW r \in Req, Step(r)
        PROVE  Owing'
    <3>1. ReservationStep(r) \/ UNCHANGED idemVars
      BY <2>1, StepUsesStore DEF KernelInv, IdemInv
    <3>2. FirstWriterOwns'
      BY <3>1, OwnStep DEF KernelInv, FirstWriterOwns, idemVars
    <3>3. QED
      BY <2>1, <3>2, OwedStep
  <2>2. CASE Tick \/ UNCHANGED vars
    BY <2>2 DEF Tick, vars, envVars, raceVars, effectVars, idemVars, FirstWriterOwns, Owed,
      Working, UseKey
  <2>3. QED
    BY <2>1, <2>2 DEF Next, Step
<1>3. KernelInv /\ Owing => RepeatOnlyAfterForfeit
  BY DEF RepeatOnlyAfterForfeit, Owed, Working, KernelInv, KernelTypeOK
<1>4. QED
  BY <1>1, <1>2, <1>3, KernelInvInit, KernelInvStep, PTL DEF Spec

------------------------------------------------------------------------------
(* Ownership.                                                              *)

\* The execution relies on what it owns: it works, or an observer waits for it.
Engaged(r) ==
    \/ pc[r] \in {"preflight", "attempt", "running", "complete"}
    \/ bg[r] \in {"watching", "complete"}

\* From the lock to the last effect the handle is held.
HoldsLock(r) ==
    UseLock /\ (pc[r] \in {"attempt", "running", "complete", "publish"}
                    \/ bg[r] \in {"watching", "complete", "publish"})
        => phase[r] = "held"

LEMMA HoldsLockStep ==
    ASSUME LockTypeOK, KernelTypeOK, NEW r \in Req, Course(r), HoldsLock(r), Step(r)
    PROVE  HoldsLock(r)'
<1> USE DEF LockTypeOK, KernelTypeOK, Course, HoldsLock, UseLock, Running, envVars, lockVars,
  handleVars, raceVars,
            Goto, Observe, SettleOp, Leave, Prepare, Record
<1>1. CASE Begin(r)
  BY <1>1 DEF Begin
<1>2. CASE AcquireLock(r)
  BY <1>2 DEF AcquireLock, LockDraw, LockGrant, LockRefuse, LockReply, LockAcquireThrows
<1>3. CASE StartAttempt(r)
  BY <1>3 DEF StartAttempt
<1>4. CASE DeadlineFires(r)
  BY <1>4 DEF DeadlineFires, HandOver
<1>5. CASE DeadlineBetweenAttempts(r)
  BY <1>5 DEF DeadlineBetweenAttempts, HandOver, Reject, LockAssertFails
<1>6. CASE Complete(r)
  BY <1>6 DEF Complete, CompleteRecord
<1>7. CASE Publish(r)
  BY <1>7 DEF Publish, PublishEffects
<1>8. CASE Fail(r)
  BY <1>8 DEF Fail, GiveUpReservation
<1>9. CASE Finish(r)
  BY <1>9 DEF Finish, ReleaseLock, LockRelease
<1>10. CASE WindowExpires(r)
  BY <1>10 DEF WindowExpires
<1>11. CASE LateComplete(r)
  BY <1>11 DEF LateComplete, CompleteRecord
<1>12. CASE LatePublish(r)
  BY <1>12 DEF LatePublish, PublishEffects
<1>13. CASE LateFail(r)
  BY <1>13 DEF LateFail, GiveUpReservation
<1>14. CASE LateRelease(r)
  BY <1>14 DEF LateRelease, ReleaseLock, LockRelease
<1>15. CASE Stage(r)
  BY <1>15 DEF Stage
<1>16. CASE Commit(r)
  BY <1>16 DEF Commit
<1>17. CASE Resolve(r)
  BY <1>17 DEF Resolve
<1>18. CASE RejectFinally(r)
  BY <1>18 DEF RejectFinally, Reject, LockAssertFails
<1>19. CASE RejectAndRetry(r)
  BY <1>19 DEF RejectAndRetry, Reject, LockAssertFails
<1>20. CASE RejectLate(r)
  BY <1>20 DEF RejectLate, Reject, LockAssertFails
<1>21. CASE RenewTick(r)
  BY <1>21 DEF RenewTick
<1>22. CASE RenewReply(r)
  BY <1>22 DEF RenewReply
<1>23. CASE RenewThrows(r)
  BY <1>23 DEF RenewThrows
<1>24. CASE LockBackground(r)
  BY <1>24 DEF LockBackground, LockRenewTick, LockRenewApply, LockRenewReply, LockRenewThrows
<1>25. CASE Arrive(r)
  BY <1>25 DEF Arrive
<1>26. CASE Deny(r)
  BY <1>26 DEF Deny
<1>27. CASE GiveUpEarly(r)
  BY <1>27 DEF GiveUpEarly
<1>28. CASE ClientAborts(r)
  BY <1>28 DEF ClientAborts, HandOver
<1>29. CASE Crash(r)
  BY <1>29 DEF Crash, LockCrash
<1>30. QED
  BY <1>1, <1>2, <1>3, <1>4, <1>5, <1>6, <1>7, <1>8, <1>9, <1>10, <1>11, <1>12, <1>13,
     <1>14, <1>15, <1>16, <1>17, <1>18, <1>19, <1>20, <1>21, <1>22, <1>23, <1>24, <1>25,
     <1>26, <1>27, <1>28, <1>29
  DEF Step, Handle, ObserveLate, Settle, Renew, Environment

\* A handle is moved by its own execution.
LEMMA OtherHandlesStay ==
    ASSUME LockTypeOK, NEW r \in Req, NEW q \in Req \ {r}, HandleStep(r) \/ UNCHANGED lockVars
    PROVE  phase'[q] = phase[q]
  BY DEF LockTypeOK, HandleStep, LockDraw, LockGrant, LockRefuse, LockReply, LockAcquireThrows,
    LockRenewTick, LockRenewApply, LockRenewReply, LockRenewThrows, LockExpiryTimer,
    LockAssertFails, LockRelease, LockCrash, lockVars, handleVars

LEMMA HoldsLockNext ==
    KernelInv /\ (\A r \in Req : HoldsLock(r)) /\ [Next]_vars => \A r \in Req : HoldsLock(r)'
<1> SUFFICES ASSUME KernelInv, \A r \in Req : HoldsLock(r), [Next]_vars, NEW q \in Req
             PROVE  HoldsLock(q)'
  OBVIOUS
<1>1. LockTypeOK /\ KernelTypeOK
  BY DEF KernelInv
<1>2. ASSUME NEW r \in Req, Step(r)
      PROVE  HoldsLock(q)'
  <2>1. HandleStep(r) \/ UNCHANGED lockVars
    BY <1>2, StepUsesLock
  <2>2. CASE q = r
    BY <1>1, <1>2, <2>2, HoldsLockStep DEF KernelInv
  <2>3. CASE q # r
    BY <1>1, <1>2, <2>1, <2>3, OtherHandlesStay, OthersUnmoved DEF HoldsLock, UseLock
  <2>4. QED
    BY <2>2, <2>3
<1>3. CASE Tick \/ UNCHANGED vars
  BY <1>3 DEF Tick, vars, envVars, HoldsLock, UseLock, lockVars, handleVars
<1>4. QED
  BY <1>2, <1>3 DEF Next, Step

\* While the lease store is healthy, the promises of two executions overlap under
\* one lock key only when one of them has outlived its late-settlement window.
THEOREM LockedWorkExcludes ==
    ASSUME RoomForRenewal, ~StoreFaults
    PROVE  Spec => []LockedWorkIsExclusive
<1> DEFINE Holding == \A r \in Req : HoldsLock(r)
<1>1. Init => Holding
  BY DEF Init, HoldsLock
<1>2. KernelInv /\ Holding /\ [Next]_vars => Holding'
  BY HoldsLockNext
<1>3. KernelInv /\ Holding /\ HeldIsKept => LockedWorkIsExclusive
  <2> SUFFICES ASSUME KernelInv, Holding, HeldIsKept, UseLock,
                      NEW q \in Req, NEW r \in Req, q # r, Running(q), Running(r)
               PROVE  bg[q] \in {"fail", "release", "done"} \/ bg[r] \in {"fail", "release", "done"}
    BY DEF LockedWorkIsExclusive
  <2>1. ASSUME NEW p \in Req, Running(p), bg[p] \notin {"fail", "release", "done"}
        PROVE  lease.holder = p
    <3>1. pc[p] = "running" \/ bg[p] = "watching"
      BY <2>1 DEF KernelInv, KernelTypeOK, Course, Running, Pc, Bg
    <3>2. phase[p] = "held"
      BY <3>1 DEF HoldsLock
    <3>3. QED
      BY <3>2 DEF HeldIsKept, Leased
  <2>2. QED
    BY <2>1
<1>4. QED
  BY <1>1, <1>2, <1>3, KernelInvInit, KernelInvStep, KernelUsesLeases, HealthyHandlesAreKept,
    PTL
  DEF Spec

\* The reservation of an engaged execution is in force and its renewal on its way:
\* the next tick of the interval comes while the record still lives.
Reserved(r) ==
    /\ pc[r] = "idle" => claim[r] = "new"
    /\ claim[r] = "new" => idemTimer[r] = 0 /\ idemRenewing[r] = 0 /\ ~reservationLost[r]
    /\ claim[r] = "started" /\ Engaged(r) =>
         /\ entry.state = "inflight" /\ entry.owner = r /\ now < entry.expiresAt
         /\ ~reservationLost[r]
         /\ 0 < idemTimer[r] /\ now <= idemTimer[r] /\ idemTimer[r] <= now + RenewIdemEvery
         /\ idemRenewing[r] = 0 => idemTimer[r] + IdemTtl <= entry.expiresAt + RenewIdemEvery
         /\ idemRenewing[r] # 0 => idemRenewing[r] = now + IdemTtl

\* The store answers, the interval is on time and shorter than the ttl, and begin()
\* is one step.
HealthyReservations ==
    TimersOnTime /\ ~StoreFaults /\ ~SplitBegin /\ RenewIdemEvery < IdemTtl

LEMMA ReservedStep ==
    ASSUME HealthyReservations, IdemTypeOK, BeginIsAtomic, KernelTypeOK, NEW r \in Req, Course(r),
           Reserved(r), Step(r), now' = now
    PROVE  Reserved(r)'
<1> USE IdempotencyAssumption, ActionKernelAssumption
        DEF IdemTypeOK, KernelTypeOK, Course, Reserved, Engaged, Running, envVars, idemVars,
            raceVars, renewVars,
            Goto, Observe, SettleOp, StopRenewal, Leave, Prepare, Record, Answer, Raise
<1>1. CASE Begin(r)
  <2>1. IdemBegin(r) /\ claim[r] = "new"
    BY <1>1 DEF Begin, BeginIsAtomic, IdemInsert, IdemSelect, IdemUpdate, IdemBegin,
      HealthyReservations
  <2>2. CASE Live
    BY <1>1, <2>1, <2>2 DEF Begin, IdemBegin, AnswerFromRecord, HealthyReservations
  <2>3. CASE ~Live
    <3>1. /\ claim'[r] = "started" /\ idemRenewing'[r] = 0 /\ ~reservationLost'[r]
          /\ entry' = [state |-> "inflight", owner |-> r, expiresAt |-> now + IdemTtl]
      BY <1>1, <2>1, <2>3 DEF Begin, IdemBegin, Store
    <3>2. idemTimer'[r] = now + RenewIdemEvery
      BY <1>1, <3>1 DEF Begin, HealthyReservations
    <3>3. QED
      BY <1>1, <3>1, <3>2 DEF Begin
  <2>4. QED
    BY <2>2, <2>3
<1>2. CASE AcquireLock(r)
  BY <1>2 DEF AcquireLock
<1>3. CASE StartAttempt(r)
  BY <1>3 DEF StartAttempt
<1>4. CASE DeadlineFires(r)
  BY <1>4 DEF DeadlineFires, HandOver
<1>5. CASE DeadlineBetweenAttempts(r)
  BY <1>5 DEF DeadlineBetweenAttempts, HandOver, Reject
<1>6. CASE Complete(r)
  BY <1>6 DEF Complete, CompleteRecord, IdemComplete, Holds, HealthyReservations
<1>7. CASE Publish(r)
  BY <1>7 DEF Publish, PublishEffects
<1>8. CASE Fail(r)
  BY <1>8 DEF Fail, GiveUpReservation, IdemFail
<1>9. CASE Finish(r)
  BY <1>9 DEF Finish, ReleaseLock
<1>10. CASE WindowExpires(r)
  BY <1>10 DEF WindowExpires
<1>11. CASE LateComplete(r)
  BY <1>11 DEF LateComplete, CompleteRecord, IdemComplete, Holds, HealthyReservations
<1>12. CASE LatePublish(r)
  BY <1>12 DEF LatePublish, PublishEffects
<1>13. CASE LateFail(r)
  BY <1>13 DEF LateFail, GiveUpReservation, IdemFail
<1>14. CASE LateRelease(r)
  BY <1>14 DEF LateRelease, ReleaseLock
<1>15. CASE Stage(r)
  BY <1>15 DEF Stage
<1>16. CASE Commit(r)
  BY <1>16 DEF Commit
<1>17. CASE Resolve(r)
  BY <1>17 DEF Resolve
<1>18. CASE RejectFinally(r)
  BY <1>18 DEF RejectFinally, Reject
<1>19. CASE RejectAndRetry(r)
  BY <1>19 DEF RejectAndRetry, Reject
<1>20. CASE RejectLate(r)
  BY <1>20 DEF RejectLate, Reject
<1>21. CASE RenewTick(r)
  BY <1>21 DEF RenewTick, HealthyReservations
<1>22. CASE RenewReply(r)
  <2>1. CASE claim[r] = "started" /\ Engaged(r)
    <3>1. Holds(r) /\ entry \in Entry
      BY <2>1, EntryShape DEF Holds
    <3>2. entry' = [entry EXCEPT !.expiresAt = idemRenewing[r]] /\ claim' = claim
      BY <1>22, <2>1, <3>1 DEF RenewReply, IdemRenew
    <3>3. idemRenewing'[r] = 0 /\ ~reservationLost'[r] /\ idemTimer'[r] = idemTimer[r]
      BY <1>22, <2>1, <3>1 DEF RenewReply
    <3>4. /\ entry'.state = "inflight" /\ entry'.owner = r
          /\ entry'.expiresAt = now + IdemTtl
      BY <1>22, <2>1, <3>1, <3>2 DEF Entry, RenewReply
    <3>5. QED
      BY <1>22, <2>1, <3>2, <3>3, <3>4 DEF RenewReply
  <2>2. CASE ~(claim[r] = "started" /\ Engaged(r))
    BY <1>22, <2>2 DEF RenewReply, IdemRenew
  <2>3. QED
    BY <2>1, <2>2
<1>23. CASE RenewThrows(r)
  BY <1>23 DEF RenewThrows, HealthyReservations
<1>24. CASE LockBackground(r)
  BY <1>24 DEF LockBackground
<1>25. CASE Arrive(r)
  BY <1>25 DEF Arrive
<1>26. CASE Deny(r)
  BY <1>26 DEF Deny
<1>27. CASE GiveUpEarly(r)
  BY <1>27 DEF GiveUpEarly
<1>28. CASE ClientAborts(r)
  BY <1>28 DEF ClientAborts, HandOver
<1>29. CASE Crash(r)
  BY <1>29 DEF Crash
<1>30. QED
  BY <1>1, <1>2, <1>3, <1>4, <1>5, <1>6, <1>7, <1>8, <1>9, <1>10, <1>11, <1>12, <1>13,
     <1>14, <1>15, <1>16, <1>17, <1>18, <1>19, <1>20, <1>21, <1>22, <1>23, <1>24, <1>25,
     <1>26, <1>27, <1>28, <1>29
  DEF Step, Handle, ObserveLate, Settle, Renew, Environment

\* A reservation in force is nobody else's business.
LEMMA ReservationStays ==
    ASSUME ~SplitBegin, IdemInv, NEW r \in Req, NEW q \in Req \ {r},
           ReservationStep(r) \/ UNCHANGED idemVars,
           entry.state = "inflight", entry.owner = q, now < entry.expiresAt
    PROVE  entry' = entry
<1>1. claim[r] \notin {"selecting", "updating"} /\ Live
  BY DEF IdemInv, BeginIsAtomic, Live
<1>2. ~IdemInsert(r) /\ ~IdemSelect(r) /\ ~IdemUpdate(r)
  BY <1>1 DEF IdemInsert, IdemSelect, IdemUpdate
<1>3. CASE IdemBegin(r)
  BY <1>1, <1>3 DEF IdemBegin, AnswerFromRecord
<1>4. CASE IdemComplete(r) \/ IdemFail(r)
  BY <1>4 DEF IdemComplete, IdemFail, Holds
<1>5. ASSUME NEW t0 \in 0..now, IdemRenew(r, t0 + IdemTtl)
      PROVE  entry' = entry
  BY <1>5 DEF IdemRenew, Holds
<1>6. QED
  BY <1>2, <1>3, <1>4, <1>5 DEF ReservationStep, idemVars

LEMMA ReservedNext ==
    ASSUME HealthyReservations, KernelInv, \A r \in Req : Reserved(r), [Next]_vars
    PROVE  \A r \in Req : Reserved(r)'
<1> SUFFICES ASSUME NEW q \in Req
             PROVE  Reserved(q)'
  OBVIOUS
<1>1. IdemTypeOK /\ KernelTypeOK /\ BeginIsAtomic /\ RenewalsSent
  BY DEF KernelInv, IdemInv
<1>2. ASSUME NEW r \in Req, Step(r)
      PROVE  Reserved(q)'
  <2>1. now' = now /\ (ReservationStep(r) \/ UNCHANGED idemVars)
    BY <1>1, <1>2, StepUsesLock, StepUsesStore
  <2>2. CASE q = r
    BY <1>1, <1>2, <2>1, <2>2, ReservedStep DEF KernelInv
  <2>3. CASE q # r
    <3>1. claim'[q] = claim[q]
      BY <1>1, <2>1, <2>3, AnswersStand
    <3>2. claim[q] = "started" /\ Engaged(q) => entry' = entry
      BY <2>1, <2>3, ReservationStays DEF Reserved, HealthyReservations, KernelInv
    <3>3. QED
      BY <1>1, <1>2, <2>1, <2>3, <3>1, <3>2, OthersUnmoved DEF Reserved, Engaged
  <2>4. QED
    BY <2>2, <2>3
<1>3. CASE Tick
  <2>1. idemRenewing[q] = 0 /\ (idemTimer[q] > 0 => now < idemTimer[q]) /\ now' = now + 1
    BY <1>3 DEF Tick, Advance, HealthyReservations
  <2>2. UNCHANGED <<entry, claim, pc, bg, idemTimer, idemRenewing, reservationLost>>
    BY <1>3 DEF Tick, idemVars, renewVars
  <2>3. claim[q] = "started" /\ Engaged(q) => entry \in Entry
    BY <1>1, EntryShape DEF Reserved
  <2>4. QED
    BY <1>1, <2>1, <2>2, <2>3, IdempotencyAssumption, ActionKernelAssumption
    DEF Reserved, Engaged, HealthyReservations, IdemTypeOK, KernelTypeOK, Entry
<1>4. CASE UNCHANGED vars
  BY <1>4 DEF vars, envVars, idemVars, renewVars, Reserved, Engaged
<1>5. QED
  BY <1>2, <1>3, <1>4 DEF Next, Step

LEMMA ReservedInit == Init => \A r \in Req : Reserved(r)
  BY DEF Init, IdemInit, Reserved

\* With healthy stores and timers on time an execution keeps its reservation and
\* its lease until it has recorded the outcome: through every retry, through the
\* backoff, and through the late-settlement window.
THEOREM OwnershipIsRetained ==
    ASSUME HealthyReservations, RoomForRenewal
    PROVE  Spec => []RetainsOwnership
<1> DEFINE Kept == \A r \in Req : Reserved(r)
<1>1. KernelInv /\ Kept /\ [Next]_vars => Kept'
  BY ReservedNext
<1>2. Kept /\ HeldIsKept => RetainsOwnership
  BY DEF Reserved, Engaged, HeldIsKept, RetainsOwnership, Live
<1>3. ~StoreFaults
  BY DEF HealthyReservations
<1>4. QED
  BY <1>1, <1>2, <1>3, ReservedInit, KernelInvInit, KernelInvStep, KernelUsesLeases,
     HealthyHandlesAreKept, PTL DEF Spec

\* An execution on its way to an error, or past it, has not committed.
Final(r) ==
    /\ pc[r] = "failing" => op[r] \in {"none", "rejected"}
    /\ resp[r] = "error" =>
         /\ pc[r] \in {"release", "done", "dead"} /\ bg[r] \in {"none", "dead"}
         /\ op[r] \in {"none", "rejected", "dead"} /\ r \notin committed

LEMMA FinalStep ==
    ASSUME HealthyReservations, ~TelemetryFaults, IdemTypeOK, KernelTypeOK, NEW r \in Req,
           Course(r), Effects(r), Reserved(r), Final(r), Step(r)
    PROVE  Final(r)'
<1> USE DEF IdemTypeOK, KernelTypeOK, Course, Effects, Final, Running, raceVars, effectVars,
            Goto, Observe, SettleOp, Respond, Leave, Prepare, Record, Answer, Reserved, Engaged
<1>1. CASE Begin(r)
  BY <1>1 DEF Begin, HealthyReservations
<1>2. CASE AcquireLock(r)
  BY <1>2 DEF AcquireLock
<1>3. CASE StartAttempt(r)
  BY <1>3 DEF StartAttempt
<1>4. CASE DeadlineFires(r)
  BY <1>4 DEF DeadlineFires, HandOver
<1>5. CASE DeadlineBetweenAttempts(r)
  BY <1>5 DEF DeadlineBetweenAttempts, HandOver, Reject
<1>6. CASE Complete(r)
  BY <1>6 DEF Complete, CompleteRecord, IdemComplete, Holds, HealthyReservations
<1>7. CASE Publish(r)
  BY <1>7 DEF Publish, PublishEffects
<1>8. CASE Fail(r)
  BY <1>8 DEF Fail, GiveUpReservation, IdemFail
<1>9. CASE Finish(r)
  BY <1>9 DEF Finish, ReleaseLock
<1>10. CASE WindowExpires(r)
  BY <1>10 DEF WindowExpires
<1>11. CASE LateComplete(r)
  BY <1>11 DEF LateComplete, CompleteRecord
<1>12. CASE LatePublish(r)
  BY <1>12 DEF LatePublish, PublishEffects
<1>13. CASE LateFail(r)
  BY <1>13 DEF LateFail, GiveUpReservation, IdemFail
<1>14. CASE LateRelease(r)
  BY <1>14 DEF LateRelease, ReleaseLock
<1>15. CASE Stage(r)
  BY <1>15 DEF Stage
<1>16. CASE Commit(r)
  BY <1>16 DEF Commit
<1>17. CASE Resolve(r)
  BY <1>17 DEF Resolve
<1>18. CASE RejectFinally(r)
  BY <1>18 DEF RejectFinally, Reject
<1>19. CASE RejectAndRetry(r)
  BY <1>19 DEF RejectAndRetry, Reject
<1>20. CASE RejectLate(r)
  BY <1>20 DEF RejectLate, Reject
<1>21. CASE RenewTick(r)
  BY <1>21 DEF RenewTick
<1>22. CASE RenewReply(r)
  BY <1>22 DEF RenewReply
<1>23. CASE RenewThrows(r)
  BY <1>23 DEF RenewThrows
<1>24. CASE LockBackground(r)
  BY <1>24 DEF LockBackground
<1>25. CASE Arrive(r)
  BY <1>25 DEF Arrive
<1>26. CASE Deny(r)
  BY <1>26 DEF Deny
<1>27. CASE GiveUpEarly(r)
  BY <1>27 DEF GiveUpEarly, HealthyReservations
<1>28. CASE ClientAborts(r)
  BY <1>28 DEF ClientAborts, HandOver
<1>29. CASE Crash(r)
  BY <1>29 DEF Crash
<1>30. QED
  BY <1>1, <1>2, <1>3, <1>4, <1>5, <1>6, <1>7, <1>8, <1>9, <1>10, <1>11, <1>12, <1>13,
     <1>14, <1>15, <1>16, <1>17, <1>18, <1>19, <1>20, <1>21, <1>22, <1>23, <1>24, <1>25,
     <1>26, <1>27, <1>28, <1>29
  DEF Step, Handle, ObserveLate, Settle, Renew, Environment

\* With healthy stores, timers on time and observers that do not reject, an error
\* answer that is neither a timeout nor a cancellation is final: nothing has
\* committed and nothing can commit any more.
THEOREM ErrorsAreFinal ==
    ASSUME HealthyReservations, ~TelemetryFaults
    PROVE  Spec => []ErrorMeansNothingCommitted
<1> DEFINE Kept == \A r \in Req : Reserved(r)
           AllFinal == \A r \in Req : Final(r)
<1>1. KernelInv /\ Kept /\ [Next]_vars => Kept'
  BY ReservedNext
<1>2. Init => AllFinal
  BY DEF Init, Final
<1>3. KernelInv /\ Kept /\ AllFinal /\ [Next]_vars => AllFinal'
  <2> SUFFICES ASSUME KernelInv, Kept, AllFinal, [Next]_vars, NEW q \in Req
               PROVE  Final(q)'
    OBVIOUS
  <2>1. ASSUME NEW r \in Req, Step(r)
        PROVE  Final(q)'
    <3>1. IdemTypeOK /\ KernelTypeOK /\ Course(r) /\ Effects(r)
      BY DEF KernelInv, IdemInv
    <3>2. CASE q = r
      BY <2>1, <3>1, <3>2, FinalStep
    <3>3. CASE q # r
      BY <2>1, <3>1, <3>3, OthersUnmoved DEF Final
    <3>4. QED
      BY <3>2, <3>3
  <2>2. CASE Tick \/ UNCHANGED vars
    BY <2>2 DEF Tick, vars, raceVars, effectVars, Final
  <2>3. QED
    BY <2>1, <2>2 DEF Next, Step
<1>4. AllFinal => ErrorMeansNothingCommitted
  BY DEF Final, ErrorMeansNothingCommitted, Running
<1>5. QED
  BY <1>1, <1>2, <1>3, <1>4, ReservedInit, KernelInvInit, KernelInvStep, PTL DEF Spec

==============================================================================
