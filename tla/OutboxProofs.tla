---------------------------- MODULE OutboxProofs ----------------------------
(***************************************************************************)
(* What the outbox workers promise for every number of rows, workers,      *)
(* loops and overlapping batches, every limit and any number of faults.    *)
(***************************************************************************)
EXTENDS Outbox, FiniteSetTheorems, TLAPS

\* A step of a loop, in order or not.
AnyLoopStep(l) == LoopStep(l) \/ Rejected(l) \/ FailedRejects(l)

------------------------------------------------------------------------------
(* Types.                                                                  *)

LEMMA LoopShape ==
    ASSUME NEW l \in Loop
    PROVE  /\ l[1] \in Batch /\ l[1][1] \in Worker /\ l[1][2] \in 1..MaxBatches
           /\ l \in BatchLoops(l[1]) /\ l[1] = <<l[1][1], l[1][2]>>
           /\ l[2] \in Nat \ {0}
  BY OutboxAssumption DEF Loop, Batch, BatchLoops

\* What a loop holds is a row, and an idle one holds none.
LEMMA LoopHolds ==
    ASSUME OutboxTypeOK, NEW l \in Loop
    PROVE  /\ loop[l] = Idle <=> loop[l].at = "idle"
           /\ loop[l] = Idle <=> loop[l].row \notin Row
           /\ loop[l] # Idle => loop[l].at \in {"append", "broadcast", "mark", "fail"}
  BY OutboxAssumption DEF OutboxTypeOK, LoopState, Idle

\* The rows handed out: due ones, each once.
LEMMA HandedOut ==
    ASSUME NEW rows \in OldestDue
    PROVE  /\ rows \in Seq(Row) /\ Len(rows) \in Nat /\ DOMAIN rows = 1..Len(rows)
           /\ \A i \in DOMAIN rows : rows[i] \in Claimable
           /\ \A i, j \in DOMAIN rows : i # j => rows[i] # rows[j]
<1>1. PICK k \in 0..BatchLimit : rows \in [1..k -> Claimable]
  BY DEF OldestDue
<1>2. k \in Nat
  BY OutboxAssumption
<1>3. rows \in Seq(Claimable) /\ Len(rows) = k
  BY <1>1, <1>2
<1>4. rows \in Seq(Row)
  BY <1>3 DEF Claimable
<1>5. QED
  BY <1>1, <1>2, <1>3, <1>4 DEF OldestDue

LEMMA ShiftNextType ==
    ASSUME OutboxTypeOK, NEW l \in Loop, ShiftNext(l)
    PROVE  loop' \in [Loop -> LoopState] /\ queue' \in [Batch -> Seq(Row)]
<1>1. l[1] \in Batch /\ queue[l[1]] \in Seq(Row)
  BY LoopShape DEF OutboxTypeOK
<1>2. queue[l[1]] # <<>> => Head(queue[l[1]]) \in Row /\ Tail(queue[l[1]]) \in Seq(Row)
  BY <1>1
<1>3. QED
  BY <1>1, <1>2 DEF OutboxTypeOK, ShiftNext, LoopState, At

LEMMA DispatchType ==
    ASSUME OutboxTypeOK, NEW w \in Worker, NEW n \in 1..MaxBatches, NEW rows \in OldestDue,
           Dispatch(w, n, rows)
    PROVE  /\ claim' \in [Row -> Worker \cup {Nobody}]
           /\ current' \in [Worker -> 0..MaxBatches]
           /\ queue' \in [Batch -> Seq(Row)]
           /\ loop' \in [Loop -> LoopState]
<1> DEFINE started == IF Len(rows) < Concurrency[w] THEN Len(rows) ELSE Concurrency[w]
<1>1. started \in Nat /\ started <= Len(rows) /\ rows \in Seq(Row) /\ DOMAIN rows = 1..Len(rows)
  BY HandedOut, OutboxAssumption
<1>2. claim' \in [Row -> Worker \cup {Nobody}]
  BY DEF Dispatch, OutboxTypeOK
<1>3. current' \in [Worker -> 0..MaxBatches]
  BY OutboxAssumption DEF Dispatch, OutboxTypeOK
<1>4. SubSeq(rows, started + 1, Len(rows)) \in Seq(Row)
  BY <1>1
<1>5. queue' \in [Batch -> Seq(Row)]
  BY <1>4 DEF Dispatch, OutboxTypeOK
<1>6. \A l \in Loop : l[2] <= started => rows[l[2]] \in Row
  BY <1>1, LoopShape
<1>7. loop' \in [Loop -> LoopState]
  BY <1>6 DEF Dispatch, OutboxTypeOK, LoopState, At
<1>8. QED
  BY <1>2, <1>3, <1>5, <1>7

LEMMA OutboxTypeInit == OutboxInit => OutboxTypeOK
  BY OutboxAssumption DEF OutboxInit, OutboxTypeOK, LoopState, Idle

LEMMA OutboxTypeStep == OutboxTypeOK /\ [OutboxNext]_outboxVars => OutboxTypeOK'
<1> SUFFICES ASSUME OutboxTypeOK, [OutboxNext]_outboxVars
             PROVE  OutboxTypeOK'
  OBVIOUS
<1> USE OutboxAssumption
<1>1. ASSUME NEW r \in Row, Enqueue(r)
      PROVE  OutboxTypeOK'
  BY <1>1 DEF OutboxTypeOK, Enqueue
<1>2. ASSUME NEW r \in Row, ClaimLapses(r)
      PROVE  OutboxTypeOK'
  BY <1>2 DEF OutboxTypeOK, ClaimLapses, Excuse
<1>3. ASSUME NEW w \in Worker, RunOnce(w)
      PROVE  OutboxTypeOK'
  BY <1>3, DispatchType DEF OutboxTypeOK, RunOnce, FreeBatch
<1>4. ASSUME NEW w \in Worker, ClaimRejects(w)
      PROVE  OutboxTypeOK'
  BY <1>4 DEF OutboxTypeOK, ClaimRejects, Fault
<1>5. ASSUME NEW w \in Worker, BatchEnds(w) \/ Stop(w)
      PROVE  OutboxTypeOK'
  <2>1. CASE BatchEnds(w)
    BY <2>1 DEF OutboxTypeOK, BatchEnds
  <2>2. CASE Stop(w)
    <3>1. mode' \in [Worker -> {"on", "stopping", "stopped"}]
      BY <2>2 DEF OutboxTypeOK, Stop
    <3>2. QED
      BY <2>2, <3>1 DEF OutboxTypeOK, Stop
  <2>3. QED
    BY <1>5, <2>1, <2>2
<1>6. ASSUME NEW w \in Worker, Crash(w)
      PROVE  OutboxTypeOK'
  BY <1>6 DEF OutboxTypeOK, Crash, Fault, Excuse, LoopState
<1>7. ASSUME NEW l \in Loop, AppendToLog(l) \/ Broadcast(l)
      PROVE  OutboxTypeOK'
  <2>1. loop[l].row \in Row
    BY <1>7, LoopHolds DEF AppendToLog, Broadcast
  <2>2. CASE AppendToLog(l)
    <3>1. loop' \in [Loop -> LoopState] /\ log' \subseteq Row
      BY <2>1, <2>2 DEF OutboxTypeOK, AppendToLog, LoopState, At
    <3>2. QED
      BY <2>2, <3>1 DEF OutboxTypeOK, AppendToLog
  <2>3. CASE Broadcast(l)
    <3>1. loop' \in [Loop -> LoopState] /\ sent' \in [Row -> Nat]
      BY <2>1, <2>3 DEF OutboxTypeOK, Broadcast, LoopState, At
    <3>2. QED
      BY <2>3, <3>1 DEF OutboxTypeOK, Broadcast
  <2>4. QED
    BY <1>7, <2>2, <2>3
<1>8. ASSUME NEW l \in Loop, Published(l) \/ Failed(l)
      PROVE  OutboxTypeOK'
  <2>1. loop[l].row \in Row
    BY <1>8, LoopHolds DEF Published, Failed
  <2>2. ShiftNext(l)
    BY <1>8 DEF Published, Failed
  <2>3. loop' \in [Loop -> LoopState] /\ queue' \in [Batch -> Seq(Row)]
    BY <2>2, ShiftNextType
  <2>4. MarkPublished(loop[l].row) \/ MarkFailed(loop[l].row)
    BY <1>8 DEF Published, Failed
  <2>5. published' \subseteq Row /\ claim' \in [Row -> Worker \cup {Nobody}]
    BY <2>1, <2>4 DEF OutboxTypeOK, MarkPublished, MarkFailed
  <2>6. UNCHANGED <<outbox, mode, current, log, sent, excuses, torn, faults>>
    BY <1>8 DEF Published, Failed
  <2>7. QED
    BY <2>3, <2>5, <2>6 DEF OutboxTypeOK
<1>9. ASSUME NEW l \in Loop, Rejected(l)
      PROVE  OutboxTypeOK'
  <2>1. loop[l].row \in Row
    BY <1>9, LoopHolds DEF Rejected
  <2>2. loop' \in [Loop -> LoopState]
    BY <1>9, <2>1 DEF OutboxTypeOK, Rejected, LoopState, At
  <2>3. excuses' \in [Row -> Nat] /\ faults' \in 0..MaxFaults
    <3>1. UNCHANGED <<excuses, faults>> \/ (Fault /\ Excuse({loop[l].row}))
      BY <1>9 DEF Rejected
    <3>2. CASE UNCHANGED <<excuses, faults>>
      BY <3>2 DEF OutboxTypeOK
    <3>3. CASE Fault /\ Excuse({loop[l].row})
      BY <3>3 DEF OutboxTypeOK, Fault, Excuse
    <3>4. QED
      BY <3>1, <3>2, <3>3
  <2>4. /\ published' \subseteq Row /\ claim' \in [Row -> Worker \cup {Nobody}]
    <3>1. UNCHANGED <<published, claim>> \/ MarkPublished(loop[l].row)
      BY <1>9 DEF Rejected
    <3>2. QED
      BY <2>1, <3>1 DEF OutboxTypeOK, MarkPublished
  <2>5. sent' \in [Row -> Nat]
    <3>1. UNCHANGED sent \/ sent' = [sent EXCEPT ![loop[l].row] = @ + 1]
      BY <1>9 DEF Rejected
    <3>2. QED
      BY <2>1, <3>1 DEF OutboxTypeOK
  <2>6. QED
    BY <1>9, <2>2, <2>3, <2>4, <2>5 DEF OutboxTypeOK, Rejected
<1>10. ASSUME NEW l \in Loop, FailedRejects(l)
       PROVE  OutboxTypeOK'
  <2>1. loop[l].row \in Row /\ l[1][1] \in Worker
    BY <1>10, LoopHolds, LoopShape DEF FailedRejects
  <2>2. excuses' \in [Row -> Nat] /\ faults' \in 0..MaxFaults
    BY <1>10 DEF OutboxTypeOK, FailedRejects, Fault, Excuse
  <2>3. claim' \in [Row -> Worker \cup {Nobody}] /\ published' = published
    BY <1>10, <2>1 DEF OutboxTypeOK, FailedRejects, MarkFailed
  <2>4. loop' \in [Loop -> LoopState] /\ current' \in [Worker -> 0..MaxBatches] /\ torn' \subseteq Worker
    BY <1>10, <2>1 DEF OutboxTypeOK, FailedRejects, LoopState
  <2>5. QED
    BY <1>10, <2>2, <2>3, <2>4 DEF OutboxTypeOK, FailedRejects
<1>11. CASE UNCHANGED outboxVars
  BY <1>11 DEF OutboxTypeOK, outboxVars
<1>12. QED
  BY <1>1, <1>2, <1>3, <1>4, <1>5, <1>6, <1>7, <1>8, <1>9, <1>10, <1>11
  DEF OutboxNext, LoopStep

\* Rows, claims, batches and loops always have their types.
THEOREM OutboxTypeCorrect == OutboxSpec => []OutboxTypeOK
  BY OutboxTypeInit, OutboxTypeStep, PTL DEF OutboxSpec

------------------------------------------------------------------------------
(* The order of a publish: append, broadcast, mark.                        *)

\* What a loop may do in one step: nothing, start a row or return, give a row
\* up, or take the one step of a publish that comes next.
LEMMA LoopMoves ==
    ASSUME OutboxTypeOK, [OutboxNext]_outboxVars, NEW l \in Loop
    PROVE  \/ loop'[l] = loop[l]
           \/ loop'[l] = Idle
           \/ loop'[l].at \in {"append", "fail"}
           \/ AppendToLog(l)
           \/ Broadcast(l)
<1> DEFINE Goal == \/ loop'[l] = loop[l] \/ loop'[l] = Idle \/ loop'[l].at \in {"append", "fail"}
                   \/ AppendToLog(l) \/ Broadcast(l)
<1>1. ASSUME NEW m \in Loop, ShiftNext(m)
      PROVE  Goal
  BY <1>1 DEF ShiftNext, OutboxTypeOK, At
<1>2. ASSUME NEW m \in Loop, LoopStep(m) \/ Rejected(m) \/ FailedRejects(m)
      PROVE  Goal
  <2>1. CASE AppendToLog(m)
    BY <2>1 DEF AppendToLog, OutboxTypeOK
  <2>2. CASE Broadcast(m)
    BY <2>2 DEF Broadcast, OutboxTypeOK
  <2>3. CASE Published(m) \/ Failed(m)
    BY <1>1, <2>3 DEF Published, Failed
  <2>4. CASE Rejected(m)
    BY <2>4 DEF Rejected, OutboxTypeOK, At
  <2>5. CASE FailedRejects(m)
    BY <2>5 DEF FailedRejects, OutboxTypeOK
  <2>6. QED
    BY <1>2, <2>1, <2>2, <2>3, <2>4, <2>5 DEF LoopStep
<1>3. ASSUME NEW w \in Worker, RunOnce(w)
      PROVE  Goal
  BY <1>3 DEF RunOnce, Dispatch, At
<1>4. ASSUME NEW w \in Worker, Crash(w)
      PROVE  Goal
  BY <1>4 DEF Crash
<1>5. ASSUME NEW w \in Worker, ClaimRejects(w) \/ BatchEnds(w) \/ Stop(w)
      PROVE  Goal
  BY <1>5 DEF ClaimRejects, BatchEnds, Stop
<1>6. ASSUME NEW r \in Row, Enqueue(r) \/ ClaimLapses(r)
      PROVE  Goal
  BY <1>6 DEF Enqueue, ClaimLapses
<1>7. CASE UNCHANGED outboxVars
  BY <1>7 DEF outboxVars
<1>8. QED
  BY <1>2, <1>3, <1>4, <1>5, <1>6, <1>7 DEF OutboxNext

\* What any step does to the rows: the log and the deliveries only grow, and a
\* row is marked only by a loop that has broadcast it.
LEMMA RowMoves ==
    ASSUME OutboxTypeOK, [OutboxNext]_outboxVars
    PROVE  /\ log \subseteq log'
           /\ \A r \in Row : sent'[r] >= sent[r]
           /\ published \subseteq published'
           /\ \A r \in published' \ published : \E l \in Loop : loop[l].at = "mark" /\ loop[l].row = r
<1> DEFINE Goal == /\ log \subseteq log'
                   /\ \A r \in Row : sent'[r] >= sent[r]
                   /\ published \subseteq published'
                   /\ \A r \in published' \ published :
                         \E l \in Loop : loop[l].at = "mark" /\ loop[l].row = r
<1>1. UNCHANGED <<log, sent, published>> => Goal
  BY DEF OutboxTypeOK
<1>2. ASSUME NEW l \in Loop, LoopStep(l) \/ Rejected(l) \/ FailedRejects(l)
      PROVE  Goal
  <2>1. CASE AppendToLog(l)
    BY <2>1 DEF AppendToLog, OutboxTypeOK
  <2>2. CASE Broadcast(l)
    BY <2>2, LoopHolds DEF Broadcast, OutboxTypeOK
  <2>3. CASE Published(l)
    BY <2>3 DEF Published, MarkPublished, OutboxTypeOK
  <2>4. CASE Failed(l)
    BY <1>1, <2>4 DEF Failed, MarkFailed
  <2>5. CASE Rejected(l)
    <3>1. \/ UNCHANGED <<published, sent>>
          \/ UNCHANGED published /\ sent' = [sent EXCEPT ![loop[l].row] = @ + 1]
          \/ loop[l].at = "mark" /\ MarkPublished(loop[l].row) /\ UNCHANGED sent
      BY <2>5 DEF Rejected
    <3>2. UNCHANGED log
      BY <2>5 DEF Rejected
    <3>3. CASE UNCHANGED published /\ sent' = [sent EXCEPT ![loop[l].row] = @ + 1]
      BY <3>2, <3>3 DEF OutboxTypeOK
    <3>4. CASE loop[l].at = "mark" /\ MarkPublished(loop[l].row) /\ UNCHANGED sent
      BY <3>2, <3>4 DEF MarkPublished, OutboxTypeOK
    <3>5. QED
      BY <1>1, <3>1, <3>2, <3>3, <3>4
  <2>6. CASE FailedRejects(l)
    BY <1>1, <2>6 DEF FailedRejects, MarkFailed
  <2>7. QED
    BY <1>2, <2>1, <2>2, <2>3, <2>4, <2>5, <2>6 DEF LoopStep
<1>3. ASSUME NEW w \in Worker,
             RunOnce(w) \/ ClaimRejects(w) \/ BatchEnds(w) \/ Stop(w) \/ Crash(w)
      PROVE  Goal
  BY <1>1, <1>3 DEF RunOnce, ClaimRejects, BatchEnds, Stop, Crash
<1>4. ASSUME NEW r \in Row, Enqueue(r) \/ ClaimLapses(r)
      PROVE  Goal
  BY <1>1, <1>4 DEF Enqueue, ClaimLapses
<1>5. CASE UNCHANGED outboxVars
  BY <1>1, <1>5 DEF outboxVars
<1>6. QED
  BY <1>2, <1>3, <1>4, <1>5 DEF OutboxNext

\* A loop broadcasts what the log has, and marks what it has broadcast.
PublishInv ==
    /\ \A l \in Loop : loop[l].at \in {"broadcast", "mark"} => loop[l].row \in log
    /\ \A l \in Loop : loop[l].at = "mark" => sent[loop[l].row] > 0
    /\ PublishedIsReplayable

LEMMA PublishInit == OutboxInit => PublishInv
  BY DEF OutboxInit, PublishInv, PublishedIsReplayable, Idle

LEMMA PublishStep ==
    OutboxTypeOK /\ PublishInv /\ [OutboxNext]_outboxVars => PublishInv'
<1> SUFFICES ASSUME OutboxTypeOK, PublishInv, [OutboxNext]_outboxVars
             PROVE  PublishInv'
  OBVIOUS
<1>1. OutboxTypeOK'
  BY OutboxTypeStep
<1>2. ASSUME NEW l \in Loop, loop'[l].at \in {"broadcast", "mark"}
      PROVE  /\ loop'[l].row \in log'
             /\ loop'[l].at = "mark" => sent'[loop'[l].row] > 0
  <2>1. CASE loop'[l] = loop[l]
    <3>1. loop[l].row \in Row /\ loop[l].row \in log
      BY <1>2, <2>1, LoopHolds DEF PublishInv, Idle
    <3>2. loop[l].at = "mark" => sent[loop[l].row] > 0
      BY DEF PublishInv
    <3>3. QED
      BY <1>1, <2>1, <3>1, <3>2, RowMoves DEF OutboxTypeOK
  <2>2. CASE AppendToLog(l)
    BY <2>2 DEF AppendToLog, OutboxTypeOK, At
  <2>3. CASE Broadcast(l)
    <3>1. loop[l].row \in Row /\ loop[l].row \in log
      BY <2>3, LoopHolds DEF PublishInv, Broadcast, Idle
    <3>2. loop'[l].row = loop[l].row /\ log' = log /\ sent'[loop[l].row] = sent[loop[l].row] + 1
      BY <2>3, <3>1 DEF Broadcast, OutboxTypeOK, At
    <3>3. QED
      BY <3>1, <3>2 DEF OutboxTypeOK
  <2>4. QED
    BY <1>2, <2>1, <2>2, <2>3, LoopMoves DEF Idle
<1>3. ASSUME NEW r \in published'
      PROVE  sent'[r] > 0 /\ r \in log'
  <2>1. r \in Row /\ sent[r] > 0 /\ r \in log
    <3>1. r \in Row
      BY <1>1, <1>3 DEF OutboxTypeOK
    <3>2. CASE r \in published
      BY <3>1, <3>2 DEF PublishInv, PublishedIsReplayable
    <3>3. CASE r \notin published
      <4>1. PICK l \in Loop : loop[l].at = "mark" /\ loop[l].row = r
        BY <1>3, <3>3, RowMoves
      <4>2. QED
        BY <3>1, <4>1 DEF PublishInv
    <3>4. QED
      BY <3>2, <3>3
  <2>2. QED
    BY <1>1, <2>1, RowMoves DEF OutboxTypeOK
<1>4. QED
  BY <1>2, <1>3 DEF PublishInv, PublishedIsReplayable

\* A row leaves the outbox only after its event is in the log that reconnecting
\* clients replay from and has been broadcast, whatever crashes and rejects.
THEOREM PublishedRowsReplay == OutboxSpec => []PublishedIsReplayable
<1>1. PublishInv => PublishedIsReplayable
  BY DEF PublishInv
<1>2. QED
  BY <1>1, OutboxTypeInit, OutboxTypeStep, PublishInit, PublishStep, PTL DEF OutboxSpec

------------------------------------------------------------------------------
(* stop().                                                                 *)

\* Unless a batch was torn, the loops at work are those of the batch that
\* runOnce() awaits; a stopped worker awaits none.
QuietInv ==
    /\ \A l \in Loop : l[1][1] \notin torn /\ loop[l] # Idle => current[l[1][1]] = l[1][2]
    /\ \A w \in Worker : mode[w] = "stopped" => current[w] = 0

LEMMA QuietInit == OutboxInit => QuietInv
  BY LoopShape DEF OutboxInit, QuietInv

LEMMA QuietStep == OutboxTypeOK /\ QuietInv /\ [OutboxNext]_outboxVars => QuietInv'
<1> SUFFICES ASSUME OutboxTypeOK, QuietInv, [OutboxNext]_outboxVars
             PROVE  QuietInv'
  OBVIOUS
<1> USE OutboxAssumption
<1>1. ASSUME UNCHANGED <<current, mode, torn>>,
             \A l \in Loop : loop'[l] # Idle => loop[l] # Idle
      PROVE  QuietInv'
  BY <1>1 DEF QuietInv
<1>2. ASSUME NEW w \in Worker, RunOnce(w)
      PROVE  QuietInv'
  <2>1. PICK n \in 1..MaxBatches, rows \in OldestDue : Dispatch(w, n, rows)
    BY <1>2 DEF RunOnce, FreeBatch
  <2>2. /\ n # 0 /\ n \in 1..MaxBatches
        /\ current' = [current EXCEPT ![w] = n]
        /\ mode[w] = "on" /\ current[w] = 0 /\ UNCHANGED <<mode, torn>>
    <3>1. n # 0
      OBVIOUS
    <3>2. current' = [current EXCEPT ![w] = n]
      BY <2>1 DEF Dispatch
    <3>3. QED
      BY <1>2, <3>1, <3>2 DEF RunOnce
  <2>3. ASSUME NEW l \in Loop, l[1][1] \notin torn, loop'[l] # Idle
        PROVE  current'[l[1][1]] = l[1][2]
    <3>1. loop'[l] # loop[l] => l[1] = <<w, n>>
      BY <2>1 DEF Dispatch
    <3>2. l[1] = <<w, n>> => l[1][1] = w /\ l[1][2] = n
      OBVIOUS
    <3>3. loop'[l] = loop[l] => current[l[1][1]] = l[1][2]
      BY <2>3 DEF QuietInv
    <3>4. l[1][1] = w => l[1] = <<w, n>>
      BY <2>2, <2>3, <3>1, <3>3, LoopShape
    <3>5. QED
      BY <2>2, <3>1, <3>2, <3>3, <3>4, LoopShape DEF OutboxTypeOK
  <2>4. ASSUME NEW v \in Worker, mode'[v] = "stopped"
        PROVE  current'[v] = 0
    BY <2>2, <2>4 DEF QuietInv, OutboxTypeOK
  <2>5. QED
    BY <2>2, <2>3, <2>4 DEF QuietInv
<1>3. ASSUME NEW w \in Worker, BatchEnds(w)
      PROVE  QuietInv'
  <2>1. ASSUME NEW l \in Loop, l[1][1] = w, w \notin torn
        PROVE  loop[l] = Idle
    BY <1>3, <2>1, LoopShape DEF QuietInv, BatchEnds, BatchLoops
  <2>2. current' = [current EXCEPT ![w] = 0] /\ UNCHANGED <<mode, torn, loop>>
    BY <1>3 DEF BatchEnds
  <2>3. QED
    BY <2>1, <2>2, LoopShape DEF QuietInv, OutboxTypeOK
<1>4. ASSUME NEW w \in Worker, Stop(w)
      PROVE  QuietInv'
  <2>1. UNCHANGED <<current, torn, loop>>
    BY <1>4 DEF Stop
  <2>2. ASSUME NEW v \in Worker, mode'[v] = "stopped"
        PROVE  current'[v] = 0
    <3>1. mode'[v] = mode[v] \/ current[v] = 0 \/ mode'[v] = "stopping"
      BY <1>4 DEF Stop, OutboxTypeOK
    <3>2. QED
      BY <2>1, <2>2, <3>1 DEF QuietInv
  <2>3. QED
    BY <2>1, <2>2 DEF QuietInv
<1>5. ASSUME NEW w \in Worker, Crash(w)
      PROVE  QuietInv'
  <2>1. /\ current' = [current EXCEPT ![w] = 0] /\ UNCHANGED mode
        /\ torn' = torn \ {w}
        /\ \A l \in Loop : loop'[l] = IF l[1][1] = w THEN Idle ELSE loop[l]
    BY <1>5 DEF Crash
  <2>2. QED
    BY <2>1, LoopShape DEF QuietInv, OutboxTypeOK
<1>6. ASSUME NEW m \in Loop, FailedRejects(m)
      PROVE  QuietInv'
  <2> DEFINE w == m[1][1]
  <2>1. /\ current' = [current EXCEPT ![w] = IF @ = m[1][2] THEN 0 ELSE @]
        /\ UNCHANGED mode
        /\ torn' = torn \cup {w}
        /\ loop' = [loop EXCEPT ![m] = Idle]
    BY <1>6 DEF FailedRejects
  <2>2. QED
    BY <2>1, LoopShape DEF QuietInv, OutboxTypeOK
<1>7. ASSUME NEW m \in Loop, LoopStep(m) \/ Rejected(m)
      PROVE  QuietInv'
  <2>1. UNCHANGED <<current, mode, torn>>
    BY <1>7 DEF LoopStep, AppendToLog, Broadcast, Published, Failed, Rejected
  <2>2. loop[m] # Idle
    BY <1>7 DEF LoopStep, AppendToLog, Broadcast, Published, Failed, Rejected, Idle
  <2>3. \A l \in Loop \ {m} : loop'[l] = loop[l]
    <3>1. CASE Published(m) \/ Failed(m)
      BY <3>1 DEF Published, Failed, ShiftNext, OutboxTypeOK
    <3>2. CASE AppendToLog(m) \/ Broadcast(m)
      BY <3>2 DEF AppendToLog, Broadcast, OutboxTypeOK
    <3>3. CASE Rejected(m)
      BY <3>3 DEF Rejected, OutboxTypeOK
    <3>4. QED
      BY <1>7, <3>1, <3>2, <3>3 DEF LoopStep
  <2>4. QED
    BY <1>1, <2>1, <2>2, <2>3
<1>8. ASSUME NEW w \in Worker, ClaimRejects(w)
      PROVE  QuietInv'
  BY <1>1, <1>8 DEF ClaimRejects
<1>9. ASSUME NEW r \in Row, Enqueue(r) \/ ClaimLapses(r)
      PROVE  QuietInv'
  BY <1>1, <1>9 DEF Enqueue, ClaimLapses
<1>10. CASE UNCHANGED outboxVars
  BY <1>1, <1>10 DEF outboxVars
<1>11. QED
  BY <1>2, <1>3, <1>4, <1>5, <1>6, <1>7, <1>8, <1>9, <1>10 DEF OutboxNext

\* When stop() has resolved nothing of the worker publishes any more, unless a
\* rejecting markFailed() tore a batch.
THEOREM StopIsQuiet == OutboxSpec => []StoppedMeansQuiet
<1>1. OutboxTypeOK /\ QuietInv => StoppedMeansQuiet
  <2> SUFFICES ASSUME OutboxTypeOK, QuietInv, NEW w \in Worker, mode[w] = "stopped", w \notin torn,
                      NEW l \in Loop, l[1][1] = w, loop[l] # Idle
               PROVE  FALSE
    BY DEF StoppedMeansQuiet, Active
  <2>1. current[w] = 0 /\ current[w] = l[1][2]
    BY DEF QuietInv
  <2>2. QED
    BY <2>1, LoopShape, OutboxAssumption
<1>2. QED
  BY <1>1, OutboxTypeInit, OutboxTypeStep, QuietInit, QuietStep, PTL DEF OutboxSpec

------------------------------------------------------------------------------
(* The outbox implements the promise of AtLeastOnce.                       *)

\* The workers only have rows of the outbox.
ListedInv ==
    /\ \A l \in Loop : loop[l] # Idle => Enqueued(loop[l].row)
    /\ \A b \in Batch : \A i \in DOMAIN queue[b] : Enqueued(queue[b][i])

\* A row that is enqueued is the only one that Enqueue adds.
LEMMA EnqueueAdds ==
    ASSUME OutboxTypeOK, NEW r \in Row, Enqueue(r), NEW q \in Row
    PROVE  Enqueued(q)' <=> Enqueued(q) \/ q = r
<1>1. Len(outbox) \in Nat /\ DOMAIN outbox = 1..Len(outbox)
  BY DEF OutboxTypeOK
<1>2. /\ DOMAIN outbox' = 1..(Len(outbox) + 1)
      /\ \A i \in 1..Len(outbox) : outbox'[i] = outbox[i]
      /\ outbox'[Len(outbox) + 1] = r
  BY DEF Enqueue, OutboxTypeOK
<1>3. \A i \in 1..(Len(outbox) + 1) : i \in 1..Len(outbox) \/ i = Len(outbox) + 1
  BY <1>1
<1>4. QED
  BY <1>1, <1>2, <1>3 DEF Enqueued

\* Rows stay in the outbox, and only Enqueue adds one.
LEMMA EnqueuedStays ==
    ASSUME OutboxTypeOK, [OutboxNext]_outboxVars
    PROVE  /\ UNCHANGED outbox \/ \E r \in Row : Enqueue(r)
           /\ \A q \in Row : Enqueued(q) => Enqueued(q)'
<1>1. UNCHANGED outbox \/ \E r \in Row : Enqueue(r)
  <2>1. ASSUME NEW l \in Loop, LoopStep(l) \/ Rejected(l) \/ FailedRejects(l)
        PROVE  UNCHANGED outbox
    BY <2>1 DEF LoopStep, AppendToLog, Broadcast, Published, Failed, Rejected, FailedRejects
  <2>2. ASSUME NEW w \in Worker,
               RunOnce(w) \/ ClaimRejects(w) \/ BatchEnds(w) \/ Stop(w) \/ Crash(w)
        PROVE  UNCHANGED outbox
    BY <2>2 DEF RunOnce, ClaimRejects, BatchEnds, Stop, Crash
  <2>3. ASSUME NEW r \in Row, ClaimLapses(r)
        PROVE  UNCHANGED outbox
    BY <2>3 DEF ClaimLapses
  <2>4. CASE UNCHANGED outboxVars
    BY <2>4 DEF outboxVars
  <2>5. QED
    BY <2>1, <2>2, <2>3, <2>4 DEF OutboxNext
<1>2. ASSUME NEW q \in Row, Enqueued(q)
      PROVE  Enqueued(q)'
  <2>1. CASE UNCHANGED outbox
    BY <1>2, <2>1 DEF Enqueued
  <2>2. ASSUME NEW r \in Row, Enqueue(r)
        PROVE  Enqueued(q)'
    BY <1>2, <2>2, EnqueueAdds
  <2>3. QED
    BY <1>1, <2>1, <2>2
<1>3. QED
  BY <1>1, <1>2

\* A row a loop starts was in its queue or has just been handed out.
LEMMA ListedStep ==
    OutboxTypeOK /\ ListedInv /\ [OutboxNext]_outboxVars => ListedInv'
<1> SUFFICES ASSUME OutboxTypeOK, ListedInv, [OutboxNext]_outboxVars
             PROVE  ListedInv'
  OBVIOUS
<1> DEFINE Known == /\ \A l \in Loop : loop'[l] # Idle => Enqueued(loop'[l].row)
                    /\ \A b \in Batch : \A i \in DOMAIN queue'[b] : Enqueued(queue'[b][i])
<1>1. OutboxTypeOK'
  BY OutboxTypeStep
<1>2. Known => ListedInv'
  <2>1. \A l \in Loop : loop'[l] # Idle => loop'[l].row \in Row
    BY <1>1 DEF OutboxTypeOK, LoopState
  <2>2. \A b \in Batch : \A i \in DOMAIN queue'[b] : queue'[b][i] \in Row
    BY <1>1 DEF OutboxTypeOK
  <2>3. QED
    BY <2>1, <2>2, EnqueuedStays DEF ListedInv
<1>3. ASSUME NEW l \in Loop, ShiftNext(l)
      PROVE  Known
  <2>1. l[1] \in Batch /\ queue[l[1]] \in Seq(Row)
    BY LoopShape DEF OutboxTypeOK
  <2>2. CASE queue[l[1]] = <<>>
    BY <1>3, <2>1, <2>2 DEF ShiftNext, ListedInv, OutboxTypeOK, Idle
  <2>3. CASE queue[l[1]] # <<>>
    <3>1. /\ 1 \in DOMAIN queue[l[1]] /\ Head(queue[l[1]]) = queue[l[1]][1]
          /\ \A i \in DOMAIN Tail(queue[l[1]]) :
                i + 1 \in DOMAIN queue[l[1]] /\ Tail(queue[l[1]])[i] = queue[l[1]][i + 1]
      BY <2>1, <2>3
    <3>2. /\ loop' = [loop EXCEPT ![l] = At("append", Head(queue[l[1]]))]
          /\ queue' = [queue EXCEPT ![l[1]] = Tail(@)]
      BY <1>3, <2>3 DEF ShiftNext
    <3>3. ASSUME NEW m \in Loop, loop'[m] # Idle
          PROVE  Enqueued(loop'[m].row)
      BY <2>1, <3>1, <3>2, <3>3 DEF ListedInv, OutboxTypeOK, At
    <3>4. ASSUME NEW b \in Batch, NEW i \in DOMAIN queue'[b]
          PROVE  Enqueued(queue'[b][i])
      BY <2>1, <3>1, <3>2, <3>4 DEF ListedInv, OutboxTypeOK
    <3>5. QED
      BY <3>3, <3>4
  <2>4. QED
    BY <2>2, <2>3
<1>4. ASSUME NEW l \in Loop, LoopStep(l) \/ Rejected(l) \/ FailedRejects(l)
      PROVE  Known
  <2>1. CASE Published(l) \/ Failed(l)
    BY <1>3, <2>1 DEF Published, Failed
  <2>2. CASE AppendToLog(l) \/ Broadcast(l) \/ Rejected(l) \/ FailedRejects(l)
    <3>1. UNCHANGED queue
      BY <2>2 DEF AppendToLog, Broadcast, Rejected, FailedRejects
    <3>2. loop[l] # Idle
      BY <2>2 DEF AppendToLog, Broadcast, Rejected, FailedRejects, Idle
    <3>3. \A m \in Loop \ {l} : loop'[m] = loop[m]
      <4>1. CASE AppendToLog(l) \/ Broadcast(l)
        BY <4>1 DEF AppendToLog, Broadcast, OutboxTypeOK
      <4>2. CASE Rejected(l) \/ FailedRejects(l)
        BY <4>2 DEF Rejected, FailedRejects, OutboxTypeOK
      <4>3. QED
        BY <2>2, <4>1, <4>2
    <3>4. loop'[l] = Idle \/ loop'[l].row = loop[l].row
      <4>1. CASE AppendToLog(l) \/ Broadcast(l)
        BY <4>1 DEF AppendToLog, Broadcast, OutboxTypeOK, At
      <4>2. CASE Rejected(l) \/ FailedRejects(l)
        BY <4>2 DEF Rejected, FailedRejects, OutboxTypeOK, At
      <4>3. QED
        BY <2>2, <4>1, <4>2
    <3>5. QED
      BY <3>1, <3>2, <3>3, <3>4 DEF ListedInv
  <2>3. QED
    BY <1>4, <2>1, <2>2 DEF LoopStep
<1>5. ASSUME NEW w \in Worker, RunOnce(w)
      PROVE  Known
  <2>1. PICK n \in 1..MaxBatches, rows \in OldestDue : Dispatch(w, n, rows)
    BY <1>5 DEF RunOnce, FreeBatch
  <2> DEFINE started == IF Len(rows) < Concurrency[w] THEN Len(rows) ELSE Concurrency[w]
  <2>2. started \in Nat /\ started <= Len(rows)
    BY HandedOut, OutboxAssumption
  <2>3. /\ loop' = [l \in Loop |-> IF l[1] = <<w, n>> /\ l[2] <= started
                                   THEN At("append", rows[l[2]]) ELSE loop[l]]
        /\ queue' = [queue EXCEPT ![<<w, n>>] = SubSeq(rows, started + 1, Len(rows))]
    BY <2>1 DEF Dispatch
  <2>4. \A i \in DOMAIN rows : Enqueued(rows[i])
    BY HandedOut DEF Claimable
  <2>5. ASSUME NEW l \in Loop, loop'[l] # Idle
        PROVE  Enqueued(loop'[l].row)
    <3>1. CASE l[1] = <<w, n>> /\ l[2] <= started
      <4>1. l[2] \in DOMAIN rows
        BY <2>2, <3>1, LoopShape, HandedOut
      <4>2. QED
        BY <2>3, <2>4, <3>1, <4>1 DEF At
    <3>2. CASE ~(l[1] = <<w, n>> /\ l[2] <= started)
      BY <2>3, <2>5, <3>2 DEF ListedInv
    <3>3. QED
      BY <3>1, <3>2
  <2>6. ASSUME NEW b \in Batch, NEW i \in DOMAIN queue'[b]
        PROVE  Enqueued(queue'[b][i])
    <3>1. CASE b = <<w, n>>
      <4>1. queue'[b] = SubSeq(rows, started + 1, Len(rows))
        BY <2>3, <3>1 DEF OutboxTypeOK
      <4>2. i + started \in DOMAIN rows /\ queue'[b][i] = rows[i + started]
        BY <2>2, <2>6, <4>1, HandedOut
      <4>3. QED
        BY <2>4, <4>2
    <3>2. CASE b # <<w, n>>
      BY <2>3, <2>6, <3>2 DEF ListedInv, OutboxTypeOK
    <3>3. QED
      BY <3>1, <3>2
  <2>7. QED
    BY <2>5, <2>6
<1>6. ASSUME NEW w \in Worker, Crash(w)
      PROVE  Known
  BY <1>6 DEF Crash, ListedInv
<1>7. ASSUME NEW w \in Worker, ClaimRejects(w) \/ BatchEnds(w) \/ Stop(w)
      PROVE  Known
  BY <1>7 DEF ClaimRejects, BatchEnds, Stop, ListedInv
<1>8. ASSUME NEW r \in Row, Enqueue(r) \/ ClaimLapses(r)
      PROVE  Known
  BY <1>8 DEF Enqueue, ClaimLapses, ListedInv
<1>9. CASE UNCHANGED outboxVars
  BY <1>9 DEF outboxVars, ListedInv, Enqueued
<1>10. QED
  BY <1>2, <1>4, <1>5, <1>6, <1>7, <1>8, <1>9 DEF OutboxNext

LEMMA ListedInit == OutboxInit => ListedInv
  BY DEF OutboxInit, ListedInv

\* To the subscribers a step is one of four: nothing, a row is enqueued, a row
\* is delivered, or a row that was delivered is marked.
LEMMA DeliveryKinds ==
    ASSUME OutboxTypeOK, [OutboxNext]_outboxVars
    PROVE  \/ UNCHANGED <<outbox, sent, published>>
           \/ \E r \in Row : Enqueue(r)
           \/ \E l \in Loop : /\ loop[l].at = "broadcast"
                              /\ sent' = [sent EXCEPT ![loop[l].row] = @ + 1]
                              /\ UNCHANGED <<outbox, published>>
           \/ \E l \in Loop : /\ loop[l].at = "mark"
                              /\ published' = published \cup {loop[l].row}
                              /\ UNCHANGED <<outbox, sent>>
<1> DEFINE Goal == \/ UNCHANGED <<outbox, sent, published>>
                   \/ \E r \in Row : Enqueue(r)
                   \/ \E l \in Loop : /\ loop[l].at = "broadcast"
                                      /\ sent' = [sent EXCEPT ![loop[l].row] = @ + 1]
                                      /\ UNCHANGED <<outbox, published>>
                   \/ \E l \in Loop : /\ loop[l].at = "mark"
                                      /\ published' = published \cup {loop[l].row}
                                      /\ UNCHANGED <<outbox, sent>>
<1>1. ASSUME NEW l \in Loop, LoopStep(l) \/ Rejected(l) \/ FailedRejects(l)
      PROVE  Goal
  <2>1. CASE AppendToLog(l)
    BY <2>1 DEF AppendToLog
  <2>2. CASE Broadcast(l)
    BY <2>2 DEF Broadcast
  <2>3. CASE Published(l)
    BY <2>3 DEF Published, MarkPublished
  <2>4. CASE Failed(l)
    BY <2>4 DEF Failed, MarkFailed
  <2>5. CASE Rejected(l)
    <3>1. UNCHANGED outbox
      BY <2>5 DEF Rejected
    <3>2. \/ UNCHANGED <<published, sent>>
          \/ /\ loop[l].at = "broadcast" /\ UNCHANGED published
             /\ sent' = [sent EXCEPT ![loop[l].row] = @ + 1]
          \/ loop[l].at = "mark" /\ MarkPublished(loop[l].row) /\ UNCHANGED sent
      BY <2>5 DEF Rejected
    <3>3. QED
      BY <3>1, <3>2 DEF MarkPublished
  <2>6. CASE FailedRejects(l)
    BY <2>6 DEF FailedRejects, MarkFailed
  <2>7. QED
    BY <1>1, <2>1, <2>2, <2>3, <2>4, <2>5, <2>6 DEF LoopStep
<1>2. ASSUME NEW w \in Worker,
             RunOnce(w) \/ ClaimRejects(w) \/ BatchEnds(w) \/ Stop(w) \/ Crash(w)
      PROVE  Goal
  BY <1>2 DEF RunOnce, ClaimRejects, BatchEnds, Stop, Crash
<1>3. ASSUME NEW r \in Row, Enqueue(r) \/ ClaimLapses(r)
      PROVE  Goal
  BY <1>3 DEF ClaimLapses
<1>4. CASE UNCHANGED outboxVars
  BY <1>4 DEF outboxVars
<1>5. QED
  BY <1>1, <1>2, <1>3, <1>4 DEF OutboxNext

LEMMA PromiseStep ==
    OutboxTypeOK /\ PublishInv /\ ListedInv /\ [OutboxNext]_outboxVars
      => [Promise!Next]_(Promise!vars)
<1> SUFFICES ASSUME OutboxTypeOK, PublishInv, ListedInv, [OutboxNext]_outboxVars
             PROVE  [Promise!Next]_(Promise!vars)
  OBVIOUS
<1> DEFINE accepted == {r \in Healthy : Enqueued(r)}
           delivered == {r \in Healthy : sent[r] > 0}
           settled == published \cap Healthy
<1>1. CASE UNCHANGED <<outbox, sent, published>>
  <2>1. accepted' = accepted /\ delivered' = delivered /\ settled' = settled
    BY <1>1 DEF Enqueued
  <2>2. QED
    BY <2>1 DEF Promise!vars
<1>2. ASSUME NEW r \in Row, Enqueue(r)
      PROVE  [Promise!Next]_(Promise!vars)
  <2>1. delivered' = delivered /\ settled' = settled
    BY <1>2 DEF Enqueue
  <2>2. CASE r \in Healthy
    <3>1. accepted' = accepted \cup {r}
      BY <1>2, <2>2, EnqueueAdds DEF Healthy
    <3>2. Promise!Accept(r)
      BY <2>1, <3>1 DEF Promise!Accept
    <3>3. QED
      BY <2>2, <3>2 DEF Promise!Next
  <2>3. CASE r \notin Healthy
    <3>1. accepted' = accepted
      BY <1>2, <2>3, EnqueueAdds DEF Healthy
    <3>2. QED
      BY <2>1, <3>1 DEF Promise!vars
  <2>4. QED
    BY <2>2, <2>3
<1>3. ASSUME NEW l \in Loop, loop[l].at = "broadcast",
             sent' = [sent EXCEPT ![loop[l].row] = @ + 1], UNCHANGED <<outbox, published>>
      PROVE  [Promise!Next]_(Promise!vars)
  <2>1. PICK r \in Row : r = loop[l].row /\ Enqueued(r)
    BY <1>3, LoopHolds DEF ListedInv, Idle
  <2>2. accepted' = accepted /\ settled' = settled
    BY <1>3 DEF Enqueued
  <2>3. \A q \in Row : sent'[q] > 0 <=> sent[q] > 0 \/ q = r
    BY <1>3, <2>1 DEF OutboxTypeOK
  <2>4. CASE r \in Healthy
    <3>1. delivered' = delivered \cup {r}
      BY <2>3, <2>4 DEF Healthy
    <3>2. Promise!Deliver(r)
      BY <2>1, <2>2, <2>4, <3>1 DEF Promise!Deliver
    <3>3. QED
      BY <2>4, <3>2 DEF Promise!Next
  <2>5. CASE r \notin Healthy
    <3>1. delivered' = delivered
      BY <2>3, <2>5 DEF Healthy
    <3>2. QED
      BY <2>2, <3>1 DEF Promise!vars
  <2>6. QED
    BY <2>4, <2>5
<1>4. ASSUME NEW l \in Loop, loop[l].at = "mark",
             published' = published \cup {loop[l].row}, UNCHANGED <<outbox, sent>>
      PROVE  [Promise!Next]_(Promise!vars)
  <2>1. PICK r \in Row : r = loop[l].row /\ sent[r] > 0
    BY <1>4, LoopHolds DEF PublishInv, Idle
  <2>2. accepted' = accepted /\ delivered' = delivered
    BY <1>4 DEF Enqueued
  <2>3. CASE r \in Healthy
    <3>1. settled' = settled \cup {r}
      BY <1>4, <2>1, <2>3
    <3>2. Promise!Settle(r)
      BY <2>1, <2>2, <2>3, <3>1 DEF Promise!Settle
    <3>3. QED
      BY <2>3, <3>2 DEF Promise!Next
  <2>4. CASE r \notin Healthy
    <3>1. settled' = settled
      BY <1>4, <2>1, <2>4
    <3>2. QED
      BY <2>2, <3>1 DEF Promise!vars
  <2>5. QED
    BY <2>3, <2>4
<1>5. QED
  BY <1>1, <1>2, <1>3, <1>4, DeliveryKinds

LEMMA PromiseInit == OutboxInit => Promise!Init
  BY DEF OutboxInit, Promise!Init, Enqueued, Healthy

\* Every step of the workers, the store and their faults is a step of the
\* promise or none: no event is delivered that no action has committed, and
\* none leaves the outbox undelivered.
THEOREM OutboxKeepsPromise == OutboxSpec => Promise!Init /\ [][Promise!Next]_(Promise!vars)
  BY OutboxTypeInit, OutboxTypeStep, PublishInit, PublishStep, ListedInit, ListedStep,
     PromiseInit, PromiseStep, PTL DEF OutboxSpec

------------------------------------------------------------------------------
(* Duplicates.                                                             *)

\* A batch has each of its rows once.
UniqueInv ==
    /\ \A b \in Batch : \A i, j \in DOMAIN queue[b] : i # j => queue[b][i] # queue[b][j]
    /\ \A l \in Loop : loop[l] # Idle =>
          \A i \in DOMAIN queue[l[1]] : queue[l[1]][i] # loop[l].row
    /\ \A l, m \in Loop : l # m /\ l[1] = m[1] /\ loop[l] # Idle => loop[l].row # loop[m].row

LEMMA UniqueInit == OutboxInit => UniqueInv
  BY DEF OutboxInit, UniqueInv

\* What a loop takes from its queue.
LEMMA Shifted ==
    ASSUME OutboxTypeOK, NEW l \in Loop, ShiftNext(l)
    PROVE  /\ l[1] \in Batch
           /\ \A m \in Loop \ {l} : loop'[m] = loop[m]
           /\ \A b \in Batch \ {l[1]} : queue'[b] = queue[b]
           /\ \/ loop'[l] = Idle /\ queue' = queue
              \/ /\ 1 \in DOMAIN queue[l[1]] /\ loop'[l] = At("append", queue[l[1]][1])
                 /\ \A i \in DOMAIN queue'[l[1]] :
                       i \in Nat \ {0} /\ i + 1 \in DOMAIN queue[l[1]]
                         /\ queue'[l[1]][i] = queue[l[1]][i + 1]
<1>1. l[1] \in Batch /\ queue[l[1]] \in Seq(Row)
  BY LoopShape DEF OutboxTypeOK
<1>2. /\ \A m \in Loop \ {l} : loop'[m] = loop[m]
      /\ \A b \in Batch \ {l[1]} : queue'[b] = queue[b]
  BY DEF ShiftNext, OutboxTypeOK
<1>3. CASE queue[l[1]] = <<>>
  <2>1. loop'[l] = Idle
    BY <1>3 DEF ShiftNext, OutboxTypeOK
  <2>2. queue' = queue
    BY <1>1, <1>3 DEF ShiftNext, OutboxTypeOK
  <2>3. QED
    BY <1>1, <1>2, <2>1, <2>2
<1>4. CASE queue[l[1]] # <<>>
  <2>1. /\ 1 \in DOMAIN queue[l[1]] /\ Head(queue[l[1]]) = queue[l[1]][1]
        /\ \A i \in DOMAIN Tail(queue[l[1]]) :
              i \in Nat \ {0} /\ i + 1 \in DOMAIN queue[l[1]]
                /\ Tail(queue[l[1]])[i] = queue[l[1]][i + 1]
    BY <1>1, <1>4
  <2>2. loop'[l] = At("append", Head(queue[l[1]])) /\ queue'[l[1]] = Tail(queue[l[1]])
    BY <1>1, <1>4 DEF ShiftNext, OutboxTypeOK
  <2>3. QED
    BY <1>1, <1>2, <2>1, <2>2
<1>5. QED
  BY <1>3, <1>4

\* What the loops of a new batch get.
LEMMA Dispatched ==
    ASSUME OutboxTypeOK, NEW w \in Worker, NEW n \in 1..MaxBatches, NEW rows \in OldestDue,
           Free(w, n), Dispatch(w, n, rows)
    PROVE  /\ \A l \in Loop : l[1] # <<w, n>> => loop'[l] = loop[l]
           /\ \A b \in Batch \ {<<w, n>>} : queue'[b] = queue[b]
           /\ \A l \in Loop : l[1] = <<w, n>> =>
                 \/ loop'[l] = Idle
                 \/ /\ loop'[l] = At("append", rows[l[2]]) /\ l[2] \in DOMAIN rows
                    /\ \A i \in DOMAIN queue'[<<w, n>>] : queue'[<<w, n>>][i] # rows[l[2]]
           /\ \A i \in DOMAIN queue'[<<w, n>>] :
                 \E k \in Nat : i + k \in DOMAIN rows /\ queue'[<<w, n>>][i] = rows[i + k]
           /\ \A i, j \in DOMAIN queue'[<<w, n>>] :
                 i # j => queue'[<<w, n>>][i] # queue'[<<w, n>>][j]
<1> DEFINE b == <<w, n>>
           started == IF Len(rows) < Concurrency[w] THEN Len(rows) ELSE Concurrency[w]
<1>1. started \in Nat /\ started <= Len(rows)
  BY HandedOut, OutboxAssumption
<1>2. b \in Batch
  BY DEF Batch
<1>3. queue'[b] = SubSeq(rows, started + 1, Len(rows))
  BY <1>2 DEF Dispatch, OutboxTypeOK
<1>4. \A i \in DOMAIN queue'[b] :
         i \in Nat \ {0} /\ i + started \in DOMAIN rows /\ queue'[b][i] = rows[i + started]
  BY <1>1, <1>3, HandedOut
<1>5. \A l \in Loop : loop'[l] = IF l[1] = b /\ l[2] <= started
                                 THEN At("append", rows[l[2]]) ELSE loop[l]
  BY DEF Dispatch
<1>6. ASSUME NEW l \in Loop, l[1] = b, l[2] <= started
      PROVE  l[2] \in DOMAIN rows /\ \A i \in DOMAIN queue'[b] : queue'[b][i] # rows[l[2]]
  <2>1. l[2] \in DOMAIN rows
    BY <1>1, <1>6, LoopShape, HandedOut
  <2>2. ASSUME NEW i \in DOMAIN queue'[b]
        PROVE  queue'[b][i] # rows[l[2]]
    <3>1. i + started # l[2]
      BY <1>1, <1>4, <1>6, LoopShape
    <3>2. QED
      BY <1>4, <2>1, <3>1, HandedOut
  <2>3. QED
    BY <2>1, <2>2
<1>7. ASSUME NEW l \in Loop, l[1] = b
      PROVE  loop[l] = Idle
  BY <1>7 DEF Free, BatchLoops
<1>8. ASSUME NEW i \in DOMAIN queue'[b], NEW j \in DOMAIN queue'[b], i # j
      PROVE  queue'[b][i] # queue'[b][j]
  <2>1. i + started # j + started
    BY <1>1, <1>4, <1>8
  <2>2. QED
    BY <1>4, <2>1, HandedOut
<1>9. \A c \in Batch \ {b} : queue'[c] = queue[c]
  BY DEF Dispatch, OutboxTypeOK
<1>10. \A i \in DOMAIN queue'[b] : \E k \in Nat : i + k \in DOMAIN rows /\ queue'[b][i] = rows[i + k]
  BY <1>1, <1>4
<1>11. QED
  BY <1>5, <1>6, <1>7, <1>8, <1>9, <1>10

\* A step of a loop that takes nothing from the queue.
InPlace(l) ==
    /\ loop[l] # Idle /\ UNCHANGED queue
    /\ \A m \in Loop \ {l} : loop'[m] = loop[m]
    /\ loop'[l] = Idle \/ loop'[l].row = loop[l].row

LEMMA InPlaceSteps ==
    ASSUME OutboxTypeOK, NEW l \in Loop,
           AppendToLog(l) \/ Broadcast(l) \/ Rejected(l) \/ FailedRejects(l)
    PROVE  InPlace(l)
<1>1. CASE AppendToLog(l)
  BY <1>1 DEF AppendToLog, InPlace, OutboxTypeOK, At, Idle
<1>2. CASE Broadcast(l)
  BY <1>2 DEF Broadcast, InPlace, OutboxTypeOK, At, Idle
<1>3. CASE Rejected(l)
  <2>1. UNCHANGED queue /\ loop' = [loop EXCEPT ![l] = At("fail", loop[l].row)] /\ loop[l] # Idle
    BY <1>3 DEF Rejected, Idle
  <2>2. QED
    BY <2>1 DEF InPlace, OutboxTypeOK, At
<1>4. CASE FailedRejects(l)
  <2>1. UNCHANGED queue /\ loop' = [loop EXCEPT ![l] = Idle] /\ loop[l] # Idle
    BY <1>4 DEF FailedRejects, Idle
  <2>2. QED
    BY <2>1 DEF InPlace, OutboxTypeOK
<1>5. QED
  BY <1>1, <1>2, <1>3, <1>4

LEMMA UniqueStep == OutboxTypeOK /\ UniqueInv /\ [OutboxNext]_outboxVars => UniqueInv'
<1> SUFFICES ASSUME OutboxTypeOK, UniqueInv, [OutboxNext]_outboxVars
             PROVE  UniqueInv'
  OBVIOUS
<1>1. ASSUME NEW l \in Loop, ShiftNext(l)
      PROVE  UniqueInv'
  <2> DEFINE b == l[1]
  <2>1. CASE loop'[l] = Idle /\ queue' = queue
    BY <1>1, <2>1, Shifted, OutboxAssumption, LoopHolds DEF UniqueInv, Idle
  <2>2. CASE /\ 1 \in DOMAIN queue[b] /\ loop'[l] = At("append", queue[b][1])
             /\ \A i \in DOMAIN queue'[b] :
                   i \in Nat \ {0} /\ i + 1 \in DOMAIN queue[b] /\ queue'[b][i] = queue[b][i + 1]
    <3>1. b \in Batch /\ (\A m \in Loop \ {l} : loop'[m] = loop[m])
          /\ \A c \in Batch \ {b} : queue'[c] = queue[c]
      BY <1>1, Shifted
    <3>2. ASSUME NEW c \in Batch, NEW i \in DOMAIN queue'[c], NEW j \in DOMAIN queue'[c], i # j
          PROVE  queue'[c][i] # queue'[c][j]
      <4>1. CASE c = b
        <5>1. i + 1 # j + 1 /\ i + 1 \in DOMAIN queue[b] /\ j + 1 \in DOMAIN queue[b]
          BY <2>2, <3>2, <4>1
        <5>2. QED
          BY <2>2, <3>1, <3>2, <4>1, <5>1 DEF UniqueInv
      <4>2. CASE c # b
        BY <3>1, <3>2, <4>2 DEF UniqueInv
      <4>3. QED
        BY <4>1, <4>2
    <3>3. ASSUME NEW m \in Loop, loop'[m] # Idle, NEW i \in DOMAIN queue'[m[1]]
          PROVE  queue'[m[1]][i] # loop'[m].row
      <4>1. m[1] \in Batch
        BY LoopShape
      <4>2. CASE m[1] # b
        BY <3>1, <3>3, <4>1, <4>2 DEF UniqueInv
      <4>3. CASE m[1] = b
        <5>1. i + 1 \in DOMAIN queue[b] /\ queue'[b][i] = queue[b][i + 1] /\ i + 1 # 1
          BY <2>2, <3>3, <4>3
        <5>2. CASE m = l
          BY <2>2, <3>1, <4>3, <5>1, <5>2 DEF UniqueInv, At
        <5>3. CASE m # l
          BY <3>1, <3>3, <4>3, <5>1, <5>3 DEF UniqueInv
        <5>4. QED
          BY <5>2, <5>3
      <4>4. QED
        BY <4>2, <4>3
    <3>4. ASSUME NEW m \in Loop, NEW k \in Loop, m # k, m[1] = k[1], loop'[m] # Idle
          PROVE  loop'[m].row # loop'[k].row
      <4>1. CASE m # l /\ k # l
        BY <3>1, <3>4, <4>1 DEF UniqueInv
      <4>2. CASE m = l
        <5>1. loop'[m].row = queue[b][1] /\ loop'[k] = loop[k] /\ k[1] = b
          BY <2>2, <3>1, <3>4, <4>2 DEF At
        <5>2. CASE loop[k] # Idle
          BY <2>2, <5>1, <5>2 DEF UniqueInv
        <5>3. CASE loop[k] = Idle
          <6>1. queue[b][1] \in Row
            BY <2>2, <3>1 DEF OutboxTypeOK
          <6>2. QED
            BY <5>1, <5>3, <6>1, OutboxAssumption DEF Idle
        <5>4. QED
          BY <5>2, <5>3
      <4>3. CASE k = l
        <5>1. loop'[k].row = queue[b][1] /\ loop'[m] = loop[m] /\ m[1] = b
          BY <2>2, <3>1, <3>4, <4>3 DEF At
        <5>2. QED
          BY <2>2, <3>4, <5>1 DEF UniqueInv
      <4>4. QED
        BY <4>1, <4>2, <4>3
    <3>5. QED
      BY <3>2, <3>3, <3>4 DEF UniqueInv
  <2>3. QED
    BY <1>1, <2>1, <2>2, Shifted
<1>2. ASSUME NEW l \in Loop, InPlace(l)
      PROVE  UniqueInv'
  <2>1. ASSUME NEW m \in Loop, loop'[m] # Idle
        PROVE  loop[m] # Idle /\ loop'[m].row = loop[m].row
    BY <1>2, <2>1 DEF InPlace
  <2>2. ASSUME NEW m \in Loop, NEW k \in Loop, m # k, m[1] = k[1], loop'[m] # Idle
        PROVE  loop'[m].row # loop'[k].row
    <3>1. CASE loop'[k] # Idle
      BY <2>1, <2>2, <3>1 DEF UniqueInv
    <3>2. CASE loop'[k] = Idle
      BY <2>1, <2>2, <3>2, LoopHolds, OutboxAssumption DEF Idle
    <3>3. QED
      BY <3>1, <3>2
  <2>3. QED
    BY <1>2, <2>1, <2>2 DEF InPlace, UniqueInv
<1>3. ASSUME NEW l \in Loop, LoopStep(l) \/ Rejected(l) \/ FailedRejects(l)
      PROVE  UniqueInv'
  <2>1. ShiftNext(l) \/ InPlace(l)
    BY <1>3, InPlaceSteps DEF LoopStep, Published, Failed
  <2>2. QED
    BY <1>1, <1>2, <2>1
<1>4. ASSUME NEW w \in Worker, RunOnce(w)
      PROVE  UniqueInv'
  <2>1. PICK n \in 1..MaxBatches, rows \in OldestDue : Free(w, n) /\ Dispatch(w, n, rows)
    BY <1>4 DEF RunOnce, FreeBatch
  <2> DEFINE b == <<w, n>>
  <2>2. /\ \A l \in Loop : l[1] # b => loop'[l] = loop[l]
        /\ \A c \in Batch \ {b} : queue'[c] = queue[c]
    BY <2>1, Dispatched
  <2>3. \A l \in Loop : l[1] = b =>
           \/ loop'[l] = Idle
           \/ loop'[l] = At("append", rows[l[2]]) /\ l[2] \in DOMAIN rows
    BY <2>1, Dispatched
  <2>4. \A i \in DOMAIN rows : rows[i] \in Row
    BY HandedOut DEF Claimable
  <2>5. ASSUME NEW c \in Batch, NEW i \in DOMAIN queue'[c], NEW j \in DOMAIN queue'[c], i # j
        PROVE  queue'[c][i] # queue'[c][j]
    <3>1. CASE c = b
      BY <2>1, <2>5, <3>1, Dispatched
    <3>2. CASE c # b
      <4>1. queue'[c] = queue[c]
        BY <2>2, <3>2
      <4>2. QED
        BY <2>5, <4>1 DEF UniqueInv
    <3>3. QED
      BY <3>1, <3>2
  <2>6. ASSUME NEW m \in Loop, loop'[m] # Idle, NEW i \in DOMAIN queue'[m[1]]
        PROVE  queue'[m[1]][i] # loop'[m].row
    <3>1. m[1] \in Batch
      BY LoopShape
    <3>2. CASE m[1] = b
      <4>1. /\ loop'[m] = At("append", rows[m[2]])
            /\ \A x \in DOMAIN queue'[b] : queue'[b][x] # rows[m[2]]
        BY <2>1, <2>6, <3>2, Dispatched
      <4>2. QED
        BY <2>6, <3>2, <4>1 DEF At
    <3>3. CASE m[1] # b
      <4>1. queue'[m[1]] = queue[m[1]] /\ loop'[m] = loop[m]
        BY <2>2, <3>1, <3>3
      <4>2. QED
        BY <2>6, <4>1 DEF UniqueInv
    <3>4. QED
      BY <3>2, <3>3
  <2>7. ASSUME NEW m \in Loop, NEW k \in Loop, m # k, m[1] = k[1], loop'[m] # Idle
        PROVE  loop'[m].row # loop'[k].row
    <3>1. CASE m[1] = b
      <4>1. loop'[m] = At("append", rows[m[2]]) /\ m[2] \in DOMAIN rows
        BY <2>7, <2>3, <3>1
      <4>2. CASE loop'[k] = Idle
        BY <2>4, <4>1, <4>2, OutboxAssumption DEF Idle, At
      <4>3. CASE loop'[k] # Idle
        <5>1. loop'[k] = At("append", rows[k[2]]) /\ k[2] \in DOMAIN rows
          BY <2>7, <2>3, <3>1, <4>3
        <5>2. m[2] # k[2]
          BY <2>7 DEF Loop
        <5>3. QED
          BY <4>1, <5>1, <5>2, HandedOut DEF At
      <4>4. QED
        BY <4>2, <4>3
    <3>2. CASE m[1] # b
      <4>1. loop'[m] = loop[m] /\ loop'[k] = loop[k]
        BY <2>7, <2>2, <3>2
      <4>2. QED
        BY <2>7, <4>1 DEF UniqueInv
    <3>3. QED
      BY <3>1, <3>2
  <2>8. QED
    BY <2>5, <2>6, <2>7 DEF UniqueInv
<1>5. ASSUME NEW w \in Worker, Crash(w)
      PROVE  UniqueInv'
  <2>1. /\ \A b \in Batch : queue'[b] = IF b[1] = w THEN <<>> ELSE queue[b]
        /\ \A l \in Loop : loop'[l] = IF l[1][1] = w THEN Idle ELSE loop[l]
    BY <1>5 DEF Crash
  <2>2. \A b \in Batch : DOMAIN queue'[b] = {} \/ queue'[b] = queue[b]
    BY <2>1
  <2>3. \A l \in Loop : loop'[l] # Idle => loop'[l] = loop[l] /\ queue'[l[1]] = queue[l[1]]
    BY <2>1, LoopShape
  <2>4. ASSUME NEW m \in Loop, NEW k \in Loop, m # k, m[1] = k[1], loop'[m] # Idle
        PROVE  loop'[m].row # loop'[k].row
    BY <2>1, <2>4 DEF UniqueInv
  <2>5. QED
    BY <2>2, <2>3, <2>4 DEF UniqueInv
<1>6. ASSUME UNCHANGED <<queue, loop>>
      PROVE  UniqueInv'
  BY <1>6 DEF UniqueInv
<1>7. ASSUME NEW w \in Worker, ClaimRejects(w) \/ BatchEnds(w) \/ Stop(w)
      PROVE  UniqueInv'
  BY <1>6, <1>7 DEF ClaimRejects, BatchEnds, Stop
<1>8. ASSUME NEW r \in Row, Enqueue(r) \/ ClaimLapses(r)
      PROVE  UniqueInv'
  BY <1>6, <1>8 DEF Enqueue, ClaimLapses
<1>9. CASE UNCHANGED outboxVars
  BY <1>6, <1>9 DEF outboxVars
<1>10. QED
  BY <1>3, <1>4, <1>5, <1>7, <1>8, <1>9 DEF OutboxNext

\* Batch b may still deliver r.
Holds(b, r) ==
    \/ \E i \in DOMAIN queue[b] : queue[b][i] = r
    \/ \E l \in Loop : l[1] = b /\ loop[l].row = r /\ loop[l].at \in {"append", "broadcast", "fail"}
Holders(r) == {b \in Batch : Holds(b, r)}

\* The deliveries of r so far and those that may come without another excuse.
Potential(r) == sent[r] + Cardinality(Holders(r)) + IF Due(r) THEN 1 ELSE 0
PotentialInv == \A r \in Healthy : Potential(r) <= 1 + excuses[r]

LEMMA BatchesAreFinite == IsFiniteSet(Batch)
<1>1. IsFiniteSet(1..MaxBatches)
  BY FS_Interval, OutboxAssumption
<1>2. QED
  BY <1>1, FS_Product, OutboxAssumption DEF Batch

\* Counting sets of batches.
LEMMA Counting ==
    ASSUME NEW S \in SUBSET Batch, NEW T \in SUBSET Batch
    PROVE  /\ Cardinality(S) \in Nat /\ Cardinality(T) \in Nat
           /\ S \subseteq T => Cardinality(S) <= Cardinality(T)
           /\ \A b \in T : S \subseteq T \ {b} => Cardinality(S) + 1 <= Cardinality(T)
           /\ \A b \in Batch : S \subseteq T \cup {b} => Cardinality(S) <= Cardinality(T) + 1
<1>1. IsFiniteSet(S) /\ IsFiniteSet(T)
  BY BatchesAreFinite, FS_Subset
<1>2. Cardinality(S) \in Nat /\ Cardinality(T) \in Nat
  BY <1>1, FS_CardinalityType
<1>3. S \subseteq T => Cardinality(S) <= Cardinality(T)
  BY <1>1, FS_Subset
<1>4. ASSUME NEW b \in T, S \subseteq T \ {b}
      PROVE  Cardinality(S) + 1 <= Cardinality(T)
  <2>1. IsFiniteSet(T \ {b}) /\ Cardinality(T \ {b}) = Cardinality(T) - 1
    BY <1>1, FS_RemoveElement
  <2>2. Cardinality(S) <= Cardinality(T \ {b})
    BY <1>4, <2>1, FS_Subset
  <2>3. QED
    BY <1>2, <2>1, <2>2
<1>5. ASSUME NEW b \in Batch, S \subseteq T \cup {b}
      PROVE  Cardinality(S) <= Cardinality(T) + 1
  <2>1. /\ IsFiniteSet(T \cup {b})
        /\ Cardinality(T \cup {b}) = Cardinality(T) \/ Cardinality(T \cup {b}) = Cardinality(T) + 1
    BY <1>1, FS_AddElement
  <2>2. Cardinality(S) <= Cardinality(T \cup {b})
    BY <1>5, <2>1, FS_Subset
  <2>3. QED
    BY <1>2, <2>1, <2>2
<1>6. QED
  BY <1>2, <1>3, <1>4, <1>5

\* How the count of a row may move: fewer deliveries to come, a delivery that
\* was to come, or one more that something excuses.
Kept(r) == /\ sent'[r] = sent[r] /\ excuses'[r] >= excuses[r]
           /\ \A b \in Batch : Holds(b, r)' => Holds(b, r)
           /\ Due(r)' => Due(r)
Excused(r) == /\ sent'[r] = sent[r] /\ excuses'[r] = excuses[r] + 1
              /\ \/ \A b \in Batch : Holds(b, r)' => Holds(b, r)
                 \/ /\ Due(r)' => Due(r)
                    /\ \E b \in Batch : \A c \in Batch : Holds(c, r)' => Holds(c, r) \/ c = b
ExcusedDelivery(r) == /\ sent'[r] = sent[r] + 1 /\ excuses'[r] = excuses[r] + 1
                      /\ \A b \in Batch : Holds(b, r)' => Holds(b, r)
                      /\ Due(r)' => Due(r)
Delivered(r) == /\ sent'[r] = sent[r] + 1 /\ excuses'[r] >= excuses[r]
                /\ Due(r)' => Due(r)
                /\ \E b \in Batch : /\ Holds(b, r) /\ ~Holds(b, r)'
                                    /\ \A c \in Batch : Holds(c, r)' => Holds(c, r)
Returned(r) == /\ sent'[r] = sent[r] /\ excuses'[r] >= excuses[r]
               /\ \E b \in Batch : /\ Holds(b, r) /\ ~Holds(b, r)'
                                   /\ \A c \in Batch : Holds(c, r)' => Holds(c, r)
Handed(r) == /\ sent'[r] = sent[r] /\ excuses'[r] >= excuses[r]
             /\ Due(r) /\ ~Due(r)'
             /\ \E b \in Batch : \A c \in Batch : Holds(c, r)' => Holds(c, r) \/ c = b

LEMMA PotentialMoves ==
    ASSUME OutboxTypeOK, OutboxTypeOK', NEW r \in Row, Potential(r) <= 1 + excuses[r],
           \/ Kept(r) \/ Excused(r) \/ ExcusedDelivery(r)
           \/ Delivered(r) \/ Returned(r) \/ Handed(r)
    PROVE  Potential(r)' <= 1 + excuses'[r]
<1> DEFINE T == Holders(r)
           S == T'
           due == IF Due(r) THEN 1 ELSE 0
<1>1. /\ sent[r] \in Nat /\ excuses[r] \in Nat /\ sent'[r] \in Nat /\ excuses'[r] \in Nat
      /\ due \in {0, 1} /\ due' \in {0, 1}
  BY DEF OutboxTypeOK
<1>2. T \in SUBSET Batch /\ S \in SUBSET Batch
  BY DEF Holders
<1>3. sent[r] + Cardinality(T) + due <= 1 + excuses[r]
  BY DEF Potential
<1>4. Cardinality(S) \in Nat /\ Cardinality(T) \in Nat
  BY <1>2, Counting
<1>5. (Due(r)' => Due(r)) => due' <= due
  OBVIOUS
<1>6. (\A b \in Batch : Holds(b, r)' => Holds(b, r)) => Cardinality(S) <= Cardinality(T)
  <2>1. (\A b \in Batch : Holds(b, r)' => Holds(b, r)) => S \subseteq T
    BY DEF Holders
  <2>2. QED
    BY <1>2, <2>1, Counting
<1>7. (\E b \in Batch : \A c \in Batch : Holds(c, r)' => Holds(c, r) \/ c = b)
        => Cardinality(S) <= Cardinality(T) + 1
  <2>1. ASSUME NEW b \in Batch, \A c \in Batch : Holds(c, r)' => Holds(c, r) \/ c = b
        PROVE  Cardinality(S) <= Cardinality(T) + 1
    <3>1. S \subseteq T \cup {b}
      BY <2>1 DEF Holders
    <3>2. QED
      BY <1>2, <3>1, Counting
  <2>2. QED
    BY <2>1
<1>8. (\E b \in Batch : /\ Holds(b, r) /\ ~Holds(b, r)'
                        /\ \A c \in Batch : Holds(c, r)' => Holds(c, r))
        => Cardinality(S) + 1 <= Cardinality(T)
  <2>1. ASSUME NEW b \in Batch, Holds(b, r), ~Holds(b, r)',
               \A c \in Batch : Holds(c, r)' => Holds(c, r)
        PROVE  Cardinality(S) + 1 <= Cardinality(T)
    <3>1. b \in T /\ S \subseteq T \ {b}
      BY <2>1 DEF Holders
    <3>2. QED
      BY <1>2, <3>1, Counting
  <2>2. QED
    BY <2>1
<1> HIDE DEF S, T, due
<1>9. sent'[r] + Cardinality(S) + due' <= 1 + excuses'[r]
  <2>1. CASE Kept(r)
    <3>1. sent'[r] = sent[r] /\ excuses'[r] >= excuses[r] /\ Cardinality(S) <= Cardinality(T) /\ due' <= due
      BY <1>5, <1>6, <2>1 DEF Kept
    <3>2. QED
      BY <1>1, <1>3, <1>4, <3>1
  <2>2. CASE Excused(r)
    <3>1. /\ sent'[r] = sent[r] /\ excuses'[r] = excuses[r] + 1
          /\ \/ Cardinality(S) <= Cardinality(T)
             \/ Cardinality(S) <= Cardinality(T) + 1 /\ due' <= due
      BY <1>5, <1>6, <1>7, <2>2 DEF Excused
    <3>2. QED
      BY <1>1, <1>3, <1>4, <3>1
  <2>3. CASE ExcusedDelivery(r)
    <3>1. /\ sent'[r] = sent[r] + 1 /\ excuses'[r] = excuses[r] + 1
          /\ Cardinality(S) <= Cardinality(T) /\ due' <= due
      BY <1>5, <1>6, <2>3 DEF ExcusedDelivery
    <3>2. QED
      BY <1>1, <1>3, <1>4, <3>1
  <2>4. CASE Delivered(r)
    <3>1. /\ sent'[r] = sent[r] + 1 /\ excuses'[r] >= excuses[r]
          /\ Cardinality(S) + 1 <= Cardinality(T) /\ due' <= due
      BY <1>5, <1>8, <2>4 DEF Delivered
    <3>2. QED
      BY <1>1, <1>3, <1>4, <3>1
  <2>5. CASE Returned(r)
    <3>1. /\ sent'[r] = sent[r] /\ excuses'[r] >= excuses[r]
          /\ Cardinality(S) + 1 <= Cardinality(T)
      BY <1>8, <2>5 DEF Returned
    <3>2. QED
      BY <1>1, <1>3, <1>4, <3>1
  <2>6. CASE Handed(r)
    <3>1. /\ sent'[r] = sent[r] /\ excuses'[r] >= excuses[r]
          /\ Cardinality(S) <= Cardinality(T) + 1 /\ due = 1 /\ due' = 0
      BY <1>7, <2>6 DEF Handed, due
    <3>2. QED
      BY <1>1, <1>3, <1>4, <3>1
  <2>7. QED
    BY <2>1, <2>2, <2>3, <2>4, <2>5, <2>6
<1>10. QED
  BY <1>9 DEF Potential, S, T, due

\* A loop that shifts gives up its row and takes one its batch had already.
LEMMA HoldsShifted ==
    ASSUME OutboxTypeOK, UniqueInv, NEW l \in Loop, loop[l] # Idle, ShiftNext(l), NEW r \in Row
    PROVE  /\ \A b \in Batch : Holds(b, r)' => Holds(b, r)
           /\ loop[l].row = r => ~Holds(l[1], r)'
<1> DEFINE b == l[1]
<1>1. /\ b \in Batch
      /\ \A m \in Loop \ {l} : loop'[m] = loop[m]
      /\ \A c \in Batch \ {b} : queue'[c] = queue[c]
  BY Shifted
<1>2. \/ loop'[l] = Idle /\ queue' = queue
      \/ /\ 1 \in DOMAIN queue[b] /\ loop'[l] = At("append", queue[b][1])
         /\ \A i \in DOMAIN queue'[b] :
               i \in Nat \ {0} /\ i + 1 \in DOMAIN queue[b] /\ queue'[b][i] = queue[b][i + 1]
  BY Shifted
<1>3. \A c \in Batch : \A i \in DOMAIN queue'[c] :
         \E j \in DOMAIN queue[c] : queue'[c][i] = queue[c][j]
  BY <1>1, <1>2
<1>4. loop'[l].row = r => \E j \in DOMAIN queue[b] : queue[b][j] = r
  BY <1>2, OutboxAssumption DEF Idle, At
<1>5. ASSUME NEW c \in Batch, Holds(c, r)'
      PROVE  Holds(c, r)
  <2>1. CASE \E i \in DOMAIN queue'[c] : queue'[c][i] = r
    BY <1>3, <2>1 DEF Holds
  <2>2. ASSUME NEW m \in Loop, m[1] = c, loop'[m].row = r,
               loop'[m].at \in {"append", "broadcast", "fail"}
        PROVE  Holds(c, r)
    <3>1. CASE m = l
      BY <1>4, <2>2, <3>1 DEF Holds
    <3>2. CASE m # l
      BY <1>1, <2>2, <3>2 DEF Holds
    <3>3. QED
      BY <3>1, <3>2
  <2>3. QED
    BY <1>5, <2>1, <2>2 DEF Holds
<1>6. ASSUME loop[l].row = r
      PROVE  ~Holds(b, r)'
  <2>1. \A j \in DOMAIN queue[b] : queue[b][j] # r
    BY <1>6 DEF UniqueInv
  <2>2. \A i \in DOMAIN queue'[b] : queue'[b][i] # r
    BY <1>1, <1>3, <2>1
  <2>3. \A m \in Loop : m[1] = b => loop'[m].row # r
    BY <1>1, <1>4, <1>6, <2>1 DEF UniqueInv
  <2>4. QED
    BY <2>2, <2>3 DEF Holds
<1>7. QED
  BY <1>5, <1>6

\* A loop that goes on with its row: only a row that goes back to "fail" comes
\* to be held, and only by its own batch.
LEMMA HoldsInPlace ==
    ASSUME OutboxTypeOK, UniqueInv, NEW l \in Loop, InPlace(l), NEW r \in Row
    PROVE  /\ \A b \in Batch : Holds(b, r)' => Holds(b, r) \/ (b = l[1] /\ loop[l].row = r)
           /\ loop[l].at # "mark" \/ loop'[l].at \in {"mark", "idle"}
                => \A b \in Batch : Holds(b, r)' => Holds(b, r)
           /\ loop[l].row = r /\ loop'[l].at \in {"mark", "idle"} => ~Holds(l[1], r)'
           /\ loop[l].row = r /\ loop[l].at # "mark" => Holds(l[1], r)
<1>1. /\ loop[l] # Idle /\ UNCHANGED queue
      /\ \A m \in Loop \ {l} : loop'[m] = loop[m]
      /\ loop'[l] = Idle \/ loop'[l].row = loop[l].row
  BY DEF InPlace
<1>2. ASSUME NEW b \in Batch, Holds(b, r)'
      PROVE  \/ Holds(b, r)
             \/ b = l[1] /\ loop[l].row = r /\ loop'[l].at \in {"append", "broadcast", "fail"}
  <2>1. CASE \E i \in DOMAIN queue'[b] : queue'[b][i] = r
    BY <1>1, <2>1 DEF Holds
  <2>2. ASSUME NEW m \in Loop, m[1] = b, loop'[m].row = r,
               loop'[m].at \in {"append", "broadcast", "fail"}
        PROVE  \/ Holds(b, r)
               \/ b = l[1] /\ loop[l].row = r /\ loop'[l].at \in {"append", "broadcast", "fail"}
    <3>1. CASE m = l
      BY <1>1, <2>2, <3>1 DEF Idle
    <3>2. CASE m # l
      BY <1>1, <2>2, <3>2 DEF Holds
    <3>3. QED
      BY <3>1, <3>2
  <2>3. QED
    BY <1>2, <2>1, <2>2 DEF Holds
<1>3. loop[l].row = r /\ loop[l].at # "mark" => Holds(l[1], r)
  BY <1>1, LoopHolds DEF Holds
<1>4. loop'[l].at \in {"mark", "idle"} => loop'[l].at \notin {"append", "broadcast", "fail"}
  OBVIOUS
<1>5. ASSUME loop[l].row = r, loop'[l].at \in {"mark", "idle"}
      PROVE  ~Holds(l[1], r)'
  <2>1. l[1] \in Batch
    BY LoopShape
  <2>2. \A j \in DOMAIN queue[l[1]] : queue[l[1]][j] # r
    BY <1>1, <1>5 DEF UniqueInv
  <2>3. \A m \in Loop : m[1] = l[1] /\ m # l => loop'[m].row # r
    BY <1>1, <1>5 DEF UniqueInv
  <2>4. QED
    BY <1>1, <1>5, <2>2, <2>3 DEF Holds
<1>6. QED
  BY <1>2, <1>3, <1>4, <1>5

\* What a step of the workers or their store does to the count of a row.
Moves(r) == \/ Kept(r) \/ Excused(r) \/ ExcusedDelivery(r)
            \/ Delivered(r) \/ Returned(r) \/ Handed(r)

LEMMA LoopMovesRow ==
    ASSUME OutboxTypeOK, UniqueInv, NEW r \in Healthy, NEW l \in Loop,
           LoopStep(l) \/ Rejected(l) \/ FailedRejects(l)
    PROVE  Moves(r)
<1>1. r \in Row /\ r \notin Poison /\ excuses[r] \in Nat
  BY DEF Healthy, OutboxTypeOK
<1>2. CASE AppendToLog(l)
  <2>1. \A b \in Batch : Holds(b, r)' => Holds(b, r)
    BY <1>1, <1>2, InPlaceSteps, HoldsInPlace DEF AppendToLog
  <2>2. QED
    BY <1>1, <1>2, <2>1 DEF AppendToLog, Moves, Kept, Due
<1>3. CASE Broadcast(l)
  <2>1. /\ loop[l].at = "broadcast" /\ loop'[l].at = "mark"
        /\ sent' = [sent EXCEPT ![loop[l].row] = @ + 1]
        /\ UNCHANGED <<published, claim, excuses>>
    BY <1>3 DEF Broadcast, OutboxTypeOK, At
  <2>2. InPlace(l) /\ l[1] \in Batch
    BY <1>3, InPlaceSteps, LoopShape
  <2>3. \A b \in Batch : Holds(b, r)' => Holds(b, r)
    BY <1>1, <2>1, <2>2, HoldsInPlace
  <2>4. CASE loop[l].row = r
    <3>1. Holds(l[1], r) /\ ~Holds(l[1], r)'
      BY <1>1, <2>1, <2>2, <2>4, HoldsInPlace
    <3>2. sent'[r] = sent[r] + 1
      BY <1>1, <2>1, <2>4 DEF OutboxTypeOK
    <3>3. Delivered(r)
      BY <1>1, <2>1, <2>2, <2>3, <3>1, <3>2 DEF Delivered, Due
    <3>4. QED
      BY <3>3 DEF Moves
  <2>5. CASE loop[l].row # r
    BY <1>1, <2>1, <2>3, <2>5 DEF Moves, Kept, Due, OutboxTypeOK
  <2>6. QED
    BY <2>4, <2>5
<1>4. CASE Published(l)
  <2>1. /\ loop[l].at = "mark" /\ ShiftNext(l)
        /\ MarkPublished(loop[l].row) /\ UNCHANGED <<sent, excuses>>
    BY <1>4 DEF Published
  <2>2. \A b \in Batch : Holds(b, r)' => Holds(b, r)
    BY <1>1, <2>1, HoldsShifted DEF Idle
  <2>3. Due(r)' => Due(r)
    BY <1>1, <2>1 DEF MarkPublished, Due, OutboxTypeOK
  <2>4. QED
    BY <1>1, <2>1, <2>2, <2>3 DEF Moves, Kept
<1>5. CASE Failed(l)
  <2>1. /\ loop[l].at = "fail" /\ loop[l] # Idle /\ ShiftNext(l)
        /\ MarkFailed(loop[l].row) /\ UNCHANGED <<sent, excuses>>
    BY <1>5 DEF Failed, Idle
  <2>2. \A b \in Batch : Holds(b, r)' => Holds(b, r)
    BY <1>1, <2>1, HoldsShifted
  <2>3. CASE loop[l].row = r
    <3>1. l[1] \in Batch
      BY LoopShape
    <3>2. Holds(l[1], r)
      BY <2>1, <2>3 DEF Holds
    <3>3. ~Holds(l[1], r)'
      BY <1>1, <2>1, <2>3, <3>1, HoldsShifted
    <3>4. QED
      BY <1>1, <2>1, <2>2, <3>1, <3>2, <3>3 DEF Moves, Returned
  <2>4. CASE loop[l].row # r
    <3>1. Due(r)' <=> Due(r)
      BY <1>1, <2>1, <2>4 DEF MarkFailed, Due, OutboxTypeOK
    <3>2. QED
      BY <1>1, <2>1, <2>2, <3>1 DEF Moves, Kept
  <2>5. QED
    BY <2>3, <2>4
<1>6. CASE FailedRejects(l)
  <2>1. /\ loop[l].at = "fail" /\ loop'[l].at = "idle" /\ UNCHANGED <<sent, published>>
        /\ MarkFailed(loop[l].row) \/ UNCHANGED claim
    BY <1>6 DEF FailedRejects, MarkFailed, OutboxTypeOK, Idle
  <2>2. InPlace(l) /\ l[1] \in Batch /\ excuses'[r] >= excuses[r]
    <3>1. Excuse({loop[l].row})
      BY <1>6 DEF FailedRejects
    <3>2. excuses'[r] >= excuses[r]
      BY <1>1, <3>1 DEF Excuse
    <3>3. QED
      BY <1>6, <3>2, InPlaceSteps, LoopShape
  <2>3. \A b \in Batch : Holds(b, r)' => Holds(b, r)
    BY <1>1, <2>1, <2>2, HoldsInPlace
  <2>4. CASE loop[l].row = r
    <3>1. Holds(l[1], r) /\ ~Holds(l[1], r)'
      BY <1>1, <2>1, <2>2, <2>4, HoldsInPlace
    <3>2. QED
      BY <1>1, <2>1, <2>2, <2>3, <3>1 DEF Moves, Returned
  <2>5. CASE loop[l].row # r
    <3>1. Due(r)' <=> Due(r)
      BY <1>1, <2>1, <2>5 DEF MarkFailed, Due, OutboxTypeOK
    <3>2. QED
      BY <1>1, <2>1, <2>2, <2>3, <3>1 DEF Moves, Kept
  <2>6. QED
    BY <2>4, <2>5
<1>7. CASE Rejected(l)
  <2>1. loop[l].at \in {"append", "broadcast", "mark"} /\ InPlace(l) /\ l[1] \in Batch
    BY <1>7, InPlaceSteps, LoopShape DEF Rejected
  <2>2. CASE loop[l].row = r
    <3>1. /\ excuses'[r] = excuses[r] + 1
          /\ \/ UNCHANGED <<published, claim, sent>>
             \/ /\ loop[l].at = "broadcast" /\ sent' = [sent EXCEPT ![r] = @ + 1]
                /\ UNCHANGED <<published, claim>>
             \/ loop[l].at = "mark" /\ MarkPublished(r) /\ UNCHANGED sent
      <4>1. /\ Excuse({r})
            /\ \/ UNCHANGED <<published, claim, sent>>
               \/ /\ loop[l].at = "broadcast" /\ sent' = [sent EXCEPT ![r] = @ + 1]
                  /\ UNCHANGED <<published, claim>>
               \/ loop[l].at = "mark" /\ MarkPublished(r) /\ UNCHANGED sent
        BY <1>1, <1>7, <2>2 DEF Rejected
      <4>2. excuses'[r] = excuses[r] + 1
        BY <1>1, <4>1 DEF Excuse
      <4>3. QED
        BY <4>1, <4>2
    <3>2. \A c \in Batch : Holds(c, r)' => Holds(c, r) \/ c = l[1]
      BY <1>1, <2>1, HoldsInPlace
    <3>3. loop[l].at # "mark" => \A c \in Batch : Holds(c, r)' => Holds(c, r)
      BY <1>1, <2>1, HoldsInPlace
    <3>4. CASE UNCHANGED <<published, claim, sent>>
      BY <2>1, <3>1, <3>2, <3>4 DEF Moves, Excused, Due
    <3>5. CASE loop[l].at = "broadcast" /\ sent' = [sent EXCEPT ![r] = @ + 1]
               /\ UNCHANGED <<published, claim>>
      <4>1. sent'[r] = sent[r] + 1
        BY <1>1, <3>5 DEF OutboxTypeOK
      <4>2. QED
        BY <3>1, <3>3, <3>5, <4>1 DEF Moves, ExcusedDelivery, Due
    <3>6. CASE loop[l].at = "mark" /\ MarkPublished(r) /\ UNCHANGED sent
      <4>1. ~Due(r)'
        BY <3>6 DEF MarkPublished, Due
      <4>2. QED
        BY <2>1, <3>1, <3>2, <3>6, <4>1 DEF Moves, Excused
    <3>7. QED
      BY <3>1, <3>4, <3>5, <3>6
  <2>3. CASE loop[l].row # r
    <3>1. \A b \in Batch : Holds(b, r)' => Holds(b, r)
      BY <1>1, <2>1, <2>3, HoldsInPlace
    <3>2. excuses'[r] >= excuses[r]
      <4>1. UNCHANGED excuses \/ Excuse({loop[l].row})
        BY <1>7 DEF Rejected
      <4>2. QED
        BY <1>1, <4>1 DEF Excuse
    <3>3. sent'[r] = sent[r]
      <4>1. UNCHANGED sent \/ sent' = [sent EXCEPT ![loop[l].row] = @ + 1]
        BY <1>7 DEF Rejected
      <4>2. QED
        BY <1>1, <2>3, <4>1 DEF OutboxTypeOK
    <3>4. Due(r)' => Due(r)
      <4>1. UNCHANGED <<published, claim>> \/ MarkPublished(loop[l].row)
        BY <1>7 DEF Rejected
      <4>2. QED
        BY <1>1, <2>3, <4>1 DEF OutboxTypeOK, MarkPublished, Due
    <3>5. QED
      BY <3>1, <3>2, <3>3, <3>4 DEF Moves, Kept
  <2>4. QED
    BY <2>2, <2>3
<1>8. QED
  BY <1>2, <1>3, <1>4, <1>5, <1>6, <1>7 DEF LoopStep

LEMMA WorkerMovesRow ==
    ASSUME OutboxTypeOK, Claiming, NEW r \in Healthy, NEW w \in Worker,
           RunOnce(w) \/ ClaimRejects(w) \/ BatchEnds(w) \/ Stop(w) \/ Crash(w)
    PROVE  Moves(r)
<1>1. r \in Row /\ excuses[r] \in Nat /\ w # Nobody
  BY OutboxAssumption DEF Healthy, OutboxTypeOK
<1>2. CASE RunOnce(w)
  <2>1. PICK n \in 1..MaxBatches, rows \in OldestDue : Free(w, n) /\ Dispatch(w, n, rows)
    BY <1>2 DEF RunOnce, FreeBatch
  <2> DEFINE b == <<w, n>>
  <2>2. UNCHANGED <<published, sent, excuses>> /\ b \in Batch
    BY <1>2 DEF RunOnce, Batch
  <2>3. claim'[r] = IF \E i \in DOMAIN rows : rows[i] = r THEN w ELSE claim[r]
    BY <1>1, <2>1 DEF Dispatch
  <2>4. /\ \A l \in Loop : l[1] # b => loop'[l] = loop[l]
        /\ \A c \in Batch \ {b} : queue'[c] = queue[c]
    BY <2>1, Dispatched
  <2>5. \A c \in Batch : Holds(c, r)' => Holds(c, r) \/ c = b
    BY <2>4 DEF Holds
  <2>6. CASE \E i \in DOMAIN rows : rows[i] = r
    <3>1. Due(r) /\ ~Due(r)'
      BY <1>1, <2>3, <2>6, HandedOut DEF Claimable, Due
    <3>2. QED
      BY <1>1, <2>2, <2>5, <3>1 DEF Moves, Handed
  <2>7. CASE ~\E i \in DOMAIN rows : rows[i] = r
    <3>1. \A i \in DOMAIN queue'[b] : queue'[b][i] # r
      BY <2>1, <2>7, Dispatched
    <3>2. \A l \in Loop : l[1] = b => loop'[l] = Idle \/ loop'[l].row # r
      <4>1. \A l \in Loop : l[1] = b =>
               loop'[l] = Idle \/ (loop'[l] = At("append", rows[l[2]]) /\ l[2] \in DOMAIN rows)
        BY <2>1, Dispatched
      <4>2. \A i \in DOMAIN rows : At("append", rows[i]).row # r
        BY <2>7 DEF At
      <4>3. QED
        BY <4>1, <4>2
    <3>3. ~Holds(b, r)'
      BY <3>1, <3>2 DEF Holds, Idle
    <3>4. QED
      BY <1>1, <2>2, <2>3, <2>5, <2>7, <3>3 DEF Moves, Kept, Due
  <2>8. QED
    BY <2>6, <2>7
<1>3. CASE ClaimRejects(w)
  <2>1. PICK rows : claim' = [q \in Row |-> IF \E i \in DOMAIN rows : rows[i] = q THEN w ELSE claim[q]]
    BY <1>3 DEF ClaimRejects
  <2>2. UNCHANGED <<published, sent, excuses, queue, loop>>
    BY <1>3 DEF ClaimRejects
  <2>3. Due(r)' => Due(r)
    BY <1>1, <2>1, <2>2 DEF Due
  <2>4. QED
    BY <1>1, <2>2, <2>3 DEF Moves, Kept, Holds
<1>4. CASE BatchEnds(w) \/ Stop(w)
  <2>1. UNCHANGED <<published, sent, excuses, queue, loop, claim>>
    BY <1>4 DEF BatchEnds, Stop
  <2>2. QED
    BY <1>1, <2>1 DEF Moves, Kept, Holds, Due
<1>5. CASE Crash(w)
  <2>1. /\ UNCHANGED <<published, sent, claim>>
        /\ \A b \in Batch : queue'[b] = IF b[1] = w THEN <<>> ELSE queue[b]
        /\ \A l \in Loop : loop'[l] = IF l[1][1] = w THEN Idle ELSE loop[l]
    BY <1>5 DEF Crash
  <2>2. excuses'[r] >= excuses[r]
    BY <1>1, <1>5 DEF Crash, Excuse
  <2>3. \A b \in Batch : Holds(b, r)' => Holds(b, r)
    BY <2>1 DEF Holds, Idle
  <2>4. QED
    BY <2>1, <2>2, <2>3 DEF Moves, Kept, Due
<1>6. QED
  BY <1>2, <1>3, <1>4, <1>5

LEMMA PotentialInit == OutboxInit => PotentialInv
<1> SUFFICES ASSUME OutboxInit, NEW r \in Healthy
             PROVE  Potential(r) <= 1 + excuses[r]
  BY DEF PotentialInv
<1>1. sent[r] = 0 /\ excuses[r] = 0
  BY DEF OutboxInit, Healthy
<1>2. Holders(r) = {}
  BY DEF OutboxInit, Holders, Holds, Idle
<1>3. Cardinality(Holders(r)) = 0
  BY <1>2, FS_EmptySet
<1>4. QED
  BY <1>1, <1>3 DEF Potential

LEMMA PotentialStep ==
    ASSUME Claiming
    PROVE  OutboxTypeOK /\ UniqueInv /\ PotentialInv /\ [OutboxNext]_outboxVars => PotentialInv'
<1> SUFFICES ASSUME OutboxTypeOK, UniqueInv, PotentialInv, [OutboxNext]_outboxVars, NEW r \in Healthy
             PROVE  Potential(r)' <= 1 + excuses'[r]
  BY DEF PotentialInv
<1>1. OutboxTypeOK' /\ r \in Row /\ excuses[r] \in Nat /\ Potential(r) <= 1 + excuses[r]
  BY OutboxTypeStep DEF PotentialInv, Healthy, OutboxTypeOK
<1>2. Moves(r)
  <2>1. ASSUME NEW q \in Row, Enqueue(q)
        PROVE  Moves(r)
    BY <1>1, <2>1 DEF Enqueue, Moves, Kept, Holds, Due
  <2>2. ASSUME NEW q \in Row, ClaimLapses(q)
        PROVE  Moves(r)
    <3>1. UNCHANGED <<published, sent, queue, loop>> /\ Excuse({q})
          /\ claim' = [claim EXCEPT ![q] = Nobody]
      BY <2>2 DEF ClaimLapses
    <3>2. \A b \in Batch : Holds(b, r)' => Holds(b, r)
      BY <3>1 DEF Holds
    <3>3. CASE q = r
      BY <1>1, <3>1, <3>2, <3>3 DEF Moves, Excused, Excuse, Healthy
    <3>4. CASE q # r
      BY <1>1, <3>1, <3>2, <3>4 DEF Moves, Kept, Excuse, Due, OutboxTypeOK
    <3>5. QED
      BY <3>3, <3>4
  <2>3. CASE UNCHANGED outboxVars
    BY <1>1, <2>3 DEF outboxVars, Moves, Kept, Holds, Due
  <2>4. QED
    BY <2>1, <2>2, <2>3, LoopMovesRow, WorkerMovesRow DEF OutboxNext
<1>3. QED
  BY <1>1, <1>2, PotentialMoves DEF Moves

\* Every delivery beyond the first has its own cause: a claim that ran out, a
\* rejecting call or a crash.  The store must have claim(): with next() alone
\* two workers take the same row.
THEOREM DuplicatesHaveCauses ==
    ASSUME Claiming
    PROVE  OutboxSpec => []DuplicatesAreExplained
<1>1. OutboxTypeOK /\ PotentialInv => DuplicatesAreExplained
  <2> SUFFICES ASSUME OutboxTypeOK, PotentialInv, NEW r \in Healthy
               PROVE  sent[r] <= 1 + excuses[r]
    BY DEF DuplicatesAreExplained
  <2>1. Cardinality(Holders(r)) \in Nat
    BY Counting DEF Holders
  <2>2. Potential(r) <= 1 + excuses[r] /\ sent[r] \in Nat /\ excuses[r] \in Nat
    BY DEF PotentialInv, Healthy, OutboxTypeOK
  <2>3. QED
    BY <2>1, <2>2 DEF Potential
<1>2. QED
  BY <1>1, OutboxTypeInit, OutboxTypeStep, UniqueInit, UniqueStep, PotentialInit, PotentialStep,
     PTL DEF OutboxSpec
==============================================================================
