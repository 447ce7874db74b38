------------------------------- MODULE Outbox -------------------------------
(***************************************************************************)
(* Outbox workers (realtime/outbox.ts) over the outbox stores of           *)
(* memory-store.ts and postgres.ts, publishing through the sequenced       *)
(* publisher of realtime/sequence.ts.  A batch is one call of              *)
(* dispatchOutbox: a queue shared by a few loops.  A claim lapses at any   *)
(* moment, since nothing bounds a publish by the claim's lease.            *)
(***************************************************************************)
EXTENDS Integers, Sequences, FiniteSets

CONSTANTS
    Row,          \* the outbox rows the actions of a run commit
    Poison,       \* rows whose event the publisher always rejects
    Worker,       \* outbox workers, one per instance
    Stoppable,    \* workers that may be stopped for good
    Nobody,       \* no worker
    NoRow,        \* no row
    BatchLimit,   \* limit
    Concurrency,  \* concurrency of each worker
    MaxBatches,   \* bound on the batches of a worker that overlap
    MaxFaults,    \* bound on rejecting calls and crashes
    Claiming,     \* TRUE: the store has claim(); FALSE: only next()
    InOrder       \* TRUE: it returns the rows in their order (the memory store)

ASSUME OutboxAssumption ==
    /\ Poison \subseteq Row
    /\ Stoppable \subseteq Worker
    /\ Nobody \notin Worker /\ NoRow \notin Row
    /\ IsFiniteSet(Worker)
    /\ {BatchLimit, MaxBatches} \subseteq Nat \ {0}
    /\ Concurrency \in [Worker -> Nat \ {0}]
    /\ MaxFaults \in Nat
    /\ {Claiming, InOrder} \subseteq BOOLEAN

Batch == Worker \X (1..MaxBatches)
Loop == UNION {{b} \X (1..Concurrency[b[1]]) : b \in Batch}

VARIABLES
    outbox,     \* the rows, in the order they were enqueued
    published,  \* rows with publishedAt
    claim,      \* who holds an unexpired claim of a row
    mode,       \* "on", "stopping" (stop() waits) or "stopped"
    current,    \* the batch runOnce() awaits, 0: running = false
    queue,      \* the rows of a batch no loop has shifted yet
    loop,       \* what each loop awaits, and the row it holds
    log,        \* the rows that are in the event log
    sent,       \* how often each row reached the subscribers
    excuses,    \* what happened to a row that explains a second delivery
    torn,       \* workers whose dispatchOutbox() rejected with loops running
    faults      \* faults spent

outboxVars == <<outbox, published, claim, mode, current, queue, loop, log, sent, excuses, torn, faults>>

Idle == [at |-> "idle", row |-> NoRow]
At(step, r) == [at |-> step, row |-> r]
LoopState == {Idle} \cup [at : {"append", "broadcast", "mark", "fail"}, row : Row]

Worked(r) == {l \in Loop : loop[l].row = r}
BatchLoops(b) == {l \in Loop : l[1] = b}
Active(w) == \E l \in Loop : l[1][1] = w /\ loop[l] # Idle

OutboxTypeOK ==
    /\ outbox \in Seq(Row)
    /\ published \subseteq Row
    /\ claim \in [Row -> Worker \cup {Nobody}]
    /\ mode \in [Worker -> {"on", "stopping", "stopped"}]
    /\ current \in [Worker -> 0..MaxBatches]
    /\ queue \in [Batch -> Seq(Row)]
    /\ loop \in [Loop -> LoopState]
    /\ log \subseteq Row
    /\ sent \in [Row -> Nat] /\ excuses \in [Row -> Nat]
    /\ torn \subseteq Worker
    /\ faults \in 0..MaxFaults

OutboxInit ==
    /\ outbox = <<>> /\ published = {}
    /\ claim = [r \in Row |-> Nobody]
    /\ mode = [w \in Worker |-> "on"]
    /\ current = [w \in Worker |-> 0]
    /\ queue = [b \in Batch |-> <<>>]
    /\ loop = [l \in Loop |-> Idle]
    /\ log = {}
    /\ sent = [r \in Row |-> 0] /\ excuses = [r \in Row |-> 0]
    /\ torn = {} /\ faults = 0

Fault == faults < MaxFaults /\ faults' = faults + 1
Excuse(rows) == excuses' = [r \in Row |-> excuses[r] + IF r \in rows \ Poison THEN 1 ELSE 0]

------------------------------------------------------------------------------
(* The store.                                                              *)

Enqueued(r) == \E i \in DOMAIN outbox : outbox[i] = r

\* The transaction of an action commits its row.
Enqueue(r) ==
    /\ ~Enqueued(r)
    /\ outbox' = Append(outbox, r)
    /\ UNCHANGED <<published, claim, mode, current, queue, loop, log, sent, excuses, torn, faults>>

\* Slip: rows another worker has claimed are handed out again.
DueThoughClaimed(r) == r \notin published

\* Unpublished and unclaimed.
Due(r) == r \notin published /\ claim[r] = Nobody

\* Slip: a claim ends with the work on its row and not by the clock.
LapseWhileWorked(r) ==
    /\ claim[r] # Nobody /\ Worked(r) # {}
    /\ claim' = [claim EXCEPT ![r] = Nobody]
    /\ Excuse({r})
    /\ UNCHANGED <<outbox, published, mode, current, queue, loop, log, sent, torn, faults>>

\* claimed_until passes.
ClaimLapses(r) ==
    /\ claim[r] # Nobody
    /\ claim' = [claim EXCEPT ![r] = Nobody]
    /\ Excuse({r})
    /\ UNCHANGED <<outbox, published, mode, current, queue, loop, log, sent, torn, faults>>

MarkPublished(r) == published' = published \cup {r} /\ claim' = [claim EXCEPT ![r] = Nobody]

MarkFailed(r) == claim' = [claim EXCEPT ![r] = Nobody] /\ UNCHANGED published

------------------------------------------------------------------------------
(* A worker.                                                               *)

\* The first batch of w whose loops have all returned.
Free(w, n) == \A l \in BatchLoops(<<w, n>>) : loop[l] = Idle
FreeBatch(w) == {n \in 1..MaxBatches : Free(w, n) /\ \A m \in 1..(n - 1) : ~Free(w, m)}

\* The loops start together and each shifts a row and publishes it before it
\* awaits anything.
Dispatch(w, n, rows) ==
    LET b == <<w, n>>
        started == IF Len(rows) < Concurrency[w] THEN Len(rows) ELSE Concurrency[w]
    IN /\ rows # <<>>
       /\ claim' = [r \in Row |-> IF Claiming /\ (\E i \in DOMAIN rows : rows[i] = r) THEN w ELSE claim[r]]
       /\ current' = [current EXCEPT ![w] = n]
       /\ loop' = [l \in Loop |-> IF l[1] = b /\ l[2] <= started THEN At("append", rows[l[2]]) ELSE loop[l]]
       /\ queue' = [queue EXCEPT ![b] = SubSeq(rows, started + 1, Len(rows))]

\* The oldest due rows, as many as the limit allows, each once.  PostgreSQL's
\* UPDATE ... RETURNING promises no order among them.
Before(q, r) == \E i, j \in DOMAIN outbox : i < j /\ outbox[i] = q /\ outbox[j] = r
Claimable == {r \in Row : Enqueued(r) /\ Due(r)}
OldestDue ==
    {rows \in UNION {[1..k -> Claimable] : k \in 0..BatchLimit} :
        /\ \A i, j \in DOMAIN rows : i # j => rows[i] # rows[j]
        /\ InOrder => \A i, j \in DOMAIN rows : i < j => Before(rows[i], rows[j])
        /\ \A r \in Claimable \ {rows[i] : i \in DOMAIN rows} :
              Len(rows) = BatchLimit /\ \A i \in DOMAIN rows : Before(rows[i], r)}

\* runOnce(): the interval fires and no batch is running; the store hands out
\* the oldest due rows.  An empty batch ends where it starts.
RunOnce(w) ==
    /\ mode[w] = "on" /\ current[w] = 0
    /\ \E n \in FreeBatch(w), rows \in OldestDue : Dispatch(w, n, rows)
    /\ UNCHANGED <<outbox, published, mode, log, sent, excuses, torn, faults>>

\* claim() rejects after the store applied it: the rows wait for their lease.
ClaimRejects(w) ==
    /\ mode[w] = "on" /\ current[w] = 0
    /\ Claiming /\ Fault
    /\ \E rows \in OldestDue :
         /\ rows # <<>>
         /\ claim' = [r \in Row |-> IF \E i \in DOMAIN rows : rows[i] = r THEN w ELSE claim[r]]
    /\ UNCHANGED <<outbox, published, mode, current, queue, loop, log, sent, excuses, torn>>

\* A row is done with: the loop shifts the next one, or returns.
ShiftNext(l) ==
    LET rows == queue[l[1]] IN
    /\ loop' = [loop EXCEPT ![l] = IF rows = <<>> THEN Idle ELSE At("append", Head(rows))]
    /\ queue' = [queue EXCEPT ![l[1]] = IF rows = <<>> THEN @ ELSE Tail(@)]

\* Slip: the publisher does not await the broadcast, which is lost.
AppendOnly(l) ==
    /\ loop[l].at = "append" /\ loop[l].row \notin Poison
    /\ log' = log \cup {loop[l].row}
    /\ loop' = [loop EXCEPT ![l] = At("mark", loop[l].row)]
    /\ UNCHANGED <<outbox, published, claim, mode, current, queue, sent, excuses, torn, faults>>

\* log.append(): the event has its sequence number.
AppendToLog(l) ==
    /\ loop[l].at = "append" /\ loop[l].row \notin Poison
    /\ log' = log \cup {loop[l].row}
    /\ loop' = [loop EXCEPT ![l] = At("broadcast", loop[l].row)]
    /\ UNCHANGED <<outbox, published, claim, mode, current, queue, sent, excuses, torn, faults>>

\* input.publish(sequenced): the subscribers have it.
Broadcast(l) ==
    /\ loop[l].at = "broadcast"
    /\ sent' = [sent EXCEPT ![loop[l].row] = @ + 1]
    /\ loop' = [loop EXCEPT ![l] = At("mark", loop[l].row)]
    /\ UNCHANGED <<outbox, published, claim, mode, current, queue, log, excuses, torn, faults>>

\* markPublished() resolves.
Published(l) ==
    /\ loop[l].at = "mark"
    /\ MarkPublished(loop[l].row)
    /\ ShiftNext(l)
    /\ UNCHANGED <<outbox, mode, current, log, sent, excuses, torn, faults>>

\* publish() or markPublished() rejects, having done its work or not.
Rejected(l) ==
    LET r == loop[l].row IN
    /\ loop[l].at \in {"append", "broadcast", "mark"}
    /\ loop' = [loop EXCEPT ![l] = At("fail", r)]
    /\ \/ r \in Poison /\ UNCHANGED <<published, claim, sent, excuses, faults>>
       \/ /\ r \notin Poison /\ Fault /\ Excuse({r})
          /\ \/ UNCHANGED <<published, claim, sent>>
             \/ /\ loop[l].at = "broadcast" /\ sent' = [sent EXCEPT ![r] = @ + 1]
                /\ UNCHANGED <<published, claim>>
             \/ loop[l].at = "mark" /\ MarkPublished(r) /\ UNCHANGED sent
    /\ UNCHANGED <<outbox, mode, current, queue, log, torn>>

\* The catch block: markFailed() resolves.
Failed(l) ==
    /\ loop[l].at = "fail"
    /\ MarkFailed(loop[l].row)
    /\ ShiftNext(l)
    /\ UNCHANGED <<outbox, mode, current, log, sent, excuses, torn, faults>>

\* markFailed() rejects: Promise.all rejects at once and running is false again,
\* while the other loops of the batch go on.
FailedRejects(l) ==
    LET w == l[1][1] IN
    /\ loop[l].at = "fail" /\ Fault /\ Excuse({loop[l].row})
    /\ \/ MarkFailed(loop[l].row)
       \/ UNCHANGED <<published, claim>>
    /\ loop' = [loop EXCEPT ![l] = Idle]
    /\ current' = [current EXCEPT ![w] = IF @ = l[1][2] THEN 0 ELSE @]
    /\ torn' = torn \cup {w}
    /\ UNCHANGED <<outbox, mode, queue, log, sent>>

\* Slip: running is cleared as soon as one loop has returned.
EndsWithFirstLoop(w) ==
    /\ current[w] # 0
    /\ \E l \in BatchLoops(<<w, current[w]>>) : loop[l] = Idle
    /\ current' = [current EXCEPT ![w] = 0]
    /\ UNCHANGED <<outbox, published, claim, mode, queue, loop, log, sent, excuses, torn, faults>>

\* Promise.all resolves when every loop has returned.
BatchEnds(w) ==
    /\ current[w] # 0
    /\ \A l \in BatchLoops(<<w, current[w]>>) : loop[l] = Idle
    /\ current' = [current EXCEPT ![w] = 0]
    /\ UNCHANGED <<outbox, published, claim, mode, queue, loop, log, sent, excuses, torn, faults>>

\* stop() clears the interval; it resolves when no batch is running.
Stop(w) ==
    /\ w \in Stoppable
    /\ \/ mode[w] = "on" /\ mode' = [mode EXCEPT ![w] = "stopping"]
       \/ mode[w] = "stopping" /\ current[w] = 0 /\ mode' = [mode EXCEPT ![w] = "stopped"]
    /\ UNCHANGED <<outbox, published, claim, current, queue, loop, log, sent, excuses, torn, faults>>

\* The process dies and comes back: its loops are gone, its claims are not.
Crash(w) ==
    /\ mode[w] = "on" /\ Active(w)
    /\ Fault
    /\ Excuse({r \in Row : \E l \in Worked(r) : l[1][1] = w})
    /\ current' = [current EXCEPT ![w] = 0]
    /\ queue' = [b \in Batch |-> IF b[1] = w THEN <<>> ELSE queue[b]]
    /\ loop' = [l \in Loop |-> IF l[1][1] = w THEN Idle ELSE loop[l]]
    /\ torn' = torn \ {w}
    /\ UNCHANGED <<outbox, published, claim, mode, log, sent>>

LoopStep(l) ==
    \/ AppendToLog(l) \/ Broadcast(l) \/ Published(l) \/ Failed(l)
    \/ loop[l].row \in Poison /\ Rejected(l)

OutboxNext ==
    \/ \E r \in Row : Enqueue(r) \/ ClaimLapses(r)
    \/ \E w \in Worker : RunOnce(w) \/ ClaimRejects(w) \/ BatchEnds(w) \/ Stop(w) \/ Crash(w)
    \/ \E l \in Loop : LoopStep(l) \/ Rejected(l) \/ FailedRejects(l)

\* The interval keeps firing, promises settle, and claims run out; nobody owes
\* an action, a fault, or the end of a worker.
OutboxFairness ==
    /\ \A r \in Row : WF_outboxVars(ClaimLapses(r))
    /\ \A w \in Worker : WF_outboxVars(RunOnce(w) \/ BatchEnds(w))
    /\ \A l \in Loop : WF_outboxVars(LoopStep(l))

OutboxSpec == OutboxInit /\ [][OutboxNext]_outboxVars /\ OutboxFairness

------------------------------------------------------------------------------
(* Properties.                                                             *)

\* The outbox implements at-least-once delivery for every event the publisher
\* accepts at all, although workers crash, stop, lose their claims and share
\* their batches with events that always fail.
Healthy == Row \ Poison
Promise == INSTANCE AtLeastOnce WITH
    Event <- Healthy,
    accepted <- {r \in Healthy : Enqueued(r)},
    delivered <- {r \in Healthy : sent[r] > 0},
    settled <- published \cap Healthy
DeliversAtLeastOnce == Promise!Spec

\* Every delivery beyond the first has its own cause: a claim that ran out, a
\* rejecting call or a crash.  Healthy workers never publish a row twice, and
\* a mark from a worker whose claim is gone costs at most one more delivery.
DuplicatesAreExplained == \A r \in Healthy : sent[r] <= 1 + excuses[r]

\* When stop() has resolved nothing of the worker publishes any more, unless a
\* rejecting markFailed() tore a batch.
StoppedMeansQuiet == \A w \in Worker : mode[w] = "stopped" /\ w \notin torn => ~Active(w)

\* A row leaves the outbox only after its event is in the log that reconnecting
\* clients replay from and has been broadcast.
PublishedIsReplayable ==
    \A r \in published : sent[r] > 0 /\ r \in log
==============================================================================
