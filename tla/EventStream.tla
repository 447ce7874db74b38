----------------------------- MODULE EventStream -----------------------------
(***************************************************************************)
(* createServerSentEventStream (realtime/transports.ts): a queue in front  *)
(* of a writer that says whether it can take more.  A chunk is the number  *)
(* of its event; a heartbeat is a chunk that nobody counts.  A writer that *)
(* answers false may have taken the chunk all the same, as Node's do, and  *)
(* is then given it again.                                                 *)
(***************************************************************************)
EXTENDS Integers, Sequences, SequencesExt

CONSTANTS MaxBuffered, MaxSent  \* maximumBufferedEvents; bound on the events

ASSUME StreamAssumption == {MaxBuffered, MaxSent} \subseteq Nat \ {0}

VARIABLES queue, closed, accepted, written
    \* accepted: events whose send() was queued; written: what the client was sent

streamVars == <<queue, closed, accepted, written>>

Heartbeat == 0

StreamInit == queue = <<>> /\ closed = FALSE /\ accepted = {} /\ written = {}

StreamTypeOK ==
    /\ queue \in Seq(0..MaxSent) /\ closed \in BOOLEAN
    /\ accepted \cup written \subseteq 0..MaxSent

\* Slip: the chunk leaves the queue before the writer has answered.
FlushShiftsFirst(chunks) ==
    \E n \in 0..Len(chunks) :
        /\ written' = written \cup Range(SubSeq(chunks, 1, n))
        /\ queue' = SubSeq(chunks, n + 2, Len(chunks))

\* flush(): the writer takes n chunks and answers false to the next, if any.
Flush(chunks) ==
    \E n \in 0..Len(chunks) :
        /\ queue' = SubSeq(chunks, n + 1, Len(chunks))
        /\ \E taken \in {n, n + 1} \cap 0..Len(chunks) :
            written' = written \cup Range(SubSeq(chunks, 1, taken))

Close == closed' = TRUE /\ queue' = <<>>

\* send() and heartbeat(): a full queue closes the stream and refuses the chunk.
Send(chunk) ==
    /\ ~closed
    /\ \/ /\ Len(queue) >= MaxBuffered
          /\ closed' = TRUE
          /\ UNCHANGED <<queue, accepted, written>>
       \/ /\ Len(queue) < MaxBuffered
          /\ Flush(Append(queue, chunk))
          /\ accepted' = accepted \cup {chunk}
          /\ UNCHANGED closed

\* The writer's drain event.
Drain ==
    /\ ~closed
    /\ Flush(queue)
    /\ UNCHANGED <<closed, accepted>>

\* close(), or the writer's close event.
StreamCloses ==
    /\ ~closed
    /\ Close
    /\ UNCHANGED <<accepted, written>>

StreamNext ==
    \/ \E chunk \in 0..MaxSent :
        /\ chunk # Heartbeat => chunk \notin accepted /\ chunk - 1 \in accepted \cup {Heartbeat}
        /\ Send(chunk)
    \/ Drain \/ StreamCloses

StreamSpec == StreamInit /\ [][StreamNext]_streamVars

------------------------------------------------------------------------------

\* Backpressure loses nothing and reorders nothing: as long as the stream is
\* open, what send() accepted has been written or waits behind what came before it.
StreamKeepsOrder ==
    ~closed => \A e \in accepted \ {Heartbeat} :
        \/ e \in written /\ \A d \in 1..e : d \in written
        \/ e \notin written /\ \E i \in 1..Len(queue) : queue[i] = e /\ \A j \in i + 1..Len(queue) : queue[j] \notin 1..e
==============================================================================
