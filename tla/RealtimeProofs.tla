--------------------------- MODULE RealtimeProofs ---------------------------
(***************************************************************************)
(* What the realtime side promises for every number of clients, channels   *)
(* and connections, every size of log, replay and queue, and every choice  *)
(* of intervals.                                                           *)
(***************************************************************************)
EXTENDS Realtime, FiniteSetTheorems, TLAPS

------------------------------------------------------------------------------
(* The server-sent event stream.                                           *)

\* What has been written is an unbroken beginning of what was accepted; the
\* queue holds the rest in order.
StreamInv ==
    /\ queue \in Seq(0..MaxSent)
    /\ accepted \subseteq 0..MaxSent
    /\ \A e \in accepted \ {Heartbeat} : \A d \in 1..e : d \in accepted
    /\ ~closed =>
        /\ \A e \in written \ {Heartbeat} : \A d \in 1..e : d \in written
        /\ \A e \in accepted \ {Heartbeat} :
              e \in written \/ \E i \in 1..Len(queue) : queue[i] = e
        /\ \A i \in 1..Len(queue) : queue[i] # Heartbeat => queue[i] \in accepted
        /\ \A i, j \in 1..Len(queue) :
              i < j /\ queue[i] # Heartbeat /\ queue[j] # Heartbeat => queue[i] < queue[j]

\* What is queued are chunks.
LEMMA QueuedChunk ==
    ASSUME NEW S, NEW chunks \in Seq(S)
    PROVE  \A i \in 1..Len(chunks) : chunks[i] \in S
  OBVIOUS

\* flush() of chunks in order: what it writes and what it leaves.
LEMMA FlushSplits ==
    ASSUME NEW chunks \in Seq(0..MaxSent), Flush(chunks)
    PROVE  \E n \in 0..Len(chunks), taken \in 0..Len(chunks) :
              /\ n <= taken
              /\ queue' \in Seq(0..MaxSent) /\ Len(queue') = Len(chunks) - n
              /\ \A i \in 1..Len(queue') : i + n \in 1..Len(chunks) /\ queue'[i] = chunks[i + n]
              /\ \A e : e \in written' <=> e \in written \/ \E i \in 1..taken : chunks[i] = e
<1>1. PICK n \in 0..Len(chunks) :
         /\ queue' = SubSeq(chunks, n + 1, Len(chunks))
         /\ \E taken \in {n, n + 1} \cap 0..Len(chunks) :
               written' = written \cup Range(SubSeq(chunks, 1, taken))
  BY DEF Flush
<1>2. PICK taken \in {n, n + 1} \cap 0..Len(chunks) :
         written' = written \cup Range(SubSeq(chunks, 1, taken))
  BY <1>1
<1>3. Len(chunks) \in Nat /\ n \in Nat /\ taken \in Nat /\ n <= taken /\ taken <= Len(chunks)
  BY <1>2
<1>4. /\ queue' \in Seq(0..MaxSent) /\ Len(queue') = Len(chunks) - n
      /\ \A i \in 1..Len(queue') : i + n \in 1..Len(chunks) /\ queue'[i] = chunks[i + n]
  <2> DEFINE S == 0..MaxSent
  <2>1. chunks \in Seq(S)
    OBVIOUS
  <2> HIDE DEF S
  <2>2. queue' = SubSeq(chunks, n + 1, Len(chunks)) /\ n \in 0..Len(chunks)
    BY <1>1
  <2>3. queue' \in Seq(S) /\ Len(queue') = Len(chunks) - n
    BY <2>1, <2>2
  <2>4. \A i \in 1..Len(queue') : i + n \in 1..Len(chunks) /\ queue'[i] = chunks[i + n]
    BY <2>1, <2>2, <2>3
  <2>5. QED
    BY <2>3, <2>4 DEF S
<1>5. /\ DOMAIN SubSeq(chunks, 1, taken) = 1..taken
      /\ \A i \in 1..taken : SubSeq(chunks, 1, taken)[i] = chunks[i]
  BY <1>3
<1>6. \A e : e \in written' <=> e \in written \/ \E i \in 1..taken : chunks[i] = e
  BY <1>2, <1>5 DEF Range
<1>7. QED
  BY <1>2, <1>3, <1>4, <1>6

\* A flush keeps the order, whatever the writer takes and wherever it stops.
LEMMA FlushKeepsOrder ==
    ASSUME NEW chunks \in Seq(0..MaxSent), Flush(chunks), NEW known \in SUBSET (0..MaxSent),
           \A e \in known \ {Heartbeat} : \A d \in 1..e : d \in known,
           \A e \in written \ {Heartbeat} : \A d \in 1..e : d \in written,
           \A e \in known \ {Heartbeat} : e \in written \/ \E i \in 1..Len(chunks) : chunks[i] = e,
           \A i \in 1..Len(chunks) : chunks[i] # Heartbeat => chunks[i] \in known,
           \A i, j \in 1..Len(chunks) :
              i < j /\ chunks[i] # Heartbeat /\ chunks[j] # Heartbeat => chunks[i] < chunks[j]
    PROVE  /\ queue' \in Seq(0..MaxSent)
           /\ \A e \in written' \ {Heartbeat} : \A d \in 1..e : d \in written'
           /\ \A e \in known \ {Heartbeat} : e \in written' \/ \E i \in 1..Len(queue') : queue'[i] = e
           /\ \A i \in 1..Len(queue') : queue'[i] # Heartbeat => queue'[i] \in known
           /\ \A i, j \in 1..Len(queue') :
                 i < j /\ queue'[i] # Heartbeat /\ queue'[j] # Heartbeat => queue'[i] < queue'[j]
<1>1. PICK n \in 0..Len(chunks), taken \in 0..Len(chunks) :
         /\ n <= taken
         /\ queue' \in Seq(0..MaxSent) /\ Len(queue') = Len(chunks) - n
         /\ \A i \in 1..Len(queue') : i + n \in 1..Len(chunks) /\ queue'[i] = chunks[i + n]
         /\ \A e : e \in written' <=> e \in written \/ \E i \in 1..taken : chunks[i] = e
  BY FlushSplits
<1>2. Len(chunks) \in Nat /\ n \in Nat /\ taken \in Nat /\ taken <= Len(chunks)
  OBVIOUS
<1>3. \A i \in 1..Len(chunks) : chunks[i] \in 0..MaxSent
  BY QueuedChunk
<1>4. ASSUME NEW e \in written' \ {Heartbeat}, NEW d \in 1..e
      PROVE  d \in written'
  <2>1. CASE e \in written
    BY <1>1, <2>1
  <2>2. CASE e \notin written
    <3>1. PICK i \in 1..taken : chunks[i] = e
      BY <1>1, <1>4, <2>2
    <3>2. i \in 1..Len(chunks) /\ e \in known /\ e \in 0..MaxSent
      BY <1>2, <1>3, <3>1, <1>4
    <3>3. d \in known /\ d # Heartbeat /\ d <= e
      BY <1>4, <3>2 DEF Heartbeat
    <3>4. CASE d \in written
      BY <1>1, <3>4
    <3>5. ASSUME NEW j \in 1..Len(chunks), chunks[j] = d
          PROVE  d \in written'
      <4>1. j <= i
        BY <1>2, <1>4, <3>1, <3>2, <3>3, <3>5
      <4>2. j \in 1..taken
        BY <1>2, <4>1
      <4>3. QED
        BY <1>1, <3>5, <4>2
    <3>6. QED
      BY <3>3, <3>4, <3>5
  <2>3. QED
    BY <2>1, <2>2
<1>5. ASSUME NEW e \in known \ {Heartbeat}, e \notin written'
      PROVE  \E i \in 1..Len(queue') : queue'[i] = e
  <2>1. PICK j \in 1..Len(chunks) : chunks[j] = e
    BY <1>1, <1>5
  <2>2. j > taken
    BY <1>1, <1>2, <1>5, <2>1
  <2>3. j - n \in 1..Len(queue') /\ (j - n) + n = j
    BY <1>1, <1>2, <2>2
  <2>4. QED
    BY <1>1, <2>1, <2>3
<1>6. ASSUME NEW i \in 1..Len(queue'), NEW j \in 1..Len(queue'), i < j,
             queue'[i] # Heartbeat, queue'[j] # Heartbeat
      PROVE  queue'[i] < queue'[j]
  <2>1. i + n < j + n
    BY <1>2, <1>6
  <2>2. QED
    BY <1>1, <1>6, <2>1
<1>7. QED
  BY <1>1, <1>4, <1>5, <1>6

LEMMA StreamInvInit == StreamInit => StreamInv
  BY DEF StreamInit, StreamInv

LEMMA StreamInvStep == StreamInv /\ [StreamNext]_streamVars => StreamInv'
<1> SUFFICES ASSUME StreamInv, [StreamNext]_streamVars
             PROVE  StreamInv'
  OBVIOUS
<1>1. ASSUME NEW chunk \in 0..MaxSent, Send(chunk),
             chunk # Heartbeat => chunk \notin accepted /\ chunk - 1 \in accepted \cup {Heartbeat}
      PROVE  StreamInv'
  <2>1. CASE closed' = TRUE /\ UNCHANGED <<queue, accepted, written>>
    BY <2>1 DEF StreamInv
  <2>2. CASE Flush(Append(queue, chunk)) /\ accepted' = accepted \cup {chunk} /\ UNCHANGED closed
    <3> DEFINE chunks == Append(queue, chunk)
               known == accepted \cup {chunk}
    <3>1. ~closed /\ queue \in Seq(0..MaxSent) /\ chunk \in 0..MaxSent
      BY <1>1 DEF Send, StreamInv
    <3>2. /\ chunks \in Seq(0..MaxSent) /\ Len(chunks) = Len(queue) + 1 /\ Len(queue) \in Nat
          /\ chunks[Len(queue) + 1] = chunk
          /\ \A i \in 1..Len(queue) : i \in 1..Len(chunks) /\ chunks[i] = queue[i]
          /\ \A i \in 1..Len(chunks) : i \in 1..Len(queue) \/ i = Len(queue) + 1
      BY <3>1
    <3>3. known \subseteq 0..MaxSent /\ \A e \in known \ {Heartbeat} : \A d \in 1..e : d \in known
      <4>1. accepted \subseteq 0..MaxSent
        BY DEF StreamInv
      <4>2. ASSUME NEW e \in known \ {Heartbeat}, NEW d \in 1..e
            PROVE  d \in known
        <5>1. CASE e \in accepted
          BY <4>2, <5>1 DEF StreamInv
        <5>2. CASE e = chunk
          <6>1. d = chunk \/ (chunk - 1 \in accepted \ {Heartbeat} /\ d \in 1..(chunk - 1))
            BY <1>1, <3>1, <4>2, <5>2 DEF Heartbeat
          <6>2. QED
            BY <6>1 DEF StreamInv
        <5>3. QED
          BY <4>2, <5>1, <5>2
      <4>3. QED
        BY <4>1, <4>2
    <3>4. \A e \in accepted \ {Heartbeat} : chunk # Heartbeat => e < chunk
      <4>1. ASSUME NEW e \in accepted \ {Heartbeat}, chunk # Heartbeat, ~(e < chunk)
            PROVE  FALSE
        <5>1. e \in 0..MaxSent /\ chunk \in 1..e
          BY <3>1, <4>1 DEF StreamInv, Heartbeat
        <5>2. chunk \in accepted
          BY <4>1, <5>1 DEF StreamInv
        <5>3. QED
          BY <1>1, <4>1, <5>2
      <4>2. QED
        BY <4>1
    <3>5. \A e \in known \ {Heartbeat} : e \in written \/ \E i \in 1..Len(chunks) : chunks[i] = e
      <4>1. \A e \in accepted \ {Heartbeat} : e \in written \/ \E i \in 1..Len(queue) : queue[i] = e
        BY <3>1 DEF StreamInv
      <4>2. Len(queue) + 1 \in 1..Len(chunks)
        BY <3>2
      <4>3. QED
        BY <3>2, <4>1, <4>2
    <3>6. \A i \in 1..Len(chunks) : chunks[i] # Heartbeat => chunks[i] \in known
      BY <3>1, <3>2 DEF StreamInv
    <3>7. \A i, j \in 1..Len(chunks) :
             i < j /\ chunks[i] # Heartbeat /\ chunks[j] # Heartbeat => chunks[i] < chunks[j]
      <4>1. ASSUME NEW i \in 1..Len(chunks), NEW j \in 1..Len(chunks), i < j,
                   chunks[i] # Heartbeat, chunks[j] # Heartbeat
            PROVE  chunks[i] < chunks[j]
        <5>1. i \in 1..Len(queue)
          BY <3>2, <4>1
        <5>2. chunks[i] = queue[i] /\ queue[i] \in accepted \ {Heartbeat}
          BY <3>1, <3>2, <4>1, <5>1 DEF StreamInv
        <5>3. CASE j = Len(queue) + 1
          BY <3>2, <3>4, <4>1, <5>2, <5>3
        <5>4. CASE j \in 1..Len(queue)
          BY <3>1, <3>2, <4>1, <5>1, <5>2, <5>4 DEF StreamInv
        <5>5. QED
          BY <3>2, <5>3, <5>4
      <4>2. QED
        BY <4>1
    <3>8. \A e \in written \ {Heartbeat} : \A d \in 1..e : d \in written
      BY <3>1 DEF StreamInv
    <3> HIDE DEF chunks, known
    <3>9. Flush(chunks) /\ accepted' = known /\ closed' = closed
      BY <2>2 DEF chunks, known
    <3>10. /\ queue' \in Seq(0..MaxSent)
           /\ \A e \in written' \ {Heartbeat} : \A d \in 1..e : d \in written'
           /\ \A e \in known \ {Heartbeat} :
                 e \in written' \/ \E i \in 1..Len(queue') : queue'[i] = e
           /\ \A i \in 1..Len(queue') : queue'[i] # Heartbeat => queue'[i] \in known
           /\ \A i, j \in 1..Len(queue') :
                 i < j /\ queue'[i] # Heartbeat /\ queue'[j] # Heartbeat => queue'[i] < queue'[j]
      BY <3>2, <3>3, <3>5, <3>6, <3>7, <3>8, <3>9, FlushKeepsOrder
    <3>11. QED
      BY <3>3, <3>9, <3>10 DEF StreamInv
  <2>3. QED
    BY <1>1, <2>1, <2>2 DEF Send
<1>2. CASE Drain
  <2>1. ~closed /\ Flush(queue) /\ UNCHANGED <<closed, accepted>>
    BY <1>2 DEF Drain
  <2>2. /\ queue' \in Seq(0..MaxSent)
        /\ \A e \in written' \ {Heartbeat} : \A d \in 1..e : d \in written'
        /\ \A e \in accepted \ {Heartbeat} :
              e \in written' \/ \E i \in 1..Len(queue') : queue'[i] = e
        /\ \A i \in 1..Len(queue') : queue'[i] # Heartbeat => queue'[i] \in accepted
        /\ \A i, j \in 1..Len(queue') :
              i < j /\ queue'[i] # Heartbeat /\ queue'[j] # Heartbeat => queue'[i] < queue'[j]
    BY <2>1, FlushKeepsOrder DEF StreamInv
  <2>3. QED
    BY <2>1, <2>2 DEF StreamInv
<1>3. CASE StreamCloses
  BY <1>3 DEF StreamCloses, Close, StreamInv
<1>4. CASE UNCHANGED streamVars
  BY <1>4 DEF streamVars, StreamInv
<1>5. QED
  BY <1>1, <1>2, <1>3, <1>4 DEF StreamNext

\* Backpressure loses nothing and reorders nothing, whatever the writer takes,
\* refuses and takes twice.
THEOREM StreamLosesNothing == StreamSpec => []StreamKeepsOrder
<1>1. StreamInv => StreamKeepsOrder
  <2> SUFFICES ASSUME StreamInv, ~closed, NEW e \in accepted \ {Heartbeat}
               PROVE  \/ e \in written /\ \A d \in 1..e : d \in written
                      \/ e \notin written /\ \E i \in 1..Len(queue) :
                            queue[i] = e /\ \A j \in i + 1..Len(queue) : queue[j] \notin 1..e
    BY DEF StreamKeepsOrder
  <2>1. CASE e \in written
    BY <2>1 DEF StreamInv
  <2>2. CASE e \notin written
    <3>1. PICK i \in 1..Len(queue) : queue[i] = e
      BY <2>2 DEF StreamInv
    <3>2. ASSUME NEW j \in i + 1..Len(queue), queue[j] \in 1..e
          PROVE  FALSE
      <4>1. j \in 1..Len(queue) /\ i < j /\ queue[j] # Heartbeat
        BY <3>2 DEF Heartbeat, StreamInv
      <4>2. queue[i] < queue[j] /\ queue[i] \in 0..MaxSent /\ queue[j] \in 0..MaxSent
        BY <3>1, <4>1, QueuedChunk DEF StreamInv
      <4>3. QED
        BY <3>1, <3>2, <4>2
    <3>3. QED
      BY <2>2, <3>1, <3>2
  <2>3. QED
    BY <2>1, <2>2
<1>2. QED
  BY <1>1, StreamInvInit, StreamInvStep, PTL DEF StreamSpec

------------------------------------------------------------------------------
(* What the subscribers of a channel see.                                  *)

LEMMA FeedTypeInit == FeedInit => FeedTypeOK
  BY DEF FeedInit, FeedTypeOK, Unlinked, Link, Asking, Idle, None

\* The larger and the smaller of two integers.
LEMMA MaxMin ==
    ASSUME NEW a \in Int, NEW b \in Int
    PROVE  /\ Max({a, b}) \in Int /\ Max({a, b}) >= a /\ Max({a, b}) >= b
           /\ Min({a, b}) \in Int /\ Min({a, b}) <= a /\ Min({a, b}) <= b
<1>1. \E x \in {a, b} : \A y \in {a, b} : x >= y
  OBVIOUS
<1>2. \E x \in {a, b} : \A y \in {a, b} : x =< y
  OBVIOUS
<1>3. QED
  BY <1>1, <1>2 DEF Max, Min

LEMMA LinkShapes == Idle \in Asking /\ Unlinked \in Link /\ Linked \in Link
<1>1. Idle \in Asking
  BY DEF Idle, Asking, None
<1>2. /\ [ch \in Channel |-> Idle] \in [Channel -> Asking]
      /\ [ch \in Channel |-> {}] \in [Channel -> SUBSET Int]
      /\ [ch \in Channel |-> None] \in [Channel -> Int]
  BY <1>1 DEF None
<1>3. Unlinked \in Link
  BY <1>2 DEF Unlinked, Link
<1>4. QED
  BY <1>1, <1>3 DEF Linked, Link

\* What the handlers change of a link leaves a link.
LEMMA LinkUpdates ==
    ASSUME NEW k \in Link, NEW ch \in Channel
    PROVE  /\ k.on \in BOOLEAN /\ k.subs \in SUBSET Channel
           /\ k.ask[ch] \in Asking /\ k.got[ch] \in SUBSET Int /\ k.since[ch] \in Int
           /\ \A a \in Asking : [k EXCEPT !.ask[ch] = a] \in Link
           /\ \A g \in SUBSET Int : [k EXCEPT !.got[ch] = g] \in Link
           /\ \A n \in Int : [k EXCEPT !.since[ch] = n] \in Link
           /\ \A S \in SUBSET Channel : [k EXCEPT !.subs = S] \in Link
<1>1. /\ k.ask \in [Channel -> Asking] /\ k.got \in [Channel -> SUBSET Int]
      /\ k.since \in [Channel -> Int] /\ k.subs \in SUBSET Channel /\ k.on \in BOOLEAN
  BY DEF Link
<1>2. \A a \in Asking : [k EXCEPT !.ask[ch] = a] \in Link
  <2> SUFFICES ASSUME NEW a \in Asking PROVE [k EXCEPT !.ask[ch] = a] \in Link
    OBVIOUS
  <2>1. [k.ask EXCEPT ![ch] = a] \in [Channel -> Asking]
    BY <1>1
  <2>2. QED
    BY <2>1 DEF Link
<1>3. \A g \in SUBSET Int : [k EXCEPT !.got[ch] = g] \in Link
  <2> SUFFICES ASSUME NEW g \in SUBSET Int PROVE [k EXCEPT !.got[ch] = g] \in Link
    OBVIOUS
  <2>1. [k.got EXCEPT ![ch] = g] \in [Channel -> SUBSET Int]
    BY <1>1
  <2>2. QED
    BY <2>1 DEF Link
<1>4. \A n \in Int : [k EXCEPT !.since[ch] = n] \in Link
  <2> SUFFICES ASSUME NEW n \in Int PROVE [k EXCEPT !.since[ch] = n] \in Link
    OBVIOUS
  <2>1. [k.since EXCEPT ![ch] = n] \in [Channel -> Int]
    BY <1>1
  <2>2. QED
    BY <2>1 DEF Link
<1>5. \A S \in SUBSET Channel : [k EXCEPT !.subs = S] \in Link
  BY DEF Link
<1>6. QED
  BY <1>1, <1>2, <1>3, <1>4, <1>5

\* A replay consists of sequence numbers.
LEMMA ReplayedType ==
    ASSUME FeedTypeOK, NEW ch \in Channel, NEW from \in Int
    PROVE  Replayed(ch, from) \in SUBSET Int
  BY FeedAssumption, MaxMin DEF Replayed, FeedTypeOK

LEMMA FeedTypeStep == FeedTypeOK /\ [FeedNext]_feedVars => FeedTypeOK'
<1> SUFFICES ASSUME FeedTypeOK, [FeedNext]_feedVars
             PROVE  FeedTypeOK'
  OBVIOUS
<1> USE FeedAssumption, LinkShapes
<1>1. ASSUME NEW ch \in Channel, AppendEvent(ch)
      PROVE  FeedTypeOK'
  <2>1. latest' \in [Channel -> Nat] /\ airing' \in [Channel -> SUBSET Int]
    BY <1>1 DEF AppendEvent, FeedTypeOK
  <2>2. Max({oldest[ch], latest[ch] + 2 - LogSize}) \in Int
    <3>1. oldest[ch] \in Int /\ latest[ch] + 2 - LogSize \in Int
      BY DEF FeedTypeOK
    <3>2. QED
      BY <3>1, MaxMin
  <2>3. QED
    BY <1>1, <2>1, <2>2 DEF AppendEvent, FeedTypeOK
<1>2. ASSUME NEW ch \in Channel, NEW s \in 1..latest[ch], Trim(ch, s)
      PROVE  FeedTypeOK'
  <2>1. Max({oldest[ch], s}) \in Int
    <3>1. oldest[ch] \in Int /\ s \in Int
      BY DEF FeedTypeOK
    <3>2. QED
      BY <3>1, MaxMin
  <2>2. QED
    BY <1>2, <2>1 DEF Trim, FeedTypeOK
<1>3. ASSUME NEW ch \in Channel, NEW s \in 1..latest[ch], Broadcast(ch, s)
      PROVE  FeedTypeOK'
  <2>1. PICK failing \in SUBSET Receivers(ch) :
           link' = [c \in Client |->
                       IF c \in failing THEN Unlinked
                       ELSE IF c \in Receivers(ch) THEN [link[c] EXCEPT !.got[ch] = @ \cup {s}]
                       ELSE link[c]]
    BY <1>3 DEF Broadcast
  <2>2. \A c \in Client : [link[c] EXCEPT !.got[ch] = @ \cup {s}] \in Link
    <3> SUFFICES ASSUME NEW c \in Client
                 PROVE  [link[c] EXCEPT !.got[ch] = @ \cup {s}] \in Link
      OBVIOUS
    <3>1. link[c] \in Link /\ s \in Int
      BY DEF FeedTypeOK
    <3>2. link[c].got[ch] \cup {s} \in SUBSET Int
      BY <3>1, LinkUpdates
    <3>3. QED
      BY <3>1, <3>2, LinkUpdates
  <2>3. link' \in [Client -> Link]
    BY <2>1, <2>2 DEF FeedTypeOK
  <2>4. QED
    BY <1>3, <2>3 DEF Broadcast, FeedTypeOK
<1>4. ASSUME NEW c \in Client, Connect(c) \/ Disconnect(c)
      PROVE  FeedTypeOK'
  BY <1>4 DEF Connect, Disconnect, Unlink, FeedTypeOK
<1>5. ASSUME NEW c \in Client, NEW ch \in Channel, NEW from \in None..latest[ch], Ask(c, ch, from)
      PROVE  FeedTypeOK'
  <2>1. from \in Int
    BY DEF None, FeedTypeOK
  <2>2. [Idle EXCEPT !.at = "replay", !.from = from] \in Asking
        /\ [Idle EXCEPT !.at = "authorize", !.from = from] \in Asking
    BY <2>1 DEF Idle, Asking, None
  <2>3. \A a \in Asking : [link EXCEPT ![c].ask[ch] = a] \in [Client -> Link]
    BY LinkUpdates DEF FeedTypeOK
  <2>4. link' \in [Client -> Link]
    BY <1>5, <2>2, <2>3 DEF Ask, Unlink, FeedTypeOK
  <2>5. QED
    BY <1>5, <2>4 DEF Ask, FeedTypeOK
<1>6. ASSUME NEW c \in Client, NEW ch \in Channel, Authorized(c, ch)
      PROVE  FeedTypeOK'
  <2>1. link[c] \in Link /\ link[c].ask[ch] \in Asking /\ link[c].subs \cup {ch} \in SUBSET Channel
    BY LinkUpdates DEF FeedTypeOK
  <2>2. \A a \in Asking : [link EXCEPT ![c].ask[ch] = a] \in [Client -> Link]
    BY LinkUpdates DEF FeedTypeOK
  <2>3. Subscribed(link[c], ch) \in Link
    <3>1. [link[c].ask[ch] EXCEPT !.at = "replay"] \in Asking
      BY <2>1 DEF Asking
    <3> DEFINE a == IF link[c].ask[ch].from = None THEN Idle
                    ELSE [link[c].ask[ch] EXCEPT !.at = "replay"]
               k == [link[c] EXCEPT !.subs = @ \cup {ch}]
    <3>2. a \in Asking
      BY <3>1
    <3>3. k \in Link
      BY <2>1, LinkUpdates
    <3>4. [k EXCEPT !.ask[ch] = a] \in Link
      BY <3>2, <3>3, LinkUpdates
    <3>5. Subscribed(link[c], ch) = [k EXCEPT !.ask[ch] = a]
      BY <2>1 DEF Subscribed, Link
    <3>6. QED
      BY <3>4, <3>5
  <2>4. link' \in [Client -> Link]
    BY <1>6, <2>1, <2>2, <2>3 DEF Authorized, Unlink, FeedTypeOK
  <2>5. QED
    BY <1>6, <2>4 DEF Authorized, FeedTypeOK
<1>7. ASSUME NEW c \in Client, NEW ch \in Channel, ReplayRead(c, ch)
      PROVE  FeedTypeOK'
  <2> DEFINE from == link[c].ask[ch].from
             events == Replayed(ch, from)
  <2>1. /\ link[c] \in Link /\ link[c].ask[ch] \in Asking
        /\ from \in Int /\ link[c].since[ch] \in Int
    BY LinkUpdates DEF FeedTypeOK, Asking
  <2>2. events \in SUBSET Int
    BY <2>1, ReplayedType
  <2>3. [link[c].ask[ch] EXCEPT !.at = "send", !.events = events] \in Asking
    BY <2>1, <2>2 DEF Asking
  <2> DEFINE a == [link[c].ask[ch] EXCEPT !.at = "send", !.events = events]
  <2>4. PICK n \in Int :
           link' = [link EXCEPT ![c].ask[ch] = a, ![c].since[ch] = n]
    BY <1>7, <2>1 DEF ReplayRead
  <2>5. link' \in [Client -> Link]
    <3> HIDE DEF events, a
    <3>1. [link[c] EXCEPT !.ask[ch] = a] \in Link
      BY <2>1, <2>3, LinkUpdates DEF a
    <3>2. [[link[c] EXCEPT !.ask[ch] = a] EXCEPT !.since[ch] = n] \in Link
      BY <3>1, LinkUpdates
    <3>3. link' = [link EXCEPT ![c] = [[link[c] EXCEPT !.ask[ch] = a] EXCEPT !.since[ch] = n]]
      BY <2>4 DEF FeedTypeOK
    <3>4. QED
      BY <3>2, <3>3 DEF FeedTypeOK
  <2>6. QED
    BY <1>7, <2>5 DEF ReplayRead, FeedTypeOK
<1>8. ASSUME NEW c \in Client, NEW ch \in Channel, ReplaySent(c, ch) \/ Unsubscribe(c, ch)
      PROVE  FeedTypeOK'
  <2>1. CASE ReplaySent(c, ch)
    <3> DEFINE g == link[c].got[ch] \cup link[c].ask[ch].events
    <3>1. link[c] \in Link /\ g \in SUBSET Int
      BY LinkUpdates DEF Asking, FeedTypeOK
    <3>2. link' = [link EXCEPT ![c] = [[link[c] EXCEPT !.got[ch] = g] EXCEPT !.ask[ch] = Idle]]
      BY <2>1 DEF ReplaySent, FeedTypeOK
    <3>3. [[link[c] EXCEPT !.got[ch] = g] EXCEPT !.ask[ch] = Idle] \in Link
      <4> HIDE DEF g
      <4>1. [link[c] EXCEPT !.got[ch] = g] \in Link
        BY <3>1, LinkUpdates
      <4>2. QED
        BY <4>1, LinkUpdates
    <3>4. link' \in [Client -> Link]
      BY <3>2, <3>3 DEF FeedTypeOK
    <3>5. QED
      BY <2>1, <3>4 DEF ReplaySent, FeedTypeOK
  <2>2. CASE Unsubscribe(c, ch)
    <3> DEFINE S == link[c].subs \ {ch}
    <3>1. link[c] \in Link /\ S \in SUBSET Channel /\ None \in Int
      BY LinkUpdates DEF FeedTypeOK, None
    <3>2. link' = [link EXCEPT ![c] = [[link[c] EXCEPT !.subs = S] EXCEPT !.since[ch] = None]]
      BY <2>2 DEF Unsubscribe, FeedTypeOK
    <3>3. [[link[c] EXCEPT !.subs = S] EXCEPT !.since[ch] = None] \in Link
      <4> HIDE DEF S
      <4>1. [link[c] EXCEPT !.subs = S] \in Link
        BY <3>1, LinkUpdates
      <4>2. QED
        BY <3>1, <4>1, LinkUpdates
    <3>4. link' \in [Client -> Link]
      BY <3>2, <3>3 DEF FeedTypeOK
    <3>5. QED
      BY <2>2, <3>4 DEF Unsubscribe, FeedTypeOK
  <2>3. QED
    BY <1>8, <2>1, <2>2
<1>9. CASE UNCHANGED feedVars
  BY <1>9 DEF feedVars, FeedTypeOK
<1>10. QED
  BY <1>1, <1>2, <1>3, <1>4, <1>5, <1>6, <1>7, <1>8, <1>9 DEF FeedNext

\* What a link owes its client on a channel: events of a replay are held only
\* between the read of the log and the send; only a subscriber has been promised
\* anything; and what was promised has come, is to be broadcast, or is to be sent.
Owed(k, ch) ==
    /\ k.ask[ch].at # "send" => k.ask[ch].events = {}
    /\ ch \notin k.subs => k.since[ch] = None
    /\ k.since[ch] # None =>
           k.since[ch] + 1 .. latest[ch] \subseteq k.got[ch] \cup airing[ch] \cup k.ask[ch].events

\* Every link to a client is true to that.
FeedInv == FeedTypeOK /\ \A c \in Client : \A ch \in Channel : Owed(link[c], ch)

LEMMA NothingOwed == \A ch \in Channel : Owed(Unlinked, ch) /\ Owed(Linked, ch)
  BY DEF Owed, Unlinked, Linked, Idle

LEMMA FeedInvInit == FeedInit => FeedInv
<1> SUFFICES ASSUME FeedInit PROVE FeedInv
  OBVIOUS
<1>1. FeedTypeOK
  BY FeedTypeInit
<1>2. QED
  BY <1>1, NothingOwed DEF FeedInit, FeedInv

\* A step that changes the link of one client, and of it what concerns one channel.
LEMMA OneChannel ==
    ASSUME FeedInv, FeedTypeOK', UNCHANGED <<latest, airing>>,
           NEW c \in Client, NEW ch \in Channel, NEW k \in Link,
           link' = [link EXCEPT ![c] = k],
           \A o \in Channel \ {ch} :
               /\ k.ask[o] = link[c].ask[o] /\ k.since[o] = link[c].since[o]
               /\ k.got[o] = link[c].got[o] /\ (o \in k.subs <=> o \in link[c].subs),
           Owed(k, ch)
    PROVE  FeedInv'
<1> SUFFICES ASSUME NEW d \in Client, NEW o \in Channel
             PROVE  Owed(link[d], o)'
  BY DEF FeedInv
<1>1. CASE d # c
  BY <1>1 DEF FeedInv, FeedTypeOK, Owed
<1>2. CASE d = c
  <2>1. link'[d] = k
    BY <1>2 DEF FeedInv, FeedTypeOK
  <2>2. CASE o = ch
    BY <2>1, <2>2 DEF Owed
  <2>3. CASE o # ch
    BY <1>2, <2>1, <2>3 DEF FeedInv, Owed
  <2>4. QED
    BY <2>2, <2>3
<1>3. QED
  BY <1>1, <1>2

LEMMA FeedInvStep == FeedInv /\ [FeedNext]_feedVars => FeedInv'
<1> SUFFICES ASSUME FeedInv, [FeedNext]_feedVars
             PROVE  FeedInv'
  OBVIOUS
<1>t. FeedTypeOK /\ FeedTypeOK'
  BY FeedTypeStep DEF FeedInv
<1>o. \A c \in Client : \A ch \in Channel : Owed(link[c], ch)
  BY DEF FeedInv
<1>l. \A c \in Client : link[c] \in Link /\ link'[c] \in Link
  BY <1>t DEF FeedTypeOK
<1>1. ASSUME NEW ch \in Channel, AppendEvent(ch)
      PROVE  FeedInv'
  <2> SUFFICES ASSUME NEW c \in Client, NEW o \in Channel
               PROVE  Owed(link[c], o)'
    BY <1>t DEF FeedInv
  <2>1. /\ latest'[o] \in Nat /\ latest[o] \in Nat /\ airing[o] \subseteq airing'[o]
        /\ latest'[o] \in 1..latest[o] \cup airing'[o] \/ latest'[o] = latest[o]
        /\ latest'[o] =< latest[o] + 1
    BY <1>1, <1>t DEF AppendEvent, FeedTypeOK
  <2>2. link'[c] = link[c] /\ link[c].since[o] \in Int
    BY <1>1, <1>l, LinkUpdates DEF AppendEvent
  <2>3. QED
    BY <2>1, <2>2, <1>o DEF Owed
<1>2. ASSUME NEW ch \in Channel, NEW s \in 1..latest[ch], Trim(ch, s)
      PROVE  FeedInv'
  BY <1>2, <1>t, <1>o DEF Trim, FeedInv, Owed
<1>3. ASSUME NEW ch \in Channel, NEW s \in 1..latest[ch], Broadcast(ch, s)
      PROVE  FeedInv'
  <2>1. PICK failing \in SUBSET Receivers(ch) :
           link' = [c \in Client |->
                       IF c \in failing THEN Unlinked
                       ELSE IF c \in Receivers(ch) THEN [link[c] EXCEPT !.got[ch] = @ \cup {s}]
                       ELSE link[c]]
    BY <1>3 DEF Broadcast
  <2> SUFFICES ASSUME NEW c \in Client, NEW o \in Channel
               PROVE  Owed(link[c], o)'
    BY <1>t DEF FeedInv
  <2>2. latest' = latest /\ airing'[o] = IF o = ch THEN airing[o] \ {s} ELSE airing[o]
    BY <1>3, <1>t DEF Broadcast, FeedTypeOK
  <2>3. CASE c \in failing
    BY <2>1, <2>3 DEF Owed, Unlinked, Idle
  <2>4. CASE c \notin failing /\ c \in Receivers(ch)
    <3>1. link'[c] = [link[c] EXCEPT !.got[ch] = @ \cup {s}]
      BY <2>1, <2>4
    <3>2. /\ link'[c].ask = link[c].ask /\ link'[c].subs = link[c].subs
          /\ link'[c].since = link[c].since
          /\ link'[c].got[o] = IF o = ch THEN link[c].got[o] \cup {s} ELSE link[c].got[o]
      <4>1. link[c].got \in [Channel -> SUBSET Int] /\ link[c] \in Link
        BY <1>l DEF Link
      <4>2. link'[c].got = [link[c].got EXCEPT ![ch] = @ \cup {s}]
        BY <3>1, <4>1 DEF Link
      <4>3. /\ link'[c].ask = link[c].ask /\ link'[c].subs = link[c].subs
            /\ link'[c].since = link[c].since
        BY <3>1, <4>1 DEF Link
      <4>4. QED
        BY <4>1, <4>2, <4>3
    <3>3. Owed(link[c], o)
      BY <1>o
    <3>4. /\ link'[c].ask[o] = link[c].ask[o] /\ link'[c].since[o] = link[c].since[o]
          /\ link[c].got[o] \cup airing[o] \subseteq link'[c].got[o] \cup airing'[o]
      BY <2>2, <3>2
    <3>5. QED
      BY <2>2, <3>2, <3>3, <3>4 DEF Owed
  <2>5. CASE c \notin failing /\ c \notin Receivers(ch)
    <3>1. link'[c] = link[c]
      BY <2>1, <2>5
    <3>2. o = ch => link[c].since[o] = None
      BY <2>5, <1>o DEF Owed, Receivers
    <3>3. QED
      BY <2>2, <3>1, <3>2, <1>o DEF Owed
  <2>6. QED
    BY <2>3, <2>4, <2>5
<1>4. ASSUME NEW c \in Client, Connect(c) \/ Disconnect(c)
      PROVE  FeedInv'
  <2> SUFFICES ASSUME NEW d \in Client, NEW o \in Channel
               PROVE  Owed(link[d], o)'
    BY <1>t DEF FeedInv
  <2>1. UNCHANGED <<latest, airing>> /\ link'[d] \in {link[d], Linked, Unlinked}
    BY <1>4, <1>t DEF Connect, Disconnect, Unlink, FeedTypeOK
  <2>2. QED
    BY <2>1, <1>o, NothingOwed DEF Owed
<1>5. ASSUME NEW c \in Client, NEW ch \in Channel, NEW from \in None..latest[ch], Ask(c, ch, from)
      PROVE  FeedInv'
  <2>1. Unlink(c) => FeedInv'
    <3> SUFFICES ASSUME Unlink(c), NEW d \in Client, NEW o \in Channel
                 PROVE  Owed(link[d], o)'
      BY <1>t DEF FeedInv
    <3>1. UNCHANGED <<latest, airing>> /\ link'[d] \in {link[d], Unlinked}
      BY <1>5, <1>t DEF Ask, Unlink, FeedTypeOK
    <3>2. QED
      BY <3>1, <1>o, NothingOwed DEF Owed
  <2>2. ASSUME NEW at \in {"replay", "authorize"},
               link' = [link EXCEPT ![c].ask[ch] = [Idle EXCEPT !.at = at, !.from = from]]
        PROVE  FeedInv'
    <3> DEFINE k == [link[c] EXCEPT !.ask[ch] = [Idle EXCEPT !.at = at, !.from = from]]
    <3>1. link' = [link EXCEPT ![c] = k] /\ link'[c] = k /\ k \in Link
      BY <2>2, <1>t, <1>l DEF FeedTypeOK
    <3>2. /\ k.got = link[c].got /\ k.since = link[c].since /\ k.subs = link[c].subs
          /\ k.ask[ch] = [Idle EXCEPT !.at = at, !.from = from]
          /\ \A o \in Channel \ {ch} : k.ask[o] = link[c].ask[o]
      BY <1>l DEF Link
    <3>3. link[c].ask[ch].events = {} /\ k.ask[ch].events = {} /\ k.ask[ch].at # "send"
      BY <1>5, <1>o, <3>2 DEF Ask, Owed, Idle
    <3>4. Owed(k, ch)
      BY <1>o, <3>2, <3>3 DEF Owed
    <3> HIDE DEF k
    <3>5. QED
      BY <1>5, <1>t, <3>1, <3>2, <3>4, OneChannel DEF Ask
  <2>3. QED
    BY <1>5, <2>1, <2>2 DEF Ask
<1>6. ASSUME NEW c \in Client, NEW ch \in Channel, Authorized(c, ch)
      PROVE  FeedInv'
  <2>1. Unlink(c) => FeedInv'
    <3> SUFFICES ASSUME Unlink(c), NEW d \in Client, NEW o \in Channel
                 PROVE  Owed(link[d], o)'
      BY <1>t DEF FeedInv
    <3>1. UNCHANGED <<latest, airing>> /\ link'[d] \in {link[d], Unlinked}
      BY <1>6, <1>t DEF Authorized, Unlink, FeedTypeOK
    <3>2. QED
      BY <3>1, <1>o, NothingOwed DEF Owed
  <2>2. CASE link' = [link EXCEPT ![c].ask[ch] = Idle]
    <3> DEFINE k == [link[c] EXCEPT !.ask[ch] = Idle]
    <3>1. link' = [link EXCEPT ![c] = k] /\ link'[c] = k /\ k \in Link
      BY <2>2, <1>t, <1>l DEF FeedTypeOK
    <3>2. /\ k.got = link[c].got /\ k.since = link[c].since /\ k.subs = link[c].subs
          /\ k.ask[ch] = Idle
          /\ \A o \in Channel \ {ch} : k.ask[o] = link[c].ask[o]
      BY <1>l DEF Link
    <3>3. Owed(k, ch)
      BY <1>6, <1>o, <3>2 DEF Owed, Authorized, Idle
    <3> HIDE DEF k
    <3>4. QED
      BY <1>6, <1>t, <3>1, <3>2, <3>3, OneChannel DEF Authorized
  <2>3. CASE link' = [link EXCEPT ![c] = Subscribed(@, ch)]
    <3> DEFINE k == Subscribed(link[c], ch)
    <3>1. link' = [link EXCEPT ![c] = k] /\ link'[c] = k /\ k \in Link
      BY <2>3, <1>t, <1>l DEF FeedTypeOK
    <3>2. /\ k.got = link[c].got /\ k.since = link[c].since /\ k.subs = link[c].subs \cup {ch}
          /\ k.ask[ch] = IF link[c].ask[ch].from = None THEN Idle
                         ELSE [link[c].ask[ch] EXCEPT !.at = "replay"]
          /\ \A o \in Channel \ {ch} : k.ask[o] = link[c].ask[o]
      BY <1>l DEF Link, Subscribed
    <3>3. link[c].ask[ch].events = {} /\ link[c].ask[ch] \in Asking
      BY <1>6, <1>o, <1>l, LinkUpdates DEF Owed, Authorized
    <3>4. k.ask[ch].events = {} /\ k.ask[ch].at # "send"
      BY <3>2, <3>3 DEF Idle, Asking
    <3>5. Owed(k, ch)
      BY <1>o, <3>2, <3>3, <3>4 DEF Owed
    <3> HIDE DEF k
    <3>6. QED
      BY <1>6, <1>t, <3>1, <3>2, <3>5, OneChannel DEF Authorized
  <2>4. QED
    BY <1>6, <2>1, <2>2, <2>3 DEF Authorized
<1>7. ASSUME NEW c \in Client, NEW ch \in Channel, ReplayRead(c, ch)
      PROVE  FeedInv'
  <2> DEFINE from == link[c].ask[ch].from
             events == Replayed(ch, from)
             whole == events = from + 1 .. latest[ch] /\ ch \in link[c].subs
             n == IF whole THEN from ELSE link[c].since[ch]
             a == [link[c].ask[ch] EXCEPT !.at = "send", !.events = events]
             k == [link[c] EXCEPT !.ask[ch] = a, !.since[ch] = n]
  <2>1. link' = [link EXCEPT ![c] = k] /\ link'[c] = k /\ k \in Link
    BY <1>7, <1>t, <1>l DEF FeedTypeOK, ReplayRead
  <2>2. link[c].ask[ch] \in Asking /\ link[c].ask[ch].at = "replay" /\ link[c].ask[ch].events = {}
    BY <1>7, <1>o, <1>l, LinkUpdates DEF ReplayRead, Owed
  <2>3. a.at = "send" /\ a.events = events
    BY <2>2 DEF Asking
  <2> HIDE DEF a, events
  <2>4. /\ k.got = link[c].got /\ k.subs = link[c].subs
        /\ k.ask[ch] = a /\ k.since[ch] = n
        /\ \A o \in Channel \ {ch} : k.ask[o] = link[c].ask[o] /\ k.since[o] = link[c].since[o]
    BY <1>l DEF Link
  <2>5. Owed(k, ch)
    <3>1. CASE whole
      BY <2>3, <2>4, <3>1 DEF Owed
    <3>2. CASE ~whole
      BY <2>2, <2>3, <2>4, <3>2, <1>o DEF Owed
    <3>3. QED
      BY <3>1, <3>2
  <2> HIDE DEF k
  <2>6. QED
    BY <1>7, <1>t, <2>1, <2>4, <2>5, OneChannel DEF ReplayRead
<1>8. ASSUME NEW c \in Client, NEW ch \in Channel, ReplaySent(c, ch)
      PROVE  FeedInv'
  <2> DEFINE g == link[c].got[ch] \cup link[c].ask[ch].events
             k == [link[c] EXCEPT !.got[ch] = g, !.ask[ch] = Idle]
  <2>1. link' = [link EXCEPT ![c] = k] /\ link'[c] = k /\ k \in Link
    BY <1>8, <1>t, <1>l DEF FeedTypeOK, ReplaySent
  <2>2. /\ k.subs = link[c].subs /\ k.since = link[c].since /\ k.ask[ch] = Idle /\ k.got[ch] = g
        /\ \A o \in Channel \ {ch} : k.ask[o] = link[c].ask[o] /\ k.got[o] = link[c].got[o]
    BY <1>l DEF Link
  <2>3. Owed(k, ch)
    BY <2>2, <1>o DEF Owed, Idle
  <2> HIDE DEF k
  <2>4. QED
    BY <1>8, <1>t, <2>1, <2>2, <2>3, OneChannel DEF ReplaySent
<1>9. ASSUME NEW c \in Client, NEW ch \in Channel, Unsubscribe(c, ch)
      PROVE  FeedInv'
  <2> DEFINE k == [link[c] EXCEPT !.subs = @ \ {ch}, !.since[ch] = None]
  <2>1. link' = [link EXCEPT ![c] = k] /\ link'[c] = k /\ k \in Link
    BY <1>9, <1>t, <1>l DEF FeedTypeOK, Unsubscribe
  <2>2. /\ k.got = link[c].got /\ k.ask = link[c].ask /\ k.subs = link[c].subs \ {ch}
        /\ k.since[ch] = None
        /\ \A o \in Channel \ {ch} : k.since[o] = link[c].since[o]
    BY <1>l DEF Link
  <2>3. Owed(k, ch)
    BY <2>2, <1>o DEF Owed
  <2> HIDE DEF k
  <2>4. QED
    BY <1>9, <1>t, <2>1, <2>2, <2>3, OneChannel DEF Unsubscribe
<1>10. CASE UNCHANGED feedVars
  BY <1>10, <1>t, <1>o DEF feedVars, FeedInv, Owed
<1>11. QED
  BY <1>1, <1>2, <1>3, <1>4, <1>5, <1>6, <1>7, <1>8, <1>9, <1>10 DEF FeedNext

\* JoinHasNoGap: subscribe, await authorize, read the log, send - whatever is
\* appended and broadcast in between, a replay that was not cut leaves no hole in
\* front of the live events.  For all clients, channels and limits.
THEOREM ReplayJoinsLiveEvents == FeedSpec => []JoinHasNoGap
<1>1. FeedInv => JoinHasNoGap
  <2> SUFFICES ASSUME FeedInv, NEW c \in Client, NEW ch \in link[c].subs,
                      link[c].since[ch] # None, link[c].ask[ch].at = "idle"
               PROVE  link[c].since[ch] + 1 .. latest[ch] \subseteq link[c].got[ch] \cup airing[ch]
    BY DEF JoinHasNoGap
  <2>1. link[c] \in Link
    BY DEF FeedInv, FeedTypeOK
  <2>2. ch \in Channel
    BY <2>1 DEF Link
  <2>3. Owed(link[c], ch)
    BY <2>2 DEF FeedInv
  <2>4. link[c].ask[ch].events = {}
    BY <2>3 DEF Owed
  <2>5. QED
    BY <2>3, <2>4 DEF Owed
<1>2. QED
  BY <1>1, FeedInvInit, FeedInvStep, PTL DEF FeedSpec

\* What one step does to the channels a client is subscribed to.
LEMMA SubscriptionsStep ==
    ASSUME FeedTypeOK, FeedNext, NEW c \in Client
    PROVE  \/ link'[c].subs \subseteq link[c].subs
           \/ \E ch \in Channel : /\ link'[c].subs = link[c].subs \cup {ch}
                                  /\ Cardinality(link[c].subs) < MaxSubs
<1>l. \A d \in Client : link[d] \in Link
  BY DEF FeedTypeOK
<1>u. Unlinked.subs = {} /\ Linked.subs = {}
  BY DEF Unlinked, Linked
<1>1. ASSUME NEW ch \in Channel, AppendEvent(ch) \/ \E s \in 1..latest[ch] : Trim(ch, s)
      PROVE  link' = link
  BY <1>1 DEF AppendEvent, Trim
<1>2. ASSUME NEW ch \in Channel, NEW s \in 1..latest[ch], Broadcast(ch, s)
      PROVE  link'[c].subs \subseteq link[c].subs
  <2>1. link'[c] \in {Unlinked, [link[c] EXCEPT !.got[ch] = @ \cup {s}], link[c]}
    BY <1>2 DEF Broadcast
  <2>2. [link[c] EXCEPT !.got[ch] = @ \cup {s}].subs = link[c].subs
    BY <1>l DEF Link
  <2>3. QED
    BY <1>u, <2>1, <2>2
<1>3. ASSUME NEW d \in Client, Connect(d) \/ Disconnect(d)
      PROVE  link'[c].subs \subseteq link[c].subs
  BY <1>3, <1>u DEF Connect, Disconnect, Unlink, FeedTypeOK
<1>4. ASSUME NEW d \in Client, NEW ch \in Channel, NEW from \in None..latest[ch], Ask(d, ch, from)
      PROVE  link'[c].subs \subseteq link[c].subs
  <2>1. \A a : [link[c] EXCEPT !.ask[ch] = a].subs = link[c].subs
    BY <1>l DEF Link
  <2>2. CASE Unlink(d)
    BY <1>u, <2>2 DEF Unlink, FeedTypeOK
  <2>3. ASSUME NEW a, link' = [link EXCEPT ![d].ask[ch] = a]
        PROVE  link'[c].subs = link[c].subs
    BY <2>1, <2>3 DEF FeedTypeOK
  <2>4. QED
    BY <1>4, <2>2, <2>3 DEF Ask
<1>5. ASSUME NEW d \in Client, NEW ch \in Channel, Authorized(d, ch)
      PROVE  \/ link'[c].subs \subseteq link[c].subs
             \/ /\ link'[c].subs = link[c].subs \cup {ch}
                /\ Cardinality(link[c].subs) < MaxSubs
  <2>1. [link[c] EXCEPT !.ask[ch] = Idle].subs = link[c].subs
    BY <1>l DEF Link
  <2>2. Subscribed(link[c], ch).subs = link[c].subs \cup {ch}
    BY <1>l DEF Link, Subscribed
  <2>3. CASE c # d
    BY <1>5, <2>3 DEF Authorized, Unlink, FeedTypeOK
  <2>4. CASE c = d /\ link' = [link EXCEPT ![d].ask[ch] = Idle]
    BY <2>1, <2>4 DEF FeedTypeOK
  <2>5. CASE c = d /\ Unlink(d)
    BY <1>u, <2>5 DEF Unlink, FeedTypeOK
  <2>6. CASE /\ c = d
             /\ ch \in link[d].subs \/ Cardinality(link[d].subs) < MaxSubs
             /\ link' = [link EXCEPT ![d] = Subscribed(@, ch)]
    <3>1. link'[c] = Subscribed(link[c], ch) \/ (c # d /\ link'[c] = link[c])
      BY <2>6 DEF FeedTypeOK
    <3>2. QED
      BY <2>2, <2>3, <2>6, <3>1
  <2>7. QED
    BY <1>5, <2>3, <2>4, <2>5, <2>6 DEF Authorized
<1>6. ASSUME NEW d \in Client, NEW ch \in Channel, ReplayRead(d, ch)
      PROVE  link'[c].subs \subseteq link[c].subs
  <2>1. \A a, n : [link[c] EXCEPT !.ask[ch] = a, !.since[ch] = n].subs = link[c].subs
    BY <1>l DEF Link
  <2>2. PICK a, n : link' = [link EXCEPT ![d].ask[ch] = a, ![d].since[ch] = n]
    BY <1>6 DEF ReplayRead
  <2>3. QED
    BY <2>1, <2>2 DEF FeedTypeOK
<1>7. ASSUME NEW d \in Client, NEW ch \in Channel, ReplaySent(d, ch)
      PROVE  link'[c].subs \subseteq link[c].subs
  <2>1. \A a, g : [link[c] EXCEPT !.got[ch] = g, !.ask[ch] = a].subs = link[c].subs
    BY <1>l DEF Link
  <2>2. PICK a, g : link' = [link EXCEPT ![d].got[ch] = g, ![d].ask[ch] = a]
    BY <1>7 DEF ReplaySent, FeedTypeOK
  <2>3. QED
    BY <2>1, <2>2 DEF FeedTypeOK
<1>8. ASSUME NEW d \in Client, NEW ch \in Channel, Unsubscribe(d, ch)
      PROVE  link'[c].subs \subseteq link[c].subs
  <2>1. [link[c] EXCEPT !.subs = @ \ {ch}, !.since[ch] = None].subs = link[c].subs \ {ch}
    BY <1>l DEF Link
  <2>2. QED
    BY <1>8, <2>1 DEF Unsubscribe, FeedTypeOK
<1>9. QED
  <2>1. CASE \E ch \in Channel : AppendEvent(ch) \/ \E s \in 1..latest[ch] : Trim(ch, s)
    BY <1>1, <2>1
  <2>2. CASE \E ch \in Channel : \E s \in 1..latest[ch] : Broadcast(ch, s)
    BY <1>2, <2>2
  <2>3. CASE \E d \in Client : Connect(d) \/ Disconnect(d)
    BY <1>3, <2>3
  <2>4. CASE \E ch \in Channel, d \in Client : \E from \in None..latest[ch] : Ask(d, ch, from)
    BY <1>4, <2>4
  <2>5. CASE \E ch \in Channel, d \in Client : Authorized(d, ch)
    BY <1>5, <2>5
  <2>6. CASE \E ch \in Channel, d \in Client : ReplayRead(d, ch)
    BY <1>6, <2>6
  <2>7. CASE \E ch \in Channel, d \in Client : ReplaySent(d, ch)
    BY <1>7, <2>7
  <2>8. CASE \E ch \in Channel, d \in Client : Unsubscribe(d, ch)
    BY <1>8, <2>8
  <2>9. QED
    BY <2>1, <2>2, <2>3, <2>4, <2>5, <2>6, <2>7, <2>8 DEF FeedNext

\* SubscriptionsWithinLimit: subscribe requests may wait side by side for
\* authorize(); the connection never ends up with more subscriptions than it may have.
THEOREM LimitHolds == FeedSpec => []SubscriptionsWithinLimit
<1> DEFINE Bounded == FeedTypeOK /\ SubscriptionsWithinLimit
<1>1. FeedInit => Bounded
  <2> SUFFICES ASSUME FeedInit, NEW c \in Client
               PROVE  Cardinality(link[c].subs) <= MaxSubs
    BY FeedTypeInit DEF SubscriptionsWithinLimit
  <2>1. link[c].subs = {}
    BY DEF FeedInit, Unlinked
  <2>2. QED
    BY <2>1, FS_EmptySet, FeedAssumption
<1>2. Bounded /\ [FeedNext]_feedVars => Bounded'
  <2> SUFFICES ASSUME Bounded, [FeedNext]_feedVars, NEW c \in Client
               PROVE  Cardinality(link'[c].subs) <= MaxSubs
    BY FeedTypeStep DEF SubscriptionsWithinLimit
  <2>1. link[c].subs \subseteq Channel /\ Cardinality(link[c].subs) <= MaxSubs
    BY DEF SubscriptionsWithinLimit, FeedTypeOK, Link
  <2>2. IsFiniteSet(link[c].subs) /\ Cardinality(link[c].subs) \in Nat
    BY <2>1, FeedAssumption, FS_Subset, FS_CardinalityType
  <2>3. CASE link'[c].subs \subseteq link[c].subs
    <3>1. Cardinality(link'[c].subs) \in Nat /\ Cardinality(link'[c].subs) =< Cardinality(link[c].subs)
      BY <2>2, <2>3, FS_Subset, FS_CardinalityType
    <3>2. QED
      BY <2>1, <2>2, <3>1, FeedAssumption
  <2>4. ASSUME NEW ch \in Channel, link'[c].subs = link[c].subs \cup {ch},
               Cardinality(link[c].subs) < MaxSubs
        PROVE  Cardinality(link'[c].subs) <= MaxSubs
    <3>1. /\ Cardinality(link'[c].subs) =< Cardinality(link[c].subs) + 1
          /\ Cardinality(link'[c].subs) \in Nat
      <4> DEFINE S == link[c].subs
      <4>1. IsFiniteSet(S) /\ Cardinality(S) \in Nat
        BY <2>2
      <4> HIDE DEF S
      <4>2. Cardinality(S \cup {ch}) = IF ch \in S THEN Cardinality(S) ELSE Cardinality(S) + 1
        BY <4>1, FS_AddElement
      <4>3. QED
        BY <2>4, <4>1, <4>2 DEF S
    <3>2. QED
      BY <2>2, <2>4, <3>1, FeedAssumption
  <2>5. CASE FeedNext
    BY <2>3, <2>4, <2>5, SubscriptionsStep
  <2>6. CASE UNCHANGED feedVars
    BY <2>3, <2>6 DEF feedVars
  <2>7. QED
    BY <2>5, <2>6
<1>3. QED
  BY <1>1, <1>2, PTL DEF FeedSpec

------------------------------------------------------------------------------
(* The life of connections.                                                *)

\* How long the validate() calls of a set of connections may take.
Load(S) == Cardinality(S) * HubDelay

LEMMA Times == \A a, b, d \in Nat : a =< b => a * d =< b * d
  OBVIOUS

LEMMA LoadFacts ==
    /\ RoundTime \in Nat /\ Load({}) = 0
    /\ \A S \in SUBSET Conn :
        /\ Load(S) \in Nat /\ Load(S) <= RoundTime
        /\ \A c \in S : Load(S \ {c}) = Load(S) - HubDelay
        /\ \A c \in Conn \ S : Load(S) <= RoundTime - HubDelay
<1>1. HubDelay \in Nat /\ IsFiniteSet(Conn) /\ Cardinality(Conn) \in Nat
  BY HubAssumption, FS_CardinalityType
<1>2. RoundTime \in Nat /\ Load({}) = 0
  BY <1>1, FS_EmptySet DEF RoundTime, Load
<1>3. ASSUME NEW S \in SUBSET Conn
      PROVE  /\ Load(S) \in Nat /\ Load(S) <= RoundTime
             /\ \A c \in S : Load(S \ {c}) = Load(S) - HubDelay
  <2>1. /\ IsFiniteSet(S) /\ Cardinality(S) \in Nat
        /\ Cardinality(S) =< Cardinality(Conn)
    BY <1>1, FS_Subset, FS_CardinalityType
  <2>2. Load(S) \in Nat /\ Load(S) <= RoundTime
    BY <1>1, <2>1, Times DEF Load, RoundTime
  <2>3. ASSUME NEW c \in S
        PROVE  Load(S \ {c}) = Load(S) - HubDelay
    <3>1. Cardinality(S \ {c}) = Cardinality(S) - 1
      BY <2>1, FS_RemoveElement
    <3>2. QED
      BY <1>1, <2>1, <3>1 DEF Load
  <2>4. QED
    BY <2>2, <2>3
<1>4. ASSUME NEW S \in SUBSET Conn, NEW c \in Conn \ S
      PROVE  Load(S) <= RoundTime - HubDelay
  <2>1. S \cup {c} \in SUBSET Conn /\ (S \cup {c}) \ {c} = S
    OBVIOUS
  <2>2. /\ Load(S \cup {c}) \in Nat /\ Load(S \cup {c}) <= RoundTime
        /\ Load((S \cup {c}) \ {c}) = Load(S \cup {c}) - HubDelay
    BY <1>3, <2>1
  <2>3. QED
    BY <1>1, <1>2, <2>1, <2>2
<1>5. QED
  BY <1>2, <1>3, <1>4

\* A connection that was just drawn, or dropped, and a rounds' ends are in type.
LEMMA HubShapes ==
    /\ Fresh \in Connection /\ Gone \in Connection /\ NoRound \in Round
    /\ Fresh.phase = "new" /\ Gone.phase = "gone"
    /\ Fresh.waiting = 0 /\ Fresh.quiet = 0 /\ Fresh.unchecked = 0
  BY DEF Fresh, Gone, NoRound, Connection, Round

LEMMA HubTypeInit == HubInit => HubTypeOK
  BY HubShapes, HubAssumption DEF HubInit, HubTypeOK, Alive

LEMMA AgedTypes ==
    ASSUME NEW k \in Connection
    PROVE  Aged(k) \in Connection
<1>1. \A a \in Nat, cap \in Nat : Older(a, cap) \in Nat
  BY DEF Older, Alive
<1>2. IdleTimeout + RoundTime + 2 \in Nat /\ ValidateEvery + RoundTime + 1 \in Nat
  BY HubAssumption, LoadFacts
<1>3. k.quiet \in Nat /\ k.unchecked \in Nat /\ k.waiting \in Nat
  BY DEF Connection
<1>4. CASE k.phase = "attached"
  <2> DEFINE q == Older(k.quiet, IdleTimeout + RoundTime + 2)
             u == Older(k.unchecked, ValidateEvery + RoundTime + 1)
  <2>1. q \in Nat /\ u \in Nat
    BY <1>1, <1>2, <1>3
  <2>2. Aged(k) = [k EXCEPT !.quiet = q, !.unchecked = u]
    BY <1>4 DEF Aged
  <2> HIDE DEF q, u
  <2>3. QED
    BY <2>1, <2>2 DEF Connection
<1>5. CASE k.phase \in {"asked", "answered"}
  BY <1>3, <1>5 DEF Aged, Connection
<1>6. CASE k.phase \notin {"attached", "asked", "answered"}
  BY <1>6 DEF Aged
<1>7. QED
  BY <1>4, <1>5, <1>6

LEMMA HubTypeStep == HubTypeOK /\ [HubNext]_hubVars => HubTypeOK'
<1> SUFFICES ASSUME HubTypeOK, [HubNext]_hubVars
             PROVE  HubTypeOK'
  OBVIOUS
<1> USE HubShapes, HubAssumption
<1>k. \A c \in Conn : conn[c] \in Connection
  BY DEF HubTypeOK
<1>d. \A gone \in SUBSET Conn : Drop(gone) => conn' \in [Conn -> Connection]
  BY DEF HubTypeOK, Drop
<1>s. \A c \in Conn : \A k \in Connection : Set(c, k) => conn' \in [Conn -> Connection]
  BY DEF HubTypeOK, Set
<1>1. ASSUME NEW c \in Conn, NEW s \in Session, Attach(c, s)
      PROVE  HubTypeOK'
  <2>1. [Fresh EXCEPT !.phase = "asked", !.session = s] \in Connection
    BY DEF Connection
  <2>2. QED
    BY <1>1, <1>s, <2>1 DEF Attach, HubTypeOK
<1>2. ASSUME NEW c \in Conn, AttachRead(c)
      PROVE  HubTypeOK'
  <2>1. [conn[c] EXCEPT !.phase = "answered", !.verdict = deadFor[conn[c].session] = Alive]
            \in Connection
    BY <1>k DEF Connection
  <2>2. QED
    BY <1>2, <1>s, <2>1 DEF AttachRead, HubTypeOK
<1>3. ASSUME NEW c \in Conn, AttachDone(c)
      PROVE  HubTypeOK'
  <2>1. [conn[c] EXCEPT !.phase = "attached", !.waiting = 0] \in Connection
    BY <1>k DEF Connection
  <2>2. QED
    BY <1>3, <1>s, <1>d, <2>1 DEF AttachDone, HubTypeOK
<1>4. ASSUME NEW c \in Conn, Leave(c)
      PROVE  HubTypeOK'
  BY <1>4, <1>d DEF Leave, HubTypeOK
<1>5. ASSUME NEW c \in Conn, Message(c)
      PROVE  HubTypeOK'
  <2>1. [conn[c] EXCEPT !.quiet = 0] \in Connection
    BY <1>k DEF Connection
  <2>2. QED
    BY <1>5, <1>s, <1>d, <2>1 DEF Message, HubTypeOK
<1>6. ASSUME NEW c \in Conn, CheckNext(c)
      PROVE  HubTypeOK'
  <2>1. [conn[c] EXCEPT !.unchecked = round.age] \in Connection
    BY <1>k DEF Connection, HubTypeOK, Round
  <2>2. conn' \in [Conn -> Connection]
    BY <1>6, <1>s, <1>d, <2>1 DEF CheckNext, HubTypeOK
  <2>3. /\ [round EXCEPT !.todo = @ \ {c}] \in Round
        /\ [[round EXCEPT !.todo = @ \ {c}] EXCEPT !.awaiting = {c}, !.waiting = 0] \in Round
    BY DEF HubTypeOK, Round
  <2>4. round' \in Round
    BY <1>6, <2>3 DEF CheckNext
  <2>5. QED
    BY <1>6, <2>2, <2>4 DEF CheckNext, HubTypeOK
<1>7. ASSUME NEW c \in Conn, CheckDone(c)
      PROVE  HubTypeOK'
  <2>1. [round EXCEPT !.awaiting = {}] \in Round
    BY DEF HubTypeOK, Round
  <2>2. QED
    BY <1>7, <1>d, <2>1 DEF CheckDone, HubTypeOK
<1>8. ASSUME NEW s \in Session, SessionEnds(s)
      PROVE  HubTypeOK'
  BY <1>8 DEF SessionEnds, HubTypeOK
<1>9. ASSUME NEW s \in Session, BusDelivers(s)
      PROVE  HubTypeOK'
  BY <1>9, <1>d DEF BusDelivers, HubTypeOK
<1>10. CASE Beat
  <2>1. [NoRound EXCEPT !.on = TRUE, !.todo = {c \in Conn : Attached(c)}] \in Round
    BY DEF Round, NoRound
  <2>2. QED
    BY <1>10, <2>1 DEF Beat, HubTypeOK
<1>11. CASE RoundEnds
  BY <1>11 DEF RoundEnds, HubTypeOK
<1>12. CASE HubTick
  <2>1. conn' \in [Conn -> Connection]
    BY <1>12, <1>k, AgedTypes DEF HubTick
  <2>2. \A cap : \A a \in Int : Older(a, cap) \in Int
    BY DEF Older
  <2>3. deadFor' \in [Session -> Int] /\ leftFor' \in [Conn -> Int]
    BY <1>12, <2>2 DEF HubTick, HubTypeOK
  <2>4. [round EXCEPT !.age = @ + 1, !.waiting = @ + 1] \in Round
    <3>1. round \in Round /\ round.age + 1 \in Nat /\ round.waiting + 1 \in Nat
      BY DEF HubTypeOK, Round
    <3>2. QED
      BY <3>1 DEF Round
  <2>5. QED
    BY <1>12, <2>1, <2>3, <2>4 DEF HubTick, HubTypeOK
<1>13. CASE UNCHANGED hubVars
  BY <1>13 DEF hubVars, HubTypeOK
<1>14. QED
  BY <1>1, <1>2, <1>3, <1>4, <1>5, <1>6, <1>7, <1>8, <1>9, <1>10, <1>11, <1>12, <1>13 DEF HubNext

\* How long the validate() a round awaits may still take; the rest of the round;
\* and the time until the next round begins.
Wait(r) == IF r.awaiting = {} THEN 0 ELSE HubDelay - r.waiting
Rest(r) == Wait(r) + Load(r.todo)
ToRound(r, beat) == IF r.on THEN Rest(r) + BeatEvery ELSE beat

\* A round awaits one validate() at a time, each for a bounded time, and is over
\* after as many of them as there are connections.
RoundOK(r) ==
    /\ ~r.on => r = NoRound
    /\ r.on => r.age + Rest(r) <= RoundTime
    /\ r.waiting <= r.age
    /\ r.awaiting # {} => r.waiting <= HubDelay
    /\ r.awaiting \cap r.todo = {}
    /\ \A c, d \in r.awaiting : c = d

\* A connection unchecked for u, or quiet for q, when its turn comes in the round.
DueIn(r, u) == u - r.age >= ValidateEvery
OverdueIn(r, q) == q - r.age > IdleTimeout

\* How long the session of an attached connection can have been invalid, d, by
\* the age u of its last validation: not longer than the connection was unchecked
\* plus the validate() that admitted it; and once a check is due, what is left
\* until the round that makes it, and its turn in that round.
SessionBound(c, d, u, r, beat) ==
    /\ c \in r.awaiting => d + Wait(r) <= DeadBound /\ r.waiting <= u
    /\ c \in r.todo => IF DueIn(r, u) THEN d + Rest(r) <= DeadBound
                       ELSE d <= u + HubDelay
    /\ c \notin r.todo \cup r.awaiting =>
           IF u < ValidateEvery
           THEN d <= u + HubDelay /\ (r.on => d + r.age + Rest(r) <= u + RoundTime)
           ELSE d + ToRound(r, beat) <= ValidateEvery + BeatEvery + RoundTime

\* The same for a peer that left l ago and was heard of q ago.
SocketBound(c, l, q, r, beat) ==
    /\ c \in r.todo => IF OverdueIn(r, q) THEN l + Rest(r) <= LeftBound + HubDelay
                       ELSE l <= q + HubDelay
    /\ c \notin r.todo =>
           IF q <= IdleTimeout THEN l <= q + HubDelay
           ELSE l + ToRound(r, beat) <= IdleTimeout + 1 + BeatEvery + RoundTime + HubDelay

LEMMA HubNumbers ==
    /\ IdleTimeout \in Nat /\ ValidateEvery \in Nat /\ HubDelay \in Nat
    /\ BeatEvery \in Nat /\ BeatEvery > 0
    /\ RoundTime \in Nat
    /\ \A c \in Conn : HubDelay <= RoundTime
    /\ DeadBound = ValidateEvery + RoundTime + BeatEvery + RoundTime
    /\ LeftBound = IdleTimeout + 1 + RoundTime + BeatEvery + RoundTime
<1>1. \A c \in Conn : HubDelay <= RoundTime
  <2> SUFFICES ASSUME NEW c \in Conn PROVE HubDelay <= RoundTime
    OBVIOUS
  <2>1. {} \in SUBSET Conn /\ c \in Conn \ {} /\ RoundTime \in Nat /\ Load({}) = 0
    BY LoadFacts
  <2>2. Load({}) <= RoundTime - HubDelay
    BY <2>1, LoadFacts
  <2>3. QED
    BY <2>1, <2>2, HubAssumption
<1>2. QED
  BY <1>1, LoadFacts, HubAssumption DEF DeadBound, LeftBound, NextCheck

LEMMA RoundNumbers ==
    ASSUME NEW r \in Round, RoundOK(r)
    PROVE  /\ r.on \in BOOLEAN /\ r.age \in Nat /\ r.waiting \in Nat
           /\ r.todo \in SUBSET Conn /\ r.awaiting \in SUBSET Conn
           /\ Load(r.todo) \in Nat /\ Load(r.todo) <= RoundTime
           /\ Wait(r) \in Nat /\ Wait(r) <= HubDelay
           /\ Rest(r) \in Nat /\ Rest(r) = Wait(r) + Load(r.todo)
           /\ \A c \in r.todo : Load(r.todo \ {c}) = Load(r.todo) - HubDelay
           /\ ~r.on => r.age = 0 /\ Rest(r) = 0 /\ r.todo = {} /\ r.awaiting = {}
           /\ Rest(r) <= RoundTime
<1>1. /\ r.on \in BOOLEAN /\ r.age \in Nat /\ r.waiting \in Nat
      /\ r.todo \in SUBSET Conn /\ r.awaiting \in SUBSET Conn
  BY DEF Round
<1>2. /\ Load(r.todo) \in Nat /\ Load(r.todo) <= RoundTime
      /\ \A c \in r.todo : Load(r.todo \ {c}) = Load(r.todo) - HubDelay
  BY <1>1, LoadFacts
<1>3. Wait(r) \in Nat /\ Wait(r) <= HubDelay
  BY <1>1, HubNumbers DEF Wait, RoundOK
<1>4. ~r.on => r.age = 0 /\ Rest(r) = 0 /\ r.todo = {} /\ r.awaiting = {}
  <2> SUFFICES ASSUME ~r.on PROVE r.age = 0 /\ Rest(r) = 0 /\ r.todo = {} /\ r.awaiting = {}
    OBVIOUS
  <2>1. r.age = 0 /\ r.todo = {} /\ r.awaiting = {}
    BY DEF RoundOK, NoRound
  <2>2. QED
    BY <2>1, LoadFacts DEF Rest, Wait
<1>5. Rest(r) \in Nat /\ Rest(r) = Wait(r) + Load(r.todo)
  BY <1>2, <1>3 DEF Rest
<1>6. Rest(r) <= RoundTime
  BY <1>1, <1>4, <1>5, HubNumbers DEF RoundOK
<1>7. QED
  BY <1>1, <1>2, <1>3, <1>4, <1>5, <1>6

\* A session that has just died, a peer that has just left.
LEMMA JustNow ==
    ASSUME NEW r \in Round, RoundOK(r), NEW beat \in 0..BeatEvery, NEW c \in Conn
    PROVE  /\ \A u \in Nat : (c \in r.awaiting => r.waiting <= u) => SessionBound(c, 0, u, r, beat)
           /\ \A q \in Nat : SocketBound(c, 0, q, r, beat)
<1>1. ToRound(r, beat) \in Int /\ ToRound(r, beat) <= RoundTime + BeatEvery
  BY RoundNumbers, HubNumbers DEF ToRound
<1>2. r.on => r.age + Rest(r) <= RoundTime
  BY DEF RoundOK
<1>3. QED
  BY <1>1, <1>2, RoundNumbers, HubNumbers DEF SessionBound, SocketBound, DueIn, OverdueIn

\* A bound on an age is one on a smaller age.
LEMMA Younger ==
    ASSUME NEW r \in Round, RoundOK(r), NEW beat \in 0..BeatEvery, NEW c \in Conn,
           NEW x \in Int, NEW y \in Int, x <= y, NEW a \in Nat
    PROVE  /\ SessionBound(c, y, a, r, beat) => SessionBound(c, x, a, r, beat)
           /\ SocketBound(c, y, a, r, beat) => SocketBound(c, x, a, r, beat)
<1>1. ToRound(r, beat) \in Int
  BY RoundNumbers, HubNumbers DEF ToRound
<1>2. DeadBound \in Int /\ LeftBound \in Int
  BY HubNumbers
<1>3. QED
  BY <1>1, <1>2, RoundNumbers, HubNumbers DEF SessionBound, SocketBound, DueIn, OverdueIn

\* What the bounds promise.
LEMMA BoundsHold ==
    ASSUME NEW r \in Round, RoundOK(r), NEW beat \in 0..BeatEvery, NEW c \in Conn
    PROVE  /\ \A d \in Int, u \in Nat : SessionBound(c, d, u, r, beat) => d <= DeadBound
           /\ \A l \in Int, q \in Nat : SocketBound(c, l, q, r, beat) => l <= LeftBound
<1>1. /\ ToRound(r, beat) \in Int /\ ToRound(r, beat) >= 0
      /\ r.age \in Nat /\ Rest(r) \in Nat
      /\ r.on => r.age <= RoundTime
      /\ c \in r.todo => r.on
  BY RoundNumbers, HubNumbers DEF ToRound, RoundOK
<1>2. ASSUME NEW d \in Int, NEW u \in Nat, SessionBound(c, d, u, r, beat)
      PROVE  d <= DeadBound
  <2>1. CASE c \in r.awaiting
    BY <1>2, <2>1, RoundNumbers, HubNumbers DEF SessionBound, DueIn
  <2>2. CASE c \in r.todo
    BY <1>1, <1>2, <2>2, HubNumbers DEF SessionBound, DueIn
  <2>3. CASE c \notin r.todo \cup r.awaiting
    BY <1>1, <1>2, <2>3, HubNumbers DEF SessionBound, DueIn
  <2>4. QED
    BY <2>1, <2>2, <2>3
<1>3. ASSUME NEW l \in Int, NEW q \in Nat, SocketBound(c, l, q, r, beat)
      PROVE  l <= LeftBound
  <2>1. CASE c \in r.todo
    <3>1. Rest(r) >= HubDelay
      <4>1. r.todo \ {c} \in SUBSET Conn
        BY RoundNumbers
      <4>2. Load(r.todo \ {c}) \in Nat
        BY <4>1, LoadFacts
      <4>3. QED
        BY <2>1, <4>2, RoundNumbers, HubNumbers
    <3>2. QED
      BY <1>1, <1>3, <2>1, <3>1, HubNumbers DEF SocketBound, OverdueIn
  <2>2. CASE c \notin r.todo
    BY <1>1, <1>3, <2>2, HubNumbers DEF SocketBound, OverdueIn
  <2>3. QED
    BY <2>1, <2>2
<1>4. QED
  BY <1>2, <1>3

\* The next round begins with a connection in its snapshot.
LEMMA BeatBounds ==
    ASSUME NEW S \in SUBSET Conn, NEW c \in S,
           NEW r \in Round, r = [NoRound EXCEPT !.on = TRUE, !.todo = S]
    PROVE  /\ \A d \in Int, u \in Nat :
                  SessionBound(c, d, u, NoRound, 0) => SessionBound(c, d, u, r, BeatEvery)
           /\ \A l \in Int, q \in Nat :
                  SocketBound(c, l, q, NoRound, 0) => SocketBound(c, l, q, r, BeatEvery)
<1>1. r.on /\ r.age = 0 /\ r.todo = S /\ r.awaiting = {}
  BY DEF NoRound
<1>2. Rest(r) = Load(S) /\ Load(S) \in Nat /\ Load(S) <= RoundTime
  BY <1>1, LoadFacts DEF Rest, Wait
<1>3. ~NoRound.on /\ NoRound.todo = {} /\ NoRound.awaiting = {} /\ ToRound(NoRound, 0) = 0
  BY DEF NoRound, ToRound
<1>4. QED
  BY <1>1, <1>2, <1>3, HubNumbers DEF SessionBound, SocketBound, DueIn, OverdueIn

\* The round is over.
LEMMA EndBounds ==
    ASSUME NEW r \in Round, RoundOK(r), r.on, r.todo = {}, r.awaiting = {},
           NEW beat \in 0..BeatEvery, NEW c \in Conn
    PROVE  /\ \A d \in Int, u \in Nat :
                  SessionBound(c, d, u, r, beat) => SessionBound(c, d, u, NoRound, beat)
           /\ \A l \in Int, q \in Nat :
                  SocketBound(c, l, q, r, beat) => SocketBound(c, l, q, NoRound, beat)
<1>1. Rest(r) = 0 /\ ToRound(r, beat) = BeatEvery
  BY LoadFacts, HubNumbers DEF Rest, Wait, ToRound
<1>2. ~NoRound.on /\ NoRound.todo = {} /\ NoRound.awaiting = {} /\ ToRound(NoRound, beat) = beat
  BY DEF NoRound, ToRound
<1>3. QED
  BY <1>1, <1>2, HubNumbers DEF SessionBound, SocketBound, DueIn, OverdueIn

\* The round steps over a connection: the others keep their bounds, and so does
\* this one, as it was not due.
LEMMA SkipBounds ==
    ASSUME NEW r \in Round, RoundOK(r), r.on, r.awaiting = {}, NEW c \in r.todo,
           NEW s \in Round, s.on, s.age = r.age, s.todo = r.todo \ {c}, s.awaiting = {},
           s.waiting = r.waiting,
           NEW beat \in 0..BeatEvery, NEW x \in Conn
    PROVE  /\ RoundOK(s) /\ s.on /\ s.age + Rest(s) <= r.age + Rest(r)
           /\ s.todo \cup s.awaiting \subseteq r.todo \cup r.awaiting
           /\ \A d \in Int, u \in Nat :
                  SessionBound(x, d, u, r, beat) /\ (x = c => ~DueIn(r, u))
                      => SessionBound(x, d, u, s, beat)
           /\ \A l \in Int, q \in Nat :
                  SocketBound(x, l, q, r, beat) /\ (x = c => ~OverdueIn(r, q))
                      => SocketBound(x, l, q, s, beat)
<1>1. s.on /\ s.age = r.age /\ s.todo = r.todo \ {c} /\ s.awaiting = {} /\ s.waiting = r.waiting
  OBVIOUS
<1>2. /\ Rest(r) = Load(r.todo) /\ Rest(s) = Rest(r) - HubDelay /\ Rest(s) \in Nat
      /\ r.age + Rest(r) <= RoundTime /\ r.age \in Nat /\ Rest(r) \in Nat
  <2>1. Load(s.todo) \in Nat /\ Load(s.todo) = Load(r.todo) - HubDelay
    BY <1>1, LoadFacts, RoundNumbers
  <2>2. Rest(r) = Load(r.todo) /\ Rest(s) = Load(s.todo)
    BY <1>1, <2>1, RoundNumbers DEF Rest, Wait
  <2>3. QED
    BY <2>1, <2>2, RoundNumbers, HubNumbers DEF RoundOK
<1>3. RoundOK(s)
  BY <1>1, <1>2, HubNumbers DEF RoundOK
<1>4. /\ ToRound(s, beat) = Rest(s) + BeatEvery /\ ToRound(r, beat) = Rest(r) + BeatEvery
      /\ Wait(s) = 0 /\ Wait(r) = 0
  BY <1>1 DEF ToRound, Wait
<1>5. ASSUME NEW d \in Int, NEW u \in Nat, SessionBound(x, d, u, r, beat),
             x = c => ~DueIn(r, u)
      PROVE  SessionBound(x, d, u, s, beat)
  <2>1. CASE x = c
    <3>1. d <= u + HubDelay /\ u - r.age < ValidateEvery
      BY <1>2, <1>5, <2>1, HubNumbers DEF SessionBound, DueIn
    <3>2. x \notin s.todo \cup s.awaiting
      BY <1>1, <2>1
    <3>3. QED
      BY <1>1, <1>2, <1>4, <3>1, <3>2, HubNumbers DEF SessionBound, DueIn
  <2>2. CASE x # c
    BY <1>1, <1>2, <1>4, <1>5, <2>2, HubNumbers DEF SessionBound, DueIn
  <2>3. QED
    BY <2>1, <2>2
<1>6. ASSUME NEW l \in Int, NEW q \in Nat, SocketBound(x, l, q, r, beat),
             x = c => ~OverdueIn(r, q)
      PROVE  SocketBound(x, l, q, s, beat)
  <2>1. CASE x = c
    <3>1. l <= q + HubDelay /\ q - r.age <= IdleTimeout
      BY <1>2, <1>6, <2>1, HubNumbers DEF SocketBound, OverdueIn
    <3>2. x \notin s.todo
      BY <1>1, <2>1
    <3>3. QED
      BY <1>1, <1>2, <1>4, <3>1, <3>2, HubNumbers DEF SocketBound, OverdueIn
  <2>2. CASE x # c
    BY <1>1, <1>2, <1>4, <1>6, <2>2, HubNumbers DEF SocketBound, OverdueIn
  <2>3. QED
    BY <2>1, <2>2
<1>7. /\ s.on /\ s.age + Rest(s) <= r.age + Rest(r)
      /\ s.todo \cup s.awaiting \subseteq r.todo \cup r.awaiting
  BY <1>1, <1>2, HubNumbers
<1>8. QED
  BY <1>3, <1>5, <1>6, <1>7

\* The round asks for a connection's session: the others keep their bounds, and
\* this one's starts anew.
LEMMA AskBounds ==
    ASSUME NEW r \in Round, RoundOK(r), r.on, r.awaiting = {}, NEW c \in r.todo,
           NEW s \in Round, s.on, s.age = r.age, s.todo = r.todo \ {c}, s.awaiting = {c},
           s.waiting = 0,
           NEW beat \in 0..BeatEvery, NEW x \in Conn
    PROVE  /\ RoundOK(s) /\ s.on /\ s.age + Rest(s) <= r.age + Rest(r)
           /\ s.todo \cup s.awaiting \subseteq r.todo \cup r.awaiting
           /\ \A d \in Int, u \in Nat :
                  SessionBound(x, d, u, r, beat) /\ (x = c => DueIn(r, u))
                      => SessionBound(x, d, IF x = c THEN r.age ELSE u, s, beat)
           /\ \A l \in Int, q \in Nat :
                  SocketBound(x, l, q, r, beat) /\ (x = c => ~OverdueIn(r, q))
                      => SocketBound(x, l, q, s, beat)
<1>1. s.on /\ s.age = r.age /\ s.todo = r.todo \ {c} /\ s.awaiting = {c} /\ s.waiting = 0
  OBVIOUS
<1>2. /\ Rest(r) = Load(r.todo) /\ Rest(s) = Rest(r) /\ Rest(s) >= HubDelay
      /\ r.age + Rest(r) <= RoundTime /\ r.age \in Nat /\ Rest(r) \in Nat
  <2>1. Load(s.todo) \in Nat /\ Load(s.todo) = Load(r.todo) - HubDelay
    BY <1>1, LoadFacts, RoundNumbers
  <2>2. Rest(r) = Load(r.todo) /\ Rest(s) = HubDelay + Load(s.todo)
    BY <1>1, <2>1, RoundNumbers, HubNumbers DEF Rest, Wait
  <2>3. QED
    BY <2>1, <2>2, RoundNumbers, HubNumbers DEF RoundOK
<1>3. RoundOK(s)
  BY <1>1, <1>2, HubNumbers DEF RoundOK
<1>4. /\ ToRound(s, beat) = Rest(s) + BeatEvery /\ ToRound(r, beat) = Rest(r) + BeatEvery
      /\ Wait(s) = HubDelay /\ Wait(r) = 0
  BY <1>1, HubNumbers DEF ToRound, Wait
<1>5. ASSUME NEW d \in Int, NEW u \in Nat, SessionBound(x, d, u, r, beat),
             x = c => DueIn(r, u)
      PROVE  SessionBound(x, d, IF x = c THEN r.age ELSE u, s, beat)
  <2>1. CASE x = c
    <3>1. d + Rest(r) <= DeadBound
      BY <1>5, <2>1 DEF SessionBound, DueIn
    <3>2. x \in s.awaiting /\ x \notin s.todo
      BY <1>1, <2>1
    <3>3. QED
      BY <1>1, <1>2, <1>4, <2>1, <3>1, <3>2, HubNumbers DEF SessionBound, DueIn
  <2>2. CASE x # c
    BY <1>1, <1>2, <1>4, <1>5, <2>2, HubNumbers DEF SessionBound, DueIn
  <2>3. QED
    BY <2>1, <2>2
<1>6. ASSUME NEW l \in Int, NEW q \in Nat, SocketBound(x, l, q, r, beat),
             x = c => ~OverdueIn(r, q)
      PROVE  SocketBound(x, l, q, s, beat)
  <2>1. CASE x = c
    <3>1. l <= q + HubDelay /\ q - r.age <= IdleTimeout
      BY <1>2, <1>6, <2>1, HubNumbers DEF SocketBound, OverdueIn
    <3>2. x \notin s.todo
      BY <1>1, <2>1
    <3>3. QED
      BY <1>1, <1>2, <1>4, <3>1, <3>2, HubNumbers DEF SocketBound, OverdueIn
  <2>2. CASE x # c
    BY <1>1, <1>2, <1>4, <1>6, <2>2, HubNumbers DEF SocketBound, OverdueIn
  <2>3. QED
    BY <2>1, <2>2
<1>7. /\ s.on /\ s.age + Rest(s) <= r.age + Rest(r)
      /\ s.todo \cup s.awaiting \subseteq r.todo \cup r.awaiting
  BY <1>1, <1>2, HubNumbers
<1>8. QED
  BY <1>3, <1>5, <1>6, <1>7

\* The answer comes: the others keep their bounds, and this one's session was
\* valid when it was asked for.
LEMMA DoneBounds ==
    ASSUME NEW r \in Round, RoundOK(r), r.on, NEW c \in r.awaiting,
           NEW s \in Round, s = [r EXCEPT !.awaiting = {}],
           NEW beat \in 0..BeatEvery, NEW x \in Conn
    PROVE  /\ RoundOK(s) /\ s.on /\ s.age + Rest(s) <= r.age + Rest(r)
           /\ s.todo \cup s.awaiting \subseteq r.todo \cup r.awaiting
           /\ \A d \in Int, u \in Nat :
                  SessionBound(x, d, u, r, beat) /\ (x = c => d <= r.waiting)
                      => SessionBound(x, d, u, s, beat)
           /\ \A l \in Int, q \in Nat :
                  SocketBound(x, l, q, r, beat) => SocketBound(x, l, q, s, beat)
<1>1. s.on /\ s.age = r.age /\ s.todo = r.todo /\ s.awaiting = {} /\ s.waiting = r.waiting
  BY DEF Round
<1>2. /\ Rest(s) = Rest(r) - (HubDelay - r.waiting) /\ Rest(s) \in Nat /\ Rest(s) <= Rest(r)
      /\ r.age + Rest(r) <= RoundTime /\ r.age \in Nat /\ Rest(r) \in Nat
      /\ r.waiting \in Nat /\ r.waiting <= HubDelay /\ r.waiting <= r.age
  <2>1. Rest(s) = Load(r.todo) /\ Rest(r) = HubDelay - r.waiting + Load(r.todo)
    BY <1>1, RoundNumbers, HubNumbers DEF Rest, Wait
  <2>2. QED
    BY <2>1, RoundNumbers, HubNumbers DEF RoundOK
<1>3. RoundOK(s)
  BY <1>1, <1>2, HubNumbers DEF RoundOK
<1>4. /\ ToRound(s, beat) = Rest(s) + BeatEvery /\ ToRound(r, beat) = Rest(r) + BeatEvery
      /\ Wait(s) = 0 /\ Wait(r) = HubDelay - r.waiting
  BY <1>1 DEF ToRound, Wait
<1>5. ASSUME NEW d \in Int, NEW u \in Nat, SessionBound(x, d, u, r, beat), x = c => d <= r.waiting
      PROVE  SessionBound(x, d, u, s, beat)
  <2>1. CASE x = c
    <3>1. d <= r.waiting /\ r.waiting <= u
      BY <1>5, <2>1 DEF SessionBound, DueIn
    <3>2. x \notin s.todo \cup s.awaiting
      BY <1>1, <2>1 DEF RoundOK
    <3>3. QED
      BY <1>1, <1>2, <1>4, <3>1, <3>2, HubNumbers DEF SessionBound, DueIn
  <2>2. CASE x # c
    <3>1. x \notin r.awaiting
      BY <2>2 DEF RoundOK
    <3>2. QED
      BY <1>1, <1>2, <1>4, <1>5, <3>1, HubNumbers DEF SessionBound, DueIn
  <2>3. QED
    BY <2>1, <2>2
<1>6. ASSUME NEW l \in Int, NEW q \in Nat, SocketBound(x, l, q, r, beat)
      PROVE  SocketBound(x, l, q, s, beat)
  BY <1>1, <1>2, <1>4, <1>6, HubNumbers DEF SocketBound, OverdueIn
<1>7. /\ s.on /\ s.age + Rest(s) <= r.age + Rest(r)
      /\ s.todo \cup s.awaiting \subseteq r.todo \cup r.awaiting
  BY <1>1, <1>2, HubNumbers
<1>8. QED
  BY <1>3, <1>5, <1>6, <1>7

\* Time passes.
LEMMA TickBounds ==
    ASSUME NEW r \in Round, RoundOK(r), r.on => r.awaiting # {} /\ r.waiting < HubDelay,
           NEW s \in Round,
           s = IF r.on THEN [r EXCEPT !.age = @ + 1, !.waiting = @ + 1] ELSE r,
           NEW beat \in 0..BeatEvery, beat > 0, NEW x \in Conn
    PROVE  /\ RoundOK(s)
           /\ s.age + Rest(s) = r.age + Rest(r)
           /\ \A d, e \in Int, u \in Nat :
                  SessionBound(x, d, u, r, beat) /\ e <= d + 1
                      => SessionBound(x, e, Older(u, ValidateEvery + RoundTime + 1), s, beat - 1)
           /\ \A l, m \in Int, q \in Nat :
                  SocketBound(x, l, q, r, beat) /\ m <= l + 1
                      => SocketBound(x, m, Older(q, IdleTimeout + RoundTime + 2), s, beat - 1)
<1>1. /\ s.on = r.on /\ s.todo = r.todo /\ s.awaiting = r.awaiting
      /\ r.on => s.age = r.age + 1 /\ s.waiting = r.waiting + 1
      /\ ~r.on => s = r
  BY DEF Round
<1>2. /\ r.on => /\ Wait(s) = Wait(r) - 1 /\ Rest(s) = Rest(r) - 1
                 /\ r.age + Rest(r) <= RoundTime /\ Rest(s) \in Nat
      /\ ~r.on => r.todo = {} /\ r.awaiting = {}
  <2>1. CASE r.on
    <3>1. Wait(s) = Wait(r) - 1 /\ Wait(s) \in Nat
      BY <1>1, <2>1, RoundNumbers, HubNumbers DEF Wait
    <3>2. QED
      BY <1>1, <2>1, <3>1, RoundNumbers, HubNumbers DEF Rest, RoundOK
  <2>2. CASE ~r.on
    BY <2>2, RoundNumbers
  <2>3. QED
    BY <2>1, <2>2
<1>3. RoundOK(s)
  <2>1. CASE r.on
    BY <1>1, <1>2, <2>1, RoundNumbers, HubNumbers DEF RoundOK
  <2>2. CASE ~r.on
    BY <1>1, <2>2
  <2>3. QED
    BY <2>1, <2>2
<1>4. s.age + Rest(s) = r.age + Rest(r)
  BY <1>1, <1>2, RoundNumbers, HubNumbers
<1>5. /\ r.on => ToRound(s, beat - 1) = Rest(s) + BeatEvery /\ ToRound(r, beat) = Rest(r) + BeatEvery
      /\ ~r.on => ToRound(s, beat - 1) = beat - 1 /\ ToRound(r, beat) = beat
      /\ beat \in Nat /\ beat <= BeatEvery
  BY <1>1, HubNumbers DEF ToRound
<1>6. ASSUME NEW d \in Int, NEW e \in Int, NEW u \in Nat, SessionBound(x, d, u, r, beat), e <= d + 1
      PROVE  SessionBound(x, e, Older(u, ValidateEvery + RoundTime + 1), s, beat - 1)
  <2> DEFINE o == Older(u, ValidateEvery + RoundTime + 1)
  <2>1. /\ o \in Nat /\ o >= u
        /\ u < ValidateEvery + RoundTime + 1 => o = u + 1
        /\ u >= ValidateEvery + RoundTime + 1 => o = u
    BY HubNumbers DEF Older, Alive
  <2> HIDE DEF o
  <2>2. CASE x \in r.awaiting
    <3>1. r.on /\ x \notin r.todo /\ x \in s.awaiting /\ x \notin s.todo
      BY <1>1, <1>2, <2>2 DEF RoundOK
    <3>2. d + Wait(r) <= DeadBound /\ r.waiting <= u /\ r.waiting < HubDelay /\ HubDelay <= RoundTime
      BY <1>6, <2>2, <3>1, HubNumbers DEF SessionBound, DueIn
    <3>3. e + Wait(s) <= DeadBound /\ s.waiting <= o
      BY <1>1, <1>2, <1>6, <2>1, <3>1, <3>2, RoundNumbers, HubNumbers
    <3>4. QED
      BY <3>1, <3>3 DEF SessionBound, DueIn, o
  <2>3. CASE x \in r.todo
    <3>1. r.on /\ x \notin s.awaiting /\ x \in s.todo
      BY <1>1, <1>2, <2>3 DEF RoundOK
    <3>2. IF u - r.age >= ValidateEvery THEN d + Rest(r) <= DeadBound ELSE d <= u + HubDelay
      BY <1>6, <2>3 DEF SessionBound, DueIn
    <3>3. o - s.age >= ValidateEvery <=> u - r.age >= ValidateEvery
      BY <1>1, <1>2, <2>1, <3>1, RoundNumbers, HubNumbers
    <3>4. IF o - s.age >= ValidateEvery THEN e + Rest(s) <= DeadBound ELSE e <= o + HubDelay
      BY <1>1, <1>2, <1>6, <2>1, <3>1, <3>2, <3>3, RoundNumbers, HubNumbers
    <3>5. QED
      BY <3>1, <3>4 DEF SessionBound, DueIn, o
  <2>4. CASE x \notin r.todo \cup r.awaiting
    <3>1. x \notin s.todo \cup s.awaiting
      BY <1>1, <2>4
    <3>2. IF u < ValidateEvery
          THEN d <= u + HubDelay /\ (r.on => d + r.age + Rest(r) <= u + RoundTime)
          ELSE d + ToRound(r, beat) <= ValidateEvery + BeatEvery + RoundTime
      BY <1>6, <2>4 DEF SessionBound, DueIn
    <3>3. CASE u < ValidateEvery /\ o < ValidateEvery
      BY <1>1, <1>2, <1>4, <1>6, <2>1, <3>1, <3>2, <3>3, RoundNumbers, HubNumbers
      DEF SessionBound, DueIn, o
    <3>4. CASE u < ValidateEvery /\ o >= ValidateEvery
      <4>1. e + ToRound(s, beat - 1) <= ValidateEvery + BeatEvery + RoundTime
        BY <1>1, <1>2, <1>5, <1>6, <2>1, <3>2, <3>4, RoundNumbers, HubNumbers
      <4>2. QED
        BY <2>1, <3>1, <3>4, <4>1, HubNumbers DEF SessionBound, DueIn, o
    <3>5. CASE u >= ValidateEvery
      <4>1. e + ToRound(s, beat - 1) <= ValidateEvery + BeatEvery + RoundTime
        BY <1>1, <1>2, <1>5, <1>6, <3>2, <3>5, RoundNumbers, HubNumbers
      <4>2. QED
        BY <2>1, <3>1, <3>5, <4>1, HubNumbers DEF SessionBound, DueIn, o
    <3>6. QED
      BY <2>1, <3>3, <3>4, <3>5, HubNumbers
  <2>5. QED
    BY <2>2, <2>3, <2>4 DEF o
<1>7. ASSUME NEW l \in Int, NEW m \in Int, NEW q \in Nat, SocketBound(x, l, q, r, beat), m <= l + 1
      PROVE  SocketBound(x, m, Older(q, IdleTimeout + RoundTime + 2), s, beat - 1)
  <2> DEFINE o == Older(q, IdleTimeout + RoundTime + 2)
  <2>1. /\ o \in Nat /\ o >= q
        /\ q < IdleTimeout + RoundTime + 2 => o = q + 1
        /\ q >= IdleTimeout + RoundTime + 2 => o = q
    BY HubNumbers DEF Older, Alive
  <2> HIDE DEF o
  <2>2. CASE x \in r.todo
    <3>1. r.on /\ x \in s.todo
      BY <1>1, <1>2, <2>2
    <3>2. IF q - r.age > IdleTimeout THEN l + Rest(r) <= LeftBound + HubDelay
          ELSE l <= q + HubDelay
      BY <1>7, <2>2 DEF SocketBound, OverdueIn
    <3>3. o - s.age > IdleTimeout <=> q - r.age > IdleTimeout
      BY <1>1, <1>2, <2>1, <3>1, RoundNumbers, HubNumbers
    <3>4. IF o - s.age > IdleTimeout THEN m + Rest(s) <= LeftBound + HubDelay
          ELSE m <= o + HubDelay
      BY <1>1, <1>2, <1>7, <2>1, <3>1, <3>2, <3>3, RoundNumbers, HubNumbers
    <3>5. QED
      BY <3>1, <3>4 DEF SocketBound, OverdueIn, o
  <2>3. CASE x \notin r.todo
    <3>1. x \notin s.todo
      BY <1>1, <2>3
    <3>2. IF q <= IdleTimeout THEN l <= q + HubDelay
          ELSE l + ToRound(r, beat) <= IdleTimeout + 1 + BeatEvery + RoundTime + HubDelay
      BY <1>7, <2>3 DEF SocketBound, OverdueIn
    <3>3. CASE o <= IdleTimeout
      BY <1>7, <2>1, <3>1, <3>2, <3>3, HubNumbers DEF SocketBound, OverdueIn, o
    <3>4. CASE o > IdleTimeout
      <4>1. m + ToRound(s, beat - 1) <= IdleTimeout + 1 + BeatEvery + RoundTime + HubDelay
        BY <1>1, <1>2, <1>5, <1>7, <2>1, <3>2, <3>4, RoundNumbers, HubNumbers
      <4>2. QED
        BY <2>1, <3>1, <3>4, <4>1, HubNumbers DEF SocketBound, OverdueIn, o
    <3>5. QED
      BY <2>1, <3>3, <3>4, HubNumbers
  <2>4. QED
    BY <2>2, <2>3 DEF o
<1>8. QED
  BY <1>3, <1>4, <1>6, <1>7

\* What holds of connection c, whose record is k and whose peer left l ago: one
\* that attaches is not in the round, which leaves it the time of its own check;
\* its validate() takes a bounded time, at whose start its session was valid; and
\* one that is attached is found out in time.
ConnOK(c, k, l, dead, r, beat) ==
    /\ k.phase \in {"new", "asked", "answered"} =>
           /\ c \notin r.todo \cup r.awaiting
           /\ r.on => r.age + Rest(r) <= RoundTime - HubDelay
    /\ k.phase = "new" => l = Alive
    /\ k.phase \in {"asked", "answered", "attached"} => k.session \in Session
    /\ k.phase \in {"asked", "answered"} => l <= k.waiting /\ k.waiting <= HubDelay
    /\ k.phase = "answered" /\ k.verdict => dead[k.session] <= k.waiting
    /\ k.phase = "attached" => /\ SessionBound(c, dead[k.session], k.unchecked, r, beat)
                               /\ SocketBound(c, l, k.quiet, r, beat)

HubInv ==
    /\ HubTypeOK /\ RoundOK(round)
    /\ \A c \in Conn : ConnOK(c, conn[c], leftFor[c], deadFor, round, beatIn)

LEMMA GoneOK == \A c, l, dead, r, beat : ConnOK(c, Gone, l, dead, r, beat)
  BY HubShapes DEF ConnOK

LEMMA HubInvInit == HubInit => HubInv
<1> SUFFICES ASSUME HubInit PROVE HubInv
  OBVIOUS
<1>1. HubTypeOK
  BY HubTypeInit
<1>2. RoundOK(round) /\ ~round.on /\ round.todo = {} /\ round.awaiting = {}
  BY DEF HubInit, RoundOK, NoRound
<1>3. \A c \in Conn : conn[c] = Fresh /\ leftFor[c] = Alive
  BY DEF HubInit
<1>4. \A c \in Conn : ConnOK(c, conn[c], leftFor[c], deadFor, round, beatIn)
  BY <1>2, <1>3, HubShapes DEF ConnOK
<1>5. QED
  BY <1>1, <1>2, <1>4 DEF HubInv

LEMMA HubInvStep == HubInv /\ [HubNext]_hubVars => HubInv'
<1> SUFFICES ASSUME HubInv, [HubNext]_hubVars
             PROVE  HubInv'
  OBVIOUS
<1>t. HubTypeOK /\ HubTypeOK'
  BY HubTypeStep DEF HubInv
<1>r. round \in Round /\ round' \in Round /\ RoundOK(round)
  BY <1>t DEF HubInv, HubTypeOK
<1>b. beatIn \in 0..BeatEvery /\ beatIn' \in 0..BeatEvery
  BY <1>t DEF HubTypeOK
<1>k. \A c \in Conn : /\ conn[c] \in Connection /\ conn'[c] \in Connection
                      /\ conn[c].waiting \in Nat /\ conn[c].quiet \in Nat /\ conn[c].unchecked \in Nat
                      /\ leftFor[c] \in Int /\ leftFor'[c] \in Int
  BY <1>t DEF HubTypeOK, Connection
<1>d. \A s \in Session : deadFor[s] \in Int /\ deadFor'[s] \in Int
  BY <1>t DEF HubTypeOK
<1>c. \A c \in Conn : ConnOK(c, conn[c], leftFor[c], deadFor, round, beatIn)
  BY DEF HubInv
<1>g. \A gone \in SUBSET Conn : Drop(gone) =>
          \A x \in Conn : conn'[x] = IF x \in gone THEN Gone ELSE conn[x]
  BY DEF Drop
<1>s. \A c \in Conn : \A k : Set(c, k) =>
          \A x \in Conn : conn'[x] = IF x = c THEN k ELSE conn[x]
  BY <1>t DEF Set, HubTypeOK
\* A step of one connection alone.
<1>o. ASSUME NEW c \in Conn, UNCHANGED <<deadFor, leftFor, beatIn, round>>,
             \A x \in Conn \ {c} : conn'[x] = conn[x],
             ConnOK(c, conn'[c], leftFor[c], deadFor, round, beatIn)
      PROVE  HubInv'
  <2>1. \A x \in Conn : ConnOK(x, conn'[x], leftFor[x], deadFor, round, beatIn)
    BY <1>c, <1>o
  <2>2. QED
    BY <1>o, <1>t, <1>r, <2>1 DEF HubInv
<1>1. ASSUME NEW c \in Conn, NEW s \in Session, Attach(c, s)
      PROVE  HubInv'
  <2> DEFINE k == [Fresh EXCEPT !.phase = "asked", !.session = s]
  <2>1. UNCHANGED <<deadFor, leftFor, beatIn, round>> /\ conn[c].phase = "new"
    BY <1>1 DEF Attach
  <2>2. CASE Set(c, k)
    <3>1. \A x \in Conn : conn'[x] = IF x = c THEN k ELSE conn[x]
      BY <1>s, <2>2
    <3>2. k.phase = "asked" /\ k.session = s /\ k.waiting = 0
      BY HubShapes DEF Fresh
    <3>3. ConnOK(c, k, leftFor[c], deadFor, round, beatIn)
      BY <1>c, <2>1, <3>2, HubNumbers DEF ConnOK, Alive
    <3>4. QED
      BY <1>o, <2>1, <3>1, <3>3
  <2>3. CASE Set(c, Gone)
    <3>1. \A x \in Conn : conn'[x] = IF x = c THEN Gone ELSE conn[x]
      BY <1>s, <2>3
    <3>2. QED
      BY <1>o, <2>1, <3>1, GoneOK
  <2>4. QED
    BY <1>1, <2>2, <2>3 DEF Attach
<1>2. ASSUME NEW c \in Conn, AttachRead(c)
      PROVE  HubInv'
  <2> DEFINE k == [conn[c] EXCEPT !.phase = "answered",
                                  !.verdict = deadFor[conn[c].session] = Alive]
  <2>1. UNCHANGED <<deadFor, leftFor, beatIn, round>> /\ conn[c].phase = "asked" /\ Set(c, k)
    BY <1>2 DEF AttachRead
  <2>2. \A x \in Conn : conn'[x] = IF x = c THEN k ELSE conn[x]
    BY <1>s, <2>1
  <2>3. /\ k.phase = "answered" /\ k.session = conn[c].session /\ k.waiting = conn[c].waiting
        /\ k.verdict => deadFor[k.session] = Alive
    BY <1>k DEF Connection
  <2>4. ConnOK(c, k, leftFor[c], deadFor, round, beatIn)
    BY <1>c, <1>k, <2>1, <2>3 DEF ConnOK, Alive
  <2>5. QED
    BY <1>o, <2>1, <2>2, <2>4
<1>3. ASSUME NEW c \in Conn, AttachDone(c)
      PROVE  HubInv'
  <2>1. UNCHANGED <<deadFor, leftFor, beatIn, round>> /\ conn[c].phase = "answered"
    BY <1>3 DEF AttachDone
  <2>2. CASE conn[c].verdict
    <3> DEFINE k == [conn[c] EXCEPT !.phase = "attached", !.waiting = 0]
    <3>1. \A x \in Conn : conn'[x] = IF x = c THEN k ELSE conn[x]
      BY <1>3, <1>s, <2>2 DEF AttachDone
    <3>2. /\ k.phase = "attached" /\ k.session = conn[c].session
          /\ k.quiet = conn[c].quiet /\ k.unchecked = conn[c].unchecked
      BY <1>k DEF Connection
    <3>3. /\ conn[c].session \in Session /\ deadFor[conn[c].session] <= conn[c].waiting
          /\ leftFor[c] <= conn[c].waiting /\ conn[c].waiting <= HubDelay
          /\ c \notin round.todo \cup round.awaiting
          /\ round.on => round.age + Rest(round) <= RoundTime - HubDelay
      BY <1>c, <2>1, <2>2 DEF ConnOK
    <3>4. /\ deadFor[conn[c].session] \in Int /\ deadFor[conn[c].session] <= HubDelay
          /\ leftFor[c] <= HubDelay
      BY <1>d, <1>k, <3>3, HubNumbers
    <3>5. /\ ToRound(round, beatIn) \in Int
          /\ ToRound(round, beatIn) <= RoundTime - HubDelay + BeatEvery
          /\ HubDelay <= RoundTime /\ round.age \in Nat /\ Rest(round) \in Nat
      BY <1>r, <1>b, <3>3, RoundNumbers, HubNumbers DEF ToRound
    <3>6. SessionBound(c, deadFor[conn[c].session], conn[c].unchecked, round, beatIn)
      BY <1>k, <3>3, <3>4, <3>5, HubNumbers DEF SessionBound, DueIn
    <3>7. SocketBound(c, leftFor[c], conn[c].quiet, round, beatIn)
      BY <1>k, <3>3, <3>4, <3>5, HubNumbers DEF SocketBound, OverdueIn
    <3>8. ConnOK(c, k, leftFor[c], deadFor, round, beatIn)
      BY <3>2, <3>3, <3>6, <3>7 DEF ConnOK
    <3>9. QED
      BY <1>o, <2>1, <3>1, <3>8
  <2>3. CASE ~conn[c].verdict
    <3>1. \A x \in Conn : conn'[x] = IF x \in {c} THEN Gone ELSE conn[x]
      BY <1>3, <1>g, <2>3 DEF AttachDone
    <3>2. QED
      BY <1>o, <2>1, <3>1, GoneOK
  <2>4. QED
    BY <2>2, <2>3
<1>4. ASSUME NEW c \in Conn, Leave(c)
      PROVE  HubInv'
  <2>1. /\ UNCHANGED <<deadFor, beatIn, round>> /\ leftFor' = [leftFor EXCEPT ![c] = 0]
        /\ conn[c].phase \in {"asked", "answered", "attached"}
    BY <1>4 DEF Leave
  <2>2. \A x \in Conn : leftFor'[x] = IF x = c THEN 0 ELSE leftFor[x]
    BY <1>t, <2>1 DEF HubTypeOK
  <2>3. \A x \in Conn : conn'[x] = conn[x] \/ (x = c /\ conn'[x] = Gone)
    BY <1>4, <1>g DEF Leave
  <2>4. ASSUME NEW x \in Conn
        PROVE  ConnOK(x, conn'[x], leftFor'[x], deadFor', round', beatIn')
    <3>1. CASE conn'[x] = Gone
      BY <3>1, GoneOK
    <3>2. CASE x # c
      BY <1>c, <2>1, <2>2, <2>3, <3>2
    <3>3. CASE x = c /\ conn'[x] = conn[x]
      <4>1. SocketBound(c, 0, conn[c].quiet, round, beatIn)
        BY <1>b, <1>k, <1>r, JustNow
      <4>2. ConnOK(c, conn[c], leftFor[c], deadFor, round, beatIn) /\ conn[c].waiting \in Nat
        BY <1>c, <1>k
      <4>3. ConnOK(c, conn[c], 0, deadFor, round, beatIn)
        BY <2>1, <4>1, <4>2 DEF ConnOK
      <4>4. QED
        BY <2>1, <2>2, <3>3, <4>3
    <3>4. QED
      BY <2>3, <3>1, <3>2, <3>3
  <2>5. QED
    BY <1>t, <1>r, <2>1, <2>4 DEF HubInv
<1>5. ASSUME NEW c \in Conn, Message(c)
      PROVE  HubInv'
  <2>1. /\ UNCHANGED <<deadFor, leftFor, beatIn, round>> /\ conn[c].phase = "attached"
        /\ leftFor[c] = Alive
    BY <1>5 DEF Message, Attached
  <2>2. CASE Set(c, [conn[c] EXCEPT !.quiet = 0])
    <3> DEFINE k == [conn[c] EXCEPT !.quiet = 0]
    <3>1. \A x \in Conn : conn'[x] = IF x = c THEN k ELSE conn[x]
      BY <1>s, <2>2
    <3>2. /\ k.phase = "attached" /\ k.session = conn[c].session
          /\ k.quiet = 0 /\ k.unchecked = conn[c].unchecked
      BY <1>k, <2>1 DEF Connection
    <3>3. SocketBound(c, leftFor[c], 0, round, beatIn)
      <4>1. SocketBound(c, 0, 0, round, beatIn)
        BY <1>b, <1>r, JustNow
      <4>2. QED
        BY <1>b, <1>r, <2>1, <4>1, Younger DEF Alive
    <3>4. ConnOK(c, k, leftFor[c], deadFor, round, beatIn)
      BY <1>c, <2>1, <3>2, <3>3 DEF ConnOK
    <3>5. QED
      BY <1>o, <2>1, <3>1, <3>4
  <2>3. CASE Drop({c})
    <3>1. \A x \in Conn : conn'[x] = IF x \in {c} THEN Gone ELSE conn[x]
      BY <1>g, <2>3
    <3>2. QED
      BY <1>o, <2>1, <3>1, GoneOK
  <2>4. QED
    BY <1>5, <2>2, <2>3 DEF Message
\* A step of the round that leaves connection x alone.
<1>m. ASSUME NEW x \in Conn, UNCHANGED <<deadFor, leftFor, conn[x]>>, RoundOK(round'),
             round'.todo \cup round'.awaiting \subseteq round.todo \cup round.awaiting,
             round'.on => round.on /\ round'.age + Rest(round') <= round.age + Rest(round),
             conn[x].phase = "attached" =>
                 /\ SessionBound(x, deadFor[conn[x].session], conn[x].unchecked, round', beatIn')
                 /\ SocketBound(x, leftFor[x], conn[x].quiet, round', beatIn')
      PROVE  ConnOK(x, conn'[x], leftFor'[x], deadFor', round', beatIn')
  <2>1. /\ Rest(round) \in Nat /\ Rest(round') \in Nat /\ round.age \in Nat /\ round'.age \in Nat
        /\ RoundTime - HubDelay \in Int
    BY <1>r, <1>m, RoundNumbers, HubNumbers
  <2>2. ConnOK(x, conn[x], leftFor[x], deadFor, round, beatIn)
    BY <1>c
  <2>3. QED
    BY <1>m, <2>1, <2>2 DEF ConnOK
<1>n. \A x \in Conn : conn[x].phase = "attached" =>
          /\ SessionBound(x, deadFor[conn[x].session], conn[x].unchecked, round, beatIn)
          /\ SocketBound(x, leftFor[x], conn[x].quiet, round, beatIn)
          /\ deadFor[conn[x].session] \in Int
  BY <1>c, <1>d DEF ConnOK
<1>6. ASSUME NEW c \in Conn, CheckNext(c)
      PROVE  HubInv'
  <2> DEFINE rest == [round EXCEPT !.todo = @ \ {c}]
             ask == [round EXCEPT !.todo = @ \ {c}, !.awaiting = {c}, !.waiting = 0]
  <2>1. /\ UNCHANGED <<deadFor, leftFor, beatIn>> /\ round.on /\ round.awaiting = {}
        /\ c \in round.todo
    BY <1>6 DEF CheckNext
  <2>2. ASSUME round' = rest, \A x \in Conn : conn'[x] = Gone \/ conn'[x] = conn[x],
               \/ conn'[c] = Gone \/ conn[c].phase # "attached"
               \/ ~Overdue(c) /\ ~DueForValidation(c)
        PROVE  HubInv'
    <3>1. ASSUME NEW x \in Conn
          PROVE  RoundOK(round') /\ ConnOK(x, conn'[x], leftFor'[x], deadFor', round', beatIn')
      <4>1. /\ RoundOK(round') /\ round'.on /\ round'.age + Rest(round') <= round.age + Rest(round)
            /\ round'.todo \cup round'.awaiting \subseteq round.todo \cup round.awaiting
            /\ \A d \in Int, u \in Nat :
                   SessionBound(x, d, u, round, beatIn) /\ (x = c => ~DueIn(round, u))
                       => SessionBound(x, d, u, round', beatIn)
            /\ \A l \in Int, q \in Nat :
                   SocketBound(x, l, q, round, beatIn) /\ (x = c => ~OverdueIn(round, q))
                       => SocketBound(x, l, q, round', beatIn)
        <5>1. /\ round \in Round /\ RoundOK(round) /\ round.on /\ round.awaiting = {}
              /\ c \in round.todo /\ round' \in Round /\ beatIn \in 0..BeatEvery
          BY <1>r, <1>b, <2>1
        <5>2. /\ round'.on /\ round'.age = round.age /\ round'.todo = round.todo \ {c}
              /\ round'.awaiting = {} /\ round'.waiting = round.waiting
          BY <2>2, <5>1 DEF Round
        <5> HIDE DEF rest
        <5>3. QED
          BY <5>1, <5>2, SkipBounds
      <4>2. CASE conn'[x] = Gone
        BY <4>1, <4>2, GoneOK
      <4>3. CASE conn'[x] = conn[x] /\ conn'[x] # Gone
        <5>1. conn[x].phase = "attached" /\ x = c =>
                  /\ ~DueIn(round, conn[x].unchecked)
                  /\ ~OverdueIn(round, conn[x].quiet)
          BY <2>2, <4>3 DEF Overdue, DueForValidation, OverdueIn, DueIn
        <5>2. conn[x].phase = "attached" =>
                  /\ SessionBound(x, deadFor[conn[x].session], conn[x].unchecked, round', beatIn')
                  /\ SocketBound(x, leftFor[x], conn[x].quiet, round', beatIn')
          BY <1>k, <1>n, <2>1, <4>1, <5>1
        <5>3. QED
          BY <1>m, <2>1, <4>1, <4>3, <5>2
      <4>4. QED
        BY <2>2, <4>2, <4>3
    <3>2. QED
      BY <1>t, <2>1, <3>1 DEF HubInv
  <2>3. CASE ~Attached(c) /\ round' = rest /\ UNCHANGED conn
    BY <2>2, <2>3 DEF Attached
  <2>4. CASE round' = rest /\ Drop({c})
    <3>1. \A x \in Conn : conn'[x] = IF x \in {c} THEN Gone ELSE conn[x]
      BY <1>g, <2>4
    <3>2. QED
      BY <2>2, <2>4, <3>1
  <2>5. CASE ~Overdue(c) /\ ~DueForValidation(c) /\ round' = rest /\ UNCHANGED conn
    BY <2>2, <2>5
  <2>6. CASE /\ Attached(c) /\ ~Overdue(c) /\ DueForValidation(c)
             /\ round' = [rest EXCEPT !.awaiting = {c}, !.waiting = 0]
             /\ Set(c, [conn[c] EXCEPT !.unchecked = round.age])
    <3> DEFINE k == [conn[c] EXCEPT !.unchecked = round.age]
    <3>1. round' = ask /\ \A x \in Conn : conn'[x] = IF x = c THEN k ELSE conn[x]
      BY <1>s, <1>r, <2>6 DEF Round
    <3>2. /\ k.phase = "attached" /\ k.session = conn[c].session /\ k.quiet = conn[c].quiet
          /\ k.unchecked = round.age /\ conn[c].phase = "attached"
      BY <1>k, <2>6 DEF Connection, Attached
    <3>3. /\ DueIn(round, conn[c].unchecked)
          /\ ~OverdueIn(round, conn[c].quiet)
      BY <2>6 DEF Overdue, DueForValidation, OverdueIn, DueIn
    <3>4. ASSUME NEW x \in Conn
          PROVE  RoundOK(round') /\ ConnOK(x, conn'[x], leftFor'[x], deadFor', round', beatIn')
      <4>1. /\ RoundOK(round') /\ round'.on /\ round'.age + Rest(round') <= round.age + Rest(round)
            /\ round'.todo \cup round'.awaiting \subseteq round.todo \cup round.awaiting
            /\ \A d \in Int, u \in Nat :
                   SessionBound(x, d, u, round, beatIn) /\ (x = c => DueIn(round, u))
                       => SessionBound(x, d, IF x = c THEN round.age ELSE u, round', beatIn)
            /\ \A l \in Int, q \in Nat :
                   SocketBound(x, l, q, round, beatIn) /\ (x = c => ~OverdueIn(round, q))
                       => SocketBound(x, l, q, round', beatIn)
        <5>1. /\ round \in Round /\ RoundOK(round) /\ round.on /\ round.awaiting = {}
              /\ c \in round.todo /\ round' \in Round /\ beatIn \in 0..BeatEvery
          BY <1>r, <1>b, <2>1
        <5>2. /\ round'.on /\ round'.age = round.age /\ round'.todo = round.todo \ {c}
              /\ round'.awaiting = {c} /\ round'.waiting = 0
          BY <3>1, <5>1 DEF Round
        <5> HIDE DEF ask
        <5>3. QED
          BY <5>1, <5>2, AskBounds
      <4>2. CASE x # c
        <5>1. conn[x].phase = "attached" =>
                  /\ SessionBound(x, deadFor[conn[x].session], conn[x].unchecked, round', beatIn')
                  /\ SocketBound(x, leftFor[x], conn[x].quiet, round', beatIn')
          BY <1>k, <1>n, <2>1, <4>1, <4>2
        <5>2. QED
          BY <1>m, <2>1, <3>1, <4>1, <4>2, <5>1
      <4>3. CASE x = c
        <5>1. /\ SessionBound(c, deadFor[k.session], k.unchecked, round', beatIn')
              /\ SocketBound(c, leftFor[c], k.quiet, round', beatIn')
          BY <1>k, <1>n, <2>1, <3>2, <3>3, <4>1, <4>3
        <5>2. k.session \in Session
          BY <1>c, <3>2 DEF ConnOK
        <5> HIDE DEF k
        <5>3. QED
          BY <2>1, <3>1, <3>2, <4>1, <4>3, <5>1, <5>2 DEF ConnOK
      <4>4. QED
        BY <4>2, <4>3
    <3>5. QED
      BY <1>t, <2>1, <3>4 DEF HubInv
  <2>7. QED
    BY <1>6, <2>3, <2>4, <2>5, <2>6 DEF CheckNext
<1>7. ASSUME NEW c \in Conn, CheckDone(c)
      PROVE  HubInv'
  <2>1. /\ UNCHANGED <<deadFor, leftFor, beatIn>> /\ c \in round.awaiting /\ round.on
        /\ round' = [round EXCEPT !.awaiting = {}]
    BY <1>7, <1>r, RoundNumbers DEF CheckDone
  <2>2. \/ \A x \in Conn : conn'[x] = IF x \in {c} THEN Gone ELSE conn[x]
        \/ (conn[c].phase = "attached" => deadFor[conn[c].session] <= round.waiting) /\ conn' = conn
    BY <1>7, <1>g DEF CheckDone, Attached
  <2>3. ASSUME NEW x \in Conn
        PROVE  RoundOK(round') /\ ConnOK(x, conn'[x], leftFor'[x], deadFor', round', beatIn')
    <3>1. /\ RoundOK(round') /\ round'.on /\ round'.age + Rest(round') <= round.age + Rest(round)
          /\ round'.todo \cup round'.awaiting \subseteq round.todo \cup round.awaiting
          /\ \A d \in Int, u \in Nat :
                 SessionBound(x, d, u, round, beatIn) /\ (x = c => d <= round.waiting)
                     => SessionBound(x, d, u, round', beatIn)
          /\ \A l \in Int, q \in Nat :
                 SocketBound(x, l, q, round, beatIn) => SocketBound(x, l, q, round', beatIn)
      BY <1>r, <1>b, <2>1, DoneBounds
    <3>2. CASE conn'[x] = Gone
      BY <3>1, <3>2, GoneOK
    <3>3. CASE conn'[x] # Gone
      <4>1. conn'[x] = conn[x]
            /\ (conn[x].phase = "attached" /\ x = c => deadFor[conn[x].session] <= round.waiting)
        BY <2>2, <3>3
      <4>2. conn[x].phase = "attached" =>
                /\ SessionBound(x, deadFor[conn[x].session], conn[x].unchecked, round', beatIn')
                /\ SocketBound(x, leftFor[x], conn[x].quiet, round', beatIn')
        BY <1>k, <1>n, <2>1, <3>1, <4>1
      <4>3. QED
        BY <1>m, <2>1, <3>1, <4>1, <4>2
    <3>4. QED
      BY <3>2, <3>3
  <2>4. QED
    BY <1>t, <2>1, <2>3 DEF HubInv
<1>8. ASSUME NEW s \in Session, SessionEnds(s)
      PROVE  HubInv'
  <2>1. /\ UNCHANGED <<leftFor, conn, beatIn, round>> /\ deadFor[s] = Alive
        /\ \A t \in Session : deadFor'[t] = IF t = s THEN 0 ELSE deadFor[t]
    BY <1>8, <1>t DEF SessionEnds, HubTypeOK
  <2>2. ASSUME NEW x \in Conn
        PROVE  ConnOK(x, conn'[x], leftFor'[x], deadFor', round', beatIn')
    <3>1. ConnOK(x, conn[x], leftFor[x], deadFor, round, beatIn) /\ conn[x].waiting \in Nat
          /\ conn[x].unchecked \in Nat
      BY <1>c, <1>k
    <3>2. CASE conn[x].phase = "attached"
      <4>1. conn[x].session \in Session
        BY <3>1, <3>2 DEF ConnOK
      <4>2. CASE conn[x].session = s
        <5>1. x \in round.awaiting => round.waiting <= conn[x].unchecked
          BY <1>n, <3>2 DEF SessionBound, DueIn
        <5>2. SessionBound(x, 0, conn[x].unchecked, round, beatIn)
          BY <1>b, <1>r, <3>1, <5>1, JustNow
        <5>3. QED
          BY <2>1, <3>1, <3>2, <4>2, <5>2 DEF ConnOK
      <4>3. CASE conn[x].session # s
        BY <2>1, <3>1, <3>2, <4>1, <4>3 DEF ConnOK
      <4>4. QED
        BY <4>2, <4>3
    <3>3. CASE conn[x].phase # "attached"
      BY <2>1, <3>1, <3>3 DEF ConnOK
    <3>4. QED
      BY <3>2, <3>3
  <2>3. QED
    BY <1>t, <1>r, <2>1, <2>2 DEF HubInv
<1>9. ASSUME NEW s \in Session, BusDelivers(s)
      PROVE  HubInv'
  <2>1. UNCHANGED <<deadFor, leftFor, beatIn, round>>
    BY <1>9 DEF BusDelivers
  <2>2. \A x \in Conn : conn'[x] = Gone \/ conn'[x] = conn[x]
    BY <1>9, <1>g DEF BusDelivers
  <2>3. \A x \in Conn : ConnOK(x, conn'[x], leftFor'[x], deadFor', round', beatIn')
    BY <1>c, <2>1, <2>2, GoneOK
  <2>4. QED
    BY <1>t, <1>r, <2>1, <2>3 DEF HubInv
<1>10. CASE Beat
  <2>1. UNCHANGED <<deadFor, leftFor, conn>> /\ beatIn = 0 /\ beatIn' = BeatEvery
    BY <1>10 DEF Beat
  <2>2. CASE round.on
    <3>1. round' = round /\ ToRound(round, beatIn') = ToRound(round, beatIn)
      BY <1>10, <2>2 DEF Beat, ToRound
    <3>2. \A x \in Conn : ConnOK(x, conn'[x], leftFor'[x], deadFor', round', beatIn')
      BY <1>c, <2>1, <3>1 DEF ConnOK, SessionBound, SocketBound
    <3>3. QED
      BY <1>t, <1>r, <3>1, <3>2 DEF HubInv
  <2>3. CASE ~round.on
    <3> DEFINE S == {c \in Conn : Attached(c)}
    <3>1. round = NoRound /\ round' = [NoRound EXCEPT !.on = TRUE, !.todo = S]
      BY <1>10, <1>r, <2>3 DEF Beat, RoundOK
    <3>2. /\ round'.on /\ round'.age = 0 /\ round'.todo = S /\ round'.awaiting = {}
          /\ round'.waiting = 0
      BY <3>1 DEF NoRound
    <3>3. Rest(round') = Load(S) /\ Load(S) \in Nat /\ Load(S) <= RoundTime
      BY <3>2, LoadFacts DEF Rest, Wait
    <3>4. RoundOK(round')
      BY <3>2, <3>3, HubNumbers DEF RoundOK
    <3>5. ASSUME NEW x \in Conn
          PROVE  ConnOK(x, conn'[x], leftFor'[x], deadFor', round', beatIn')
      <4>1. ConnOK(x, conn[x], leftFor[x], deadFor, round, beatIn)
        BY <1>c
      <4>2. CASE x \in S
        <5>1. conn[x].phase = "attached"
          BY <4>2 DEF Attached
        <5>2. /\ SessionBound(x, deadFor[conn[x].session], conn[x].unchecked, round', BeatEvery)
              /\ SocketBound(x, leftFor[x], conn[x].quiet, round', BeatEvery)
          BY <1>r, <1>k, <1>n, <2>1, <3>1, <4>2, <5>1, BeatBounds
        <5>3. QED
          BY <2>1, <4>1, <5>1, <5>2 DEF ConnOK
      <4>3. CASE x \notin S
        <5>1. conn[x].phase # "attached" /\ x \in Conn \ S
          BY <4>3 DEF Attached
        <5>2. round'.age + Rest(round') <= RoundTime - HubDelay
          <6>1. Load(S) <= RoundTime - HubDelay
            BY <5>1, LoadFacts
          <6>2. QED
            BY <3>2, <3>3, <6>1, HubNumbers
        <5>3. QED
          BY <2>1, <3>2, <4>1, <5>1, <5>2 DEF ConnOK
      <4>4. QED
        BY <4>2, <4>3
    <3>6. QED
      BY <1>t, <3>4, <3>5 DEF HubInv
  <2>4. QED
    BY <2>2, <2>3
<1>11. CASE RoundEnds
  <2>1. /\ UNCHANGED <<deadFor, leftFor, conn, beatIn>> /\ round' = NoRound
        /\ round.on /\ round.todo = {} /\ round.awaiting = {}
    BY <1>11 DEF RoundEnds
  <2>2. RoundOK(round') /\ ~round'.on /\ round'.todo = {} /\ round'.awaiting = {}
    BY <2>1 DEF RoundOK, NoRound
  <2>3. ASSUME NEW x \in Conn
        PROVE  ConnOK(x, conn'[x], leftFor'[x], deadFor', round', beatIn')
    <3>1. /\ \A d \in Int, u \in Nat :
                 SessionBound(x, d, u, round, beatIn) => SessionBound(x, d, u, NoRound, beatIn)
          /\ \A l \in Int, q \in Nat :
                 SocketBound(x, l, q, round, beatIn) => SocketBound(x, l, q, NoRound, beatIn)
      BY <1>r, <1>b, <2>1, EndBounds
    <3>2. conn[x].phase = "attached" =>
              /\ SessionBound(x, deadFor[conn[x].session], conn[x].unchecked, round', beatIn')
              /\ SocketBound(x, leftFor[x], conn[x].quiet, round', beatIn')
      BY <1>k, <1>n, <2>1, <3>1
    <3>3. QED
      BY <1>m, <2>1, <2>2, <3>2
  <2>4. QED
    BY <1>t, <2>2, <2>3 DEF HubInv
<1>12. CASE HubTick
  <2>1. /\ round.on => round.awaiting # {} /\ round.waiting < HubDelay
        /\ beatIn > 0 /\ beatIn' = beatIn - 1
        /\ round' = IF round.on THEN [round EXCEPT !.age = @ + 1, !.waiting = @ + 1] ELSE round
        /\ \A s \in Session : deadFor'[s] = Older(deadFor[s], DeadBound + 1)
        /\ \A c \in Conn : leftFor'[c] = Older(leftFor[c], LeftBound + 1)
        /\ \A c \in Conn : conn'[c] = Aged(conn[c])
        /\ \A c \in Conn : conn[c].phase \in {"asked", "answered"} => conn[c].waiting < HubDelay
    BY <1>12 DEF HubTick
  <2>2. /\ \A s \in Session : deadFor'[s] <= deadFor[s] + 1
        /\ \A c \in Conn : leftFor'[c] <= leftFor[c] + 1
        /\ \A c \in Conn : leftFor[c] = Alive => leftFor'[c] = Alive
    BY <1>d, <1>k, <2>1 DEF Older
  <2>3. round'.on = round.on /\ round'.todo = round.todo /\ round'.awaiting = round.awaiting
    BY <1>r, <2>1 DEF Round
  <2>4. ASSUME NEW x \in Conn
        PROVE  RoundOK(round') /\ ConnOK(x, conn'[x], leftFor'[x], deadFor', round', beatIn')
    <3> DEFINE k == conn[x]
               u == Older(k.unchecked, ValidateEvery + RoundTime + 1)
               q == Older(k.quiet, IdleTimeout + RoundTime + 2)
    <3>1. /\ RoundOK(round') /\ round'.age + Rest(round') = round.age + Rest(round)
          /\ \A d, e \in Int, a \in Nat :
                 SessionBound(x, d, a, round, beatIn) /\ e <= d + 1
                     => SessionBound(x, e, Older(a, ValidateEvery + RoundTime + 1), round', beatIn - 1)
          /\ \A l, m \in Int, a \in Nat :
                 SocketBound(x, l, a, round, beatIn) /\ m <= l + 1
                     => SocketBound(x, m, Older(a, IdleTimeout + RoundTime + 2), round', beatIn - 1)
      BY <1>r, <1>b, <2>1, TickBounds
    <3>2. ConnOK(x, k, leftFor[x], deadFor, round, beatIn) /\ k \in Connection
      BY <1>c, <1>k
    <3>3. CASE k.phase = "attached"
      <4>1. conn'[x] = [k EXCEPT !.quiet = q, !.unchecked = u]
        BY <2>1, <3>3 DEF Aged
      <4>2. k.session \in Session
        BY <3>2, <3>3 DEF ConnOK
      <4>3. /\ SessionBound(x, deadFor'[k.session], u, round', beatIn')
            /\ SocketBound(x, leftFor'[x], q, round', beatIn')
        BY <1>d, <1>k, <1>n, <2>1, <2>2, <3>1, <3>3, <4>2
      <4> HIDE DEF u, q
      <4>4. /\ conn'[x].phase = "attached" /\ conn'[x].session = k.session
            /\ conn'[x].quiet = q /\ conn'[x].unchecked = u
        BY <3>2, <3>3, <4>1 DEF Connection
      <4>5. QED
        BY <3>1, <4>2, <4>3, <4>4 DEF ConnOK
    <3>4. CASE k.phase \in {"asked", "answered"}
      <4>1. conn'[x] = [k EXCEPT !.waiting = @ + 1]
        BY <2>1, <3>4 DEF Aged
      <4>2. /\ conn'[x].phase = k.phase /\ conn'[x].session = k.session
            /\ conn'[x].verdict = k.verdict /\ conn'[x].waiting = k.waiting + 1
            /\ k.waiting \in Nat /\ k.waiting < HubDelay
        BY <2>1, <3>2, <3>4, <4>1 DEF Connection
      <4>3. /\ k.session \in Session /\ leftFor[x] <= k.waiting
            /\ x \notin round'.todo \cup round'.awaiting
            /\ round'.on => round'.age + Rest(round') <= RoundTime - HubDelay
            /\ k.phase = "answered" /\ k.verdict => deadFor[k.session] <= k.waiting
        BY <2>3, <3>1, <3>2, <3>4 DEF ConnOK
      <4>4. /\ leftFor'[x] <= k.waiting + 1 /\ k.waiting + 1 <= HubDelay
            /\ k.phase = "answered" /\ k.verdict => deadFor'[k.session] <= k.waiting + 1
        BY <1>d, <1>k, <2>2, <4>2, <4>3, HubNumbers
      <4>5. QED
        BY <3>1, <3>4, <4>2, <4>3, <4>4 DEF ConnOK
    <3>5. CASE k.phase \notin {"attached", "asked", "answered"}
      <4>1. conn'[x] = k
        BY <2>1, <3>5 DEF Aged
      <4>2. QED
        BY <2>2, <2>3, <3>1, <3>2, <3>5, <4>1 DEF ConnOK
    <3>6. QED
      BY <3>3, <3>4, <3>5
  <2>5. RoundOK(round')
    <3>1. CASE Conn = {}
      <4>1. ~round.on
        BY <1>r, <2>1, <3>1, RoundNumbers
      <4>2. QED
        BY <1>r, <2>1, <4>1
    <3>2. QED
      BY <2>4, <3>1
  <2>6. QED
    BY <1>t, <2>4, <2>5 DEF HubInv
<1>13. CASE UNCHANGED hubVars
  BY <1>13, <1>t, <1>r, <1>c DEF hubVars, HubInv
<1>14. QED
  BY <1>1, <1>2, <1>3, <1>4, <1>5, <1>6, <1>7, <1>8, <1>9, <1>10, <1>11, <1>12, <1>13 DEF HubNext

\* DeadSessionsDropOut: with the bus losing every message, attach() racing the
\* revocation and the client talking on, a connection still outlives its session
\* by DeadBound at most; for all intervals, and any number of connections.
THEOREM RevalidationCatchesUp == HubSpec => []DeadSessionsDropOut
<1>1. HubInv => DeadSessionsDropOut
  <2> SUFFICES ASSUME HubInv, NEW c \in Conn, conn[c].phase = "attached"
               PROVE  deadFor[conn[c].session] <= DeadBound
    BY DEF DeadSessionsDropOut, Attached
  <2>1. ConnOK(c, conn[c], leftFor[c], deadFor, round, beatIn)
    BY DEF HubInv
  <2>2. /\ SessionBound(c, deadFor[conn[c].session], conn[c].unchecked, round, beatIn)
        /\ deadFor[conn[c].session] \in Int /\ conn[c].unchecked \in Nat
    BY <2>1 DEF ConnOK, HubInv, HubTypeOK, Connection
  <2>3. round \in Round /\ RoundOK(round) /\ beatIn \in 0..BeatEvery
    BY DEF HubInv, HubTypeOK
  <2>4. QED
    BY <2>2, <2>3, BoundsHold
<1>2. QED
  BY <1>1, HubInvInit, HubInvStep, PTL DEF HubSpec

\* DeadSocketsDropOut: the idle timeout ends the connection of a peer that went
\* without a close event, or before its listeners were registered, after LeftBound
\* at most.
THEOREM IdleTimeoutCatchesUp == HubSpec => []DeadSocketsDropOut
<1>1. HubInv => DeadSocketsDropOut
  <2> SUFFICES ASSUME HubInv, NEW c \in Conn, conn[c].phase = "attached"
               PROVE  leftFor[c] <= LeftBound
    BY DEF DeadSocketsDropOut, Attached
  <2>1. ConnOK(c, conn[c], leftFor[c], deadFor, round, beatIn)
    BY DEF HubInv
  <2>2. /\ SocketBound(c, leftFor[c], conn[c].quiet, round, beatIn)
        /\ leftFor[c] \in Int /\ conn[c].quiet \in Nat
    BY <2>1 DEF ConnOK, HubInv, HubTypeOK, Connection
  <2>3. round \in Round /\ RoundOK(round) /\ beatIn \in 0..BeatEvery
    BY DEF HubInv, HubTypeOK
  <2>4. QED
    BY <2>2, <2>3, BoundsHold
<1>2. QED
  BY <1>1, HubInvInit, HubInvStep, PTL DEF HubSpec
==============================================================================
