----------------------------- MODULE RealtimeHub -----------------------------
(***************************************************************************)
(* The life of the connections of one RealtimeHub (realtime/hub.ts), as    *)
(* attachWebSocket and attachSocketIo drive it: attach(), the revocation   *)
(* bus, and the periodic check behind it.  A session is valid until it is  *)
(* revoked, expires or is rotated away.  Moments are kept as ages, so that *)
(* time needs no bound; an await takes at most HubDelay, and everything    *)
(* else may happen in it.                                                  *)
(***************************************************************************)
EXTENDS Integers, FiniteSets

CONSTANTS
    Conn,           \* connection ids, each drawn for one socket
    Session,        \* session tokens
    NoSession,
    IdleTimeout,    \* idleTimeoutMs
    ValidateEvery,  \* sessionValidationIntervalMs
    BeatEvery,      \* heartbeatIntervalMs
    HubDelay        \* bound on one sessions.validate()

ASSUME HubAssumption ==
    /\ NoSession \notin Session
    /\ BeatEvery \in Nat \ {0}
    /\ {IdleTimeout, ValidateEvery, HubDelay} \subseteq Nat
    /\ IsFiniteSet(Conn)

\* The wait for the next check of a connection: a round just begun has passed it
\* by, the next beat comes after that round, and its turn comes after the others.
\* Every connection of a round may have to wait for one validate().
RoundTime == Cardinality(Conn) * HubDelay
NextCheck == RoundTime + BeatEvery + RoundTime - HubDelay
DeadBound == HubDelay + ValidateEvery + NextCheck
LeftBound == HubDelay + IdleTimeout + 1 + NextCheck

VARIABLES
    deadFor,  \* how long a session has been invalid, or Alive
    leftFor,  \* how long the peer of a connection has been gone, or Alive
    bus,      \* revoked sessions the bus has not told the hub of
    conn,     \* each connection
    beatIn,   \* until the heartbeat interval fires
    round     \* checkConnections(): the snapshot it works off, and its await

hubVars == <<deadFor, leftFor, bus, conn, beatIn, round>>

Alive == -1

\* verdict is what validate() answers; waiting, quiet and unchecked are the ages
\* of the call to it, of lastSeenAtMs and of lastSessionValidatedAtMs.
Fresh == [phase |-> "new", session |-> NoSession, verdict |-> FALSE,
          waiting |-> 0, quiet |-> 0, unchecked |-> 0]
Gone == [Fresh EXCEPT !.phase = "gone"]
NoRound == [on |-> FALSE, age |-> 0, todo |-> {}, awaiting |-> {}, waiting |-> 0]

Connection == [phase : {"new", "asked", "answered", "attached", "gone"},
               session : Session \cup {NoSession}, verdict : BOOLEAN,
               waiting : Nat, quiet : Nat, unchecked : Nat]
Round == [on : BOOLEAN, age : Nat, todo : SUBSET Conn, awaiting : SUBSET Conn, waiting : Nat]

HubTypeOK ==
    /\ deadFor \in [Session -> Int] /\ leftFor \in [Conn -> Int]
    /\ bus \subseteq Session
    /\ conn \in [Conn -> Connection]
    /\ beatIn \in 0..BeatEvery
    /\ round \in Round

HubInit ==
    /\ deadFor = [s \in Session |-> Alive] /\ leftFor = [c \in Conn |-> Alive]
    /\ bus = {}
    /\ conn = [c \in Conn |-> Fresh]
    /\ beatIn = BeatEvery
    /\ round = NoRound

Attached(c) == conn[c].phase = "attached"
Set(c, fields) == conn' = [conn EXCEPT ![c] = fields]

\* connection.close() and removeConnection().
Drop(gone) == conn' = [c \in Conn |-> IF c \in gone THEN Gone ELSE conn[c]]

------------------------------------------------------------------------------
(* Connections.                                                            *)

\* attach(): the origin is allowed and validate() is asked; a foreign origin
\* is refused at once.
Attach(c, s) ==
    /\ conn[c].phase = "new"
    /\ \/ Set(c, [Fresh EXCEPT !.phase = "asked", !.session = s])
       \/ Set(c, Gone)
    /\ UNCHANGED <<deadFor, leftFor, bus, beatIn, round>>

\* The session store answers.
AttachRead(c) ==
    /\ conn[c].phase = "asked"
    /\ Set(c, [conn[c] EXCEPT !.phase = "answered", !.verdict = deadFor[conn[c].session] = Alive])
    /\ UNCHANGED <<deadFor, leftFor, bus, beatIn, round>>

\* The answer arrives: the connection is registered, even when its peer left or
\* its session was revoked in the meantime.
AttachDone(c) ==
    /\ conn[c].phase = "answered"
    /\ IF conn[c].verdict
       THEN Set(c, [conn[c] EXCEPT !.phase = "attached", !.waiting = 0])
       ELSE Drop({c})
    /\ UNCHANGED <<deadFor, leftFor, bus, beatIn, round>>

\* The peer goes.  Its close event detaches the connection once the listeners
\* are registered; a peer that vanishes, or leaves during attach(), goes unnoticed.
Leave(c) ==
    /\ leftFor[c] = Alive /\ conn[c].phase \in {"asked", "answered", "attached"}
    /\ leftFor' = [leftFor EXCEPT ![c] = 0]
    /\ \/ Attached(c) /\ Drop({c})
       \/ UNCHANGED conn
    /\ UNCHANGED <<deadFor, bus, beatIn, round>>

\* acceptMessage() and touch(): activity; or a message too large, too many or
\* not JSON, a subscription too many, an unanswered ping, which close the connection.
Message(c) ==
    /\ Attached(c) /\ leftFor[c] = Alive
    /\ \/ conn[c].quiet # 0 /\ Set(c, [conn[c] EXCEPT !.quiet = 0])
       \/ Drop({c})
    /\ UNCHANGED <<deadFor, leftFor, bus, beatIn, round>>

------------------------------------------------------------------------------
(* Sessions and their revocation.                                          *)

\* A session is revoked, and announced; or it expires or is rotated, and is not.
SessionEnds(s) ==
    /\ deadFor[s] = Alive
    /\ deadFor' = [deadFor EXCEPT ![s] = 0]
    /\ bus' = bus \cup {s} \/ UNCHANGED bus
    /\ UNCHANGED <<leftFor, conn, beatIn, round>>

\* The bus calls revokeSession(), or loses the message.
BusDelivers(s) ==
    /\ s \in bus
    /\ bus' = bus \ {s}
    /\ Drop({c \in Conn : Attached(c) /\ conn[c].session = s}) \/ UNCHANGED conn
    /\ UNCHANGED <<deadFor, leftFor, beatIn, round>>

------------------------------------------------------------------------------
(* checkConnections().                                                     *)

\* The interval fires; it does nothing while the last round is still at work.
Beat ==
    /\ beatIn = 0
    /\ beatIn' = BeatEvery
    /\ round' = IF round.on THEN round
                ELSE [NoRound EXCEPT !.on = TRUE, !.todo = {c \in Conn : Attached(c)}]
    /\ UNCHANGED <<deadFor, leftFor, bus, conn>>

\* Slip: only idle timeouts that pass exactly at a beat are seen.
OverdueOnTheDot(c) == conn[c].quiet - round.age = IdleTimeout + 1

\* Both count from the moment the round began.
Overdue(c) == conn[c].quiet - round.age > IdleTimeout

\* Slip: activity postpones the revalidation.
DueWhenQuiet(c) == conn[c].quiet - round.age >= ValidateEvery

DueForValidation(c) == conn[c].unchecked - round.age >= ValidateEvery

\* The next connection of the snapshot: gone already; idle for too long, or at
\* the end of its lifetime; due for revalidation; or fine.
CheckNext(c) ==
    /\ round.on /\ round.awaiting = {} /\ c \in round.todo
    /\ LET rest == [round EXCEPT !.todo = @ \ {c}] IN
       \/ ~Attached(c) /\ round' = rest /\ UNCHANGED conn
       \/ Attached(c) /\ round' = rest /\ Drop({c})
       \/ /\ Attached(c) /\ ~Overdue(c) /\ DueForValidation(c)
          /\ round' = [rest EXCEPT !.awaiting = {c}, !.waiting = 0]
          /\ Set(c, [conn[c] EXCEPT !.unchecked = round.age])
       \/ Attached(c) /\ ~Overdue(c) /\ ~DueForValidation(c) /\ round' = rest /\ UNCHANGED conn
    /\ UNCHANGED <<deadFor, leftFor, bus, beatIn>>

\* validate() answers, or rejects, which counts as no session.  Its read may be
\* as old as the call, so a session that died meanwhile may still pass.
CheckDone(c) ==
    /\ c \in round.awaiting
    /\ round' = [round EXCEPT !.awaiting = {}]
    /\ \/ Drop({c})
       \/ (Attached(c) => deadFor[conn[c].session] <= round.waiting) /\ UNCHANGED conn
    /\ UNCHANGED <<deadFor, leftFor, bus, beatIn>>

RoundEnds ==
    /\ round.on /\ round.todo = {} /\ round.awaiting = {}
    /\ round' = NoRound
    /\ UNCHANGED <<deadFor, leftFor, bus, conn, beatIn>>

\* A due interval fires before the clock moves, and only awaits take time.  An
\* age that no longer makes a difference stops growing.
Older(age, cap) == IF age = Alive \/ age >= cap THEN age ELSE age + 1
Aged(k) ==
    CASE k.phase = "attached" -> [k EXCEPT !.quiet = Older(@, IdleTimeout + RoundTime + 2),
                                           !.unchecked = Older(@, ValidateEvery + RoundTime + 1)]
      [] k.phase \in {"asked", "answered"} -> [k EXCEPT !.waiting = @ + 1]
      [] OTHER -> k
HubTick ==
    /\ beatIn > 0
    /\ round.on => round.awaiting # {} /\ round.waiting < HubDelay
    /\ \A c \in Conn : conn[c].phase \in {"asked", "answered"} => conn[c].waiting < HubDelay
    /\ deadFor' = [s \in Session |-> Older(deadFor[s], DeadBound + 1)]
    /\ leftFor' = [c \in Conn |-> Older(leftFor[c], LeftBound + 1)]
    /\ conn' = [c \in Conn |-> Aged(conn[c])]
    /\ beatIn' = beatIn - 1
    /\ round' = IF round.on THEN [round EXCEPT !.age = @ + 1, !.waiting = @ + 1] ELSE round
    /\ UNCHANGED bus

HubNext ==
    \/ \E c \in Conn :
        \/ \E s \in Session : Attach(c, s)
        \/ AttachRead(c) \/ AttachDone(c) \/ Leave(c) \/ Message(c) \/ CheckNext(c) \/ CheckDone(c)
    \/ \E s \in Session : SessionEnds(s) \/ BusDelivers(s)
    \/ Beat \/ RoundEnds \/ HubTick

HubSpec == HubInit /\ [][HubNext]_hubVars

------------------------------------------------------------------------------
(* Properties.                                                             *)

\* "Periodic session revalidation is a second line of defense": a connection
\* outlives its session by a bounded time even when the bus loses the message,
\* the client keeps talking, and attach() was under way at the revocation.
DeadSessionsDropOut == \A c \in Conn : Attached(c) => deadFor[conn[c].session] <= DeadBound

\* A peer that vanished without a close event, or left while attach() was still
\* awaiting the session, is found out by the idle timeout.
DeadSocketsDropOut == \A c \in Conn : Attached(c) => leftFor[c] <= LeftBound
==============================================================================
