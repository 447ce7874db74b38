------------------------------ MODULE EventFeed ------------------------------
(***************************************************************************)
(* How a client comes to see every event of a channel: the event log       *)
(* (realtime/sequence.ts), the publisher that appends to it and then       *)
(* broadcasts, hub.subscribe() with its awaited authorize(), and the       *)
(* replay the transports send behind it.  Events of a channel are its      *)
(* sequence numbers.  An event whose publisher died between append() and   *)
(* publish() simply stays in airing.                                       *)
(***************************************************************************)
EXTENDS Integers, FiniteSets, FiniteSetsExt

CONSTANTS
    Client,       \* sockets; a new connection of a socket starts from nothing
    Channel,
    MaxSequence,  \* bound: events of all channels
    LogSize,      \* maximumEventsPerChannel
    ReplayLimit,  \* maximumReplayEvents
    MaxSubs       \* maximumSubscriptions

ASSUME FeedAssumption ==
    /\ {MaxSequence, LogSize, ReplayLimit, MaxSubs} \subseteq Nat \ {0}
    /\ IsFiniteSet(Channel)

VARIABLES
    latest,  \* the latest sequence of a channel
    oldest,  \* the oldest one its log still holds
    airing,  \* appended, but not broadcast
    link     \* what the server and the client know of each other

feedVars == <<latest, oldest, airing, link>>

None == -1
Idle == [at |-> "idle", from |-> None, events |-> {}]

\* ask is the subscribe message being handled; since, the sequence after which
\* a replay promised everything.
Unlinked == [on |-> FALSE, subs |-> {}, ask |-> [ch \in Channel |-> Idle],
             got |-> [ch \in Channel |-> {}], since |-> [ch \in Channel |-> None]]
Linked == [Unlinked EXCEPT !.on = TRUE]

FeedInit ==
    /\ latest = [ch \in Channel |-> 0] /\ oldest = [ch \in Channel |-> 1]
    /\ airing = [ch \in Channel |-> {}]
    /\ link = [c \in Client |-> Unlinked]

Asking == [at : {"idle", "authorize", "replay", "send"}, from : Int, events : SUBSET Int]
Link == [on : BOOLEAN, subs : SUBSET Channel, ask : [Channel -> Asking],
         got : [Channel -> SUBSET Int], since : [Channel -> Int]]

FeedTypeOK ==
    /\ latest \in [Channel -> Nat] /\ oldest \in [Channel -> Int]
    /\ airing \in [Channel -> SUBSET Int]
    /\ link \in [Client -> Link]

Unlink(c) == link' = [link EXCEPT ![c] = Unlinked]

------------------------------------------------------------------------------
(* The log and its publisher.                                              *)

\* append(): the next sequence; the memory log forgets the oldest beyond its size.
AppendEvent(ch) ==
    /\ MapThenSumSet(LAMBDA any : latest[any], Channel) < MaxSequence
    /\ latest' = [latest EXCEPT ![ch] = @ + 1]
    /\ oldest' = [oldest EXCEPT ![ch] = Max({@, latest[ch] + 2 - LogSize})]
    /\ airing' = [airing EXCEPT ![ch] = @ \cup {latest[ch] + 1}]
    /\ UNCHANGED link

Trim(ch, before) ==
    /\ oldest' = [oldest EXCEPT ![ch] = Max({@, before})]
    /\ UNCHANGED <<latest, airing, link>>

\* Slip: live events are dropped while a replay is under way.
CaughtUp(ch) == {c \in Client : ch \in link[c].subs /\ link[c].ask[ch].at = "idle"}

Receivers(ch) == {c \in Client : ch \in link[c].subs}

\* publish(): every subscriber is sent the event, or is too slow or fails to be
\* sent it, and is closed.
Broadcast(ch, s) ==
    /\ s \in airing[ch]
    /\ airing' = [airing EXCEPT ![ch] = @ \ {s}]
    /\ \E failing \in SUBSET Receivers(ch) :
        link' = [c \in Client |->
                    IF c \in failing THEN Unlinked
                    ELSE IF c \in Receivers(ch) THEN [link[c] EXCEPT !.got[ch] = @ \cup {s}]
                    ELSE link[c]]
    /\ UNCHANGED <<latest, oldest>>

------------------------------------------------------------------------------
(* A client.                                                               *)

Connect(c) ==
    /\ ~link[c].on
    /\ link' = [link EXCEPT ![c] = Linked]
    /\ UNCHANGED <<latest, oldest, airing>>

Disconnect(c) ==
    /\ link[c].on
    /\ Unlink(c)
    /\ UNCHANGED <<latest, oldest, airing>>

\* A subscribe message, with a sequence to resume after or without: subscribed
\* already, which goes on with the replay; one subscription too many, which
\* closes the connection; or the authorizer is asked.
Ask(c, ch, from) ==
    /\ link[c].on /\ link[c].ask[ch].at = "idle"
    /\ \/ /\ ch \in link[c].subs /\ from # None
          /\ link' = [link EXCEPT ![c].ask[ch] = [Idle EXCEPT !.at = "replay", !.from = from]]
       \/ /\ ch \notin link[c].subs /\ Cardinality(link[c].subs) >= MaxSubs
          /\ Unlink(c)
       \/ /\ ch \notin link[c].subs /\ Cardinality(link[c].subs) < MaxSubs
          /\ link' = [link EXCEPT ![c].ask[ch] = [Idle EXCEPT !.at = "authorize", !.from = from]]
    /\ UNCHANGED <<latest, oldest, airing>>

\* What follows a subscription: the replay, when a sequence was given.
Subscribed(k, ch) ==
    [k EXCEPT !.subs = @ \cup {ch},
              !.ask[ch] = IF k.ask[ch].from = None THEN Idle ELSE [k.ask[ch] EXCEPT !.at = "replay"]]

\* Slip: subscribe() trusts the capacity it saw before authorize().
AuthorizedUnchecked(c, ch) ==
    /\ link[c].ask[ch].at = "authorize"
    /\ link' = [link EXCEPT ![c] = Subscribed(@, ch)]
    /\ UNCHANGED <<latest, oldest, airing>>

\* authorize() answers: denied; or allowed, but other subscriptions have used up
\* the limit, which closes the connection; or allowed.
Authorized(c, ch) ==
    /\ link[c].ask[ch].at = "authorize"
    /\ \/ link' = [link EXCEPT ![c].ask[ch] = Idle]
       \/ /\ ch \notin link[c].subs /\ Cardinality(link[c].subs) >= MaxSubs
          /\ Unlink(c)
       \/ /\ ch \in link[c].subs \/ Cardinality(link[c].subs) < MaxSubs
          /\ link' = [link EXCEPT ![c] = Subscribed(@, ch)]
    /\ UNCHANGED <<latest, oldest, airing>>

\* replay(): the first ReplayLimit events after the sequence that the log holds.
Replayed(ch, from) ==
    LET held == Max({from + 1, oldest[ch]}) IN held..Min({latest[ch], held + ReplayLimit - 1})

\* The log is read.  The replay is whole unless it was cut at either end.
ReplayRead(c, ch) ==
    /\ link[c].ask[ch].at = "replay"
    /\ LET from == link[c].ask[ch].from
           events == Replayed(ch, from)
           whole == events = from + 1 .. latest[ch] /\ ch \in link[c].subs
       IN  link' = [link EXCEPT ![c].ask[ch] = [@ EXCEPT !.at = "send", !.events = events],
                                ![c].since[ch] = IF whole THEN from ELSE @]
    /\ UNCHANGED <<latest, oldest, airing>>

ReplaySent(c, ch) ==
    /\ link[c].ask[ch].at = "send"
    /\ link' = [link EXCEPT ![c].got[ch] = @ \cup link[c].ask[ch].events, ![c].ask[ch] = Idle]
    /\ UNCHANGED <<latest, oldest, airing>>

Unsubscribe(c, ch) ==
    /\ ch \in link[c].subs
    /\ link' = [link EXCEPT ![c].subs = @ \ {ch}, ![c].since[ch] = None]
    /\ UNCHANGED <<latest, oldest, airing>>

FeedNext ==
    \/ \E ch \in Channel :
        \/ AppendEvent(ch)
        \/ \E s \in 1..latest[ch] : Trim(ch, s) \/ Broadcast(ch, s)
        \/ \E c \in Client :
            \/ \E from \in None..latest[ch] : Ask(c, ch, from)
            \/ Authorized(c, ch) \/ ReplayRead(c, ch) \/ ReplaySent(c, ch) \/ Unsubscribe(c, ch)
    \/ \E c \in Client : Connect(c) \/ Disconnect(c)

FeedSpec == FeedInit /\ [][FeedNext]_feedVars

------------------------------------------------------------------------------
(* Properties.                                                             *)

\* A client that resumed after a sequence, and whose replay was not cut short,
\* has every later event or is still to be sent it, whatever was appended and
\* broadcast while the subscription was authorized and the log was read.
JoinHasNoGap ==
    \A c \in Client : \A ch \in link[c].subs :
        (link[c].since[ch] # None /\ link[c].ask[ch].at = "idle") =>
            link[c].since[ch] + 1 .. latest[ch] \subseteq link[c].got[ch] \cup airing[ch]

\* "Re-check connection state and capacity so concurrent subscription requests
\* cannot bypass the configured limit."
SubscriptionsWithinLimit == \A c \in Client : Cardinality(link[c].subs) <= MaxSubs
==============================================================================
