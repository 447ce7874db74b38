------------------------------- MODULE Realtime ------------------------------
(***************************************************************************)
(* The realtime side of one process: the life of connections               *)
(* (RealtimeHub), what subscribers see of a channel (EventFeed) and the    *)
(* server-sent event stream (EventStream).  They share no state the        *)
(* others read, apart from the end of a connection, which each of them     *)
(* takes to come at any moment; so a behaviour exercises one of them, and  *)
(* the other two rest in their initial states.                             *)
(***************************************************************************)
EXTENDS RealtimeHub, EventFeed, EventStream

realtimeVars == <<hubVars, feedVars, streamVars>>

RealtimeInit == HubInit /\ FeedInit /\ StreamInit

RealtimeNext ==
    \/ FeedInit /\ StreamInit /\ HubNext /\ UNCHANGED <<feedVars, streamVars>>
    \/ HubInit /\ StreamInit /\ FeedNext /\ UNCHANGED <<hubVars, streamVars>>
    \/ HubInit /\ FeedInit /\ StreamNext /\ UNCHANGED <<hubVars, feedVars>>

RealtimeSpec == RealtimeInit /\ [][RealtimeNext]_realtimeVars
==============================================================================
