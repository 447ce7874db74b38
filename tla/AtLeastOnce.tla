---------------------------- MODULE AtLeastOnce ----------------------------
(***************************************************************************)
(* What an outbox promises: an accepted event is delivered, possibly more  *)
(* than once, and is settled only after it was.                            *)
(***************************************************************************)
CONSTANT Event

VARIABLES accepted, delivered, settled

vars == <<accepted, delivered, settled>>

Init == accepted = {} /\ delivered = {} /\ settled = {}

Accept(e) ==
    /\ accepted' = accepted \cup {e}
    /\ UNCHANGED <<delivered, settled>>

Deliver(e) ==
    /\ e \in accepted
    /\ delivered' = delivered \cup {e}
    /\ UNCHANGED <<accepted, settled>>

Settle(e) ==
    /\ e \in delivered
    /\ settled' = settled \cup {e}
    /\ UNCHANGED <<accepted, delivered>>

Next == \E e \in Event : Accept(e) \/ Deliver(e) \/ Settle(e)

Spec ==
    /\ Init /\ [][Next]_vars
    /\ \A e \in Event : WF_vars(Deliver(e)) /\ WF_vars(Settle(e))
==============================================================================
