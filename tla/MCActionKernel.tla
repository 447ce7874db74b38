--------------------------- MODULE MCActionKernel ---------------------------
(* ActionKernel with two or three executions contending for the same keys. *)
EXTENDS ActionKernel, TLC

CONSTANTS r1, r2, r3

TwoRequests == {r1, r2}
ThreeRequests == {r1, r2, r3}
SamePayload == [r \in Req |-> "same"]

Action(keyed, locked, failClosed, attempts) ==
    [keyed |-> keyed, locked |-> locked, failClosed |-> failClosed, attempts |-> attempts]

Plain == {Action(TRUE, FALSE, FALSE, 1)}
KeyedOrLocked == {Action(TRUE, FALSE, TRUE, 1), Action(FALSE, TRUE, FALSE, 1)}
RetriedOrKeyed == {Action(FALSE, TRUE, FALSE, 2), Action(TRUE, FALSE, FALSE, 1)}

Symmetry == Permutations(Req)
==============================================================================
