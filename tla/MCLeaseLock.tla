----------------------------- MODULE MCLeaseLock -----------------------------
(* LeaseLock on small sets of handles.                                     *)
EXTENDS LeaseLock, TLC

CONSTANTS h1, h2, h3

TwoHandles == {h1, h2}
ThreeHandles == {h1, h2, h3}
Symmetry == Permutations(Req)
==============================================================================
