------------------------------ MODULE MCOutbox ------------------------------
(* Outbox with two workers, one of them working its rows off one by one.   *)
EXTENDS Outbox, TLC

CONSTANTS r1, r2, w1, w2

LoopsOf == w1 :> 1 @@ w2 :> 2
==============================================================================
