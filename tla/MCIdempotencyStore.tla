------------------------- MODULE MCIdempotencyStore -------------------------
(* IdempotencyStore with three or four executions, one of another payload. *)
EXTENDS IdempotencyStore

CONSTANTS r1, r2, r3, r4

ThreeRequests == {r1, r2, r3}
FourRequests == {r1, r2, r3, r4}
OneOtherPayload == [r \in Req |-> IF r = r3 THEN "other" ELSE "same"]
==============================================================================
