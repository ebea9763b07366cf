--------------------------- MODULE MCIdempotency ---------------------------
(***************************************************************************)
(* Idempotency for TLC: two requests with one body, a third with another.  *)
(***************************************************************************)
EXTENDS Idempotency

CONSTANTS r1, r2, r3

MCRequests == {r1, r2, r3}
MCBody == [r \in MCRequests |-> IF r = r3 THEN "other" ELSE "same"]
=============================================================================
