----------------------------- MODULE MCGateway -----------------------------
(***************************************************************************)
(* Gateway for TLC: two aliases that are each other's fallback, and a      *)
(* threshold, as in the code, that takes the failures of two calls.        *)
(***************************************************************************)
EXTENDS Gateway, TLC

CONSTANTS high, fast

MCAliases == {high, fast}
MCFallback == [a \in MCAliases |-> IF a = high THEN fast ELSE high]
CallSymmetry == Permutations(Calls)
=============================================================================
