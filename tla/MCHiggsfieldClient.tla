------------------------ MODULE MCHiggsfieldClient -------------------------
(***************************************************************************)
(* HiggsfieldClient for TLC: two calls that may overlap.                   *)
(***************************************************************************)
EXTENDS HiggsfieldClient

CONSTANTS a, b

MCCalls == {a, b}
=============================================================================
