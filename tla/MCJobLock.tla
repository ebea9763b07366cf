----------------------------- MODULE MCJobLock -----------------------------
(* Instances of JobLock for TLC: liveness runs, without symmetry. *)
EXTENDS JobLock
=============================================================================
