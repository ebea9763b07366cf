----------------------------- MODULE MCRunners -----------------------------
(* Instances of Runners for TLC. *)
EXTENDS Runners, TLC

\* The tasks differ in nothing but their name.
TaskSymmetry == Permutations(Tasks)
=============================================================================
