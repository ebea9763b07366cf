----------------------------- MODULE MCConsole -----------------------------
(***************************************************************************)
(* Console for TLC: three jobs, each asked for as soon as the button lets  *)
(* the user.                                                               *)
(***************************************************************************)
EXTENDS Console

MCNJobs == 3
=============================================================================
