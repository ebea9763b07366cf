--------------------------- MODULE MCShotPipeline ---------------------------
(***************************************************************************)
(* ShotPipeline for TLC.  Three scores, two of them below the threshold,   *)
(* let a repair be worse, equal or better without passing.                 *)
(***************************************************************************)
EXTENDS ShotPipeline

MCScores == {1, 2, 3}
MCPassScore == 3
\* No check at startup relates the flags: every setting can be deployed.
Setting(s, q, a) == [shots |-> s, qc |-> q, assemble |-> a]
MCAllOn == {Setting(TRUE, TRUE, TRUE)}
MCFeatures == [shots: BOOLEAN, qc: BOOLEAN, assemble: BOOLEAN]

MCSignatures == {"VIDEO_TIMEOUT", "VIDEO_REJECTED"}
=============================================================================
