------------------------- MODULE MCCheckpointSaver -------------------------
(***************************************************************************)
(* CheckpointSaver for TLC: a job of each of two tenants.                  *)
(***************************************************************************)
EXTENDS CheckpointSaver

CONSTANTS j1, j2, north, south

MCJobs == {j1, j2}
MCTenants == {north, south}
MCTenantOf == [j \in MCJobs |-> IF j = j2 THEN south ELSE north]
=============================================================================
