-------------------------- MODULE CheckpointStore --------------------------
(***************************************************************************)
(* What the checkpointer promises the runs of the graph, one per job: a    *)
(* run begins where the last one left its checkpoints, whichever process   *)
(* wrote them, and adds to them one by one (docs: crash resumes, never     *)
(* restarts).                                                              *)
(***************************************************************************)
EXTENDS Naturals

CONSTANTS Jobs, NoRun

VARIABLES
    saved,  \* the checkpoints of each job
    at      \* the one its run is at, NoRun while none is loaded

vars == <<saved, at>>

Init == saved = [j \in Jobs |-> 0] /\ at = [j \in Jobs |-> NoRun]

Begin(j) ==
    /\ at[j] = NoRun
    /\ at' = [at EXCEPT ![j] = saved[j]]
    /\ UNCHANGED saved

Save(j) ==
    /\ at[j] = saved[j]
    /\ saved' = [saved EXCEPT ![j] = saved[j] + 1]
    /\ at' = [at EXCEPT ![j] = saved[j] + 1]

\* Runs end, one at a time or all in a crash.
End ==
    /\ \E S \in SUBSET Jobs : at' = [j \in Jobs |-> IF j \in S THEN NoRun ELSE at[j]]
    /\ UNCHANGED saved

Next == End \/ \E j \in Jobs : Begin(j) \/ Save(j)

Spec == Init /\ [][Next]_vars
=============================================================================
