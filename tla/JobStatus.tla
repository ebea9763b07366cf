----------------------------- MODULE JobStatus -----------------------------
(***************************************************************************)
(* What the API promises about jobs.status, as a client polling            *)
(* GET /jobs/{id} sees it: TERMINAL_STATUSES, _STALE_STATUSES and          *)
(* _OUTCOME_TO_STATUS of app/jobs/runner.py.  JobLock and ShotPipeline     *)
(* both implement it.                                                      *)
(***************************************************************************)

VARIABLE status

\* _STALE_STATUSES: the job is waiting for a task, or a task works on it.
Stale == {"QUEUED", "RUNNING"}

\* Statuses after which the job is not worked on at all.
Final == {"SHOTS_READY", "DELIVERED", "PARTIAL", "FAILED", "FAILED_NO_PROGRESS"}

\* TERMINAL_STATUSES: statuses no task may be started in.  ESCALATED has no
\* producer.
Terminal == Final \cup {"BIBLE_LOCKED"}

\* The row is absent until POST /jobs commits it.
Init == status \in {"NONE", "QUEUED"}

Create == status = "NONE" /\ status' = "QUEUED"

\* Start a task for the job, or resume the job of a task that died.
Start == status \in Stale /\ status' = "RUNNING"

\* The text phase ends: the bible is locked, or the job is over.
EndText ==
    /\ status = "RUNNING"
    /\ status' \in {"BIBLE_LOCKED", "PARTIAL", "FAILED"}

\* The shot phase ends.  It may leave BIBLE_LOCKED, which then is final too.
EndShots == status = "BIBLE_LOCKED" /\ status' \in Final

Next == Create \/ Start \/ EndText \/ EndShots

Spec == Init /\ [][Next]_status
=============================================================================
