------------------------------ MODULE JobLock ------------------------------
(***************************************************************************)
(* Who works on a job: POST /jobs and POST /jobs/{id}/resume of            *)
(* app/api/jobs.py, run_job and the startup sweep of app/jobs/runner.py,   *)
(* the process lifespan of app/main.py, and the Redis key lock:{job_id} of *)
(* app/cache/locks.py.                                                     *)
(*                                                                         *)
(* One job, since a lock is per job.  A task is a request or a background  *)
(* asyncio task of the one server process.  The graph run is abstracted to *)
(* its text phase and its shot phase, which ShotPipeline models.           *)
(***************************************************************************)
EXTENDS Integers, FiniteSets

CONSTANTS
    Tasks,          \* requests and background tasks alive at one time
    SlowTasks,      \* a task may outlive the TTL of its lock, from the SET on
    MaxCrashes,     \* bound on process crashes
    MaxFaults       \* bound on failed Redis and Postgres calls

ASSUME TasksAssumption == "free" \notin Tasks /\ "orphan" \notin Tasks
ASSUME BoundAssumption ==
    SlowTasks \in BOOLEAN /\ MaxCrashes \in Nat /\ MaxFaults \in Nat

VARIABLES
    proc,       \* the server process: up, draining at shutdown, or down
    status,     \* jobs.status
    lock,       \* the token in lock:{job_id}: its task, no key, or a token
                \* no task holds any more
    pc,         \* where each task is
    loaded,     \* the status _mark_running read and has not yet written
    bible,      \* the continuity bible of the job is committed
    crashes, faults

vars == <<proc, status, lock, pc, loaded, bible, crashes, faults>>

JobView == INSTANCE JobStatus

-----------------------------------------------------------------------------
\* "created": the job row is committed, run_job not yet scheduled.
\* "acquire", "resume": about to SET the lock, in run_job or in resume_job.
\* "recheck": resume_job reads the status again under the lock.
\* "mark", "marked": before and between the read and write of _mark_running.
\* "text", "shots": in graph.ainvoke.  "release", "delete": before GET, DEL.
Places == {"idle", "created", "acquire", "resume", "recheck", "mark", "marked",
           "text", "shots", "release", "delete"}

Graph == {"text", "shots"}
Holding == {"recheck", "mark", "marked", "release", "delete"} \cup Graph
Owner(t) == pc[t] \in Holding
Working(t) == pc[t] \in Graph

Stale == JobView!Stale
Terminal == JobView!Terminal

TypeOK ==
    /\ proc \in {"up", "draining", "down"}
    /\ status \in {"NONE"} \cup Stale \cup Terminal
    /\ lock \in Tasks \cup {"free", "orphan"}
    /\ pc \in [Tasks -> Places]
    /\ loaded \in [Tasks -> Stale] /\ bible \in BOOLEAN
    /\ crashes \in 0..MaxCrashes /\ faults \in 0..MaxFaults

Init ==
    /\ proc = "up" /\ status = "NONE" /\ lock = "free"
    /\ pc = [t \in Tasks |-> "idle"]
    /\ loaded = [t \in Tasks |-> "QUEUED"] /\ bible = FALSE
    /\ crashes = 0 /\ faults = 0

\* Task t goes from one place to another.
Go(t, from, to) == pc[t] = from /\ pc' = [pc EXCEPT ![t] = to]

-----------------------------------------------------------------------------
(***************************************************************************)
(* Requests.                                                               *)
(***************************************************************************)

\* create_job commits the row with its idempotency key.
Create(t) ==
    /\ proc = "up" /\ status = "NONE"
    /\ Go(t, "idle", "created")
    /\ status' = "QUEUED"
    /\ UNCHANGED <<proc, lock, loaded, bible, crashes, faults>>

\* After two Redis writes it schedules run_job.
Schedule(t) ==
    /\ Go(t, "created", "acquire")
    /\ UNCHANGED <<proc, status, lock, loaded, bible, crashes, faults>>

\* resume_job: a terminal job is refused at once.
Resume(t) ==
    /\ proc = "up" /\ status \in Stale
    /\ Go(t, "idle", "resume")
    /\ UNCHANGED <<proc, status, lock, loaded, bible, crashes, faults>>

\* Mutant: SET without NX.
AcquireAlways(t) ==
    /\ \/ Go(t, "acquire", "mark")
       \/ Go(t, "resume", "recheck")
    /\ lock' = t
    /\ UNCHANGED <<proc, status, loaded, bible, crashes, faults>>

\* try_acquire_job_lock.
Acquire(t) ==
    /\ lock = "free"
    /\ \/ Go(t, "acquire", "mark")
       \/ Go(t, "resume", "recheck")
    /\ lock' = t
    /\ UNCHANGED <<proc, status, loaded, bible, crashes, faults>>

\* JOB_LOCKED: an answer to a resume request, an entry in the log otherwise.
Refused(t) ==
    /\ lock # "free"
    /\ Go(t, "acquire", "idle") \/ Go(t, "resume", "idle")
    /\ UNCHANGED <<proc, status, lock, loaded, bible, crashes, faults>>

\* resume_job looks again now that it holds the lock.
Recheck(t) ==
    /\ Go(t, "recheck", IF status \in Terminal THEN "release" ELSE "mark")
    /\ UNCHANGED <<proc, status, lock, loaded, bible, crashes, faults>>

-----------------------------------------------------------------------------
(***************************************************************************)
(* run_locked_job.                                                         *)
(***************************************************************************)

\* Mutant: _mark_running starts a terminal job.
MarkReadAny(t) ==
    /\ Go(t, "mark", "marked")
    /\ loaded' = [loaded EXCEPT ![t] = IF status \in Stale THEN status ELSE "QUEUED"]
    /\ UNCHANGED <<proc, status, lock, bible, crashes, faults>>

\* _mark_running reads the row without locking it; JOB_ALREADY_TERMINAL.
MarkRead(t) ==
    /\ IF status \in Terminal
       THEN Go(t, "mark", "release") /\ UNCHANGED loaded
       ELSE Go(t, "mark", "marked") /\ loaded' = [loaded EXCEPT ![t] = status]
    /\ UNCHANGED <<proc, status, lock, bible, crashes, faults>>

\* The ORM writes the status only if it differs from the one loaded.
MarkWrite(t) ==
    /\ Go(t, "marked", "text")
    /\ status' = IF loaded[t] = "RUNNING" THEN status ELSE "RUNNING"
    /\ UNCHANGED <<proc, lock, loaded, bible, crashes, faults>>

\* lock_continuity_bible commits the bible with the status, or finds the bible
\* of another task and leaves the status alone.
BibleLocked(t) ==
    /\ Go(t, "text", "shots")
    /\ \/ status' = "BIBLE_LOCKED" /\ bible' = TRUE
       \/ bible /\ UNCHANGED <<status, bible>>
    /\ UNCHANGED <<proc, lock, loaded, crashes, faults>>

\* Mutant: an error in the text phase leaves the job RUNNING.
TextEndsUnmarked(t) ==
    /\ Go(t, "text", "release")
    /\ UNCHANGED <<proc, status, lock, loaded, bible, crashes, faults>>

\* The budget stops the text phase, or an error makes the job terminal.
TextEnds(t) ==
    /\ Go(t, "text", "release")
    /\ \/ status' \in {"PARTIAL", "FAILED"}
       \/ status \in Terminal /\ UNCHANGED status
    /\ UNCHANGED <<proc, lock, loaded, bible, crashes, faults>>

\* The graph returns and its outcome is written, BIBLE_LOCKED if shots are off.
\* Or an error escapes it: _ensure_terminal leaves a terminal status alone and
\* makes any other FAILED.
ShotsEnd(t) ==
    /\ Go(t, "shots", "release")
    /\ \/ status' \in JobView!Final \cup {"BIBLE_LOCKED"}
       \/ status \in Terminal /\ UNCHANGED status
    /\ UNCHANGED <<proc, lock, loaded, bible, crashes, faults>>

\* release_job_lock: GET and compare, then DEL, two commands.
ReleaseRead(t) ==
    /\ Go(t, "release", IF lock = t THEN "delete" ELSE "idle")
    /\ UNCHANGED <<proc, status, lock, loaded, bible, crashes, faults>>

ReleaseDelete(t) ==
    /\ Go(t, "delete", "idle")
    /\ lock' = "free"
    /\ UNCHANGED <<proc, status, loaded, bible, crashes, faults>>

-----------------------------------------------------------------------------
(***************************************************************************)
(* Faults, the TTL, and the life of the process.                           *)
(***************************************************************************)

\* What Redis keeps when task t ends without releasing its lock.
Orphaned(t) == IF lock = t THEN "orphan" ELSE lock

\* A call to Redis or Postgres raises.  A Redis command may have been carried
\* out all the same, or not.
Fault(t) ==
    /\ faults < MaxFaults
    /\ faults' = faults + 1
    /\ \/ Go(t, "created", "idle") /\ UNCHANGED lock
       \/ /\ Go(t, "acquire", "idle") \/ Go(t, "resume", "idle")
          /\ lock' \in {lock, IF lock = "free" THEN "orphan" ELSE lock}
       \/ /\ \/ Go(t, "recheck", "release") \/ Go(t, "mark", "release")
             \/ Go(t, "marked", "release") \/ Go(t, "text", "release")
             \/ Go(t, "shots", "release")
          /\ UNCHANGED lock
       \/ Go(t, "release", "idle") /\ lock' = Orphaned(t)
       \/ Go(t, "delete", "idle") /\ lock' \in {Orphaned(t), "free"}
    /\ UNCHANGED <<proc, status, loaded, bible, crashes>>

\* Mutants: the key has no TTL; a TTL shorter than a graph run.
NeverExpires == FALSE /\ UNCHANGED vars
ExpiresEarly ==
    /\ lock # "free"
    /\ lock' = "free"
    /\ UNCHANGED <<proc, status, pc, loaded, bible, crashes, faults>>

\* The TTL of the key, which nobody renews, runs out: that of a token nobody
\* holds, or of a task wherever it is since its SET.
LockExpires ==
    /\ lock = "orphan" \/ (SlowTasks /\ lock \in Tasks)
    /\ lock' = "free"
    /\ UNCHANGED <<proc, status, pc, loaded, bible, crashes, faults>>

\* The process dies with all its tasks.
Crash ==
    /\ proc # "down" /\ crashes < MaxCrashes
    /\ crashes' = crashes + 1
    /\ proc' = "down"
    /\ pc' = [t \in Tasks |-> "idle"]
    /\ lock' = IF lock = "free" THEN "free" ELSE "orphan"
    /\ UNCHANGED <<status, loaded, bible, faults>>

\* Shutdown: no more requests, then drain_background_tasks waits for them all.
Drain ==
    /\ proc = "up"
    /\ proc' = "draining"
    /\ UNCHANGED <<status, lock, pc, loaded, bible, crashes, faults>>

Drained ==
    /\ proc = "draining"
    /\ \A t \in Tasks : pc[t] = "idle"
    /\ proc' = "down"
    /\ UNCHANGED <<status, lock, pc, loaded, bible, crashes, faults>>

\* Lifespan startup: sweep_stale_jobs schedules run_job for a stale job.
StartUp ==
    /\ proc = "down"
    /\ proc' = "up"
    /\ IF status \in Stale
       THEN \E t \in Tasks : Go(t, "idle", "acquire")
       ELSE UNCHANGED pc
    /\ UNCHANGED <<status, lock, loaded, bible, crashes, faults>>

-----------------------------------------------------------------------------
Step(t) ==
    \/ Schedule(t) \/ Acquire(t) \/ Refused(t) \/ Recheck(t)
    \/ MarkRead(t) \/ MarkWrite(t) \/ BibleLocked(t) \/ TextEnds(t)
    \/ ShotsEnd(t) \/ ReleaseRead(t) \/ ReleaseDelete(t)

Next ==
    \/ \E t \in Tasks : Create(t) \/ Resume(t) \/ Step(t) \/ Fault(t)
    \/ LockExpires \/ Crash \/ Drain \/ Drained \/ StartUp

Spec == Init /\ [][Next]_vars

\* Tasks run, Redis expires keys, and a process that is down is started.
FairSpec ==
    /\ Spec
    /\ \A t \in Tasks : WF_vars(Step(t))
    /\ WF_vars(LockExpires) /\ WF_vars(Drained) /\ WF_vars(StartUp)

\* Besides, a client goes on asking for the job to be resumed.
RetrySpec == FairSpec /\ \A t \in Tasks : SF_vars(Resume(t))

-----------------------------------------------------------------------------
(***************************************************************************)
(* Properties.                                                             *)
(***************************************************************************)

\* From the SET that acquired the lock to the DEL of its release the token in
\* Redis is the task's own, through every interleaving of requests, sweeps,
\* faults and crashes, so no task ever deletes the lock of another.
OwnerHoldsLock == \A t \in Tasks : Owner(t) => lock = t

\* At most one task runs the graph of a job.
OneWorker == \A t, u \in Tasks : Working(t) /\ Working(u) => t = u

\* A job that reached a terminal status never becomes QUEUED or RUNNING again.
NoReopen == [][(status \in Terminal) => (status' \in Terminal)]_vars

\* The status a client sees moves only as JobStatus allows.
StatusLifecycle == JobView!Spec

\* README: a stale job is run again, by the sweep of the next startup or by a
\* resume request.  With a client that keeps asking, every job reaches a
\* terminal status, whatever lock a dead task left behind and whatever failed.
StaleJobSettles == status \in Stale ~> status \in Terminal
=============================================================================
