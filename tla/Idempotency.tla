---------------------------- MODULE Idempotency ----------------------------
(***************************************************************************)
(* POST /jobs with one idempotency key of one tenant: create_job of        *)
(* app/api/jobs.py with resolve_idempotency, persist_idempotency_key and   *)
(* mirror_idempotency_to_redis of app/cache/idempotency.py.                *)
(*                                                                         *)
(* A request is named like the job it would create.  Each step is one      *)
(* command to Redis or Postgres (READ COMMITTED); an INSERT of a key that  *)
(* another open transaction has inserted waits for that transaction.       *)
(***************************************************************************)
EXTENDS Integers, FiniteSets

CONSTANTS
    Requests,       \* POST requests, and the jobs they would create
    Body,           \* request_hash of each request
    MaxFaults,      \* bound on failed Redis and Postgres calls
    MaxCrashes,     \* bound on crashes of the process
    MaxDeletes      \* bound on jobs deleted by an operator

ASSUME RequestAssumption ==
    Requests \cap {"none", "mismatch", "not_found", "error"} = {}
ASSUME BoundAssumption ==
    MaxFaults \in Nat /\ MaxCrashes \in Nat /\ MaxDeletes \in Nat

VARIABLES
    row,        \* the idempotency_keys row: the request that wrote it
    jobs,       \* the committed jobs rows
    open,       \* the request whose open transaction has inserted the key
    mirror,     \* idem:{tenant}:{key}: the request whose job and hash it holds
    scheduled,  \* jobs with a background task
    pc, seen,   \* where each request is, and the job it has read of
    answer,     \* what each request returned: a job or an error
    faults, crashes, deletes,
    claimed     \* history: requests that committed a job

vars == <<row, jobs, open, mirror, scheduled, pc, seen, answer, faults, crashes,
          deletes, claimed>>
bounds == <<faults, crashes, deletes>>

Promise == INSTANCE KeyedOnce

-----------------------------------------------------------------------------
Words == {"none", "mismatch", "not_found", "error"}

\* Before GET, the look at the cached job, DEL, the INSERTs, the SELECT of the
\* conflicting row, the look at its job, COMMIT, SET, and the progress write.
Waiting == {"get", "verify", "drop", "insert", "lookup", "load", "commit",
            "mirror", "progress"}

Init ==
    /\ row = "none" /\ jobs = {} /\ open = "none" /\ mirror = "none"
    /\ scheduled = {}
    /\ pc = [r \in Requests |-> "idle"]
    /\ seen = [r \in Requests |-> "none"]
    /\ answer = [r \in Requests |-> "none"]
    /\ faults = 0 /\ crashes = 0 /\ deletes = 0 /\ claimed = {}

At(r, place) == pc[r] = place
Go(r, place) == pc' = [pc EXCEPT ![r] = place] /\ UNCHANGED answer
See(r, s) == seen' = [seen EXCEPT ![r] = s]
Answer(r, a) ==
    /\ pc' = [pc EXCEPT ![r] = "answered"]
    /\ answer' = [answer EXCEPT ![r] = a]

Post(r) ==
    /\ At(r, "idle") /\ Go(r, "get")
    /\ UNCHANGED <<row, jobs, open, mirror, scheduled, seen, bounds, claimed>>

\* Mutant: the hash in Redis is not compared.
GetMirrorUnchecked(r) ==
    /\ At(r, "get")
    /\ IF mirror = "none" THEN Go(r, "insert") /\ UNCHANGED seen
       ELSE Go(r, "verify") /\ See(r, mirror)
    /\ UNCHANGED <<row, jobs, open, mirror, scheduled, bounds, claimed>>

\* The fast path: _cached_outcome compares the hash before anything else.
GetMirror(r) ==
    /\ At(r, "get")
    /\ \/ mirror = "none" /\ Go(r, "insert") /\ UNCHANGED seen
       \/ /\ mirror # "none" /\ Body[mirror] # Body[r]
          /\ Answer(r, "mismatch") /\ UNCHANGED seen
       \/ /\ mirror # "none" /\ Body[mirror] = Body[r]
          /\ Go(r, "verify") /\ See(r, mirror)
    /\ UNCHANGED <<row, jobs, open, mirror, scheduled, bounds, claimed>>

\* _cached_job_still_exists: replay the job, or drop the stale mirror.
Verify(r) ==
    /\ At(r, "verify")
    /\ IF seen[r] \in jobs THEN Answer(r, seen[r]) ELSE Go(r, "drop")
    /\ UNCHANGED <<row, jobs, open, mirror, scheduled, seen, bounds, claimed>>

DropMirror(r) ==
    /\ At(r, "drop") /\ Go(r, "insert")
    /\ mirror' = "none"
    /\ UNCHANGED <<row, jobs, open, scheduled, seen, bounds, claimed>>

\* Mutant: no unique constraint on (tenant_id, key).
InsertAlways(r) ==
    /\ At(r, "insert") /\ open = "none"
    /\ Go(r, "commit") /\ open' = r
    /\ UNCHANGED <<row, jobs, mirror, scheduled, seen, bounds, claimed>>

\* Job and key in one SAVEPOINT; IntegrityError when the key is taken.
Insert(r) ==
    /\ At(r, "insert") /\ open = "none"
    /\ IF row = "none" THEN Go(r, "commit") /\ open' = r
       ELSE Go(r, "lookup") /\ UNCHANGED open
    /\ UNCHANGED <<row, jobs, mirror, scheduled, seen, bounds, claimed>>

\* The conflicting row, which may be gone again.
Lookup(r) ==
    /\ At(r, "lookup")
    /\ \/ row = "none" /\ Answer(r, "error") /\ UNCHANGED seen
       \/ /\ row # "none" /\ Body[row] # Body[r]
          /\ Answer(r, "mismatch") /\ UNCHANGED seen
       \/ /\ row # "none" /\ Body[row] = Body[r]
          /\ Go(r, "load") /\ See(r, row)
    /\ UNCHANGED <<row, jobs, open, mirror, scheduled, bounds, claimed>>

\* The replayed job is read for its status: JOB_NOT_FOUND if it is gone.
Load(r) ==
    /\ At(r, "load")
    /\ Answer(r, IF seen[r] \in jobs THEN seen[r] ELSE "not_found")
    /\ UNCHANGED <<row, jobs, open, mirror, scheduled, seen, bounds, claimed>>

Committed(r) ==
    /\ row' = r /\ jobs' = jobs \cup {r} /\ claimed' = claimed \cup {r}

Commit(r) ==
    /\ At(r, "commit") /\ Go(r, "mirror")
    /\ open' = "none"
    /\ Committed(r)
    /\ UNCHANGED <<mirror, scheduled, seen, bounds>>

Mirror(r) ==
    /\ At(r, "mirror") /\ Go(r, "progress")
    /\ mirror' = r
    /\ UNCHANGED <<row, jobs, open, scheduled, seen, bounds, claimed>>

\* Mutant: the 202 is sent and run_job forgotten.
ProgressUnscheduled(r) ==
    /\ At(r, "progress") /\ Answer(r, r)
    /\ UNCHANGED <<row, jobs, open, mirror, scheduled, seen, bounds, claimed>>

\* After write_progress the task is scheduled and the request answered.
Progress(r) ==
    /\ At(r, "progress") /\ Answer(r, r)
    /\ scheduled' = scheduled \cup {r}
    /\ UNCHANGED <<row, jobs, open, mirror, seen, bounds, claimed>>

-----------------------------------------------------------------------------
(***************************************************************************)
(* What may go wrong.                                                      *)
(***************************************************************************)

\* Mutant: the transaction is not rolled back.
RolledBackNever(r) == open
\* The session's context manager rolls an open transaction back.
RolledBack(r) == IF open = r THEN "none" ELSE open

\* A call to Redis or Postgres raises; a command may have been carried out all
\* the same, or not.
Fault(r) ==
    /\ faults < MaxFaults /\ pc[r] \in Waiting
    /\ faults' = faults + 1
    /\ Answer(r, "error")
    /\ open' = RolledBack(r)
    /\ \/ UNCHANGED <<row, jobs, claimed, mirror>>
       \/ At(r, "commit") /\ Committed(r) /\ UNCHANGED mirror
       \/ At(r, "mirror") /\ mirror' = r /\ UNCHANGED <<row, jobs, claimed>>
       \/ At(r, "drop") /\ mirror' = "none" /\ UNCHANGED <<row, jobs, claimed>>
    /\ UNCHANGED <<scheduled, seen, crashes, deletes>>

\* The process dies and starts again; its sweep schedules every stale job.
Restart ==
    /\ crashes < MaxCrashes
    /\ crashes' = crashes + 1
    /\ pc' = [r \in Requests |-> IF pc[r] \in Waiting THEN "answered" ELSE pc[r]]
    /\ answer' = [r \in Requests |-> IF pc[r] \in Waiting THEN "error" ELSE answer[r]]
    /\ open' = "none"
    /\ scheduled' = scheduled \cup jobs
    /\ UNCHANGED <<row, jobs, mirror, seen, faults, deletes, claimed>>

\* The TTL of the mirror runs out.
MirrorExpires ==
    /\ mirror # "none" /\ mirror' = "none"
    /\ UNCHANGED <<row, jobs, open, scheduled, pc, seen, answer, bounds, claimed>>

\* An operator deletes a job; ON DELETE CASCADE takes its key.
DeleteJob ==
    /\ deletes < MaxDeletes
    /\ deletes' = deletes + 1
    /\ \E j \in jobs :
          /\ jobs' = jobs \ {j}
          /\ row' = IF row = j THEN "none" ELSE row
    /\ UNCHANGED <<open, mirror, scheduled, pc, seen, answer, faults, crashes,
                   claimed>>

-----------------------------------------------------------------------------
Step(r) ==
    \/ GetMirror(r) \/ Verify(r) \/ DropMirror(r) \/ Insert(r) \/ Lookup(r)
    \/ Load(r) \/ Commit(r) \/ Mirror(r) \/ Progress(r)

Next ==
    \/ \E r \in Requests : Post(r) \/ Step(r) \/ Fault(r)
    \/ Restart \/ MirrorExpires \/ DeleteJob

Spec == Init /\ [][Next]_vars

\* The event loop runs every request; Redis and Postgres answer or fail.
FairSpec == Spec /\ \A r \in Requests : WF_vars(Step(r))

-----------------------------------------------------------------------------
(***************************************************************************)
(* Properties.                                                             *)
(***************************************************************************)

\* Every variable has its type; a request looks for a job only when it has read
\* of one, and has an answer when it has ended and not before.
TypeOK ==
    /\ row \in Requests \cup {"none"} /\ jobs \subseteq Requests
    /\ open \in Requests \cup {"none"} /\ mirror \in Requests \cup {"none"}
    /\ scheduled \subseteq Requests /\ claimed \subseteq Requests
    /\ pc \in [Requests -> {"idle", "answered"} \cup Waiting]
    /\ seen \in [Requests -> Requests \cup {"none"}]
    /\ answer \in [Requests -> Requests \cup Words]
    /\ \A r \in Requests :
          /\ pc[r] \in {"verify", "load"} => seen[r] \in Requests
          /\ pc[r] = "answered" <=> answer[r] # "none"
    /\ faults \in 0..MaxFaults /\ crashes \in 0..MaxCrashes
    /\ deletes \in 0..MaxDeletes

\* However POSTs with one key race, fail and crash, there is one job at most
\* for it, the one its row names: no orphaned job, no dangling key.
OneJobPerKey == jobs = {row} \ {"none"}

\* A job that no task was scheduled for belongs to a POST that is still at it
\* or that failed: a client that got its 202 from the creator has a task.
CreatedIsScheduled ==
    \A j \in jobs \ scheduled :
        pc[j] \in {"mirror", "progress"} \/ answer[j] = "error"

\* An INSERT that waits for the key waits for a request that is about to commit
\* it, and commits it free: no transaction is left open by a POST that failed or
\* by a process that died, and none is committed over the row of another.
InsertWaitsForCommit ==
    open # "none" => open \in Requests /\ pc[open] = "commit" /\ row = "none"

\* Whatever path a request takes, through Redis or Postgres, it is told the job
\* the key stands for at that moment and only for the same body: KeyedOnce.
KeepsPromise == Promise!Spec

\* Every request is answered, also when it waits for the insert of another.
RequestsAnswered ==
    \A r \in Requests : pc[r] \in Waiting ~> pc[r] = "answered"
=============================================================================
