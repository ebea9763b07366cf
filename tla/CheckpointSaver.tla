-------------------------- MODULE CheckpointSaver --------------------------
(***************************************************************************)
(* TenantAwarePostgresSaver of app/graph/compile.py: the checkpoints of    *)
(* the jobs of all tenants go through one connection, whose app.tenant_id  *)
(* decides what row level security shows and how a row is stamped, and the *)
(* runs of run_locked_job that use it.                                     *)
(*                                                                         *)
(* One run of a job at a time (JobLock).  The upstream saver, PostgreSQL   *)
(* and the graph library are external: their lock, session and calls are   *)
(* what this code relies on.  alist, which nothing calls, is left out; so  *)
(* is get_job, whose aget_state takes its turn at the connection like the  *)
(* aget_tuple of one more job.                                             *)
(***************************************************************************)
EXTENDS Integers

CONSTANTS
    Jobs, Tenants,
    TenantOf,       \* the tenant of each job
    NoTenant,       \* app.tenant_id is '', or no ContextVar is set
    NoRun,          \* no checkpoint is loaded
    MaxSaves,       \* bound on the checkpoints of a job
    MaxFaults,      \* bound on failed statements and lost connections
    MaxCrashes      \* bound on crashes of the process

ASSUME TenantAssumption ==
    TenantOf \in [Jobs -> Tenants] /\ NoTenant \notin Tenants
ASSUME JobAssumption == NoRun \notin Nat /\ NoRun \notin Jobs
ASSUME BoundAssumption == MaxSaves \in Nat /\ MaxFaults \in Nat /\ MaxCrashes \in Nat

VARIABLES
    \* the process
    holder,     \* whose operation holds the lock of the cursor, NoRun if free
    scope,      \* _checkpoint_tenant_id in the context of each job's task
    run,        \* where the run of each job is
    op,         \* the saver operation it waits for
    fresh,      \* _has_checkpoint found none: the graph gets an initial state
    known,      \* the checkpoint the graph is at
    \* PostgreSQL
    alive,      \* the one connection, opened at startup and never replaced
    setting,    \* app.tenant_id of its session
    rows,       \* the checkpoints of a job's thread, by the tenant_id stamped
    status,     \* jobs.status: open, settled by a node, or failed by the runner
    faults, crashes

taskVars == <<run, fresh, known>>
opVars == <<holder, scope, op>>
vars == <<opVars, taskVars, alive, setting, rows, status, faults, crashes>>

-----------------------------------------------------------------------------
\* "ready": run_job is scheduled; "probed": _has_checkpoint has answered;
\* "loaded": ainvoke has its checkpoint.
Runs == {"ready", "probed", "loaded", "over"}

Kinds == {"aget_tuple", "aput", "aput_writes"}

\* The next statement of an operation; "wait" is for the lock.
Op == [at: {"idle", "wait", "set", "sql", "reset"}, kind: Kinds,
       found: 0..MaxSaves, failed: BOOLEAN]

NoOp == [at |-> "idle", kind |-> "aget_tuple", found |-> 0, failed |-> FALSE]

NewOp(kind) == [at |-> "wait", kind |-> kind, found |-> 0, failed |-> FALSE]

InCursor(j) == op[j].at \in {"set", "sql", "reset"}

TypeOK ==
    /\ holder \in Jobs \cup {NoRun}
    /\ scope \in [Jobs -> Tenants \cup {NoTenant}]
    /\ run \in [Jobs -> Runs] /\ op \in [Jobs -> Op]
    /\ fresh \in [Jobs -> BOOLEAN] /\ known \in [Jobs -> 0..MaxSaves \cup {NoRun}]
    /\ alive \in BOOLEAN /\ setting \in Tenants \cup {NoTenant}
    /\ rows \in [Jobs -> [Tenants -> 0..MaxSaves]]
    /\ status \in [Jobs -> {"open", "settled", "failed"}]
    /\ \A j \in Jobs : InCursor(j) <=> holder = j
    /\ faults \in 0..MaxFaults /\ crashes \in 0..MaxCrashes

Init ==
    /\ holder = NoRun /\ scope = [j \in Jobs |-> NoTenant]
    /\ run = [j \in Jobs |-> "ready"] /\ op = [j \in Jobs |-> NoOp]
    /\ fresh = [j \in Jobs |-> FALSE] /\ known = [j \in Jobs |-> NoRun]
    /\ alive = TRUE /\ setting = NoTenant
    /\ rows = [j \in Jobs |-> [t \in Tenants |-> 0]]
    /\ status = [j \in Jobs |-> "open"]
    /\ faults = 0 /\ crashes = 0

-----------------------------------------------------------------------------
(***************************************************************************)
(* An operation of the saver.                                              *)
(***************************************************************************)

\* Mutant: the tenant is kept on the saver, not in a ContextVar.
EnterShared(j, kind) ==
    /\ op[j].at = "idle"
    /\ scope' = [k \in Jobs |-> TenantOf[j]]
    /\ op' = [op EXCEPT ![j] = NewOp(kind)]
    /\ UNCHANGED <<holder, taskVars, alive, setting, rows, status, faults, crashes>>

\* _tenant_scope, and the wait for the lock.
Enter(j, kind) ==
    /\ op[j].at = "idle"
    /\ scope' = [scope EXCEPT ![j] = TenantOf[j]]
    /\ op' = [op EXCEPT ![j] = NewOp(kind)]
    /\ UNCHANGED <<holder, taskVars, alive, setting, rows, status, faults, crashes>>

\* run_locked_job asks whether there is a checkpoint, and ainvoke for the last.
Ask(j) == run[j] \in {"ready", "probed"} /\ Enter(j, "aget_tuple")

\* The graph saves its progress.
Put(j) ==
    /\ run[j] = "loaded" /\ known[j] < MaxSaves
    /\ \E kind \in {"aput", "aput_writes"} : Enter(j, kind)

\* Mutant: the cursor is not guarded by a lock.
LockShared(j) ==
    /\ op[j].at = "wait"
    /\ holder' = j /\ op' = [op EXCEPT ![j].at = "set"]
    /\ UNCHANGED <<scope, taskVars, alive, setting, rows, status, faults, crashes>>

Lock(j) ==
    /\ op[j].at = "wait" /\ holder = NoRun
    /\ holder' = j /\ op' = [op EXCEPT ![j].at = "set"]
    /\ UNCHANGED <<scope, taskVars, alive, setting, rows, status, faults, crashes>>

\* _cursor sets app.tenant_id for the session.
SetTenant(j) ==
    /\ op[j].at = "set" /\ alive
    /\ setting' = scope[j]
    /\ op' = [op EXCEPT ![j].at = "sql"]
    /\ UNCHANGED <<holder, scope, taskVars, alive, rows, status, faults, crashes>>

\* What row level security lets the session see of the thread of job j.
Visible(j) == IF setting = NoTenant THEN 0 ELSE rows[j][setting]

Read(j) ==
    /\ op[j].at = "sql" /\ alive /\ op[j].kind = "aget_tuple"
    /\ op' = [op EXCEPT ![j].at = "reset", ![j].found = Visible(j)]
    /\ UNCHANGED <<holder, scope, taskVars, alive, setting, rows, status, faults, crashes>>

\* The column default stamps the row with the setting; without one it fails.
Write(j) ==
    /\ op[j].at = "sql" /\ alive /\ op[j].kind # "aget_tuple" /\ setting # NoTenant
    /\ IF op[j].kind = "aput"
       THEN /\ rows' = [rows EXCEPT ![j][setting] = known[j] + 1]
            /\ known' = [known EXCEPT ![j] = known[j] + 1]
       ELSE UNCHANGED <<rows, known>>
    /\ op' = [op EXCEPT ![j].at = "reset"]
    /\ UNCHANGED <<holder, scope, run, fresh, alive, setting, status, faults, crashes>>

\* A statement fails on a connection that lives on.
SqlFails(j) ==
    /\ op[j].at = "sql" /\ alive
    /\ IF op[j].kind # "aget_tuple" /\ setting = NoTenant THEN UNCHANGED faults
       ELSE faults < MaxFaults /\ faults' = faults + 1
    /\ op' = [op EXCEPT ![j].at = "reset", ![j].failed = TRUE]
    /\ UNCHANGED <<holder, scope, taskVars, alive, setting, rows, status, crashes>>

-----------------------------------------------------------------------------
(***************************************************************************)
(* Its end, and how the run goes on.                                       *)
(***************************************************************************)

\* The cursor and the tenant scope are left.
Leave(j) ==
    /\ holder' = NoRun
    /\ scope' = [scope EXCEPT ![j] = NoTenant]
    /\ op' = [op EXCEPT ![j] = NoOp]

\* run_locked_job's handlers: an error that escapes ainvoke makes the job
\* terminal, unless a node has done so before.
FailJob(j) == status' = [status EXCEPT ![j] = IF @ = "open" THEN "failed" ELSE @]

\* Mutant: every run gets the initial state.
AnswerRestarts(j) ==
    \/ /\ run[j] = "ready" /\ fresh' = [fresh EXCEPT ![j] = TRUE]
       /\ run' = [run EXCEPT ![j] = "probed"] /\ UNCHANGED <<known, status>>
    \/ /\ run[j] = "probed" /\ known' = [known EXCEPT ![j] = 0]
       /\ run' = [run EXCEPT ![j] = "loaded"] /\ UNCHANGED <<fresh, status>>
    \/ run[j] = "loaded" /\ UNCHANGED <<taskVars, status>>

\* The operation returns.  A graph given an initial state starts from the
\* beginning; one that is to resume and finds no checkpoint raises
\* EmptyInputError.
Answer(j) ==
    \/ /\ run[j] = "ready"
       /\ fresh' = [fresh EXCEPT ![j] = op[j].found = 0]
       /\ run' = [run EXCEPT ![j] = "probed"] /\ UNCHANGED <<known, status>>
    \/ /\ run[j] = "probed" /\ (fresh[j] \/ op[j].found > 0)
       /\ known' = [known EXCEPT ![j] = IF fresh[j] THEN 0 ELSE op[j].found]
       /\ run' = [run EXCEPT ![j] = "loaded"] /\ UNCHANGED <<fresh, status>>
    \/ /\ run[j] = "probed" /\ ~fresh[j] /\ op[j].found = 0
       /\ run' = [run EXCEPT ![j] = "over"]
       /\ FailJob(j) /\ UNCHANGED <<fresh, known>>
    \/ run[j] = "loaded" /\ UNCHANGED <<taskVars, status>>

\* The operation raises.  _has_checkpoint is outside the try.
Raise(j) ==
    /\ run' = [run EXCEPT ![j] = "over"] /\ known' = [known EXCEPT ![j] = NoRun]
    /\ IF run[j] = "ready" THEN UNCHANGED status ELSE FailJob(j)
    /\ UNCHANGED fresh

\* Mutant: a failed statement leaves the lock taken.
ResetKeepsLock(j) ==
    /\ op[j].at = "reset" /\ alive
    /\ setting' = NoTenant
    /\ holder' = (IF op[j].failed THEN holder ELSE NoRun)
    /\ scope' = [scope EXCEPT ![j] = NoTenant] /\ op' = [op EXCEPT ![j] = NoOp]
    /\ IF op[j].failed THEN Raise(j) ELSE Answer(j)
    /\ UNCHANGED <<alive, rows, faults, crashes>>

\* Mutant: the tenant is taken back only after a statement that succeeded.
ResetOnSuccess(j) ==
    /\ op[j].at = "reset" /\ alive
    /\ setting' = (IF op[j].failed THEN setting ELSE NoTenant)
    /\ Leave(j)
    /\ IF op[j].failed THEN Raise(j) ELSE Answer(j)
    /\ UNCHANGED <<alive, rows, faults, crashes>>

\* The finally of _cursor.
Reset(j) ==
    /\ op[j].at = "reset" /\ alive
    /\ setting' = NoTenant
    /\ Leave(j)
    /\ IF op[j].failed THEN Raise(j) ELSE Answer(j)
    /\ UNCHANGED <<alive, rows, faults, crashes>>

\* Any statement on the lost connection raises, the one of the finally too.
Disconnected(j) ==
    /\ InCursor(j) /\ ~alive
    /\ Leave(j) /\ Raise(j)
    /\ UNCHANGED <<alive, setting, rows, faults, crashes>>

-----------------------------------------------------------------------------
(***************************************************************************)
(* Runs, and the life of the process.                                      *)
(***************************************************************************)

\* A node commits a terminal status, the bible node before the shots are made.
Settle(j) ==
    /\ run[j] = "loaded" /\ status[j] = "open"
    /\ status' = [status EXCEPT ![j] = "settled"]
    /\ UNCHANGED <<opVars, taskVars, alive, setting, rows, faults, crashes>>

\* The graph returns.
Finish(j) ==
    /\ run[j] = "loaded" /\ status[j] = "settled" /\ op[j].at = "idle"
    /\ run' = [run EXCEPT ![j] = "over"] /\ known' = [known EXCEPT ![j] = NoRun]
    /\ UNCHANGED <<opVars, fresh, alive, setting, rows, status, faults, crashes>>

\* A request resumes a job whose run ended and left it open.
Resume(j) ==
    /\ run[j] = "over" /\ status[j] = "open"
    /\ run' = [run EXCEPT ![j] = "ready"]
    /\ UNCHANGED <<opVars, fresh, known, alive, setting, rows, status, faults, crashes>>

\* PostgreSQL ends the session.
LoseConnection ==
    /\ alive /\ faults < MaxFaults
    /\ alive' = FALSE /\ faults' = faults + 1 /\ setting' = NoTenant
    /\ UNCHANGED <<opVars, taskVars, rows, status, crashes>>

\* The process dies and is started again: a new connection, and the sweep
\* schedules every open job.
Restart ==
    /\ crashes < MaxCrashes /\ crashes' = crashes + 1
    /\ holder' = NoRun /\ scope' = [j \in Jobs |-> NoTenant]
    /\ op' = [j \in Jobs |-> NoOp] /\ known' = [j \in Jobs |-> NoRun]
    /\ run' = [j \in Jobs |-> IF status[j] = "open" THEN "ready" ELSE "over"]
    /\ alive' = TRUE /\ setting' = NoTenant
    /\ UNCHANGED <<fresh, rows, status, faults>>

-----------------------------------------------------------------------------
Statement(j) ==
    \/ SetTenant(j) \/ Read(j) \/ Write(j) \/ SqlFails(j) \/ Reset(j) \/ Disconnected(j)

Next ==
    \/ \E j \in Jobs :
          \/ Ask(j) \/ Put(j) \/ Lock(j) \/ Statement(j)
          \/ Settle(j) \/ Finish(j) \/ Resume(j)
    \/ LoseConnection \/ Restart

Spec == Init /\ [][Next]_vars

\* PostgreSQL answers or the connection is lost, and asyncio.Lock serves its
\* waiters in turn.
FairSpec == Spec /\ \A j \in Jobs : WF_vars(Statement(j)) /\ SF_vars(Lock(j))

-----------------------------------------------------------------------------
(***************************************************************************)
(* Properties.                                                             *)
(***************************************************************************)

\* Whatever other tasks, failures and crashes do between the statements of an
\* operation, its SQL runs under the tenant of its own job.
SqlUnderOwnTenant ==
    \A j \in Jobs : op[j].at = "sql" /\ alive => setting = TenantOf[j]

\* The shared connection shows the rows of a tenant only while an operation for
\* one of its jobs holds it: however an operation ends, and wherever the next
\* one starts, the setting of the last one is gone.
SettingIsHolders ==
    setting # NoTenant =>
        \E j \in Jobs : /\ holder = j /\ op[j].at \in {"sql", "reset"}
                       /\ alive /\ setting = TenantOf[j]

\* Crashes, other tenants and a shared connection never make the runner fail a
\* job: a graph that is to resume finds the checkpoint its probe found, and no
\* row is refused for want of a tenant.
FailureNeedsFault ==
    \A j \in Jobs : op[j].failed \/ status[j] = "failed" => faults > 0

\* Crash resumes, never restarts: for each job the saver is a CheckpointStore.
Store == INSTANCE CheckpointStore WITH
    saved <- [j \in Jobs |-> rows[j][TenantOf[j]]], at <- known
KeepsCheckpoints == Store!Spec

\* Every operation ends, with whatever becomes of the connection.
OperationsEnd == \A j \in Jobs : op[j].at # "idle" ~> op[j].at = "idle"
=============================================================================
