------------------------------ MODULE Runners ------------------------------
(***************************************************************************)
(* What the tasks of JobLock pay for while they run the graph of one job:  *)
(* the budget columns of the job, its shots rows and the clips bought from *)
(* the video provider, when a run may outlive its lock and be joined by a  *)
(* second one.                                                             *)
(*                                                                         *)
(* plan_story and lock_continuity_bible add to the budget in SQL, so their *)
(* transactions cannot lose an update.  persist_gateway_usage and the      *)
(* nodes that buy clips read the row, add in Python and write the sum back.*)
(*                                                                         *)
(* The paid work of the shot phase is a row of items: an odd item is the   *)
(* clip of a beat, the even one after it the QC call for that clip.        *)
(* Repairs and rejected schema attempts are paid by the same transactions  *)
(* and add no other behaviour here.                                        *)
(***************************************************************************)
EXTENDS JobLock

CONSTANTS
    NBeats,         \* shots per story, 4 in the code
    MaxIterations   \* budget_max_iterations of the job

ASSUME BeatsAssumption == NBeats \in Nat \ {0}
ASSUME IterationsAssumption == MaxIterations \in Nat

VARIABLES
    step,       \* where a task is between the transactions of a node
    item,       \* the item of the shot phase a task is at
    view,       \* budget_state, the budget a node works with
    seen,       \* the budget a charging transaction has read
    used,       \* jobs.budget_used_iterations
    made,       \* beats with a SUCCEEDED shot
    \* history, never read by the code
    spent,      \* charges committed
    bought,     \* clips bought for each beat
    outlived,   \* a lock ran out while the task that took it went on
    lapsed      \* one did so while the job was still QUEUED

workVars == <<step, item, view, seen>>
moneyVars == <<used, made, spent, bought>>
lateVars == <<outlived, lapsed>>
runVars == <<workVars, moneyVars, lateVars>>
allVars == <<vars, runVars>>

-----------------------------------------------------------------------------
Beats == 1..NBeats
Items == 1..(2 * NBeats)
IsClip(i) == i % 2 = 1
BeatOf(i) == (i + 1) \div 2

\* "load", "check": before the read of the budget and before the gate.
\* "look": before the look-up of the shot.  "call": before the paid call.
\* "read", "write": before the SELECT and the UPDATE of the charge.
Steps == {"load", "check", "look", "call", "read", "write"}

RunnersTypeOK ==
    /\ TypeOK
    /\ step \in [Tasks -> Steps]
    /\ item \in [Tasks -> 1..(2 * NBeats + 1)]
    /\ view \in [Tasks -> Nat] /\ seen \in [Tasks -> Nat]
    /\ outlived \in BOOLEAN /\ lapsed \in BOOLEAN
    /\ used \in Nat /\ spent \in Nat
    /\ made \subseteq Beats /\ bought \in [Beats -> Nat]

RunnersInit ==
    /\ Init
    /\ step = [t \in Tasks |-> "load"] /\ item = [t \in Tasks |-> 1]
    /\ view = [t \in Tasks |-> 0] /\ seen = [t \in Tasks |-> 0]
    /\ used = 0 /\ made = {}
    /\ spent = 0 /\ bought = [b \in Beats |-> 0]
    /\ outlived = FALSE /\ lapsed = FALSE

\* Task t works in phase p and goes from one step to another.
Do(t, p, from, to) ==
    /\ pc[t] = p /\ step[t] = from
    /\ step' = [step EXCEPT ![t] = to]

\* A task that ended leaves nothing behind.
Reset(t) ==
    /\ step' = [step EXCEPT ![t] = "load"]
    /\ item' = [item EXCEPT ![t] = 1]
    /\ view' = [view EXCEPT ![t] = 0]
    /\ seen' = [seen EXCEPT ![t] = 0]

\* A node whose budget_state is not read any more.
Forget(t) == view' = [view EXCEPT ![t] = 0]

-----------------------------------------------------------------------------
(***************************************************************************)
(* plan_story and lock_continuity_bible.                                   *)
(***************************************************************************)

\* _load_budget of either node.
TextLoad(t) ==
    /\ Do(t, "text", "load", "check")
    /\ view' = [view EXCEPT ![t] = used]
    /\ UNCHANGED <<vars, item, seen, moneyVars, lateVars>>

\* A paid call and _increment_usage, an UPDATE that adds to the column.  The
\* same node goes on with its next attempt, or the next node starts.
TextCall(t) ==
    /\ view[t] < MaxIterations
    /\ \/ /\ Do(t, "text", "check", "check")
          /\ view' = [view EXCEPT ![t] = @ + 1]
       \/ Do(t, "text", "check", "load") /\ Forget(t)
    /\ used' = used + 1
    /\ spent' = spent + 1
    /\ UNCHANGED <<vars, item, seen, made, bought, lateVars>>

\* The accepted bible, its charge and the status in one transaction.
LockBible(t) ==
    /\ Do(t, "text", "check", "load")
    /\ view[t] < MaxIterations
    /\ BibleLocked(t) /\ status' = "BIBLE_LOCKED" /\ bible' = TRUE
    /\ Forget(t)
    /\ used' = used + 1
    /\ spent' = spent + 1
    /\ UNCHANGED <<item, seen, made, bought, lateVars>>

\* Mutant: a bible is found that nobody has committed.
FindBibleBlind(t) ==
    /\ Do(t, "text", "check", "load")
    /\ view[t] < MaxIterations
    /\ Go(t, "text", "shots")
    /\ Forget(t)
    /\ UNCHANGED <<proc, status, lock, loaded, bible, crashes, faults>>
    /\ UNCHANGED <<item, seen, moneyVars, lateVars>>

\* The bible of another task is there already: nothing is charged or written.
FindBible(t) ==
    /\ Do(t, "text", "check", "load")
    /\ view[t] < MaxIterations
    /\ bible /\ UNCHANGED <<status, bible>> /\ BibleLocked(t)
    /\ Forget(t)
    /\ UNCHANGED <<item, seen, moneyVars, lateVars>>

EndText(t) ==
    /\ TextEnds(t)
    /\ Reset(t)
    /\ UNCHANGED <<moneyVars, lateVars>>

-----------------------------------------------------------------------------
(***************************************************************************)
(* generate_shot and qc_score.                                             *)
(***************************************************************************)

\* _load_budget.
ShotLoad(t) ==
    /\ item[t] \in Items
    /\ Do(t, "shots", "load", "look")
    /\ view' = [view EXCEPT ![t] = used]
    /\ UNCHANGED <<vars, item, seen, moneyVars, lateVars>>

\* The budget gate, then _load_succeeded_shot: the shot of another task is
\* taken as it is.
Look(t) ==
    /\ view[t] < MaxIterations
    /\ IF IsClip(item[t]) /\ BeatOf(item[t]) \in made
       THEN /\ Do(t, "shots", "look", "load")
            /\ item' = [item EXCEPT ![t] = @ + 1]
       ELSE Do(t, "shots", "look", "call") /\ UNCHANGED item
    /\ Forget(t)
    /\ UNCHANGED <<vars, seen, moneyVars, lateVars>>

\* generate_clip or complete_json answers.
PaidCall(t) ==
    /\ Do(t, "shots", "call", "read")
    /\ bought' = IF IsClip(item[t])
                 THEN [bought EXCEPT ![BeatOf(item[t])] = @ + 1] ELSE bought
    /\ UNCHANGED <<vars, item, view, seen, used, made, spent, lateVars>>

\* session.get(Job): the row is read without FOR UPDATE.
ChargeRead(t) ==
    /\ Do(t, "shots", "read", "write")
    /\ seen' = [seen EXCEPT ![t] = used]
    /\ UNCHANGED <<vars, item, view, moneyVars, lateVars>>

\* The sum is written back, with the upsert of the shot, and committed.
ChargeWrite(t) ==
    /\ Do(t, "shots", "write", "load")
    /\ used' = seen[t] + 1
    /\ spent' = spent + 1
    /\ made' = made \cup (IF IsClip(item[t]) THEN {BeatOf(item[t])} ELSE {})
    /\ item' = [item EXCEPT ![t] = @ + 1]
    /\ seen' = [seen EXCEPT ![t] = 0]
    /\ UNCHANGED <<vars, view, bought, lateVars>>

\* The graph returns: with every item done, stopped by the budget or by the
\* provider, or by an error, which never makes the job look complete.
EndShots(t) ==
    /\ ShotsEnd(t)
    /\ item[t] \in Items => status' \in {"BIBLE_LOCKED", "PARTIAL", "FAILED", status}
    /\ Reset(t)
    /\ UNCHANGED <<moneyVars, lateVars>>

-----------------------------------------------------------------------------
TtlExpires ==
    /\ LockExpires
    /\ outlived' = (outlived \/ lock \in Tasks)
    /\ lapsed' = (lapsed \/ (lock \in Tasks /\ status = "QUEUED"))
    /\ UNCHANGED <<workVars, moneyVars>>

CrashOfRun ==
    /\ Crash
    /\ step' = [t \in Tasks |-> "load"] /\ item' = [t \in Tasks |-> 1]
    /\ view' = [t \in Tasks |-> 0] /\ seen' = [t \in Tasks |-> 0]
    /\ UNCHANGED <<moneyVars, lateVars>>

\* The steps of JobLock outside the graph.  Failed calls to Redis and Postgres
\* are left to JobLock: with them a job may be reopened again and again.
Outside ==
    /\ \/ \E t \in Tasks :
             \/ Create(t) \/ Resume(t) \/ Schedule(t) \/ Acquire(t) \/ Refused(t)
             \/ Recheck(t) \/ MarkRead(t) \/ MarkWrite(t)
             \/ ReleaseRead(t) \/ ReleaseDelete(t)
       \/ Drain \/ Drained \/ StartUp
    /\ UNCHANGED runVars

Pay(t) ==
    \/ TextLoad(t) \/ TextCall(t) \/ LockBible(t) \/ FindBible(t) \/ EndText(t)
    \/ ShotLoad(t) \/ Look(t) \/ PaidCall(t) \/ ChargeRead(t) \/ ChargeWrite(t)
    \/ EndShots(t)

RunnersNext ==
    \/ \E t \in Tasks : Pay(t)
    \/ TtlExpires \/ CrashOfRun \/ Outside

RunnersSpec == RunnersInit /\ [][RunnersNext]_allVars

-----------------------------------------------------------------------------
(***************************************************************************)
(* Properties.                                                             *)
(***************************************************************************)

\* The budget column never shows more than was charged, and shows less only
\* if a run outlived its lock and two tasks charged the row at one time.
LossNeedsSlowRun ==
    /\ used <= spent
    /\ used = spent \/ outlived

\* Unless a run outlived its lock, no clip of a shot is bought twice and the
\* iterations stay within their cap, whatever crashes, sweeps, resume requests
\* and releases race: a crash between the purchase and the row of the
\* shot never lets a later run buy it again.
ClipBoughtOnce ==
    outlived \/ (spent <= MaxIterations /\ \A b \in Beats : bought[b] <= 1)

\* A task gives up the lock, and perhaps by the GET and DEL race the lock of
\* another task, only once the job is terminal, so that no task that could still
\* start the graph loses its lock that way.  The one way round it: a lock runs
\* out before its task has written RUNNING, another task ends the job, and
\* the first one then reopens it while the other is about to release.
ReleasedIsTerminal ==
    lapsed \/ \A t \in Tasks : pc[t] \in {"release", "delete"} => status \in Terminal

\* A run with its budget and its shots is a run of JobLock: also when two tasks
\* are in the graph at one time, no task enters the shot phase of a job that has
\* no bible, and none leaves the graph but as the text and the shot phase of
\* JobLock may end.
RunsJobLock == Spec
=============================================================================
