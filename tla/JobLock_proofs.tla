--------------------------- MODULE JobLock_proofs ---------------------------
(***************************************************************************)
(* Proofs about JobLock for any set of tasks and any number of crashes and *)
(* faults, when no task outlives the TTL of its lock; and about what is     *)
(* left of it when only a lock that runs out on a QUEUED job is excluded.   *)
(***************************************************************************)
EXTENDS JobLock, TLAPS

\* The owner of the lock is the only task that writes the status, so that the
\* status tells where it is.
PlaceTellsStatus ==
    \A t \in Tasks :
        /\ pc[t] = "marked" => status = loaded[t]
        /\ pc[t] = "text" => status = "RUNNING"
        /\ pc[t] = "shots" => status = "BIBLE_LOCKED"

\* The bible is committed with a status that no later start takes back.
BibleIsFinal == bible => status \in Terminal

\* A task under way belongs to a committed job row.
RowExists == status = "NONE" => \A t \in Tasks : pc[t] = "idle"

IInv == TypeOK /\ OwnerHoldsLock /\ PlaceTellsStatus /\ BibleIsFinal /\ RowExists

USE TasksAssumption, BoundAssumption

-----------------------------------------------------------------------------
\* The first state satisfies the invariant.
LEMMA InitInv == Init => IInv
  <1> SUFFICES ASSUME Init PROVE IInv
    OBVIOUS
  <1>1. bible \in BOOLEAN
    BY Zenon DEF Init
  <1>2. TypeOK /\ RowExists
    BY <1>1 DEF Init, TypeOK, RowExists, Places, Stale, JobView!Stale
  <1>3. OwnerHoldsLock /\ PlaceTellsStatus
    BY DEF Init, OwnerHoldsLock, PlaceTellsStatus, Owner, Holding, Graph
  <1>4. BibleIsFinal
    BY DEF Init, BibleIsFinal
  <1>5. QED
    BY <1>2, <1>3, <1>4 DEF IInv

\* A task's own step, by parts: where it may go and what it does to the lock.
LEMMA StepType ==
    ASSUME TypeOK, RowExists, NEW t \in Tasks,
           Create(t) \/ Resume(t) \/ Step(t) \/ Fault(t)
    PROVE  TypeOK'
  <1> USE DEF TypeOK, Go, Places, Stale, Terminal, JobView!Stale,
              JobView!Terminal, JobView!Final
  <1>1. CASE Create(t) \/ Resume(t)
    BY <1>1 DEF Create, Resume
  <1>2. CASE Schedule(t) \/ Acquire(t) \/ Refused(t) \/ Recheck(t)
    BY <1>2 DEF Schedule, Acquire, Refused, Recheck
  <1>3. CASE MarkRead(t)
    <2>1. CASE status \in Terminal
      BY <1>3, <2>1 DEF MarkRead
    <2>2. CASE status \notin Terminal
      <3>1. status # "NONE"
        BY <1>3, <2>2 DEF MarkRead, RowExists
      <3>2. loaded' \in [Tasks -> Stale]
        BY <1>3, <2>2, <3>1 DEF MarkRead
      <3>3. QED
        BY <1>3, <2>2, <3>2 DEF MarkRead
    <2>3. QED
      BY <2>1, <2>2
  <1>4. CASE MarkWrite(t) \/ BibleLocked(t) \/ TextEnds(t) \/ ShotsEnd(t)
    BY <1>4 DEF MarkWrite, BibleLocked, TextEnds, ShotsEnd
  <1>5. CASE ReleaseRead(t) \/ ReleaseDelete(t)
    BY <1>5 DEF ReleaseRead, ReleaseDelete
  <1>6. CASE Fault(t)
    BY <1>6 DEF Fault, Orphaned
  <1>7. QED
    BY <1>1, <1>2, <1>3, <1>4, <1>5, <1>6 DEF Step

\* Of two owners there is only one.
LEMMA OneOwner ==
    ASSUME OwnerHoldsLock, NEW t \in Tasks, NEW u \in Tasks, Owner(t), Owner(u)
    PROVE  t = u
  BY DEF OwnerHoldsLock

\* A task that takes the lock finds it free, and one that frees it owns it.
LEMMA StepOwner ==
    ASSUME IInv, NEW t \in Tasks, Create(t) \/ Resume(t) \/ Step(t) \/ Fault(t)
    PROVE  OwnerHoldsLock'
  <1> SUFFICES ASSUME NEW u \in Tasks, Owner(u)' PROVE lock' = u
    BY DEF OwnerHoldsLock
  <1> USE DEF IInv, TypeOK, Go, Owner, Holding, Graph
  <1>1. Owner(u) => lock = u
    BY DEF OwnerHoldsLock
  <1>2. CASE Create(t) \/ Resume(t) \/ Schedule(t) \/ Refused(t)
    BY <1>1, <1>2 DEF Create, Resume, Schedule, Refused
  <1>3. CASE Acquire(t)
    BY <1>1, <1>3 DEF Acquire
  <1>4. CASE Recheck(t) \/ MarkRead(t) \/ MarkWrite(t) \/ BibleLocked(t)
             \/ TextEnds(t) \/ ShotsEnd(t)
    BY <1>1, <1>4 DEF Recheck, MarkRead, MarkWrite, BibleLocked, TextEnds, ShotsEnd
  <1>5. CASE ReleaseRead(t)
    BY <1>1, <1>5 DEF ReleaseRead
  <1>6. CASE ReleaseDelete(t)
    <2>1. u # t /\ Owner(t) /\ Owner(u)
      BY <1>6 DEF ReleaseDelete
    <2>2. QED
      BY <2>1, OneOwner
  <1>7. CASE Fault(t)
    <2>1. CASE u = t
      BY <1>1, <1>7, <2>1 DEF Fault
    <2>2. CASE u # t
      <3>1. pc[u] = pc'[u] /\ lock = u
        BY <1>1, <1>7, <2>2 DEF Fault
      <3>2. Owner(t) => FALSE
        BY <2>2, <3>1, OneOwner
      <3>3. QED
        BY <1>7, <2>2, <3>1, <3>2 DEF Fault, Orphaned
    <2>3. QED
      BY <2>1, <2>2
  <1>8. QED
    BY <1>2, <1>3, <1>4, <1>5, <1>6, <1>7 DEF Step

\* Only the owner writes the status once the row exists.
LEMMA StepStatus ==
    ASSUME IInv, NEW t \in Tasks, Create(t) \/ Resume(t) \/ Step(t) \/ Fault(t)
    PROVE  PlaceTellsStatus' /\ BibleIsFinal' /\ RowExists'
  <1> USE DEF IInv, TypeOK, Go, BibleIsFinal
  <1>1. CASE Create(t)
    BY <1>1 DEF Create, PlaceTellsStatus, RowExists, Terminal, JobView!Terminal,
       JobView!Final
  <1>2. CASE Resume(t) \/ Schedule(t) \/ Acquire(t) \/ Refused(t) \/ Recheck(t)
             \/ ReleaseRead(t) \/ ReleaseDelete(t)
    BY <1>2 DEF Resume, Schedule, Acquire, Refused, Recheck, ReleaseRead,
       ReleaseDelete, PlaceTellsStatus, RowExists, Stale, JobView!Stale
  <1>3. CASE MarkRead(t)
    BY <1>3 DEF MarkRead, PlaceTellsStatus, RowExists, Terminal,
       JobView!Terminal, JobView!Final
  <1>4. CASE MarkWrite(t) \/ BibleLocked(t) \/ TextEnds(t) \/ ShotsEnd(t)
    <2>1. \A u \in Tasks \ {t} : ~Owner(u) /\ pc'[u] = pc[u]
      BY <1>4, OneOwner DEF MarkWrite, BibleLocked, TextEnds, ShotsEnd, Owner,
         Holding, Graph
    <2>2. \A u \in Tasks \ {t} : pc'[u] \notin {"marked", "text", "shots"}
      BY <2>1 DEF Owner, Holding, Graph
    <2>3. status = "NONE" => FALSE
      BY <1>4 DEF MarkWrite, BibleLocked, TextEnds, ShotsEnd, RowExists
    <2>4. MarkWrite(t) => ~bible
      <3>1. MarkWrite(t) => status \in Stale
        BY DEF MarkWrite, PlaceTellsStatus
      <3>2. QED
        BY <3>1 DEF Stale, Terminal, JobView!Stale, JobView!Terminal, JobView!Final
    <2>5. /\ pc'[t] \in {"text", "shots", "release"}
          /\ pc'[t] = "text" => status' = "RUNNING"
          /\ pc'[t] = "shots" => status' = "BIBLE_LOCKED"
          /\ status' # "NONE" /\ (bible' => status' \in Terminal)
      BY <1>4, <2>3, <2>4 DEF MarkWrite, BibleLocked, TextEnds, ShotsEnd,
         PlaceTellsStatus, Terminal, JobView!Terminal, JobView!Final
    <2>6. QED
      BY <2>2, <2>5 DEF PlaceTellsStatus, RowExists
  <1>5. CASE Fault(t)
    BY <1>5 DEF Fault, PlaceTellsStatus, RowExists
  <1>6. QED
    BY <1>1, <1>2, <1>3, <1>4, <1>5 DEF Step

\* The TTL, as long as no task outlives it, and the life of the process.
LEMMA ProcessInv ==
    ASSUME IInv, LockExpires => lock \notin Tasks,
           LockExpires \/ Crash \/ Drain \/ Drained \/ StartUp
    PROVE  IInv'
  <1> USE DEF IInv, TypeOK, Places
  <1>1. CASE LockExpires
    BY <1>1 DEF LockExpires, OwnerHoldsLock, PlaceTellsStatus, BibleIsFinal, RowExists, Owner
  <1>2. CASE Crash
    BY <1>2 DEF Crash, OwnerHoldsLock, PlaceTellsStatus, BibleIsFinal, RowExists, Owner,
       Holding, Graph
  <1>3. CASE Drain \/ Drained
    BY <1>3 DEF Drain, Drained, OwnerHoldsLock, PlaceTellsStatus, BibleIsFinal, RowExists, Owner
  <1>4. CASE StartUp
    BY <1>4 DEF StartUp, Go, OwnerHoldsLock, PlaceTellsStatus, BibleIsFinal, RowExists, Owner,
       Holding, Graph, Stale, JobView!Stale
  <1>5. QED
    BY <1>1, <1>2, <1>3, <1>4

\* IInv is inductive.
LEMMA NextInv == IInv /\ ~SlowTasks /\ [Next]_vars => IInv'
  <1> SUFFICES ASSUME IInv, ~SlowTasks, [Next]_vars PROVE IInv'
    OBVIOUS
  <1>1. CASE Next
    <2>1. LockExpires => lock \notin Tasks
      BY DEF LockExpires
    <2>2. QED
      BY <1>1, <2>1, StepType, StepOwner, StepStatus, ProcessInv DEF Next, IInv
  <1>2. CASE UNCHANGED vars
    BY <1>2 DEF vars, IInv, TypeOK, OwnerHoldsLock, PlaceTellsStatus, BibleIsFinal,
       RowExists, Owner
  <1>3. QED
    BY <1>1, <1>2

-----------------------------------------------------------------------------
\* The invariant, when the TTL is longer than every graph run.
THEOREM Invariant ==
    ASSUME ~SlowTasks
    PROVE  Spec => []IInv
  <1>1. IInv /\ [Next]_vars => IInv'
    BY NextInv
  <1>2. QED
    BY <1>1, InitInv, PTL DEF Spec

\* No lock is lost: any number of tasks, crashes and faults leave the owner's
\* token in Redis until the owner deletes it.
THEOREM LockHeld ==
    ASSUME ~SlowTasks
    PROVE  Spec => []OwnerHoldsLock
  <1>1. IInv => OwnerHoldsLock
    BY DEF IInv
  <1>2. QED
    BY <1>1, Invariant, PTL

\* Mutual exclusion: one task at a time runs the graph of a job.
THEOREM MutualExclusion ==
    ASSUME ~SlowTasks
    PROVE  Spec => []OneWorker
  <1>1. IInv => OneWorker
    BY OneOwner DEF IInv, OneWorker, Working, Owner, Holding
  <1>2. QED
    BY <1>1, Invariant, PTL

\* A terminal job is never reopened.
THEOREM NeverReopened ==
    ASSUME ~SlowTasks
    PROVE  Spec => NoReopen
  <1>1. IInv /\ [Next]_vars
        => [(status \in Terminal) => (status' \in Terminal)]_vars
    <2> SUFFICES ASSUME IInv, Next, status \in Terminal PROVE status' \in Terminal
      BY DEF vars
    <2> USE DEF Stale, Terminal, JobView!Stale, JobView!Terminal, JobView!Final
    <2>1. ASSUME NEW t \in Tasks, MarkWrite(t) PROVE FALSE
      BY <2>1 DEF MarkWrite, Go, IInv, PlaceTellsStatus, TypeOK
    <2>2. ASSUME NEW t \in Tasks, BibleLocked(t) \/ TextEnds(t) \/ ShotsEnd(t)
          PROVE  status' \in Terminal
      BY <2>2 DEF BibleLocked, TextEnds, ShotsEnd
    <2>3. ASSUME NEW t \in Tasks, Create(t) PROVE FALSE
      BY <2>3 DEF Create
    <2>4. ASSUME NEW t \in Tasks,
                 Resume(t) \/ Fault(t) \/ Schedule(t) \/ Acquire(t) \/ Refused(t)
                 \/ Recheck(t) \/ MarkRead(t) \/ ReleaseRead(t) \/ ReleaseDelete(t)
          PROVE  status' = status
      BY <2>4 DEF Resume, Fault, Schedule, Acquire, Refused, Recheck, MarkRead,
         ReleaseRead, ReleaseDelete
    <2>5. CASE LockExpires \/ Crash \/ Drain \/ Drained \/ StartUp
      BY <2>5 DEF LockExpires, Crash, Drain, Drained, StartUp
    <2>6. QED
      BY <2>1, <2>2, <2>3, <2>4, <2>5 DEF Next, Step
  <1>2. QED
    BY <1>1, Invariant, PTL DEF Spec, NoReopen

\* A step of JobLock is a step of JobStatus or leaves the status alone.
LEMMA StepRefines ==
    ASSUME IInv, [Next]_vars
    PROVE  [JobView!Next]_status
  <1> USE DEF JobView!Next, JobView!Create, JobView!Start, JobView!EndText,
              JobView!EndShots, Go, IInv
  <1>1. ASSUME NEW t \in Tasks, Create(t) PROVE [JobView!Next]_status
    BY <1>1 DEF Create
  <1>2. ASSUME NEW t \in Tasks, MarkWrite(t) PROVE [JobView!Next]_status
    BY <1>2 DEF MarkWrite, PlaceTellsStatus, TypeOK, Stale
  <1>3. ASSUME NEW t \in Tasks, BibleLocked(t) \/ TextEnds(t)
        PROVE  [JobView!Next]_status
    BY <1>3 DEF BibleLocked, TextEnds, PlaceTellsStatus
  <1>4. ASSUME NEW t \in Tasks, ShotsEnd(t) PROVE [JobView!Next]_status
    BY <1>4 DEF ShotsEnd, PlaceTellsStatus
  <1>5. ASSUME NEW t \in Tasks,
               Resume(t) \/ Fault(t) \/ Schedule(t) \/ Acquire(t) \/ Refused(t)
               \/ Recheck(t) \/ MarkRead(t) \/ ReleaseRead(t) \/ ReleaseDelete(t)
        PROVE  status' = status
    BY <1>5 DEF Resume, Fault, Schedule, Acquire, Refused, Recheck, MarkRead,
       ReleaseRead, ReleaseDelete
  <1>6. CASE LockExpires \/ Crash \/ Drain \/ Drained \/ StartUp \/ UNCHANGED vars
    BY <1>6 DEF LockExpires, Crash, Drain, Drained, StartUp, vars
  <1>7. QED
    BY <1>1, <1>2, <1>3, <1>4, <1>5, <1>6 DEF Next, Step

\* Requests, sweeps, crashes and faults move the status as JobStatus allows.
THEOREM Refinement ==
    ASSUME ~SlowTasks
    PROVE  Spec => StatusLifecycle
  <1>1. Init => JobView!Init
    BY DEF Init, JobView!Init
  <1>2. QED
    BY <1>1, StepRefines, Invariant, PTL DEF Spec, StatusLifecycle, JobView!Spec

-----------------------------------------------------------------------------
(***************************************************************************)
(* The release, also when tasks outlive their locks, as long as no call to *)
(* Redis or Postgres fails and no lock runs out while the job is QUEUED:   *)
(* then a QUEUED job keeps its lock, and later starts find it RUNNING and  *)
(* do not write.                                                           *)
(***************************************************************************)
NotStarted == {"NONE", "QUEUED"}

Quiet ==
    /\ BibleIsFinal
    /\ \A t \in Tasks :
          /\ pc[t] \in {"shots", "release", "delete"} => status \in Terminal
          /\ pc[t] = "text" => status \notin NotStarted
          /\ pc[t] = "marked" =>
                IF loaded[t] = "QUEUED" THEN status = "QUEUED"
                ELSE status \notin NotStarted
    /\ status = "QUEUED" =>
          \A t \in Tasks : pc[t] \in {"recheck", "mark", "marked"} => lock = t

QInv == TypeOK /\ RowExists /\ Quiet

\* A task's own step keeps it.
LEMMA StepQuiet ==
    ASSUME QInv, NEW t \in Tasks, Create(t) \/ Resume(t) \/ Step(t)
    PROVE  QInv'
  <1>1. TypeOK'
    BY StepType DEF QInv
  <1> USE DEF QInv, TypeOK, Go, BibleIsFinal, NotStarted, Stale, Terminal, JobView!Stale,
              JobView!Terminal, JobView!Final
  <1>2. CASE Create(t) \/ Resume(t) \/ Schedule(t) \/ Refused(t)
    BY <1>1, <1>2 DEF Create, Resume, Schedule, Refused, RowExists, Quiet
  <1>3. CASE Acquire(t)
    BY <1>1, <1>3 DEF Acquire, RowExists, Quiet
  <1>4. CASE Recheck(t) \/ MarkRead(t)
    BY <1>1, <1>4 DEF Recheck, MarkRead, RowExists, Quiet
  <1>5. CASE MarkWrite(t)
    <2>1. status # "NONE" /\ status' # "NONE"
      BY <1>5 DEF MarkWrite, RowExists
    <2>2. CASE loaded[t] = "QUEUED"
      <3>1. status = "QUEUED" /\ status' = "RUNNING" /\ lock = t
        BY <1>5, <2>2 DEF MarkWrite, Quiet
      <3>2. \A u \in Tasks \ {t} :
               pc[u] \notin {"text", "shots", "release", "delete", "marked"}
        BY <2>2, <3>1 DEF Quiet
      <3>3. Quiet'
        BY <1>5, <3>1, <3>2 DEF MarkWrite, Quiet
      <3>4. QED
        BY <1>1, <2>1, <3>3 DEF RowExists
    <2>3. CASE loaded[t] # "QUEUED"
      <3>1. status' = status /\ status \notin NotStarted
        BY <1>5, <2>3 DEF MarkWrite, Quiet
      <3>2. Quiet'
        BY <1>5, <3>1 DEF MarkWrite, Quiet
      <3>3. QED
        BY <1>1, <2>1, <3>2 DEF RowExists
    <2>4. QED
      BY <1>1, <2>1, <2>2, <2>3 DEF RowExists, Quiet
  <1>6. CASE BibleLocked(t) \/ TextEnds(t) \/ ShotsEnd(t)
    <2>1. status # "NONE"
      BY <1>6 DEF BibleLocked, TextEnds, ShotsEnd, RowExists
    <2>2. /\ status' \in Terminal /\ status \notin NotStarted
          /\ status' # "NONE" /\ UNCHANGED <<lock, loaded>>
          /\ pc'[t] \in {"shots", "release"}
          /\ \A u \in Tasks \ {t} : pc'[u] = pc[u]
      BY <1>6, <2>1 DEF BibleLocked, TextEnds, ShotsEnd, Quiet
    <2>3. Quiet'
      BY <2>1, <2>2 DEF Quiet
    <2>4. QED
      BY <1>1, <2>2, <2>3 DEF RowExists
  <1>7. CASE ReleaseRead(t) \/ ReleaseDelete(t)
    BY <1>1, <1>7 DEF ReleaseRead, ReleaseDelete, RowExists, Quiet
  <1>8. QED
    BY <1>2, <1>3, <1>4, <1>5, <1>6, <1>7 DEF Step

\* So do the TTL and the life of the process.
LEMMA ProcessQuiet ==
    ASSUME QInv, LockExpires => ~(status = "QUEUED" /\ lock \in Tasks),
           LockExpires \/ Crash \/ Drain \/ Drained \/ StartUp
    PROVE  QInv'
  <1> USE DEF QInv, TypeOK, Places, BibleIsFinal, NotStarted
  <1>1. CASE LockExpires
    <2>1. status = "QUEUED" => lock = "orphan"
      BY <1>1 DEF LockExpires
    <2>2. QED
      BY <1>1, <2>1 DEF LockExpires, RowExists, Quiet
  <1>2. CASE Crash
    BY <1>2 DEF Crash, RowExists, Quiet
  <1>3. CASE Drain \/ Drained
    BY <1>3 DEF Drain, Drained, RowExists, Quiet
  <1>4. CASE StartUp
    BY <1>4 DEF StartUp, Go, RowExists, Quiet, Stale, JobView!Stale
  <1>5. QED
    BY <1>1, <1>2, <1>3, <1>4

\* The first state satisfies it.
LEMMA QuietInit == Init => QInv
  BY InitInv DEF Init, IInv, QInv, Quiet
=============================================================================
