--------------------------- MODULE Runners_proofs ---------------------------
(***************************************************************************)
(* Proofs about Runners for any number of tasks, beats, crashes and        *)
(* iterations: as long as no run has outlived its lock, the invariant of   *)
(* JobLock holds, so that one task at a time reads and writes the budget   *)
(* and the shots of the job.                                               *)
(***************************************************************************)
EXTENDS Runners, JobLock_proofs

\* The types a charge needs, whatever happens to the lock.
RunTypes ==
    /\ step \in [Tasks -> Steps] /\ item \in [Tasks -> Nat]
    /\ view \in [Tasks -> Nat] /\ seen \in [Tasks -> Nat]
    /\ outlived \in BOOLEAN
    /\ used \in Nat /\ spent \in Nat /\ bought \in [Beats -> Nat]

\* What the column shows, or a task has read of it, was charged.
ShownWasSpent == used <= spent /\ \A t \in Tasks : seen[t] <= spent

\* Beats whose clip task t has still to buy.
Unbought(t) ==
    {b \in Beats : \/ b > BeatOf(item[t])
                   \/ /\ b = BeatOf(item[t]) /\ IsClip(item[t])
                      /\ step[t] \in {"load", "look", "call"}}

\* What a task outside the graph, in the text phase and in the shot phase
\* knows of the budget and the shots while it works alone.
Resting(t) == step[t] = "load" /\ item[t] = 1

InText(t) ==
    /\ item[t] = 1 /\ step[t] \in {"load", "check"}
    /\ step[t] = "check" => view[t] = used

InShots(t) ==
    /\ step[t] # "check"
    /\ step[t] = "look" => view[t] = used
    /\ step[t] \in {"call", "read", "write"} => used < MaxIterations
    /\ step[t] = "write" => seen[t] = used
    /\ \A b \in Unbought(t) : bought[b] = 0

PlaceTellsWork ==
    \A t \in Tasks :
        /\ pc[t] \notin Graph => Resting(t)
        /\ pc[t] = "text" => InText(t)
        /\ pc[t] = "shots" => InShots(t)

\* The bible says that the shot phase was entered, which happens once.
BibleSays ==
    /\ ~bible => \A t \in Tasks : pc[t] # "shots"
    /\ ~bible => \A b \in Beats : bought[b] = 0

Balanced ==
    /\ used = spent /\ spent <= MaxIterations
    /\ \A b \in Beats : bought[b] <= 1

Alone == IInv /\ PlaceTellsWork /\ BibleSays /\ Balanced

RInv == RunTypes /\ ShownWasSpent /\ (outlived \/ Alone)

USE BeatsAssumption, IterationsAssumption

-----------------------------------------------------------------------------
\* The items of the shot phase: the clip of a beat, then its QC call.
LEMMA NextItem ==
    ASSUME NEW i \in Nat
    PROVE  /\ BeatOf(i) \in Nat
           /\ IsClip(i) => BeatOf(i + 1) = BeatOf(i) /\ ~IsClip(i + 1)
           /\ ~IsClip(i) => BeatOf(i + 1) = BeatOf(i) + 1
  BY DEF BeatOf, IsClip

\* The first state satisfies the invariant.
LEMMA RunnersInitInv == RunnersInit => RInv
  <1> SUFFICES ASSUME RunnersInit PROVE RInv
    OBVIOUS
  <1>1. RunTypes /\ ShownWasSpent
    <2>1. outlived \in BOOLEAN
      BY Zenon DEF RunnersInit
    <2>2. QED
      BY <2>1 DEF RunnersInit, RunTypes, ShownWasSpent, Steps
  <1>2. IInv
    BY InitInv DEF RunnersInit
  <1>3. PlaceTellsWork
    BY DEF RunnersInit, Init, PlaceTellsWork, Resting, Graph
  <1>4. BibleSays /\ Balanced
    BY DEF RunnersInit, Init, BibleSays, Balanced
  <1>5. QED
    BY <1>1, <1>2, <1>3, <1>4 DEF RInv, Alone

\* The types, and what the column may show, by whoever holds the lock.
LEMMA TypesStep ==
    ASSUME RunTypes, ShownWasSpent, [RunnersNext]_allVars
    PROVE  RunTypes' /\ ShownWasSpent'
  <1> USE DEF Do, Reset, Forget, runVars, workVars, moneyVars, lateVars, Steps
  <1>1. CASE UNCHANGED runVars
    BY <1>1 DEF RunTypes, ShownWasSpent
  <1>2. CASE TtlExpires \/ CrashOfRun
    <2>1. outlived' \in BOOLEAN
      BY <1>2 DEF TtlExpires, CrashOfRun, RunTypes
    <2>2. QED
      BY <1>2, <2>1 DEF TtlExpires, CrashOfRun, RunTypes, ShownWasSpent
  <1>3. ASSUME NEW t \in Tasks, EndText(t) \/ EndShots(t)
        PROVE  RunTypes' /\ ShownWasSpent'
    BY <1>3 DEF EndText, EndShots, RunTypes, ShownWasSpent
  <1>4. ASSUME NEW t \in Tasks, TextLoad(t) \/ ShotLoad(t) \/ FindBible(t)
        PROVE  RunTypes' /\ ShownWasSpent'
    BY <1>4 DEF TextLoad, ShotLoad, FindBible, RunTypes, ShownWasSpent
  <1>5. ASSUME NEW t \in Tasks, TextCall(t) \/ LockBible(t)
        PROVE  RunTypes' /\ ShownWasSpent'
    <2>1. view' \in [Tasks -> Nat]
      BY <1>5 DEF TextCall, LockBible, RunTypes
    <2>2. step' \in [Tasks -> Steps]
      BY <1>5 DEF TextCall, LockBible, RunTypes
    <2>3. used' = used + 1 /\ spent' = spent + 1
          /\ UNCHANGED <<item, seen, bought, outlived>>
      BY <1>5 DEF TextCall, LockBible
    <2>4. QED
      BY <2>1, <2>2, <2>3 DEF RunTypes, ShownWasSpent
  <1>6. ASSUME NEW t \in Tasks, Look(t)
        PROVE  RunTypes' /\ ShownWasSpent'
    <2>1. item' \in [Tasks -> Nat] /\ step' \in [Tasks -> Steps]
      BY <1>6 DEF Look, RunTypes
    <2>2. QED
      BY <1>6, <2>1 DEF Look, RunTypes, ShownWasSpent
  <1>7. ASSUME NEW t \in Tasks, PaidCall(t)
        PROVE  RunTypes' /\ ShownWasSpent'
    <2>1. bought' \in [Beats -> Nat]
      <3>1. bought' = bought
            \/ bought' = [bought EXCEPT ![BeatOf(item[t])] = @ + 1]
        BY <1>7 DEF PaidCall
      <3>2. QED
        BY <3>1 DEF RunTypes
    <2>2. QED
      BY <1>7, <2>1 DEF PaidCall, RunTypes, ShownWasSpent
  <1>8. ASSUME NEW t \in Tasks, ChargeRead(t)
        PROVE  RunTypes' /\ ShownWasSpent'
    BY <1>8 DEF ChargeRead, RunTypes, ShownWasSpent
  <1>9. ASSUME NEW t \in Tasks, ChargeWrite(t)
        PROVE  RunTypes' /\ ShownWasSpent'
    <2>1. item' \in [Tasks -> Nat] /\ step' \in [Tasks -> Steps]
      BY <1>9 DEF ChargeWrite, RunTypes
    <2>2. used' = seen[t] + 1 /\ spent' = spent + 1
          /\ seen' = [seen EXCEPT ![t] = 0]
      BY <1>9 DEF ChargeWrite
    <2>3. used' \in Nat /\ spent' \in Nat /\ ShownWasSpent'
      BY <2>2 DEF RunTypes, ShownWasSpent
    <2>4. QED
      BY <1>9, <2>1, <2>2, <2>3 DEF ChargeWrite, RunTypes
  <1>10. QED
    BY <1>1, <1>2, <1>3, <1>4, <1>5, <1>6, <1>7, <1>8, <1>9
    DEF RunnersNext, Pay, Outside, allVars

-----------------------------------------------------------------------------
(***************************************************************************)
(* While no run has outlived its lock.                                     *)
(***************************************************************************)

\* A task in the graph stays where it is, and none enters the shot phase.
LEMMA OutsidePlaces ==
    ASSUME Alone, NEW u \in Tasks, Outside
    PROVE  /\ pc'[u] # "shots" \/ pc'[u] = pc[u]
           /\ pc[u] \in Graph => pc'[u] = pc[u]
  <1> USE DEF Alone, IInv, TypeOK, Go, Graph
  <1>1. ASSUME NEW t \in Tasks,
               Create(t) \/ Resume(t) \/ Schedule(t) \/ Acquire(t) \/ Refused(t)
               \/ Recheck(t) \/ MarkRead(t) \/ MarkWrite(t) \/ ReleaseRead(t)
               \/ ReleaseDelete(t)
        PROVE  /\ pc[t] \notin Graph
               /\ \E p \in Places \ {"shots"} : pc' = [pc EXCEPT ![t] = p]
    BY <1>1 DEF Create, Resume, Schedule, Acquire, Refused, Recheck, MarkRead,
       MarkWrite, ReleaseRead, ReleaseDelete, Places
  <1>2. CASE Drain \/ Drained \/ StartUp
    BY <1>2 DEF Drain, Drained, StartUp
  <1>3. QED
    BY <1>1, <1>2 DEF Outside

\* Whatever happens outside the graph, the work in it is left alone.
LEMMA OutsideAlone ==
    ASSUME RunTypes, Alone, Outside
    PROVE  Alone'
  <1>1. IInv'
    <2>1. CASE \E t \in Tasks : Create(t) \/ Resume(t) \/ Step(t)
      BY <2>1, StepType, StepOwner, StepStatus DEF Alone, IInv
    <2>2. CASE Drain \/ Drained \/ StartUp
      <3>1. ~LockExpires
        BY <2>2 DEF Drain, Drained, StartUp, LockExpires
      <3>2. QED
        BY <2>2, <3>1, ProcessInv DEF Alone
    <2>3. QED
      BY <2>1, <2>2 DEF Outside, Step
  <1>2. UNCHANGED <<step, item, view, seen, bible, used, spent, bought>>
    BY DEF Outside, runVars, workVars, moneyVars, Create, Resume, Schedule, Acquire,
       Refused, Recheck, MarkRead, MarkWrite, ReleaseRead, ReleaseDelete, Drain,
       Drained, StartUp
  <1>3. PlaceTellsWork'
    <2> SUFFICES ASSUME NEW u \in Tasks
                 PROVE  /\ pc'[u] \notin Graph => Resting(u)'
                        /\ pc'[u] = "text" => InText(u)'
                        /\ pc'[u] = "shots" => InShots(u)'
      BY DEF PlaceTellsWork
    <2>1. /\ Resting(u)' = Resting(u) /\ InText(u)' = InText(u)
          /\ InShots(u)' = InShots(u)
      BY <1>2 DEF Resting, InText, InShots, Unbought
    <2>2. Resting(u) => InText(u)
      BY DEF Resting, InText
    <2>3. QED
      BY <2>1, <2>2, OutsidePlaces DEF Alone, PlaceTellsWork, Graph
  <1>4. BibleSays'
    BY <1>2, OutsidePlaces DEF Alone, BibleSays
  <1>5. Balanced'
    BY <1>2 DEF Alone, Balanced
  <1>6. QED
    BY <1>1, <1>3, <1>4, <1>5 DEF Alone

\* A lock that ran out without its task, and a crash, disturb nobody.
LEMMA LifeAlone ==
    ASSUME RunTypes, Alone, TtlExpires \/ CrashOfRun, ~outlived'
    PROVE  Alone'
  <1>1. IInv'
    <2>1. LockExpires \/ Crash
      BY DEF TtlExpires, CrashOfRun
    <2>2. LockExpires => lock \notin Tasks
      <3>1. LockExpires => lock' = "free"
        BY DEF LockExpires
      <3>2. CASE TtlExpires
        BY <3>2 DEF TtlExpires
      <3>3. CASE CrashOfRun
        BY <3>3 DEF CrashOfRun, Crash, LockExpires
      <3>4. QED
        BY <3>2, <3>3
    <2>3. QED
      BY <2>1, <2>2, ProcessInv DEF Alone
  <1>2. UNCHANGED <<status, bible, used, spent, bought>>
    BY DEF TtlExpires, CrashOfRun, LockExpires, Crash, moneyVars
  <1>3. CASE TtlExpires
    <2>1. UNCHANGED <<pc, step, item, view, seen>>
      BY <1>3 DEF TtlExpires, LockExpires, workVars
    <2>2. PlaceTellsWork' /\ BibleSays' /\ Balanced'
      BY <1>2, <2>1 DEF Alone, PlaceTellsWork, Resting, InText, InShots, Unbought,
         BibleSays, Balanced
    <2>3. QED
      BY <1>1, <2>2 DEF Alone
  <1>4. CASE CrashOfRun
    <2>1. \A t \in Tasks : pc'[t] = "idle" /\ step'[t] = "load" /\ item'[t] = 1
      BY <1>4 DEF CrashOfRun, Crash
    <2>2. PlaceTellsWork'
      BY <2>1 DEF PlaceTellsWork, Resting, Graph
    <2>3. BibleSays' /\ Balanced'
      BY <1>2, <2>1 DEF Alone, BibleSays, Balanced
    <2>4. QED
      BY <1>1, <2>2, <2>3 DEF Alone
  <1>5. QED
    BY <1>3, <1>4

-----------------------------------------------------------------------------
(***************************************************************************)
(* The step of a task in the graph.                                        *)
(***************************************************************************)

\* Only task t moves, and the others rest.
LEMMA OthersRest ==
    ASSUME RunTypes, Alone, NEW t \in Tasks, Pay(t), NEW u \in Tasks \ {t}
    PROVE  pc'[u] \notin Graph /\ Resting(u)'
  <1>1. pc[t] \in Graph
    BY DEF Pay, TextLoad, TextCall, LockBible, FindBible, EndText, ShotLoad, Look,
       PaidCall, ChargeRead, ChargeWrite, EndShots, Do, TextEnds, ShotsEnd, Go, Graph
  <1>2. pc[u] \notin Graph
    BY <1>1, OneOwner DEF Alone, IInv, Owner, Holding
  <1>3. Resting(u)
    BY <1>2 DEF Alone, PlaceTellsWork
  <1>4. pc'[u] = pc[u]
    BY DEF Pay, TextLoad, TextCall, LockBible, FindBible, EndText, ShotLoad, Look,
       PaidCall, ChargeRead, ChargeWrite, EndShots, BibleLocked, TextEnds, ShotsEnd,
       Go, vars, Alone, IInv, TypeOK
  <1>5. step'[u] = step[u]
    BY DEF Pay, TextLoad, TextCall, LockBible, FindBible, EndText, ShotLoad, Look,
       PaidCall, ChargeRead, ChargeWrite, EndShots, Do, Reset, RunTypes
  <1>6. item'[u] = item[u]
    BY DEF Pay, TextLoad, TextCall, LockBible, FindBible, EndText, ShotLoad, Look,
       PaidCall, ChargeRead, ChargeWrite, EndShots, Do, Reset, RunTypes
  <1>7. QED
    BY <1>2, <1>3, <1>4, <1>5, <1>6 DEF Resting

\* So only its own place and work need to be looked at.
LEMMA OwnWork ==
    ASSUME RunTypes, Alone, NEW t \in Tasks, Pay(t),
           /\ pc'[t] \notin Graph => Resting(t)'
           /\ pc'[t] = "text" => InText(t)'
           /\ pc'[t] = "shots" => InShots(t)'
    PROVE  PlaceTellsWork'
  <1> SUFFICES ASSUME NEW u \in Tasks
               PROVE  /\ pc'[u] \notin Graph => Resting(u)'
                      /\ pc'[u] = "text" => InText(u)'
                      /\ pc'[u] = "shots" => InShots(u)'
    BY DEF PlaceTellsWork
  <1>1. CASE u = t
    BY <1>1
  <1>2. CASE u # t
    BY <1>2, OthersRest DEF Graph
  <1>3. QED
    BY <1>1, <1>2

\* The steps of a node that JobLock does not see.
Within(t) ==
    TextLoad(t) \/ TextCall(t) \/ ShotLoad(t) \/ Look(t) \/ PaidCall(t)
    \/ ChargeRead(t) \/ ChargeWrite(t)

\* Inside a node nothing happens to the lock, the status and the bible.
LEMMA WithinIInv ==
    ASSUME Alone, NEW t \in Tasks, Within(t)
    PROVE  IInv' /\ UNCHANGED <<pc, status, bible>>
  <1>1. UNCHANGED vars
    BY DEF Within, TextLoad, TextCall, ShotLoad, Look, PaidCall, ChargeRead,
       ChargeWrite
  <1>2. QED
    BY <1>1 DEF Alone, vars, IInv, TypeOK, OwnerHoldsLock, PlaceTellsStatus,
       BibleIsFinal, RowExists, Owner

\* The reads of the budget see what was charged.
LEMMA LoadAlone ==
    ASSUME RunTypes, Alone, NEW t \in Tasks, TextLoad(t) \/ ShotLoad(t)
    PROVE  Alone'
  <1> USE DEF Do, vars, moneyVars
  <1>1. IInv' /\ UNCHANGED <<pc, status, bible>>
    BY WithinIInv DEF Within
  <1>2. UNCHANGED <<item, seen, used, spent, bought>>
    BY DEF TextLoad, ShotLoad
  <1>3. view'[t] = used
    BY DEF TextLoad, ShotLoad, RunTypes
  <1>4. CASE TextLoad(t)
    <2>1. pc'[t] = "text" /\ step'[t] = "check" /\ InText(t)
      BY <1>4 DEF TextLoad, RunTypes, Alone, PlaceTellsWork, vars
    <2>2. InText(t)'
      BY <1>2, <1>3, <2>1 DEF InText
    <2>3. PlaceTellsWork'
      BY <1>4, <2>1, <2>2, OwnWork DEF Pay, Graph
    <2>4. QED
      BY <1>1, <1>2, <2>3 DEF Alone, BibleSays, Balanced
  <1>5. CASE ShotLoad(t)
    <2>1. pc'[t] = "shots" /\ step[t] = "load" /\ step'[t] = "look" /\ InShots(t)
      BY <1>5 DEF ShotLoad, RunTypes, Alone, PlaceTellsWork, vars
    <2>2. Unbought(t)' = Unbought(t)
      BY <1>2, <2>1 DEF Unbought
    <2>3. InShots(t)'
      BY <1>2, <1>3, <2>1, <2>2 DEF InShots
    <2>4. PlaceTellsWork'
      BY <1>5, <2>1, <2>3, OwnWork DEF Pay, Graph
    <2>5. QED
      BY <1>1, <1>2, <2>4 DEF Alone, BibleSays, Balanced
  <1>6. QED
    BY <1>4, <1>5

\* A charge of the text phase: the gate let it in, and nobody else charges.
LEMMA TextCallAlone ==
    ASSUME RunTypes, Alone, NEW t \in Tasks, TextCall(t)
    PROVE  Alone'
  <1>1. IInv' /\ UNCHANGED <<pc, status, bible>>
    BY WithinIInv DEF Within
  <1>2. UNCHANGED <<item, bought>> /\ used' = used + 1 /\ spent' = spent + 1
    BY DEF TextCall
  <1>3. pc[t] = "text" /\ step[t] = "check" /\ view[t] < MaxIterations
    BY DEF TextCall, Do
  <1>4. view[t] = used /\ item[t] = 1
    BY <1>3 DEF Alone, PlaceTellsWork, InText
  <1>5. step'[t] = "load" \/ (step'[t] = "check" /\ view'[t] = used')
    BY <1>2, <1>4 DEF TextCall, Do, RunTypes
  <1>6. InText(t)'
    BY <1>2, <1>4, <1>5 DEF InText
  <1>7. PlaceTellsWork'
    BY <1>1, <1>3, <1>6, OwnWork DEF Pay, Graph
  <1>8. Balanced'
    BY <1>2, <1>3, <1>4 DEF Alone, Balanced, RunTypes
  <1>9. QED
    BY <1>1, <1>2, <1>7, <1>8 DEF Alone, BibleSays

\* The first bible, since the job is still RUNNING: no clip was bought yet.
LEMMA LockBibleAlone ==
    ASSUME RunTypes, Alone, NEW t \in Tasks, LockBible(t)
    PROVE  Alone'
  <1>1. pc[t] = "text" /\ step[t] = "check" /\ view[t] < MaxIterations
    BY DEF LockBible, Do
  <1>2. view[t] = used /\ item[t] = 1
    BY <1>1 DEF Alone, PlaceTellsWork, InText
  <1>3. ~bible
    BY <1>1 DEF Alone, IInv, PlaceTellsStatus, BibleIsFinal, Terminal,
       JobView!Terminal, JobView!Final
  <1>4. \A b \in Beats : bought[b] = 0
    BY <1>3 DEF Alone, BibleSays
  <1>5. IInv'
    BY StepType, StepOwner, StepStatus DEF LockBible, Step, Alone, IInv
  <1>6. /\ pc'[t] = "shots" /\ step'[t] = "load" /\ bible' /\ status' = "BIBLE_LOCKED"
        /\ UNCHANGED <<item, bought>> /\ used' = used + 1 /\ spent' = spent + 1
    BY DEF LockBible, BibleLocked, Go, Do, RunTypes, Alone, IInv, TypeOK
  <1>7. InShots(t)'
    BY <1>4, <1>6 DEF InShots, Unbought
  <1>8. PlaceTellsWork'
    BY <1>6, <1>7, OwnWork DEF Pay, Graph
  <1>9. BibleSays'
    BY <1>6 DEF BibleSays
  <1>10. Balanced'
    BY <1>1, <1>2, <1>6 DEF Alone, Balanced, RunTypes
  <1>11. QED
    BY <1>5, <1>8, <1>9, <1>10 DEF Alone

\* No bible is found by a task that works alone.
LEMMA NoFindBible ==
    ASSUME Alone, NEW t \in Tasks, FindBible(t)
    PROVE  FALSE
  <1>1. pc[t] = "text" /\ bible
    BY DEF FindBible, Do
  <1>2. status = "RUNNING" /\ status \in Terminal
    BY <1>1 DEF Alone, IInv, PlaceTellsStatus, BibleIsFinal
  <1>3. QED
    BY <1>2 DEF Terminal, JobView!Terminal, JobView!Final

\* The end of a run leaves the budget and the clips as they are.
LEMMA EndAlone ==
    ASSUME RunTypes, Alone, NEW t \in Tasks, EndText(t) \/ EndShots(t)
    PROVE  Alone'
  <1>1. TextEnds(t) \/ ShotsEnd(t)
    BY DEF EndText, EndShots
  <1>2. IInv'
    BY <1>1, StepType, StepOwner, StepStatus DEF Step, Alone, IInv
  <1>3. /\ pc'[t] = "release" /\ step'[t] = "load" /\ item'[t] = 1
        /\ UNCHANGED <<bible, used, spent, bought>>
    BY DEF EndText, EndShots, TextEnds, ShotsEnd, Go, Reset, moneyVars, RunTypes,
       Alone, IInv, TypeOK
  <1>4. PlaceTellsWork'
    BY <1>3, OwnWork DEF Pay, Graph, Resting
  <1>5. bible' => status' \in Terminal
    BY <1>1, <1>3 DEF TextEnds, ShotsEnd, Alone, BibleSays, Terminal,
       JobView!Terminal, JobView!Final
  <1>6. ~bible' => \A u \in Tasks : pc'[u] # "shots"
    BY <1>3, OthersRest DEF Pay, Graph
  <1>7. ~bible' => \A b \in Beats : bought'[b] = 0
    BY <1>3 DEF Alone, BibleSays
  <1>8. Balanced'
    BY <1>3 DEF Alone, Balanced
  <1>9. QED
    BY <1>2, <1>4, <1>5, <1>6, <1>7, <1>8 DEF Alone, BibleSays

\* Before the paid call of a shot: the gate, and the look-up of the shot.
LEMMA LookAlone ==
    ASSUME RunTypes, Alone, NEW t \in Tasks, Look(t)
    PROVE  Alone'
  <1>1. IInv' /\ UNCHANGED <<pc, status, bible>>
    BY WithinIInv DEF Within
  <1>2. UNCHANGED <<seen, used, spent, bought>> /\ view[t] < MaxIterations
    BY DEF Look, moneyVars
  <1>3. pc[t] = "shots" /\ step[t] = "look" /\ item[t] \in Nat
    BY DEF Look, Do, RunTypes
  <1>4. view[t] = used /\ InShots(t)
    BY <1>3 DEF Alone, PlaceTellsWork, InShots
  <1>5. \/ step'[t] = "call" /\ item'[t] = item[t]
        \/ step'[t] = "load" /\ item'[t] = item[t] + 1 /\ IsClip(item[t])
    BY DEF Look, Do, RunTypes
  <1>6. Unbought(t)' \subseteq Unbought(t)
    <2>1. CASE item'[t] = item[t]
      BY <1>3, <2>1 DEF Unbought
    <2>2. CASE item'[t] = item[t] + 1 /\ IsClip(item[t])
      BY <1>3, <2>2, NextItem DEF Unbought
    <2>3. QED
      BY <1>5, <2>1, <2>2
  <1>7. InShots(t)'
    BY <1>2, <1>4, <1>5, <1>6 DEF InShots
  <1>8. PlaceTellsWork'
    BY <1>1, <1>3, <1>7, OwnWork DEF Pay, Graph
  <1>9. QED
    BY <1>1, <1>2, <1>8 DEF Alone, BibleSays, Balanced

\* The clip a task pays for was not bought before.
LEMMA PaidCallAlone ==
    ASSUME RunTypes, Alone, NEW t \in Tasks, PaidCall(t)
    PROVE  Alone'
  <1>1. IInv' /\ UNCHANGED <<pc, status, bible>>
    BY WithinIInv DEF Within
  <1>2. UNCHANGED <<item, seen, used, spent>>
    BY DEF PaidCall
  <1>3. pc[t] = "shots" /\ step[t] = "call" /\ step'[t] = "read"
    BY DEF PaidCall, Do, RunTypes
  <1>4. InShots(t)
    BY <1>3 DEF Alone, PlaceTellsWork
  <1>5. \A b \in Beats :
           \/ bought'[b] = bought[b]
           \/ /\ IsClip(item[t]) /\ b = BeatOf(item[t]) /\ bought'[b] = bought[b] + 1
    BY DEF PaidCall, RunTypes
  <1>6. \A b \in Beats : bought'[b] <= 1
    <2> SUFFICES ASSUME NEW b \in Beats PROVE bought'[b] <= 1
      OBVIOUS
    <2>1. CASE bought'[b] = bought[b]
      BY <2>1 DEF Alone, Balanced
    <2>2. CASE IsClip(item[t]) /\ b = BeatOf(item[t]) /\ bought'[b] = bought[b] + 1
      <3>1. b \in Unbought(t)
        BY <1>3, <2>2 DEF Unbought
      <3>2. bought[b] = 0
        BY <1>4, <3>1 DEF InShots
      <3>3. QED
        BY <2>2, <3>2
    <2>3. QED
      BY <1>5, <2>1, <2>2
  <1>7. \A b \in Unbought(t)' : b \in Unbought(t) /\ b > BeatOf(item[t])
    BY <1>2, <1>3 DEF Unbought
  <1>8. BeatOf(item[t]) \in Nat
    BY NextItem DEF RunTypes
  <1>9. \A b \in Unbought(t)' : b \in Beats /\ b # BeatOf(item[t])
    BY <1>7, <1>8 DEF Unbought, Beats
  <1>10. InShots(t)'
    BY <1>2, <1>3, <1>4, <1>5, <1>7, <1>9 DEF InShots
  <1>11. PlaceTellsWork'
    BY <1>1, <1>3, <1>10, OwnWork DEF Pay, Graph
  <1>12. BibleSays'
    <2>1. bible
      BY <1>3 DEF Alone, BibleSays
    <2>2. QED
      BY <1>1, <2>1 DEF Alone, BibleSays
  <1>13. Balanced'
    BY <1>2, <1>6 DEF Alone, Balanced
  <1>14. QED
    BY <1>1, <1>11, <1>12, <1>13 DEF Alone

\* The charge reads what it will write back, and no other task writes between.
LEMMA ChargeAlone ==
    ASSUME RunTypes, Alone, NEW t \in Tasks, ChargeRead(t) \/ ChargeWrite(t)
    PROVE  Alone'
  <1>1. IInv' /\ UNCHANGED <<pc, status, bible>>
    BY WithinIInv DEF Within
  <1>2. UNCHANGED bought /\ pc[t] = "shots"
    BY DEF ChargeRead, ChargeWrite, Do, moneyVars
  <1>3. InShots(t) /\ item[t] \in Nat
    BY <1>2 DEF Alone, PlaceTellsWork, RunTypes
  <1>4. CASE ChargeRead(t)
    <2>1. /\ step[t] = "read" /\ step'[t] = "write" /\ seen'[t] = used
          /\ UNCHANGED <<item, used, spent>>
      BY <1>4 DEF ChargeRead, Do, moneyVars, RunTypes
    <2>2. Unbought(t)' = Unbought(t)
      BY <2>1 DEF Unbought
    <2>3. InShots(t)'
      BY <1>2, <1>3, <2>1, <2>2 DEF InShots
    <2>4. PlaceTellsWork'
      BY <1>1, <1>2, <1>4, <2>3, OwnWork DEF Pay, Graph
    <2>5. QED
      BY <1>1, <1>2, <2>1, <2>4 DEF Alone, BibleSays, Balanced
  <1>5. CASE ChargeWrite(t)
    <2>1. /\ step[t] = "write" /\ step'[t] = "load" /\ item'[t] = item[t] + 1
          /\ used' = seen[t] + 1 /\ spent' = spent + 1
      BY <1>5 DEF ChargeWrite, Do, RunTypes
    <2>2. used < MaxIterations /\ seen[t] = used
      BY <1>3, <2>1 DEF InShots
    <2>3. Unbought(t)' \subseteq Unbought(t)
      BY <1>3, <2>1, NextItem DEF Unbought, Beats
    <2>4. InShots(t)'
      BY <1>2, <1>3, <2>1, <2>3 DEF InShots
    <2>5. PlaceTellsWork'
      BY <1>1, <1>2, <1>5, <2>4, OwnWork DEF Pay, Graph
    <2>6. Balanced'
      BY <1>2, <2>1, <2>2 DEF Alone, Balanced, RunTypes
    <2>7. QED
      BY <1>1, <1>2, <2>5, <2>6 DEF Alone, BibleSays
  <1>6. QED
    BY <1>4, <1>5

-----------------------------------------------------------------------------
\* RInv is inductive.
LEMMA RunnersNextInv == RInv /\ [RunnersNext]_allVars => RInv'
  <1> SUFFICES ASSUME RInv, [RunnersNext]_allVars PROVE RInv'
    OBVIOUS
  <1>1. RunTypes' /\ ShownWasSpent' /\ RunTypes
    BY TypesStep DEF RInv
  <1>2. outlived => outlived'
    BY DEF RunnersNext, Pay, TextLoad, TextCall, LockBible, FindBible, EndText,
       ShotLoad, Look, PaidCall, ChargeRead, ChargeWrite, EndShots, TtlExpires,
       CrashOfRun, Outside, allVars, runVars, lateVars
  <1>3. ASSUME Alone, ~outlived' PROVE Alone'
    <2>1. CASE UNCHANGED allVars
      BY <1>3, <2>1 DEF allVars, vars, runVars, workVars, moneyVars, Alone, IInv,
         TypeOK, OwnerHoldsLock, PlaceTellsStatus, BibleIsFinal, RowExists, Owner,
         PlaceTellsWork, Resting, InText, InShots, Unbought, BibleSays, Balanced
    <2>2. ASSUME NEW t \in Tasks, Pay(t) PROVE Alone'
      BY <1>1, <1>3, <2>2, LoadAlone, TextCallAlone, LockBibleAlone, NoFindBible,
         EndAlone, LookAlone, PaidCallAlone, ChargeAlone DEF Pay
    <2>3. QED
      BY <1>1, <1>3, <2>1, <2>2, OutsideAlone, LifeAlone DEF RunnersNext
  <1>4. QED
    BY <1>1, <1>2, <1>3 DEF RInv

\* The invariant, whether or not a run may outlive its lock.
LEMMA RunnersInvariant == RunnersSpec => []RInv
  BY RunnersInitInv, RunnersNextInv, PTL DEF RunnersSpec

\* A charge gets lost only if a run outlived its lock, for any number of tasks,
\* crashes, beats and iterations.
THEOREM ChargesKept == RunnersSpec => []LossNeedsSlowRun
  <1>1. RInv => LossNeedsSlowRun
    BY DEF RInv, ShownWasSpent, Alone, Balanced, LossNeedsSlowRun
  <1>2. QED
    BY <1>1, RunnersInvariant, PTL

\* No clip is bought twice and no cap is passed unless a run outlived its lock.
THEOREM BoughtOnce == RunnersSpec => []ClipBoughtOnce
  <1>1. RInv => ClipBoughtOnce
    BY DEF RInv, Alone, Balanced, ClipBoughtOnce
  <1>2. QED
    BY <1>1, RunnersInvariant, PTL

\* If no run outlives its lock, every charge is in the budget column, the cap is
\* never passed and no clip is bought twice: the TTL of the lock is the only
\* thing the locking relies on, whatever crashes, resumes and sweeps race.
THEOREM PaidOnce ==
    ASSUME ~SlowTasks
    PROVE  RunnersSpec => [](~outlived /\ ClipBoughtOnce /\ used = spent)
  <1>1. RunnersInit => ~outlived
    BY DEF RunnersInit
  <1>2. RInv /\ ~outlived /\ [RunnersNext]_allVars => ~outlived'
    <2> SUFFICES ASSUME RInv, ~outlived, [RunnersNext]_allVars PROVE ~outlived'
      OBVIOUS
    <2>1. CASE TtlExpires
      <3>1. "orphan" \notin Tasks
        BY TasksAssumption
      <3>2. QED
        BY <2>1, <3>1 DEF TtlExpires, LockExpires
    <2>2. CASE ~TtlExpires
      BY <2>2 DEF RunnersNext, Pay, TextLoad, TextCall, LockBible, FindBible, EndText,
         ShotLoad, Look, PaidCall, ChargeRead, ChargeWrite, EndShots, CrashOfRun,
         Outside, allVars, runVars, lateVars
    <2>3. QED
      BY <2>1, <2>2
  <1>3. RInv /\ ~outlived => ClipBoughtOnce /\ used = spent
    BY DEF RInv, Alone, Balanced, ClipBoughtOnce
  <1>4. QED
    BY <1>1, <1>2, <1>3, RunnersInvariant, PTL DEF RunnersSpec

-----------------------------------------------------------------------------
(***************************************************************************)
(* Runners implements JobLock, whether or not a task may outlive its lock. *)
(***************************************************************************)

\* Every step of a run is a step of JobLock or leaves its variables alone.
LEMMA LockStep ==
    ASSUME [RunnersNext]_allVars
    PROVE  [Next]_vars
  <1>1. ASSUME NEW t \in Tasks, Pay(t) PROVE [Next]_vars
    <2>1. CASE LockBible(t) \/ FindBible(t) \/ EndText(t) \/ EndShots(t)
      <3>1. BibleLocked(t) \/ TextEnds(t) \/ ShotsEnd(t)
        BY <2>1 DEF LockBible, FindBible, EndText, EndShots
      <3>2. QED
        BY <3>1 DEF Next, Step
    <2>2. CASE ~(LockBible(t) \/ FindBible(t) \/ EndText(t) \/ EndShots(t))
      BY <1>1, <2>2 DEF Pay, TextLoad, TextCall, ShotLoad, Look, PaidCall,
         ChargeRead, ChargeWrite
    <2>3. QED
      BY <2>1, <2>2
  <1>2. CASE TtlExpires \/ CrashOfRun
    BY <1>2 DEF TtlExpires, CrashOfRun, Next
  <1>3. CASE Outside
    BY <1>3 DEF Outside, Next, Step
  <1>4. CASE UNCHANGED allVars
    BY <1>4 DEF allVars
  <1>5. QED
    BY <1>1, <1>2, <1>3, <1>4 DEF RunnersNext

\* With the budget and the shots of its runs the system still does what JobLock
\* says, for any number of tasks, beats, crashes and iterations, so that what is
\* proved of JobLock holds of it.
THEOREM Implements == RunnersSpec => RunsJobLock
  <1>1. RunnersInit => Init
    BY DEF RunnersInit
  <1>2. QED
    BY <1>1, LockStep, PTL DEF RunnersSpec, RunsJobLock, Spec

\* The status of a job whose tasks end within the TTL moves as JobStatus allows.
THEOREM StatusOfRuns ==
    ASSUME ~SlowTasks
    PROVE  RunnersSpec => StatusLifecycle
  BY Implements, Refinement, PTL DEF RunsJobLock

-----------------------------------------------------------------------------
(***************************************************************************)
(* The release: what JobLock_proofs says of a lock that does not run out   *)
(* under a QUEUED job holds until one did.                                 *)
(***************************************************************************)
LEMMA QuietRun ==
    ASSUME QInv, [RunnersNext]_allVars, ~lapsed'
    PROVE  QInv'
  <1>1. CASE UNCHANGED vars
    BY <1>1 DEF vars, QInv, TypeOK, RowExists, Quiet, BibleIsFinal
  <1>2. ASSUME NEW t \in Tasks, Pay(t) PROVE QInv'
    <2>1. CASE LockBible(t) \/ FindBible(t) \/ EndText(t) \/ EndShots(t)
      <3>1. BibleLocked(t) \/ TextEnds(t) \/ ShotsEnd(t)
        BY <2>1 DEF LockBible, FindBible, EndText, EndShots
      <3>2. QED
        BY <3>1, StepQuiet DEF Step
    <2>2. CASE ~(LockBible(t) \/ FindBible(t) \/ EndText(t) \/ EndShots(t))
      <3>1. UNCHANGED vars
        BY <1>2, <2>2 DEF Pay, TextLoad, TextCall, ShotLoad, Look, PaidCall,
           ChargeRead, ChargeWrite
      <3>2. QED
        BY <1>1, <3>1
    <2>3. QED
      BY <2>1, <2>2
  <1>3. CASE TtlExpires
    <2>1. LockExpires /\ ~(status = "QUEUED" /\ lock \in Tasks)
      BY <1>3 DEF TtlExpires
    <2>2. QED
      BY <2>1, ProcessQuiet
  <1>4. CASE CrashOfRun
    <2>1. Crash /\ ~LockExpires
      BY <1>4 DEF CrashOfRun, Crash, LockExpires
    <2>2. QED
      BY <2>1, ProcessQuiet
  <1>5. CASE Outside
    <2>1. CASE \E t \in Tasks : Create(t) \/ Resume(t) \/ Step(t)
      BY <2>1, StepQuiet
    <2>2. CASE Drain \/ Drained \/ StartUp
      <3>1. ~LockExpires
        BY <2>2 DEF Drain, Drained, StartUp, LockExpires
      <3>2. QED
        BY <2>2, <3>1, ProcessQuiet
    <2>3. QED
      BY <1>5, <2>1, <2>2 DEF Outside, Step
  <1>6. QED
    BY <1>1, <1>2, <1>3, <1>4, <1>5 DEF RunnersNext, allVars

\* No lock that ran out is forgotten.
LEMMA LapseStays == lapsed /\ [RunnersNext]_allVars => lapsed'
  BY DEF RunnersNext, Pay, TextLoad, TextCall, LockBible, FindBible, EndText,
     ShotLoad, Look, PaidCall, ChargeRead, ChargeWrite, EndShots, TtlExpires,
     CrashOfRun, Outside, allVars, runVars, lateVars

\* A task gives up its lock only once the job is terminal, for any number of
\* tasks and crashes and however long tasks outlive their locks, unless a lock
\* ran out while the job was still QUEUED.
THEOREM ReleasedLate == RunnersSpec => []ReleasedIsTerminal
  <1>1. RunnersInit => QInv
    BY QuietInit DEF RunnersInit
  <1>2. (lapsed \/ QInv) /\ [RunnersNext]_allVars => (lapsed \/ QInv)'
    BY QuietRun, LapseStays
  <1>3. (lapsed \/ QInv) => ReleasedIsTerminal
    BY DEF QInv, Quiet, ReleasedIsTerminal
  <1>4. QED
    BY <1>1, <1>2, <1>3, PTL DEF RunnersSpec
=============================================================================
