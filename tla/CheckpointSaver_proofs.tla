----------------------- MODULE CheckpointSaver_proofs -----------------------
(***************************************************************************)
(* Proofs about CheckpointSaver for any jobs, tenants, faults and crashes. *)
(***************************************************************************)
EXTENDS CheckpointSaver, TLAPS

\* The checkpoints of job j under its own tenant.
Own(j) == rows[j][TenantOf[j]]

\* The operation of job j is in its own scope and fits the run that waits for
\* it, and what it has read is what is there.
OpOK(j) ==
    /\ op[j].at # "idle" => scope[j] = TenantOf[j]
    /\ op[j].at # "idle" => run[j] # "over"
    /\ op[j].at # "idle" => (op[j].kind = "aget_tuple" <=> run[j] # "loaded")
    /\ op[j].at # "idle" /\ run[j] = "loaded" /\ known[j] = MaxSaves => op[j].at = "reset"
    /\ op[j].at = "sql" /\ alive => setting = TenantOf[j]
    /\ op[j].at = "reset" /\ op[j].kind = "aget_tuple" /\ ~op[j].failed =>
          op[j].found = Own(j)

\* The run of job j is at the last of its checkpoints.
RunOK(j) ==
    /\ run[j] = "loaded" => known[j] = Own(j)
    /\ run[j] # "loaded" => known[j] = NoRun
    /\ run[j] = "probed" /\ fresh[j] => Own(j) = 0
    /\ run[j] = "probed" /\ ~fresh[j] => Own(j) # 0

FaultOK(j) == op[j].failed \/ status[j] = "failed" \/ ~alive => faults > 0

IInv == TypeOK /\ \A j \in Jobs : OpOK(j) /\ RunOK(j) /\ FaultOK(j)

USE TenantAssumption, JobAssumption, BoundAssumption

-----------------------------------------------------------------------------
\* The first state satisfies the invariant.
LEMMA InitInv == Init => IInv
  <1> SUFFICES ASSUME Init PROVE IInv
    OBVIOUS
  <1>1. NoOp \in Op /\ NoOp.at = "idle" /\ NoOp.failed = FALSE
    BY DEF NoOp, Op, Kinds
  <1>2. TypeOK
    BY <1>1 DEF Init, TypeOK, Runs, InCursor
  <1>3. ASSUME NEW j \in Jobs PROVE OpOK(j) /\ RunOK(j) /\ FaultOK(j)
    BY <1>1 DEF Init, OpOK, RunOK, FaultOK, Own
  <1>4. QED
    BY <1>2, <1>3 DEF IInv

-----------------------------------------------------------------------------
(***************************************************************************)
(* One job's step, seen from the others.                                   *)
(***************************************************************************)

Step(j) ==
    \/ Ask(j) \/ Put(j) \/ Lock(j) \/ Statement(j)
    \/ Settle(j) \/ Finish(j) \/ Resume(j)

\* The types of the variables a step may touch.
LEMMA Types ==
    ASSUME IInv
    PROVE  /\ holder \in Jobs \cup {NoRun}
           /\ scope \in [Jobs -> Tenants \cup {NoTenant}]
           /\ run \in [Jobs -> Runs] /\ op \in [Jobs -> Op]
           /\ fresh \in [Jobs -> BOOLEAN]
           /\ known \in [Jobs -> 0..MaxSaves \cup {NoRun}]
           /\ alive \in BOOLEAN /\ setting \in Tenants \cup {NoTenant}
           /\ rows \in [Jobs -> [Tenants -> 0..MaxSaves]]
           /\ status \in [Jobs -> {"open", "settled", "failed"}]
           /\ faults \in 0..MaxFaults /\ crashes \in 0..MaxCrashes
           /\ \A j \in Jobs : InCursor(j) <=> holder = j
  BY DEF IInv, TypeOK

\* What a step of job j leaves alone.
Apart(j, k) ==
    /\ op'[k] = op[k] /\ scope'[k] = scope[k] /\ run'[k] = run[k]
    /\ fresh'[k] = fresh[k] /\ known'[k] = known[k]
    /\ status'[k] = status[k] /\ rows'[k] = rows[k]

\* A step of job j leaves the parts of the other jobs alone, and the setting
\* unless the job is inside the cursor.
LEMMA Others ==
    ASSUME IInv, NEW j \in Jobs, Step(j)
    PROVE  /\ \A k \in Jobs \ {j} : Apart(j, k)
           /\ UNCHANGED <<alive, crashes>>
           /\ UNCHANGED faults \/ (faults < MaxFaults /\ faults' = faults + 1)
           /\ UNCHANGED setting \/ InCursor(j)
  <1> USE Types DEF Apart
  <1>1. CASE Ask(j) \/ Put(j)
    BY <1>1 DEF Ask, Put, Enter, taskVars
  <1>2. CASE Lock(j)
    BY <1>2 DEF Lock, taskVars
  <1>3. CASE SetTenant(j) \/ Read(j)
    BY <1>3 DEF SetTenant, Read, taskVars, InCursor
  <1>4. CASE Write(j)
    BY <1>4 DEF Write
  <1>5. CASE SqlFails(j)
    BY <1>5 DEF SqlFails, taskVars
  <1>6. CASE Reset(j) \/ Disconnected(j)
    <2>1. /\ \A k \in Jobs \ {j} : op'[k] = op[k] /\ scope'[k] = scope[k]
          /\ UNCHANGED <<alive, crashes, faults, rows>>
          /\ InCursor(j)
      BY <1>6 DEF Reset, Disconnected, Leave, InCursor
    <2>2. Raise(j) \/ Answer(j)
      BY <1>6 DEF Reset, Disconnected
    <2>3. \A k \in Jobs \ {j} : /\ run'[k] = run[k] /\ fresh'[k] = fresh[k]
                                /\ known'[k] = known[k] /\ status'[k] = status[k]
      BY <2>2 DEF Raise, Answer, FailJob, taskVars
    <2>4. QED
      BY <2>1, <2>3
  <1>7. CASE Settle(j) \/ Finish(j) \/ Resume(j)
    BY <1>7 DEF Settle, Finish, Resume, opVars, taskVars
  <1>8. QED
    BY <1>1, <1>2, <1>3, <1>4, <1>5, <1>6, <1>7 DEF Step, Statement

-----------------------------------------------------------------------------
(***************************************************************************)
(* Types.                                                                  *)
(***************************************************************************)

\* The operation a step leaves job j in.
LEMMA OpMoves ==
    ASSUME IInv, NEW j \in Jobs, Step(j)
    PROVE  \E o \in Op : op' = [op EXCEPT ![j] = o]
  <1>0. op \in [Jobs -> Op] /\ op[j] \in Op /\ op = [op EXCEPT ![j] = op[j]]
    BY Types
  <1>1. CASE Ask(j) \/ Put(j)
    <2>1. PICK kind \in Kinds : op' = [op EXCEPT ![j] = NewOp(kind)]
      <3>1. CASE Ask(j)
        BY <3>1 DEF Ask, Enter, Kinds
      <3>2. CASE Put(j)
        <4>1. PICK kind \in {"aput", "aput_writes"} : Enter(j, kind)
          BY <3>2 DEF Put
        <4>2. kind \in Kinds
          BY DEF Kinds
        <4>3. op' = [op EXCEPT ![j] = NewOp(kind)]
          BY <4>1 DEF Enter
        <4>4. QED
          BY <4>2, <4>3
      <3>3. QED
        BY <1>1, <3>1, <3>2
    <2>2. NewOp(kind) \in Op
      BY BoundAssumption DEF NewOp, Op
    <2>3. QED
      BY <2>1, <2>2
  <1>2. CASE Lock(j)
    BY <1>0, <1>2 DEF Lock, Op
  <1>3. CASE SetTenant(j)
    BY <1>0, <1>3 DEF SetTenant, Op
  <1>4. CASE Read(j)
    <2>1. Visible(j) \in 0..MaxSaves
      BY Types DEF Visible
    <2>2. PICK n \in 0..MaxSaves : op' = [op EXCEPT ![j].at = "reset", ![j].found = n]
      BY <1>4, <2>1 DEF Read
    <2>3. [op[j] EXCEPT !.at = "reset", !.found = n] \in Op
      BY <1>0 DEF Op
    <2>4. op' = [op EXCEPT ![j] = [op[j] EXCEPT !.at = "reset", !.found = n]]
      BY <1>0, <2>2 DEF Op
    <2>5. QED
      BY <2>3, <2>4
  <1>5. CASE Write(j)
    BY <1>0, <1>5 DEF Write, Op
  <1>6. CASE SqlFails(j)
    <2>1. [op[j] EXCEPT !.at = "reset", !.failed = TRUE] \in Op
      BY <1>0 DEF Op
    <2>2. op' = [op EXCEPT ![j] = [op[j] EXCEPT !.at = "reset", !.failed = TRUE]]
      BY <1>0, <1>6 DEF SqlFails, Op
    <2>3. QED
      BY <2>1, <2>2
  <1>7. CASE Reset(j) \/ Disconnected(j)
    <2>1. NoOp \in Op
      BY DEF NoOp, Op, Kinds
    <2>2. QED
      BY <1>7, <2>1 DEF Reset, Disconnected, Leave
  <1>8. CASE Settle(j) \/ Finish(j) \/ Resume(j)
    BY <1>0, <1>8 DEF Settle, Finish, Resume, opVars
  <1>9. QED
    BY <1>1, <1>2, <1>3, <1>4, <1>5, <1>6, <1>7, <1>8 DEF Step, Statement

\* The lock is held from the first statement to the last.
LEMMA LockMoves ==
    ASSUME IInv, NEW j \in Jobs, Step(j)
    PROVE  /\ holder' \in Jobs \cup {NoRun}
           /\ InCursor(j)' <=> holder' = j
           /\ \A k \in Jobs \ {j} : holder' = k <=> holder = k
  <1>0. /\ op \in [Jobs -> Op] /\ holder \in Jobs \cup {NoRun}
        /\ InCursor(j) <=> holder = j
    BY Types
  <1>1. CASE Ask(j) \/ Put(j)
    <2>1. UNCHANGED holder /\ op[j].at = "idle" /\ op'[j].at = "wait"
      BY <1>0, <1>1 DEF Ask, Put, Enter, NewOp
    <2>2. QED
      BY <1>0, <2>1 DEF InCursor
  <1>2. CASE Lock(j)
    <2>1. holder = NoRun /\ holder' = j /\ op'[j].at = "set"
      BY <1>0, <1>2 DEF Lock, Op
    <2>2. QED
      BY <2>1 DEF InCursor
  <1>3. CASE SetTenant(j) \/ Read(j) \/ Write(j) \/ SqlFails(j)
    <2>1. UNCHANGED holder /\ InCursor(j)
      BY <1>3 DEF SetTenant, Read, Write, SqlFails, InCursor
    <2>2. op'[j].at \in {"sql", "reset"}
      BY <1>0, <1>3 DEF SetTenant, Read, Write, SqlFails, Op
    <2>3. QED
      BY <1>0, <2>1, <2>2 DEF InCursor
  <1>4. CASE Reset(j) \/ Disconnected(j)
    <2>1. holder' = NoRun /\ op'[j].at = "idle" /\ InCursor(j)
      BY <1>0, <1>4 DEF Reset, Disconnected, Leave, NoOp, InCursor
    <2>2. holder = j
      BY <1>0, <2>1
    <2>3. QED
      BY <2>1, <2>2 DEF InCursor
  <1>5. CASE Settle(j) \/ Finish(j) \/ Resume(j)
    BY <1>0, <1>5 DEF Settle, Finish, Resume, opVars, InCursor
  <1>6. QED
    BY <1>1, <1>2, <1>3, <1>4, <1>5 DEF Step, Statement

\* The runs, their positions and the statuses.
LEMMA RunMoves ==
    ASSUME IInv, NEW j \in Jobs, Step(j)
    PROVE  /\ run' \in [Jobs -> Runs] /\ fresh' \in [Jobs -> BOOLEAN]
           /\ known' \in [Jobs -> 0..MaxSaves \cup {NoRun}]
           /\ status' \in [Jobs -> {"open", "settled", "failed"}]
           /\ rows' \in [Jobs -> [Tenants -> 0..MaxSaves]]
  <1>0. /\ run \in [Jobs -> Runs] /\ fresh \in [Jobs -> BOOLEAN]
        /\ known \in [Jobs -> 0..MaxSaves \cup {NoRun}]
        /\ status \in [Jobs -> {"open", "settled", "failed"}]
        /\ rows \in [Jobs -> [Tenants -> 0..MaxSaves]]
        /\ op \in [Jobs -> Op]
    BY Types
  <1>1. CASE Ask(j) \/ Put(j) \/ Lock(j) \/ SetTenant(j) \/ Read(j) \/ SqlFails(j)
    BY <1>0, <1>1 DEF Ask, Put, Enter, Lock, SetTenant, Read, SqlFails, taskVars
  <1>2. CASE Write(j)
    <2>1. UNCHANGED <<run, fresh, status>>
      BY <1>2 DEF Write
    <2>2. CASE op[j].kind # "aput"
      BY <1>0, <1>2, <2>1, <2>2 DEF Write
    <2>3. CASE op[j].kind = "aput"
      <3>1. run[j] = "loaded" /\ setting \in Tenants
        BY <1>2, <2>3, Types DEF Write, IInv, OpOK, Op
      <3>2. known[j] = Own(j) /\ Own(j) \in 0..MaxSaves
        BY <1>0, <3>1 DEF IInv, RunOK, Own
      <3>3. known[j] < MaxSaves
        BY <1>2, <3>1, <3>2 DEF IInv, OpOK, Write
      <3>4. PICK n \in 0..MaxSaves : n = known[j] + 1
        BY <3>2, <3>3
      <3>5. rows' = [rows EXCEPT ![j][setting] = n] /\ known' = [known EXCEPT ![j] = n]
        BY <1>2, <2>3, <3>4 DEF Write
      <3>6. QED
        BY <1>0, <2>1, <3>1, <3>5
    <2>4. QED
      BY <2>2, <2>3
  <1>3. CASE Reset(j) \/ Disconnected(j)
    <2>1. UNCHANGED rows /\ (Raise(j) \/ Answer(j))
      BY <1>3 DEF Reset, Disconnected
    <2>2. CASE Raise(j)
      BY <1>0, <2>1, <2>2 DEF Raise, FailJob, Runs
    <2>3. CASE Answer(j)
      <3>1. op[j].found \in 0..MaxSaves /\ 0 \in 0..MaxSaves
        BY <1>0 DEF Op
      <3>2. \E n \in 0..MaxSaves : known' = known \/ known' = [known EXCEPT ![j] = n]
        BY <2>3, <3>1 DEF Answer, taskVars
      <3>3. known' \in [Jobs -> 0..MaxSaves \cup {NoRun}]
        BY <1>0, <3>2
      <3>4. \E b \in BOOLEAN : fresh' = fresh \/ fresh' = [fresh EXCEPT ![j] = b]
        BY <2>3 DEF Answer, taskVars
      <3>5. fresh' \in [Jobs -> BOOLEAN]
        BY <1>0, <3>4
      <3>6. run' \in [Jobs -> Runs]
        BY <1>0, <2>3 DEF Answer, Runs, taskVars
      <3>7. status' \in [Jobs -> {"open", "settled", "failed"}]
        BY <1>0, <2>3 DEF Answer, FailJob
      <3>8. QED
        BY <1>0, <2>1, <3>3, <3>5, <3>6, <3>7
    <2>4. QED
      BY <2>1, <2>2, <2>3
  <1>4. CASE Settle(j) \/ Finish(j) \/ Resume(j)
    BY <1>0, <1>4 DEF Settle, Finish, Resume, opVars, taskVars, Runs
  <1>5. QED
    BY <1>1, <1>2, <1>3, <1>4 DEF Step, Statement

\* A step of one job keeps the type.
LEMMA StepType ==
    ASSUME IInv, NEW j \in Jobs, Step(j)
    PROVE  TypeOK'
  <1>1. op' \in [Jobs -> Op]
    BY OpMoves, Types
  <1>2. \A k \in Jobs : InCursor(k)' <=> holder' = k
    <2>1. ASSUME NEW k \in Jobs, k # j PROVE InCursor(k)' <=> holder' = k
      <3>1. op'[k] = op[k] /\ (holder' = k <=> holder = k) /\ (InCursor(k) <=> holder = k)
        BY <2>1, Others, LockMoves, Types DEF Apart
      <3>2. QED
        BY <3>1 DEF InCursor
    <2>2. QED
      BY <2>1, LockMoves
  <1>3. scope' \in [Jobs -> Tenants \cup {NoTenant}] /\ setting' \in Tenants \cup {NoTenant}
    <2>1. TenantOf[j] \in Tenants /\ scope[j] \in Tenants \cup {NoTenant}
      BY Types
    <2>2. CASE Ask(j) \/ Put(j) \/ Lock(j)
      BY <2>1, <2>2, Types DEF Ask, Put, Enter, Lock
    <2>3. CASE SetTenant(j) \/ Read(j) \/ Write(j) \/ SqlFails(j)
      BY <2>1, <2>3, Types DEF SetTenant, Read, Write, SqlFails
    <2>4. CASE Reset(j) \/ Disconnected(j)
      BY <2>4, Types DEF Reset, Disconnected, Leave
    <2>5. CASE Settle(j) \/ Finish(j) \/ Resume(j)
      <3>1. UNCHANGED <<scope, setting>>
        BY <2>5 DEF Settle, Finish, Resume, opVars
      <3>2. QED
        BY <3>1, Types
    <2>6. QED
      BY <2>2, <2>3, <2>4, <2>5 DEF Step, Statement
  <1>4. alive' \in BOOLEAN /\ faults' \in 0..MaxFaults /\ crashes' \in 0..MaxCrashes
    <2>1. UNCHANGED <<alive, crashes>>
      BY Others
    <2>2. UNCHANGED faults \/ (faults < MaxFaults /\ faults' = faults + 1)
      BY Others
    <2>3. faults \in 0..MaxFaults /\ alive \in BOOLEAN /\ crashes \in 0..MaxCrashes
      BY Types
    <2>4. faults' \in 0..MaxFaults
      BY <2>2, <2>3
    <2>5. QED
      BY <2>1, <2>3, <2>4
  <1>5. holder' \in Jobs \cup {NoRun}
    BY LockMoves
  <1>6. QED
    BY <1>1, <1>2, <1>3, <1>4, <1>5, RunMoves DEF TypeOK

-----------------------------------------------------------------------------
(***************************************************************************)
(* Operations and runs.                                                    *)
(***************************************************************************)

JobOK(j) == OpOK(j) /\ RunOK(j) /\ FaultOK(j)

\* The other jobs stay as they should: none of them is inside the cursor while
\* the setting changes.
LEMMA OthersStay ==
    ASSUME IInv, NEW j \in Jobs, Step(j), NEW k \in Jobs, k # j
    PROVE  JobOK(k)'
  <1>0. OpOK(k) /\ RunOK(k) /\ FaultOK(k)
    BY DEF IInv
  <1>1. Apart(j, k) /\ UNCHANGED alive
    BY Others
  <1>2. op[k].at = "sql" => UNCHANGED setting
    <2>1. ~(InCursor(j) /\ InCursor(k))
      BY Types
    <2>2. QED
      BY <2>1, Others DEF InCursor
  <1>3. faults > 0 => faults' > 0
    BY Others, Types
  <1>4. OpOK(k)'
    BY <1>0, <1>1, <1>2 DEF Apart, OpOK, Own
  <1>5. RunOK(k)'
    BY <1>0, <1>1 DEF Apart, RunOK, Own
  <1>6. FaultOK(k)'
    BY <1>0, <1>1, <1>3 DEF Apart, FaultOK
  <1>7. QED
    BY <1>4, <1>5, <1>6 DEF JobOK

\* The job that takes the step.
LEMMA OwnStep ==
    ASSUME IInv, NEW j \in Jobs, Step(j)
    PROVE  JobOK(j)'
  <1>0. OpOK(j) /\ RunOK(j) /\ FaultOK(j)
    BY DEF IInv
  <1>01. UNCHANGED alive /\ (faults > 0 => faults' > 0)
    BY Others, Types
  <1>02. /\ scope \in [Jobs -> Tenants \cup {NoTenant}]
         /\ run \in [Jobs -> Runs] /\ op \in [Jobs -> Op] /\ op[j] \in Op
         /\ fresh \in [Jobs -> BOOLEAN]
         /\ known \in [Jobs -> 0..MaxSaves \cup {NoRun}]
         /\ rows \in [Jobs -> [Tenants -> 0..MaxSaves]]
         /\ status \in [Jobs -> {"open", "settled", "failed"}]
         /\ TenantOf[j] \in Tenants /\ TenantOf[j] # NoTenant
         /\ Own(j) \in 0..MaxSaves
    BY Types DEF Own
  <1>03. NoRun # MaxSaves
    BY JobAssumption, BoundAssumption
  <1> USE DEF JobOK
  <1>1. CASE Ask(j) \/ Put(j)
    <2>1. PICK kind \in Kinds :
             /\ Enter(j, kind)
             /\ kind = "aget_tuple" <=> run[j] # "loaded"
             /\ run[j] # "over"
             /\ run[j] = "loaded" => known[j] < MaxSaves
      <3>1. CASE Ask(j)
        BY <3>1 DEF Ask, Kinds
      <3>2. CASE Put(j)
        <4>1. PICK kind \in {"aput", "aput_writes"} : Enter(j, kind)
          BY <3>2 DEF Put
        <4>2. kind \in Kinds /\ kind # "aget_tuple"
          BY DEF Kinds
        <4>3. run[j] = "loaded" /\ known[j] < MaxSaves
          BY <3>2 DEF Put
        <4>4. QED
          BY <4>1, <4>2, <4>3
      <3>3. QED
        BY <1>1, <3>1, <3>2
    <2>2. /\ op'[j] = NewOp(kind) /\ scope'[j] = TenantOf[j]
          /\ UNCHANGED <<run, fresh, known, rows, status, faults>>
      BY <1>02, <2>1 DEF Enter, taskVars
    <2>3. run[j] = "loaded" => known[j] # MaxSaves
      BY <1>0, <1>02, <2>1 DEF RunOK
    <2>4. OpOK(j)'
      BY <2>1, <2>2, <2>3 DEF OpOK, NewOp
    <2>5. RunOK(j)' /\ FaultOK(j)'
      BY <1>0, <1>01, <2>2 DEF RunOK, FaultOK, NewOp, Own
    <2>6. QED
      BY <2>4, <2>5
  <1>2. CASE Lock(j)
    <2>1. /\ op'[j].at = "set" /\ op'[j].kind = op[j].kind /\ op'[j].failed = op[j].failed
          /\ op[j].at = "wait"
          /\ UNCHANGED <<scope, run, fresh, known, rows, status, faults>>
      BY <1>02, <1>2 DEF Lock, taskVars, Op
    <2>2. QED
      BY <1>0, <1>01, <2>1 DEF OpOK, RunOK, FaultOK, Own
  <1>3. CASE SetTenant(j)
    <2>1. /\ op'[j].at = "sql" /\ op'[j].kind = op[j].kind /\ op'[j].failed = op[j].failed
          /\ op[j].at = "set" /\ setting' = scope[j]
          /\ UNCHANGED <<scope, run, fresh, known, rows, status, faults>>
      BY <1>02, <1>3 DEF SetTenant, taskVars, Op
    <2>2. QED
      BY <1>0, <1>01, <2>1 DEF OpOK, RunOK, FaultOK, Own
  <1>4. CASE Read(j)
    <2>1. Visible(j) = Own(j)
      BY <1>0, <1>02, <1>4 DEF Read, OpOK, Visible, Own
    <2>2. /\ op'[j].at = "reset" /\ op'[j].kind = op[j].kind /\ op'[j].failed = op[j].failed
          /\ op[j].at = "sql" /\ op'[j].found = Own(j)
          /\ UNCHANGED <<scope, run, fresh, known, rows, status, faults>>
      BY <1>02, <1>4, <2>1 DEF Read, taskVars, Op
    <2>3. QED
      BY <1>0, <1>01, <2>2 DEF OpOK, RunOK, FaultOK, Own
  <1>5. CASE SqlFails(j)
    <2>1. /\ op'[j].at = "reset" /\ op'[j].kind = op[j].kind /\ op'[j].failed = TRUE
          /\ op[j].at = "sql" /\ alive
          /\ UNCHANGED <<scope, run, fresh, known, rows, status>>
      BY <1>02, <1>5 DEF SqlFails, taskVars, Op
    <2>2. setting # NoTenant
      BY <1>0, <1>02, <2>1 DEF OpOK
    <2>3. faults' > 0
      BY <1>5, <2>2, Types DEF SqlFails
    <2>4. QED
      BY <1>0, <1>01, <2>1, <2>3 DEF OpOK, RunOK, FaultOK, Own
  <1>6. CASE Write(j)
    <2>1. /\ op[j].at = "sql" /\ op[j].kind # "aget_tuple" /\ setting = TenantOf[j]
          /\ run[j] = "loaded" /\ known[j] = Own(j)
      BY <1>0, <1>6 DEF Write, OpOK, RunOK
    <2>2. /\ op'[j].at = "reset" /\ op'[j].kind = op[j].kind /\ op'[j].failed = op[j].failed
          /\ UNCHANGED <<scope, run, fresh, status, faults>>
      BY <1>02, <1>6 DEF Write, Op
    <2>3. OpOK(j)'
      BY <1>0, <2>1, <2>2 DEF OpOK
    <2>4. known'[j] = Own(j)'
      BY <1>02, <1>6, <2>1 DEF Write, Own
    <2>5. QED
      BY <1>0, <1>01, <2>1, <2>2, <2>3, <2>4 DEF RunOK, FaultOK
  <1>7. CASE Reset(j) \/ Disconnected(j)
    <2>1. /\ op'[j] = NoOp /\ UNCHANGED <<rows, faults>>
          /\ op[j].at \in {"set", "sql", "reset"}
          /\ ~alive \/ op[j].failed => Raise(j)
          /\ alive /\ ~op[j].failed => Answer(j) /\ op[j].at = "reset"
      BY <1>02, <1>7 DEF Reset, Disconnected, Leave, InCursor
    <2>2. OpOK(j)'
      BY <2>1 DEF OpOK, NoOp
    <2>3. CASE Raise(j) /\ faults > 0
      <3>1. run'[j] = "over" /\ known'[j] = NoRun
        BY <1>02, <2>3 DEF Raise
      <3>2. RunOK(j)'
        BY <3>1 DEF RunOK
      <3>3. FaultOK(j)'
        BY <1>01, <2>3 DEF FaultOK
      <3>4. QED
        BY <2>2, <3>2, <3>3
    <2>4. CASE Answer(j) /\ alive /\ ~op[j].failed
      <3>1. run[j] # "loaded" => op[j].found = Own(j)
        BY <1>0, <2>1, <2>4 DEF OpOK
      <3>2. Own(j)' = Own(j)
        BY <2>1 DEF Own
      <3>3. CASE run[j] = "ready"
        <4>1. /\ run'[j] = "probed" /\ fresh'[j] = (op[j].found = 0)
              /\ UNCHANGED <<known, status>>
          BY <1>02, <2>4, <3>3 DEF Answer
        <4>2. known'[j] = NoRun
          BY <1>0, <3>3, <4>1 DEF RunOK
        <4>3. (fresh'[j] => Own(j)' = 0) /\ (~fresh'[j] => Own(j)' # 0)
          BY <3>1, <3>2, <3>3, <4>1
        <4>4. FaultOK(j)'
          BY <1>0, <1>01, <2>1, <4>1 DEF FaultOK, NoOp
        <4>5. QED
          BY <2>2, <4>1, <4>2, <4>3, <4>4 DEF RunOK
      <3>4. CASE run[j] = "probed"
        <4>1. fresh[j] \/ op[j].found # 0
          BY <1>0, <3>1, <3>4 DEF RunOK
        <4>2. /\ known'[j] = (IF fresh[j] THEN 0 ELSE op[j].found)
              /\ run'[j] = "loaded" /\ UNCHANGED <<fresh, status>>
          BY <1>02, <2>4, <3>4, <4>1 DEF Answer
        <4>3. known'[j] = Own(j)'
          BY <1>0, <3>1, <3>2, <3>4, <4>2 DEF RunOK
        <4>4. FaultOK(j)'
          BY <1>0, <1>01, <2>1, <4>2 DEF FaultOK, NoOp
        <4>5. QED
          BY <2>2, <4>2, <4>3, <4>4 DEF RunOK
      <3>5. CASE run[j] = "loaded"
        <4>1. UNCHANGED <<run, fresh, known, status>>
          BY <2>4, <3>5 DEF Answer, taskVars
        <4>2. FaultOK(j)'
          BY <1>0, <1>01, <2>1, <4>1 DEF FaultOK, NoOp
        <4>3. QED
          BY <1>0, <2>2, <3>2, <3>5, <4>1, <4>2 DEF RunOK
      <3>6. QED
        BY <2>4, <3>3, <3>4, <3>5 DEF Answer
    <2>5. QED
      BY <1>0, <2>1, <2>3, <2>4 DEF FaultOK
  <1>8. CASE Settle(j) \/ Resume(j)
    <2>1. /\ UNCHANGED <<scope, op, fresh, known, rows, setting, faults>>
          /\ UNCHANGED run \/ (run[j] = "over" /\ run'[j] = "ready")
          /\ status'[j] = "failed" => status[j] = "failed"
      BY <1>02, <1>8 DEF Settle, Resume, opVars, taskVars
    <2>2. run[j] = "over" => op[j].at = "idle"
      BY <1>0 DEF OpOK
    <2>3. OpOK(j)'
      BY <1>0, <1>01, <2>1, <2>2 DEF OpOK, Own
    <2>4. QED
      BY <1>0, <1>01, <2>1, <2>3 DEF RunOK, FaultOK, Own
  <1>9. CASE Finish(j)
    <2>1. /\ UNCHANGED <<scope, op, fresh, rows, setting, status, faults>>
          /\ op[j].at = "idle" /\ run'[j] = "over" /\ known'[j] = NoRun
      BY <1>02, <1>9 DEF Finish, opVars
    <2>2. QED
      BY <1>0, <1>01, <2>1 DEF OpOK, RunOK, FaultOK, Own
  <1>10. QED
    BY <1>1, <1>2, <1>3, <1>4, <1>5, <1>6, <1>7, <1>8, <1>9 DEF Step, Statement

-----------------------------------------------------------------------------
(***************************************************************************)
(* The specification.                                                      *)
(***************************************************************************)

\* Every step keeps the invariant.
LEMMA NextInv == IInv /\ [Next]_vars => IInv'
  <1> SUFFICES ASSUME IInv, [Next]_vars PROVE IInv'
    OBVIOUS
  <1>1. ASSUME NEW j \in Jobs, Step(j) PROVE IInv'
    BY <1>1, StepType, OthersStay, OwnStep DEF IInv, JobOK
  <1>2. CASE LoseConnection
    <2>1. /\ UNCHANGED <<holder, scope, run, op, fresh, known, rows, status, crashes>>
          /\ alive' = FALSE /\ setting' = NoTenant
      BY <1>2 DEF LoseConnection, opVars, taskVars
    <2>2. faults' \in 0..MaxFaults /\ faults' > 0
      BY <1>2, Types DEF LoseConnection
    <2>3. TypeOK'
      BY <2>1, <2>2 DEF IInv, TypeOK, InCursor
    <2>4. ASSUME NEW j \in Jobs PROVE OpOK(j)' /\ RunOK(j)' /\ FaultOK(j)'
      BY <2>1, <2>2 DEF IInv, OpOK, RunOK, FaultOK, Own
    <2>5. QED
      BY <2>3, <2>4 DEF IInv
  <1>3. CASE Restart
    <2>1. /\ UNCHANGED <<fresh, rows, status, faults>>
          /\ holder' = NoRun /\ scope' = [j \in Jobs |-> NoTenant]
          /\ op' = [j \in Jobs |-> NoOp] /\ known' = [j \in Jobs |-> NoRun]
          /\ run' = [j \in Jobs |-> IF status[j] = "open" THEN "ready" ELSE "over"]
          /\ alive' = TRUE /\ setting' = NoTenant
      BY <1>3 DEF Restart
    <2>2. crashes' \in 0..MaxCrashes
      BY <1>3, Types DEF Restart
    <2>3. NoOp \in Op /\ NoOp.at = "idle" /\ NoOp.failed = FALSE
      BY DEF NoOp, Op, Kinds
    <2>4. TypeOK'
      BY <2>1, <2>2, <2>3, Types DEF TypeOK, InCursor, Runs
    <2>5. ASSUME NEW j \in Jobs PROVE OpOK(j)' /\ RunOK(j)' /\ FaultOK(j)'
      BY <2>1, <2>3 DEF IInv, OpOK, RunOK, FaultOK, Own
    <2>6. QED
      BY <2>4, <2>5 DEF IInv
  <1>4. CASE UNCHANGED vars
    BY <1>4 DEF vars, opVars, taskVars, IInv, TypeOK, InCursor, OpOK, RunOK, FaultOK, Own
  <1>5. QED
    BY <1>1, <1>2, <1>3, <1>4 DEF Next, Step

\* The invariant holds throughout.
LEMMA Invariance == Spec => []IInv
  BY InitInv, NextInv, PTL DEF Spec

\* The state keeps its type; in particular the lock of the cursor is held by
\* the one operation between its first and its last statement (_cursor).
THEOREM TypeCorrect == Spec => []TypeOK
  BY Invariance, PTL DEF IInv

\* Whatever the jobs, tenants, failures and crashes: the SQL of an operation
\* runs under the tenant of its own job (TenantAwarePostgresSaver._cursor).
THEOREM OwnTenant == Spec => []SqlUnderOwnTenant
  <1>1. IInv => SqlUnderOwnTenant
    BY DEF IInv, OpOK, SqlUnderOwnTenant
  <1>2. QED
    BY <1>1, Invariance, PTL

\* The setting is made by the holder under its own tenant, kept until its last
\* statement and taken back with the lock or lost with the connection.
LEMMA SettingStep ==
    ASSUME IInv, SettingIsHolders, [Next]_vars
    PROVE  SettingIsHolders'
  <1>0. op \in [Jobs -> Op] /\ \A j \in Jobs : InCursor(j) <=> holder = j
    BY Types
  <1> USE DEF SettingIsHolders
  <1>1. ASSUME NEW j \in Jobs,
               Ask(j) \/ Put(j) \/ Lock(j) \/ Settle(j) \/ Finish(j) \/ Resume(j)
        PROVE  SettingIsHolders'
    <2>1. UNCHANGED <<setting, alive>> /\ (UNCHANGED holder \/ holder = NoRun)
      BY <1>1 DEF Ask, Put, Enter, Lock, Settle, Finish, Resume, opVars
    <2>2. CASE setting = NoTenant
      BY <2>1, <2>2
    <2>3. CASE setting # NoTenant
      <3>1. PICK k \in Jobs : /\ holder = k /\ op[k].at \in {"sql", "reset"}
                              /\ alive /\ setting = TenantOf[k]
        BY <2>3
      <3>2. holder' = holder /\ holder # NoRun
        BY <2>1, <3>1
      <3>3. op'[k].at = op[k].at
        <4>1. CASE Ask(j) \/ Put(j)
          BY <1>0, <3>1, <4>1 DEF Ask, Put, Enter
        <4>2. CASE Lock(j)
          BY <3>2, <4>2 DEF Lock
        <4>3. CASE Settle(j) \/ Finish(j) \/ Resume(j)
          BY <4>3 DEF Settle, Finish, Resume, opVars
        <4>4. QED
          BY <1>1, <4>1, <4>2, <4>3
      <3>4. QED
        BY <2>1, <3>1, <3>2, <3>3
    <2>4. QED
      BY <2>2, <2>3
  <1>2. ASSUME NEW j \in Jobs, SetTenant(j) PROVE SettingIsHolders'
    <2>1. holder = j /\ scope[j] = TenantOf[j]
      BY <1>0, <1>2 DEF SetTenant, InCursor, IInv, OpOK
    <2>2. op'[j].at = "sql" /\ alive' /\ holder' = j /\ setting' = TenantOf[j]
      BY <1>0, <1>2, <2>1 DEF SetTenant, Op
    <2>3. QED
      BY <2>2
  <1>3. ASSUME NEW j \in Jobs, Read(j) \/ Write(j) \/ SqlFails(j)
        PROVE  SettingIsHolders'
    <2>1. holder = j /\ UNCHANGED <<holder, setting, alive>>
      BY <1>0, <1>3 DEF Read, Write, SqlFails, InCursor
    <2>2. op'[j].at = "reset"
      BY <1>0, <1>3 DEF Read, Write, SqlFails, Op
    <2>3. QED
      BY <2>1, <2>2
  <1>4. ASSUME NEW j \in Jobs, Reset(j) PROVE SettingIsHolders'
    BY <1>4 DEF Reset
  <1>5. ASSUME NEW j \in Jobs, Disconnected(j) PROVE SettingIsHolders'
    BY <1>5 DEF Disconnected
  <1>6. CASE LoseConnection \/ Restart
    BY <1>6 DEF LoseConnection, Restart
  <1>7. CASE UNCHANGED vars
    BY <1>7 DEF vars, opVars
  <1>8. QED
    BY <1>1, <1>2, <1>3, <1>4, <1>5, <1>6, <1>7 DEF Next, Statement

\* The connection shows a tenant's rows only to the operation that holds it, for
\* any jobs, tenants, faults and crashes.
THEOREM CleanBetween == Spec => []SettingIsHolders
  <1>1. Init => SettingIsHolders
    BY DEF Init, SettingIsHolders
  <1>2. QED
    BY <1>1, SettingStep, Invariance, PTL DEF Spec

\* Only a failed statement or a lost connection makes run_locked_job fail a
\* job for its checkpoints.
THEOREM NoFailureWithoutFault == Spec => []FailureNeedsFault
  <1>1. IInv => FailureNeedsFault
    BY DEF IInv, FaultOK, FailureNeedsFault
  <1>2. QED
    BY <1>1, Invariance, PTL

-----------------------------------------------------------------------------
(***************************************************************************)
(* The checkpoints of each job are a CheckpointStore.                      *)
(***************************************************************************)

SavedOf == [j \in Jobs |-> Own(j)]

\* A step that changes no row and sends the runs of a set of jobs nowhere is a
\* step of the store.
LEMMA EndStep ==
    ASSUME IInv, NEW S \in SUBSET Jobs, UNCHANGED rows,
           known' = [j \in Jobs |-> IF j \in S THEN NoRun ELSE known[j]]
    PROVE  Store!Next
  BY DEF Store!Next, Store!End

\* A step of a job is a step of the store or leaves it alone.
LEMMA StepStore ==
    ASSUME IInv, NEW j \in Jobs, Step(j)
    PROVE  Store!Next \/ UNCHANGED <<rows, known>>
  <1>0. /\ op[j] \in Op /\ TenantOf[j] \in Tenants
        /\ known \in [Jobs -> 0..MaxSaves \cup {NoRun}]
        /\ rows \in [Jobs -> [Tenants -> 0..MaxSaves]]
    BY Types
  <1>1. CASE Ask(j) \/ Put(j) \/ Lock(j) \/ SetTenant(j) \/ Read(j) \/ SqlFails(j)
             \/ Settle(j) \/ Resume(j)
    BY <1>1 DEF Ask, Put, Enter, Lock, SetTenant, Read, SqlFails, Settle, Resume,
                opVars, taskVars
  <1>2. CASE Write(j) /\ op[j].kind = "aput"
    <2>1. setting = TenantOf[j] /\ run[j] = "loaded" /\ known[j] = Own(j)
      BY <1>2 DEF Write, IInv, OpOK, RunOK
    <2>2. /\ rows' = [rows EXCEPT ![j][TenantOf[j]] = Own(j) + 1]
          /\ known' = [known EXCEPT ![j] = Own(j) + 1]
      BY <1>2, <2>1 DEF Write
    <2>3. SavedOf' = [SavedOf EXCEPT ![j] = Own(j) + 1]
      BY <1>0, <2>2 DEF SavedOf, Own
    <2>4. Store!Save(j)
      BY <1>0, <2>1, <2>2, <2>3 DEF Store!Save, SavedOf, Own
    <2>5. QED
      BY <2>4 DEF Store!Next
  <1>3. CASE Write(j) /\ op[j].kind # "aput"
    BY <1>3 DEF Write
  <1>4. CASE (Reset(j) \/ Disconnected(j)) /\ Raise(j)
    <2>1. UNCHANGED rows /\ known' = [known EXCEPT ![j] = NoRun]
      BY <1>4 DEF Reset, Disconnected, Raise
    <2>2. known' = [k \in Jobs |-> IF k \in {j} THEN NoRun ELSE known[k]]
      BY <1>0, <2>1
    <2>3. QED
      BY <2>1, <2>2, EndStep
  <1>5. CASE Reset(j) /\ Answer(j) /\ alive /\ ~op[j].failed
    <2>1. UNCHANGED rows /\ op[j].at = "reset"
      BY <1>5 DEF Reset
    <2>2. CASE run[j] = "probed" /\ (fresh[j] \/ op[j].found > 0)
      <3>1. known[j] = NoRun /\ op[j].found = Own(j) /\ (fresh[j] => Own(j) = 0)
        BY <1>5, <2>1, <2>2 DEF IInv, OpOK, RunOK
      <3>2. known' = [known EXCEPT ![j] = Own(j)]
        BY <1>5, <2>2, <3>1 DEF Answer
      <3>3. Store!Begin(j)
        BY <2>1, <3>1, <3>2 DEF Store!Begin, Own
      <3>4. QED
        BY <3>3 DEF Store!Next
    <2>3. CASE ~(run[j] = "probed" /\ (fresh[j] \/ op[j].found > 0))
      BY <1>5, <2>1, <2>3 DEF Answer, taskVars
    <2>4. QED
      BY <2>2, <2>3
  <1>6. CASE Finish(j)
    <2>1. UNCHANGED rows /\ known' = [known EXCEPT ![j] = NoRun]
      BY <1>6 DEF Finish
    <2>2. known' = [k \in Jobs |-> IF k \in {j} THEN NoRun ELSE known[k]]
      BY <1>0, <2>1
    <2>3. QED
      BY <2>1, <2>2, EndStep
  <1>7. QED
    BY <1>1, <1>2, <1>3, <1>4, <1>5, <1>6 DEF Step, Statement, Reset, Disconnected

\* Every step of the saver is a step of the store or a stutter.
LEMMA NextStore == IInv /\ [Next]_vars => [Store!Next]_Store!vars
  <1> SUFFICES ASSUME IInv, [Next]_vars PROVE [Store!Next]_Store!vars
    OBVIOUS
  <1>1. ASSUME NEW j \in Jobs, Step(j) PROVE Store!Next \/ UNCHANGED <<rows, known>>
    BY <1>1, StepStore
  <1>2. CASE LoseConnection \/ UNCHANGED vars
    BY <1>2 DEF LoseConnection, vars, taskVars, Store!vars
  <1>3. CASE Restart
    <2>1. UNCHANGED rows /\ known' = [j \in Jobs |-> IF j \in Jobs THEN NoRun ELSE known[j]]
      BY <1>3 DEF Restart
    <2>2. QED
      BY <2>1, EndStep
  <1>4. QED
    BY <1>1, <1>2, <1>3 DEF Next, Step, Store!vars

\* Crash resumes, never restarts: a run begins where the checkpoints of its job
\* end and adds to them, whatever the other tenants' runs, failures and crashes
\* do (run_locked_job over TenantAwarePostgresSaver).
THEOREM Refinement == Spec => KeepsCheckpoints
  <1>1. Init => Store!Init
    BY DEF Init, Store!Init
  <1>2. QED
    BY <1>1, NextStore, Invariance, PTL DEF Spec, KeepsCheckpoints, Store!Spec
=============================================================================
