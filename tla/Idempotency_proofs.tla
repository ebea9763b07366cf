------------------------- MODULE Idempotency_proofs -------------------------
(***************************************************************************)
(* For any number of requests with any bodies, faults, crashes and deleted *)
(* jobs: one job per key, and Idempotency implements KeyedOnce.            *)
(***************************************************************************)
EXTENDS Idempotency, TLAPS

\* The open transaction is that of the one request about to commit, and the
\* key is free.
OpenCommits ==
    /\ \A r \in Requests : pc[r] = "commit" <=> open = r
    /\ open # "none" => row = "none"

\* A request has claimed the key once it has committed, and never before.
ClaimedCommitted ==
    \A r \in Requests :
        /\ r \in claimed => pc[r] \in {"mirror", "progress", "answered"}
        /\ pc[r] \in {"mirror", "progress"} => r \in claimed

\* What the key or its mirror names, or a request has read, was committed.
NamesClaimed ==
    /\ {row, mirror} \ {"none"} \subseteq claimed
    /\ \A r \in Requests : seen[r] # "none" => seen[r] \in claimed

\* A request goes to look at a job only if the job has its own body.
SeenIsSame ==
    \A r \in Requests :
        pc[r] \in {"verify", "load"} => Body[seen[r]] = Body[r]

IInv ==
    /\ TypeOK
    /\ OneJobPerKey
    /\ OpenCommits
    /\ ClaimedCommitted
    /\ NamesClaimed
    /\ SeenIsSame
    /\ CreatedIsScheduled

USE RequestAssumption, BoundAssumption DEF Words, Waiting

-----------------------------------------------------------------------------
\* No job, no key and no request under way.
LEMMA InitOK == Init => IInv
BY DEF Init, IInv, TypeOK, OneJobPerKey, OpenCommits, ClaimedCommitted,
    NamesClaimed, SeenIsSame, CreatedIsScheduled

\* A request that takes a step which only reads, to a place where it holds
\* nothing, or which ends it with an answer.
LEMMA ReadStep ==
    ASSUME IInv, NEW r \in Requests,
           GetMirror(r) \/ Verify(r) \/ Lookup(r) \/ Load(r)
    PROVE  IInv'
<1>1. CASE GetMirror(r)
    BY <1>1 DEF GetMirror, At, Go, See, Answer, bounds, IInv, TypeOK,
        OneJobPerKey, OpenCommits, ClaimedCommitted, NamesClaimed, SeenIsSame,
        CreatedIsScheduled
<1>2. CASE Verify(r)
    BY <1>2 DEF Verify, At, Go, Answer, bounds, IInv, TypeOK, OneJobPerKey,
        OpenCommits, ClaimedCommitted, NamesClaimed, SeenIsSame,
        CreatedIsScheduled
<1>3. CASE Lookup(r)
    BY <1>3 DEF Lookup, At, Go, See, Answer, bounds, IInv, TypeOK,
        OneJobPerKey, OpenCommits, ClaimedCommitted, NamesClaimed, SeenIsSame,
        CreatedIsScheduled
<1>4. CASE Load(r)
    BY <1>4 DEF Load, At, Answer, bounds, IInv, TypeOK, OneJobPerKey,
        OpenCommits, ClaimedCommitted, NamesClaimed, SeenIsSame,
        CreatedIsScheduled
<1>5. QED
    BY <1>1, <1>2, <1>3, <1>4

\* A request that takes a step which writes.
LEMMA WriteStep ==
    ASSUME IInv, NEW r \in Requests,
           \/ Post(r) \/ DropMirror(r) \/ Insert(r) \/ Commit(r) \/ Mirror(r)
           \/ Progress(r)
    PROVE  IInv'
<1>1. CASE Post(r)
    BY <1>1 DEF Post, At, Go, bounds, IInv, TypeOK, OneJobPerKey, OpenCommits,
        ClaimedCommitted, NamesClaimed, SeenIsSame, CreatedIsScheduled
<1>2. CASE DropMirror(r)
    BY <1>2 DEF DropMirror, At, Go, bounds, IInv, TypeOK, OneJobPerKey,
        OpenCommits, ClaimedCommitted, NamesClaimed, SeenIsSame,
        CreatedIsScheduled
<1>3. CASE Insert(r)
    BY <1>3 DEF Insert, At, Go, bounds, IInv, TypeOK, OneJobPerKey,
        OpenCommits, ClaimedCommitted, NamesClaimed, SeenIsSame,
        CreatedIsScheduled
<1>4. CASE Commit(r)
    BY <1>4 DEF Commit, Committed, At, Go, bounds, IInv, TypeOK, OneJobPerKey,
        OpenCommits, ClaimedCommitted, NamesClaimed, SeenIsSame,
        CreatedIsScheduled
<1>5. CASE Mirror(r)
    BY <1>5 DEF Mirror, At, Go, bounds, IInv, TypeOK, OneJobPerKey,
        OpenCommits, ClaimedCommitted, NamesClaimed, SeenIsSame,
        CreatedIsScheduled
<1>6. CASE Progress(r)
    BY <1>6 DEF Progress, At, Answer, bounds, IInv, TypeOK, OneJobPerKey,
        OpenCommits, ClaimedCommitted, NamesClaimed, SeenIsSame,
        CreatedIsScheduled
<1>7. QED
    BY <1>1, <1>2, <1>3, <1>4, <1>5, <1>6

\* A call that raises ends its request; its transaction is rolled back or, if
\* it was the COMMIT, may have been carried out.
LEMMA FaultStep ==
    ASSUME IInv, NEW r \in Requests, Fault(r)
    PROVE  IInv'
BY DEF Fault, Committed, RolledBack, At, Answer, IInv, TypeOK, OneJobPerKey,
    OpenCommits, ClaimedCommitted, NamesClaimed, SeenIsSame, CreatedIsScheduled

\* A restart ends every request and leaves no transaction open.
LEMMA RestartStep == IInv /\ Restart => IInv'
BY DEF Restart, IInv, TypeOK, OneJobPerKey, OpenCommits, ClaimedCommitted,
    NamesClaimed, SeenIsSame, CreatedIsScheduled

\* The mirror may vanish at any time; a job goes together with its key.
LEMMA OutsideStep == IInv /\ (MirrorExpires \/ DeleteJob) => IInv'
<1>1. ASSUME IInv, MirrorExpires PROVE IInv'
    BY <1>1 DEF MirrorExpires, bounds, IInv, TypeOK, OneJobPerKey, OpenCommits,
        ClaimedCommitted, NamesClaimed, SeenIsSame, CreatedIsScheduled
<1>2. ASSUME IInv, DeleteJob PROVE IInv'
    BY <1>2 DEF DeleteJob, IInv, TypeOK, OneJobPerKey, OpenCommits,
        ClaimedCommitted, NamesClaimed, SeenIsSame, CreatedIsScheduled
<1>3. QED
    BY <1>1, <1>2

LEMMA StepOK == IInv /\ [Next]_vars => IInv'
<1> SUFFICES ASSUME IInv, [Next]_vars PROVE IInv'
    OBVIOUS
<1>1. CASE UNCHANGED vars
    BY <1>1 DEF vars, IInv, TypeOK, OneJobPerKey, OpenCommits,
        ClaimedCommitted, NamesClaimed, SeenIsSame, CreatedIsScheduled
<1>2. CASE Next
    BY <1>2, ReadStep, WriteStep, FaultStep, RestartStep, OutsideStep
        DEF Next, Step
<1>3. QED
    BY <1>1, <1>2

\* The inductive invariant of every run.
THEOREM Invariant == Spec => []IInv
BY InitOK, StepOK, PTL DEF Spec

\* A request looks for a job only when it has read of one, and has an answer
\* exactly when it has ended, for any number of requests.
THEOREM TypeCorrect == Spec => []TypeOK
BY Invariant, PTL DEF IInv

\* Racing, failing and retried POSTs with one key leave one job at most, and
\* the row of the key names it.
THEOREM OneJob == Spec => []OneJobPerKey
BY Invariant, PTL DEF IInv

\* Whoever waits for the key waits for one request, which is about to commit: the
\* requests never wait for each other in a circle, nor for one that has ended.
THEOREM NoDeadlock == Spec => []InsertWaitsForCommit
<1>1. IInv => InsertWaitsForCommit
    BY DEF IInv, TypeOK, OpenCommits, InsertWaitsForCommit
<1>2. QED
    BY <1>1, Invariant, PTL

\* Only a POST that failed leaves behind a job that no task was scheduled for.
THEOREM CreatedHasTask == Spec => []CreatedIsScheduled
BY Invariant, PTL DEF IInv

-----------------------------------------------------------------------------
(***************************************************************************)
(* Refinement: row, claimed and answer are those of KeyedOnce.             *)
(***************************************************************************)

\* A request that ends is told something the promise allows.
LEMMA AnswersAllowed ==
    ASSUME IInv, NEW r \in Requests,
           GetMirror(r) \/ Verify(r) \/ Lookup(r) \/ Load(r) \/ Progress(r)
    PROVE  Promise!Next \/ UNCHANGED <<row, claimed, answer>>
<1> USE DEF Promise!Tell, At, Go, See, Answer, bounds
<1>1. ASSUME pc[r] \in Waiting PROVE answer[r] = "none"
    BY <1>1 DEF IInv, TypeOK
<1>2. CASE GetMirror(r)
  <2>1. CASE mirror # "none" /\ Body[mirror] # Body[r]
    <3>1. Promise!Mismatch(r)
        BY <1>1, <1>2, <2>1 DEF GetMirror, Promise!Mismatch, IInv, NamesClaimed
    <3>2. QED
        BY <3>1 DEF Promise!Next
  <2>2. CASE mirror = "none" \/ Body[mirror] = Body[r]
    BY <1>2, <2>2 DEF GetMirror
  <2>3. QED
    BY <2>1, <2>2
<1>3. CASE Verify(r)
  <2>1. CASE seen[r] \in jobs
    <3>1. row = seen[r] /\ row # "none" /\ Body[row] = Body[r]
        BY <1>3, <2>1 DEF Verify, IInv, OneJobPerKey, SeenIsSame, TypeOK
    <3>2. Promise!Replay(r)
        BY <1>1, <1>3, <2>1, <3>1 DEF Verify, Promise!Replay
    <3>3. QED
        BY <3>2 DEF Promise!Next
  <2>2. CASE seen[r] \notin jobs
    BY <1>3, <2>2 DEF Verify
  <2>3. QED
    BY <2>1, <2>2
<1>4. CASE Lookup(r)
  <2>1. CASE row = "none"
    <3>1. Promise!Refuse(r)
        BY <1>1, <1>4, <2>1 DEF Lookup, Promise!Refuse
    <3>2. QED
        BY <3>1 DEF Promise!Next
  <2>2. CASE row # "none" /\ Body[row] # Body[r]
    <3>1. Promise!Mismatch(r)
        BY <1>1, <1>4, <2>2 DEF Lookup, Promise!Mismatch, IInv, NamesClaimed
    <3>2. QED
        BY <3>1 DEF Promise!Next
  <2>3. CASE row # "none" /\ Body[row] = Body[r]
    BY <1>4, <2>3 DEF Lookup
  <2>4. QED
    BY <2>1, <2>2, <2>3
<1>5. CASE Load(r)
  <2>1. CASE seen[r] \in jobs
    <3>1. row = seen[r] /\ row # "none" /\ Body[row] = Body[r]
        BY <1>5, <2>1 DEF Load, IInv, OneJobPerKey, SeenIsSame, TypeOK
    <3>2. Promise!Replay(r)
        BY <1>1, <1>5, <2>1, <3>1 DEF Load, Promise!Replay
    <3>3. QED
        BY <3>2 DEF Promise!Next
  <2>2. CASE seen[r] \notin jobs
    <3>1. Promise!Refuse(r)
        BY <1>1, <1>5, <2>2 DEF Load, Promise!Refuse
    <3>2. QED
        BY <3>1 DEF Promise!Next
  <2>3. QED
    BY <2>1, <2>2
<1>6. CASE Progress(r)
  <2>1. Promise!Created(r)
    BY <1>1, <1>6 DEF Progress, Promise!Created, IInv, ClaimedCommitted
  <2>2. QED
    BY <2>1 DEF Promise!Next
<1>7. QED
    BY <1>2, <1>3, <1>4, <1>5, <1>6

\* The COMMIT is the claim, also when its request never hears of it.
LEMMA CommitClaims ==
    ASSUME IInv, NEW r \in Requests, Commit(r) \/ Fault(r)
    PROVE  Promise!Next
<1> USE DEF Promise!Tell, At, Go, Answer
<1>1. ASSUME pc[r] \in Waiting PROVE answer[r] = "none"
    BY <1>1 DEF IInv, TypeOK
<1>2. ASSUME pc[r] = "commit" PROVE row = "none" /\ r \notin claimed
    BY <1>2 DEF IInv, OpenCommits, ClaimedCommitted
<1>3. CASE Commit(r)
  <2>1. Promise!Claim(r)
    BY <1>2, <1>3 DEF Commit, Committed, Promise!Claim
  <2>2. QED
    BY <2>1 DEF Promise!Next
<1>4. CASE Fault(r)
  <2>1. CASE pc[r] = "commit" /\ Committed(r)
    <3>1. Promise!Claim(r)
        BY <1>1, <1>2, <1>4, <2>1 DEF Fault, Committed, Promise!Claim
    <3>2. QED
        BY <3>1 DEF Promise!Next
  <2>2. CASE UNCHANGED <<row, claimed>>
    <3>1. Promise!Refuse(r)
        BY <1>1, <1>4, <2>2 DEF Fault, Promise!Refuse
    <3>2. QED
        BY <3>1 DEF Promise!Next
  <2>3. QED
    BY <1>4, <2>1, <2>2 DEF Fault
<1>5. QED
    BY <1>3, <1>4

\* A restart hangs up on the requests under way; a deleted job is forgotten.
LEMMA OutsideAllowed ==
    ASSUME IInv, Restart \/ DeleteJob
    PROVE  Promise!Next
<1>1. CASE Restart
  <2> DEFINE lost == {r \in Requests : pc[r] \in Waiting}
  <2>1. lost \in SUBSET {r \in Requests : answer[r] = "none"}
    BY DEF IInv, TypeOK
  <2>2. answer' = [r \in Requests |-> IF r \in lost THEN "error" ELSE answer[r]]
    BY <1>1 DEF Restart
  <2> HIDE DEF lost
  <2>3. Promise!HangUp
    BY <1>1, <2>1, <2>2 DEF Restart, Promise!HangUp
  <2>4. QED
    BY <2>3 DEF Promise!Next
<1>2. CASE DeleteJob
  <2>1. Promise!Forget
    BY <1>2 DEF DeleteJob, Promise!Forget, IInv, OneJobPerKey
  <2>2. QED
    BY <2>1 DEF Promise!Next
<1>3. QED
    BY <1>1, <1>2

\* Idempotency implements KeyedOnce: whatever path a POST takes, it is told
\* the job the key stands for, or that its body differs, or of an error.
THEOREM Refinement == Spec => KeepsPromise
<1>1. Init => Promise!Init
    BY DEF Init, Promise!Init
<1>2. IInv /\ [Next]_vars => [Promise!Next]_<<row, claimed, answer>>
  <2> SUFFICES ASSUME IInv, [Next]_vars
               PROVE  Promise!Next \/ UNCHANGED <<row, claimed, answer>>
    OBVIOUS
  <2>1. CASE UNCHANGED vars
    BY <2>1 DEF vars
  <2>2. ASSUME NEW r \in Requests, Post(r) \/ Step(r) \/ Fault(r)
        PROVE  Promise!Next \/ UNCHANGED <<row, claimed, answer>>
    <3>1. CASE Post(r) \/ DropMirror(r) \/ Insert(r) \/ Mirror(r)
        BY <3>1 DEF Post, DropMirror, Insert, Mirror, Go
    <3>2. CASE Commit(r) \/ Fault(r)
        BY <3>2, CommitClaims
    <3>3. CASE GetMirror(r) \/ Verify(r) \/ Lookup(r) \/ Load(r) \/ Progress(r)
        BY <3>3, AnswersAllowed
    <3>4. QED
        BY <2>2, <3>1, <3>2, <3>3 DEF Step
  <2>3. CASE Restart \/ DeleteJob
    BY <2>3, OutsideAllowed
  <2>4. CASE MirrorExpires
    BY <2>4 DEF MirrorExpires
  <2>5. QED
    BY <2>1, <2>2, <2>3, <2>4 DEF Next
<1>3. QED
    BY Invariant, <1>1, <1>2, PTL DEF Spec, KeepsPromise, Promise!Spec
=============================================================================
