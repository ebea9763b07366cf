--------------------------- MODULE Console_proofs ---------------------------
(***************************************************************************)
(* Proofs about Console for any number of jobs, polls and faults.          *)
(***************************************************************************)
EXTENDS Console, TLAPS

\* As long as no two runs of generateJob overlap, one at most is under way,
\* and nothing polls while it is.
OneGenerates ==
    ~overlapped =>
        \A j, k \in Jobs :
            /\ Generating(j) /\ Generating(k) => j = k
            /\ Generating(j) => intervals = {}

IInv == TypeOK /\ WaitingIsWatched /\ LeakNeedsOverlap /\ OneGenerates

USE BoundAssumption

\* The first state satisfies the invariant.
LEMMA InitInv == Init => IInv
  <1> SUFFICES ASSUME Init PROVE IInv
    OBVIOUS
  <1> USE DEF Init
  <1>1. /\ gen \in [Jobs -> {"none", "posting", "first", "media", "over"}]
        /\ gets \in [Jobs -> [Slots -> Replies]]
        /\ job \in [Jobs -> Statuses] /\ lost \in [Jobs -> BOOLEAN]
    BY DEF Replies, Statuses
  <1>2. /\ pollTimer \in {0} \cup intervals /\ intervals \subseteq Jobs
        /\ \A j \in Jobs : gen[j] = "none" => job[j] = "NONE" /\ j \notin intervals
    OBVIOUS
  <1>3. faults \in 0..MaxFaults
    OBVIOUS
  <1>4. TypeOK
    BY <1>1, <1>2, <1>3 DEF TypeOK
  <1>5. QED
    BY <1>4 DEF IInv, WaitingIsWatched, LeakNeedsOverlap, OneGenerates, Generating

-----------------------------------------------------------------------------
(***************************************************************************)
(* Types.                                                                  *)
(***************************************************************************)

Step(j) ==
    \/ Click(j) \/ Answered(j) \/ Fails(j) \/ Advance(j) \/ Abandon(j) \/ RunAgain(j)
    \/ \E i \in Slots : Tick(j, i)

\* What a step of job j may do to the page and to its generateJob.
PageStep(j) ==
    /\ pollTimer' \in {0} \cup intervals' /\ intervals' \subseteq intervals \cup {j}
    /\ \E p \in {"posting", "first", "media", "over"} :
          gen' = gen \/ gen' = [gen EXCEPT ![j] = p]
    /\ j \in intervals' \ intervals => gen[j] = "first"

\* The page, by the parts of the code that touch it.
LEMMA PageMoves ==
    ASSUME IInv, NEW j \in Jobs, Step(j)
    PROVE  PageStep(j)
  <1>0. pollTimer \in {0} \cup intervals
    BY DEF IInv, TypeOK
  <1> USE DEF StopPoll, page, PageStep
  <1>1. CASE Click(j)
    BY <1>0, <1>1 DEF Click
  <1>2. CASE FirstReply(j)
    <2>1. CASE gets[j][0] = "progress"
      BY <1>0, <1>2, <2>1 DEF FirstReply
    <2>2. CASE gets[j][0] = "error"
      BY <1>0, <1>2, <2>2 DEF FirstReply
    <2>3. CASE gets[j][0] = "terminal"
      BY <1>0, <1>2, <2>3 DEF FirstReply
    <2>4. QED
      BY <1>2, <2>1, <2>2, <2>3 DEF FirstReply
  <1>3. CASE Posted(j) \/ MediaEnds(j) \/ CreateJob(j) \/ PostFails(j) \/ MediaFails(j)
             \/ Advance(j) \/ Abandon(j) \/ RunAgain(j)
    BY <1>0, <1>3 DEF Posted, MediaEnds, CreateJob, PostFails, MediaFails, Advance,
                      Abandon, RunAgain
  <1>4. ASSUME NEW i \in Slots,
               \/ PollReply(j, i) \/ Serve(j, i) \/ ServeError(j, i)
               \/ GetFails(j, i) \/ Tick(j, i)
        PROVE  PageStep(j)
    BY <1>0, <1>4 DEF PollReply, Serve, ServeError, GetFails, Tick
  <1>5. QED
    BY <1>1, <1>2, <1>3, <1>4 DEF Step, Answered, Fails

\* The button and the count of overlaps.
LEMMA FlagMoves ==
    ASSUME IInv, NEW j \in Jobs, Step(j)
    PROVE  /\ disabled' \in BOOLEAN /\ overlapped' \in BOOLEAN
           /\ UNCHANGED <<shotsOn, assembleOn>>
           /\ ~overlapped' => ~overlapped
           /\ ~overlapped' /\ Click(j) => \A k \in Jobs : ~Generating(k)
  <1>1. CASE Click(j)
    <2>1. overlapped' = (overlapped \/ \E k \in Jobs : Generating(k))
      BY <1>1 DEF Click
    <2>2. disabled' = TRUE /\ UNCHANGED <<shotsOn, assembleOn>>
      BY <1>1 DEF Click, flags
    <2>3. overlapped' \in BOOLEAN
      BY <2>1
    <2>4. ~overlapped' => ~overlapped /\ \A k \in Jobs : ~Generating(k)
      BY <2>1
    <2>5. QED
      BY <2>2, <2>3, <2>4
  <1>2. CASE ~Click(j)
    <2>1. UNCHANGED <<overlapped, shotsOn, assembleOn>> /\ disabled' \in {disabled, FALSE}
      BY <1>2 DEF Step, Answered, Fails, Posted, FirstReply, MediaEnds, CreateJob,
                  PollReply, Serve, PostFails, MediaFails, ServeError, GetFails,
                  Advance, Abandon, RunAgain, Tick, flags, page, StopPoll
    <2>2. disabled \in BOOLEAN /\ overlapped \in BOOLEAN
      BY DEF IInv, TypeOK
    <2>3. QED
      BY <1>2, <2>1, <2>2
  <1>3. QED
    BY <1>1, <1>2

\* The GETs and the jobs of the server.
LEMMA ServerMoves ==
    ASSUME IInv, NEW j \in Jobs, Step(j)
    PROVE  /\ gets' \in [Jobs -> [Slots -> Replies]]
           /\ job' \in [Jobs -> Statuses] /\ lost' \in [Jobs -> BOOLEAN]
           /\ \A k \in Jobs : k # j => job'[k] = job[k]
           /\ job'[j] # job[j] => gen[j] = "posting" \/ job[j] # "NONE"
           /\ faults' \in 0..MaxFaults
  <1>0. /\ gets \in [Jobs -> [Slots -> Replies]] /\ job \in [Jobs -> Statuses]
        /\ lost \in [Jobs -> BOOLEAN]
        /\ faults \in 0..MaxFaults
    BY DEF IInv, TypeOK
  <1>1. /\ gets' \in [Jobs -> [Slots -> Replies]]
    <2>1. \/ UNCHANGED gets
          \/ \E i \in Slots, r \in Replies : gets' = [gets EXCEPT ![j][i] = r]
      <3>1. 0 \in Slots
        BY DEF Slots
      <3>2. CASE Click(j) \/ MediaEnds(j) \/ MediaFails(j) \/ PostFails(j) \/ CreateJob(j)
        BY <3>2 DEF Click, MediaEnds, MediaFails, PostFails, CreateJob
      <3>3. CASE Advance(j) \/ Abandon(j) \/ RunAgain(j)
        BY <3>3 DEF Advance, Abandon, RunAgain
      <3>4. CASE Posted(j) \/ FirstReply(j)
        BY <3>1, <3>4 DEF Posted, FirstReply, Replies
      <3>5. ASSUME NEW i \in Slots,
                   \/ PollReply(j, i) \/ Serve(j, i) \/ ServeError(j, i)
                   \/ GetFails(j, i) \/ Tick(j, i)
            PROVE  \E r \in Replies : gets' = [gets EXCEPT ![j][i] = r]
        BY <3>5 DEF PollReply, Serve, ServeError, GetFails, Tick, Replies
      <3>6. QED
        BY <3>2, <3>3, <3>4, <3>5 DEF Step, Answered, Fails
    <2>2. ASSUME NEW i \in Slots, NEW r \in Replies, gets' = [gets EXCEPT ![j][i] = r]
          PROVE  gets' \in [Jobs -> [Slots -> Replies]]
      BY <1>0, <2>2
    <2>3. QED
      BY <1>0, <2>1, <2>2
  <1>2. CASE Advance(j) \/ CreateJob(j)
    <2>1. \E s \in Statuses : job' = [job EXCEPT ![j] = s]
      BY <1>2 DEF Advance, CreateJob, Statuses
    <2>2. UNCHANGED <<lost, faults>> /\ (gen[j] = "posting" \/ job[j] # "NONE")
      BY <1>2 DEF Advance, CreateJob
    <2>3. QED
      BY <1>0, <1>1, <2>1, <2>2
  <1>3. CASE Abandon(j) \/ RunAgain(j)
    <2>1. \E b \in BOOLEAN : lost' = [lost EXCEPT ![j] = b]
      BY <1>3 DEF Abandon, RunAgain
    <2>2. lost' \in [Jobs -> BOOLEAN]
      BY <1>0, <2>1
    <2>3. UNCHANGED <<job, faults>>
      BY <1>3 DEF Abandon, RunAgain
    <2>4. QED
      BY <1>0, <1>1, <2>2, <2>3
  <1>4. CASE ~(Advance(j) \/ CreateJob(j) \/ Abandon(j) \/ RunAgain(j))
    <2>1. UNCHANGED server
      BY <1>4 DEF Step, Answered, Fails, Click, Posted, FirstReply, MediaEnds, PollReply,
                  Serve, PostFails, MediaFails, ServeError, GetFails, Tick
    <2>2. UNCHANGED faults \/ (faults < MaxFaults /\ faults' = faults + 1)
      <3>1. CASE Click(j) \/ Posted(j) \/ FirstReply(j) \/ MediaEnds(j)
        BY <3>1 DEF Click, Posted, FirstReply, MediaEnds
      <3>2. CASE PostFails(j) \/ MediaFails(j)
        BY <3>2 DEF PostFails, MediaFails
      <3>3. ASSUME NEW i \in Slots,
                   \/ PollReply(j, i) \/ Serve(j, i) \/ ServeError(j, i)
                   \/ GetFails(j, i) \/ Tick(j, i)
            PROVE  UNCHANGED faults \/ (faults < MaxFaults /\ faults' = faults + 1)
        BY <3>3 DEF PollReply, Serve, ServeError, GetFails, Tick
      <3>4. QED
        BY <1>4, <3>1, <3>2, <3>3 DEF Step, Answered, Fails
    <2>3. faults' \in 0..MaxFaults
      BY <1>0, <2>2
    <2>4. QED
      BY <1>0, <1>1, <2>1, <2>3 DEF server
  <1>5. QED
    BY <1>2, <1>3, <1>4

\* A step of one job keeps the type.
LEMMA StepType ==
    ASSUME IInv, NEW j \in Jobs, Step(j)
    PROVE  TypeOK'
  <1>1. PICK p \in {"posting", "first", "media", "over"} :
           gen' = gen \/ gen' = [gen EXCEPT ![j] = p]
    BY PageMoves DEF PageStep
  <1>2. gen \in [Jobs -> {"none", "posting", "first", "media", "over"}]
    BY DEF IInv, TypeOK
  <1>3. gen' \in [Jobs -> {"none", "posting", "first", "media", "over"}]
    BY <1>1, <1>2
  <1>4. ASSUME NEW k \in Jobs, gen'[k] = "none"
        PROVE  job'[k] = "NONE" /\ k \notin intervals'
    <2>1. gen[k] = "none"
      BY <1>1, <1>2, <1>4
    <2>2. job[k] = "NONE" /\ k \notin intervals
      BY <2>1 DEF IInv, TypeOK
    <2>3. k \in intervals' => k = j /\ gen[j] = "first"
      BY <2>2, PageMoves DEF PageStep
    <2>4. QED
      BY <2>1, <2>2, <2>3, ServerMoves
  <1>5. intervals' \subseteq Jobs /\ pollTimer' \in {0} \cup intervals'
    BY PageMoves DEF PageStep, IInv, TypeOK
  <1>6. shotsOn' \in BOOLEAN /\ assembleOn' \in BOOLEAN
    BY FlagMoves DEF IInv, TypeOK
  <1>7. QED
    BY <1>3, <1>4, <1>5, <1>6, FlagMoves, ServerMoves DEF TypeOK

-----------------------------------------------------------------------------
(***************************************************************************)
(* The wait of the button.                                                 *)
(***************************************************************************)

\* Whoever waits still waits for something after a step of one job.
LEMMA StepWatched ==
    ASSUME IInv, NEW j \in Jobs, Step(j)
    PROVE  WaitingIsWatched'
  <1>0. /\ disabled => (\E k \in Jobs : Generating(k)) \/ pollTimer # 0
        /\ gen \in [Jobs -> {"none", "posting", "first", "media", "over"}]
        /\ j # 0
    BY DEF IInv, TypeOK, WaitingIsWatched, Jobs
  <1> USE DEF WaitingIsWatched, Generating
  <1>1. CASE Click(j)
    BY <1>0, <1>1 DEF Click
  <1>2. CASE Posted(j)
    BY <1>0, <1>2 DEF Posted, page
  <1>3. CASE FirstReply(j)
    <2>1. disabled' = FALSE \/ pollTimer' = j
      BY <1>3 DEF FirstReply
    <2>2. QED
      BY <1>0, <2>1
  <1>4. CASE PostFails(j) \/ MediaFails(j)
    BY <1>4 DEF PostFails, MediaFails
  <1>5. CASE MediaEnds(j)
    <2>1. gen[j] = "media" /\ gen' = [gen EXCEPT ![j] = "over"] /\ UNCHANGED page
      BY <1>5 DEF MediaEnds
    <2>2. \A k \in Jobs : Generating(k) => Generating(k)'
      BY <1>0, <2>1
    <2>3. QED
      BY <1>0, <2>1, <2>2 DEF page
  <1>6. CASE CreateJob(j) \/ Advance(j) \/ Abandon(j) \/ RunAgain(j)
    BY <1>0, <1>6 DEF CreateJob, Advance, Abandon, RunAgain, page
  <1>7. ASSUME NEW i \in Slots, PollReply(j, i) \/ GetFails(j, i)
        PROVE  WaitingIsWatched'
    <2>1. disabled' = FALSE \/ UNCHANGED <<disabled, pollTimer, gen>>
      BY <1>7 DEF PollReply, GetFails, page
    <2>2. QED
      BY <1>0, <2>1
  <1>8. ASSUME NEW i \in Slots, Serve(j, i) \/ ServeError(j, i) \/ Tick(j, i)
        PROVE  WaitingIsWatched'
    BY <1>0, <1>8 DEF Serve, ServeError, Tick, page
  <1>9. QED
    BY <1>1, <1>2, <1>3, <1>4, <1>5, <1>6, <1>7, <1>8 DEF Step, Answered, Fails

-----------------------------------------------------------------------------
(***************************************************************************)
(* Intervals nobody can clear.                                             *)
(***************************************************************************)

\* Without an overlap the page knows of every interval.
LEMMA StepLeak ==
    ASSUME IInv, NEW j \in Jobs, Step(j)
    PROVE  LeakNeedsOverlap' /\ OneGenerates'
  <1> SUFFICES ASSUME ~overlapped'
               PROVE  /\ intervals' \subseteq {pollTimer'}
                      /\ \A k, m \in Jobs :
                            /\ Generating(k)' /\ Generating(m)' => k = m
                            /\ Generating(k)' => intervals' = {}
    BY DEF LeakNeedsOverlap, OneGenerates
  <1>0. /\ intervals \subseteq {pollTimer}
        /\ \A k, m \in Jobs :
              /\ Generating(k) /\ Generating(m) => k = m
              /\ Generating(k) => intervals = {}
        /\ gen \in [Jobs -> {"none", "posting", "first", "media", "over"}]
        /\ Click(j) => \A k \in Jobs : ~Generating(k)
    BY FlagMoves DEF IInv, TypeOK, LeakNeedsOverlap, OneGenerates
  <1>1. CASE Click(j)
    <2>1. intervals' = {} /\ gen' = [gen EXCEPT ![j] = "posting"]
      BY <1>0, <1>1 DEF Click, StopPoll
    <2>2. \A k \in Jobs : Generating(k)' => k = j
      BY <1>0, <1>1, <2>1 DEF Generating
    <2>3. QED
      BY <2>1, <2>2
  <1>2. CASE FirstReply(j)
    <2>1. Generating(j) /\ intervals = {}
      BY <1>0, <1>2 DEF FirstReply, Generating
    <2>2. /\ \E p \in {"media", "over"} : gen' = [gen EXCEPT ![j] = p]
          /\ intervals' \subseteq {pollTimer'}
      BY <1>2, <2>1 DEF FirstReply, StopPoll
    <2>3. \A k \in Jobs : ~Generating(k)'
      BY <1>0, <2>1, <2>2 DEF Generating
    <2>4. QED
      BY <2>2, <2>3
  <1>3. CASE ~Click(j) /\ ~FirstReply(j)
    <2>1. /\ \A k \in Jobs : Generating(k)' => Generating(k)
          /\ (UNCHANGED <<intervals, pollTimer>>) \/ intervals' = {}
      <3>1. CASE Posted(j) \/ MediaEnds(j) \/ CreateJob(j) \/ PostFails(j)
                 \/ MediaFails(j) \/ Advance(j) \/ Abandon(j) \/ RunAgain(j)
        BY <1>0, <3>1 DEF Posted, MediaEnds, CreateJob, PostFails, MediaFails, Advance,
                          Abandon, RunAgain,
                          Generating, page
      <3>2. ASSUME NEW i \in Slots, PollReply(j, i)
            PROVE  /\ UNCHANGED gen
                   /\ (UNCHANGED <<intervals, pollTimer>>) \/ intervals' = {}
        BY <1>0, <3>2 DEF PollReply, Generating, page, StopPoll
      <3>3. ASSUME NEW i \in Slots, Serve(j, i) \/ ServeError(j, i) \/ Tick(j, i)
            PROVE  UNCHANGED <<gen, intervals, pollTimer>>
        BY <3>3 DEF Serve, ServeError, Tick, page
      <3>4. ASSUME NEW i \in Slots, GetFails(j, i)
            PROVE  /\ UNCHANGED <<intervals, pollTimer>>
                   /\ gen' \in {gen, [gen EXCEPT ![j] = "over"]}
        BY <3>4 DEF GetFails
      <3>5. QED
        BY <1>0, <1>3, <3>1, <3>2, <3>3, <3>4 DEF Step, Answered, Fails, Generating
    <2>2. QED
      BY <1>0, <2>1
  <1>4. QED
    BY <1>1, <1>2, <1>3

-----------------------------------------------------------------------------
(***************************************************************************)
(* The specification.                                                      *)
(***************************************************************************)

\* Every step keeps the invariant.
LEMMA NextInv == IInv /\ [Next]_vars => IInv'
  <1> SUFFICES ASSUME IInv, [Next]_vars PROVE IInv'
    OBVIOUS
  <1>1. ASSUME NEW j \in Jobs, Step(j) PROVE IInv'
    BY <1>1, StepType, StepWatched, StepLeak DEF IInv
  <1>2. CASE UNCHANGED vars
    BY <1>2 DEF vars, flags, page, server, IInv, TypeOK, WaitingIsWatched,
                LeakNeedsOverlap, OneGenerates, Generating
  <1>3. QED
    BY <1>1, <1>2 DEF Next, Step

\* The invariant holds throughout.
LEMMA Invariance == Spec => []IInv
  BY InitInv, NextInv, PTL DEF Spec

\* The state keeps its type; in particular the page's handle always names an
\* interval that is running (state.pollTimer of console.js).
THEOREM TypeCorrect == Spec => []TypeOK
  BY Invariance, PTL DEF IInv

\* However many jobs, late answers and failures: a disabled Generate button has
\* a generateJob under way or a known interval that will enable it (generate,
\* generateJob and refreshJob of console.js).
THEOREM Watched == Spec => []WaitingIsWatched
  BY Invariance, PTL DEF IInv

\* An interval that stopPoll cannot reach needs two runs of generateJob at a
\* time (stopPoll and generateJob of console.js).
THEOREM LeakFree == Spec => []LeakNeedsOverlap
  BY Invariance, PTL DEF IInv
=============================================================================
