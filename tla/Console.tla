------------------------------ MODULE Console ------------------------------
(***************************************************************************)
(* The test console of app/static/console.js: the Generate button, the one *)
(* poll timer, and the requests of all jobs generated so far, whose        *)
(* answers arrive in any order while new jobs are started.  The server     *)
(* side of a job is JobStatus, with the features /ui/config tells.  What   *)
(* is written on the page is left out.                                     *)
(***************************************************************************)
EXTENDS Integers, FiniteSets

CONSTANTS
    NJobs,      \* jobs the user may ask for, one after the other
    MaxGets,    \* bound on the polls of one job in flight
    MaxFaults   \* bound on requests that fail

ASSUME BoundAssumption ==
    NJobs \in Nat /\ MaxGets \in Nat \ {0} /\ MaxFaults \in Nat

VARIABLES
    shotsOn, assembleOn,    \* feature flags, read once by boot
    disabled,   \* the Generate button
    pollTimer,  \* state.pollTimer: the job its interval refreshes, or 0
    intervals,  \* the jobs whose interval was set and never cleared
    gen,        \* where generateJob of each job is
    gets,       \* the GETs of each job; the first, 0, is generateJob's own
    job,        \* jobs.status
    lost,       \* jobs whose task ended and left them where they were
    overlapped, \* a job was asked for while generateJob of another ran
    faults

vars == <<shotsOn, assembleOn, disabled, pollTimer, intervals, gen, gets, job,
          lost, overlapped, faults>>
page == <<disabled, pollTimer, intervals>>
server == <<job, lost>>
flags == <<shotsOn, assembleOn>>

Jobs == 1..NJobs

Server(j) == INSTANCE JobStatus WITH status <- job[j]

-----------------------------------------------------------------------------
\* The end of everything that can be reached when the features are on.
Ends == {"DELIVERED", "PARTIAL", "FAILED", "FAILED_NO_PROGRESS"}
Statuses == {"NONE", "QUEUED", "RUNNING", "BIBLE_LOCKED", "SHOTS_READY"} \cup Ends

\* Mutant: SHOTS_READY counts as a step on the way.
IsTerminalAssembled(s) == s \in Ends \/ (s = "BIBLE_LOCKED" /\ ~shotsOn)

\* isTerminal, with the flags it consults.
IsTerminal(s) ==
    \/ s \in Ends
    \/ s = "SHOTS_READY" /\ ~assembleOn
    \/ s = "BIBLE_LOCKED" /\ ~shotsOn

\* A GET is not sent, waits for the server, or has an answer that refreshJob
\* has not seen: an error, a terminal status or another.
Replies == {"unsent", "sent", "error", "terminal", "progress"}

Slots == 0..MaxGets

TypeOK ==
    /\ shotsOn \in BOOLEAN /\ assembleOn \in BOOLEAN
    /\ disabled \in BOOLEAN /\ overlapped \in BOOLEAN
    /\ pollTimer \in {0} \cup intervals /\ intervals \subseteq Jobs
    /\ gen \in [Jobs -> {"none", "posting", "first", "media", "over"}]
    /\ gets \in [Jobs -> [Slots -> Replies]]
    /\ job \in [Jobs -> Statuses] /\ lost \in [Jobs -> BOOLEAN]
    /\ \A j \in Jobs : gen[j] = "none" => job[j] = "NONE" /\ j \notin intervals
    /\ faults \in 0..MaxFaults

Init ==
    /\ shotsOn \in BOOLEAN /\ assembleOn \in BOOLEAN
    /\ disabled = FALSE /\ pollTimer = 0 /\ intervals = {}
    /\ gen = [j \in Jobs |-> "none"]
    /\ gets = [j \in Jobs |-> [i \in Slots |-> "unsent"]]
    /\ job = [j \in Jobs |-> "NONE"] /\ lost = [j \in Jobs |-> FALSE]
    /\ overlapped = FALSE /\ faults = 0

-----------------------------------------------------------------------------
(***************************************************************************)
(* Timers.                                                                 *)
(***************************************************************************)

StopPoll == pollTimer' = 0 /\ intervals' = intervals \ {pollTimer}

\* What may still end the wait of a disabled button.
Generating(j) == gen[j] \in {"posting", "first"}

-----------------------------------------------------------------------------
(***************************************************************************)
(* generateJob.                                                            *)
(***************************************************************************)

\* Mutant: the timer of the job before goes on.
ClickKeepsPolling(j) ==
    /\ ~disabled /\ gen[j] = "none" /\ \A k \in 1..(j - 1) : gen[k] # "none"
    /\ disabled' = TRUE /\ UNCHANGED <<pollTimer, intervals>>
    /\ gen' = [gen EXCEPT ![j] = "posting"]
    /\ overlapped' = (overlapped \/ \E k \in Jobs : Generating(k))
    /\ UNCHANGED <<flags, gets, server, faults>>

\* A click on Generate, and the POST it sends.
Click(j) ==
    /\ ~disabled /\ gen[j] = "none" /\ \A k \in 1..(j - 1) : gen[k] # "none"
    /\ disabled' = TRUE /\ StopPoll
    /\ gen' = [gen EXCEPT ![j] = "posting"]
    /\ overlapped' = (overlapped \/ \E k \in Jobs : Generating(k))
    /\ UNCHANGED <<flags, gets, server, faults>>

\* The POST is answered, and generateJob asks for the job.
Posted(j) ==
    /\ gen[j] = "posting" /\ job[j] # "NONE"
    /\ gen' = [gen EXCEPT ![j] = "first"]
    /\ gets' = [gets EXCEPT ![j][0] = "sent"]
    /\ UNCHANGED <<flags, page, server, overlapped, faults>>

\* The answer of the POST is an error, or fetch rejects and generate catches
\* it; the job may have been created.
PostFails(j) ==
    /\ gen[j] = "posting" /\ faults < MaxFaults
    /\ faults' = faults + 1
    /\ gen' = [gen EXCEPT ![j] = "over"] /\ disabled' = FALSE
    /\ UNCHANGED <<flags, pollTimer, intervals, gets, server, overlapped>>

\* Mutant: an error in the first answer ends generateJob without a timer and
\* without the button.
FirstReplyKeepsWaiting(j) ==
    /\ gen[j] = "first" /\ gets[j][0] \in {"error", "terminal", "progress"}
    /\ gets' = [gets EXCEPT ![j][0] = "unsent"]
    /\ CASE gets[j][0] = "progress" ->
              /\ pollTimer' = j /\ intervals' = intervals \cup {j}
              /\ gen' = [gen EXCEPT ![j] = "over"] /\ UNCHANGED disabled
         [] gets[j][0] = "error" ->
              /\ gen' = [gen EXCEPT ![j] = "over"] /\ UNCHANGED page
         [] OTHER ->
              /\ disabled' = FALSE /\ StopPoll
              /\ gen' \in {[gen EXCEPT ![j] = p] : p \in {"media", "over"}}
    /\ UNCHANGED <<flags, server, overlapped, faults>>

\* generateJob goes on after its own refreshJob.  After an error it sets the
\* interval too, for the body has no status then.
FirstReply(j) ==
    /\ gen[j] = "first" /\ gets[j][0] \in {"error", "terminal", "progress"}
    /\ gets' = [gets EXCEPT ![j][0] = "unsent"]
    /\ CASE gets[j][0] = "progress" ->
              /\ pollTimer' = j /\ intervals' = intervals \cup {j}
              /\ gen' = [gen EXCEPT ![j] = "over"] /\ UNCHANGED disabled
         [] gets[j][0] = "error" ->
              /\ disabled' = FALSE
              /\ pollTimer' = j /\ intervals' = (intervals \ {pollTimer}) \cup {j}
              /\ gen' = [gen EXCEPT ![j] = "over"]
         [] OTHER ->
              /\ disabled' = FALSE /\ StopPoll
              /\ gen' \in {[gen EXCEPT ![j] = p] : p \in {"media", "over"}}
    /\ UNCHANGED <<flags, server, overlapped, faults>>

\* attachMedia of generateJob's own refresh: generate catches its rejection,
\* however much later.
MediaEnds(j) ==
    /\ gen[j] = "media" /\ gen' = [gen EXCEPT ![j] = "over"]
    /\ UNCHANGED <<flags, page, gets, server, overlapped, faults>>

MediaFails(j) ==
    /\ gen[j] = "media" /\ faults < MaxFaults
    /\ faults' = faults + 1
    /\ gen' = [gen EXCEPT ![j] = "over"] /\ disabled' = FALSE
    /\ UNCHANGED <<flags, pollTimer, intervals, gets, server, overlapped>>

-----------------------------------------------------------------------------
(***************************************************************************)
(* Polling.                                                                *)
(***************************************************************************)

\* An interval fires, whether or not earlier requests are answered.
Tick(j, i) ==
    /\ j \in intervals /\ i # 0 /\ gets[j][i] = "unsent"
    /\ gets' = [gets EXCEPT ![j][i] = "sent"]
    /\ UNCHANGED <<flags, page, gen, server, overlapped, faults>>

\* refreshJob of an interval; nobody catches its rejections.
PollReply(j, i) ==
    /\ i # 0 /\ gets[j][i] \in {"error", "terminal", "progress"}
    /\ gets' = [gets EXCEPT ![j][i] = "unsent"]
    /\ IF gets[j][i] = "progress" THEN UNCHANGED page
       ELSE disabled' = FALSE /\ StopPoll
    /\ UNCHANGED <<flags, gen, server, overlapped, faults>>

\* The server answers a GET.
Serve(j, i) ==
    /\ gets[j][i] = "sent"
    /\ gets' = [gets EXCEPT ![j][i] =
                    IF IsTerminal(job[j]) THEN "terminal" ELSE "progress"]
    /\ UNCHANGED <<flags, page, gen, server, overlapped, faults>>

ServeError(j, i) ==
    /\ gets[j][i] = "sent" /\ faults < MaxFaults
    /\ faults' = faults + 1
    /\ gets' = [gets EXCEPT ![j][i] = "error"]
    /\ UNCHANGED <<flags, page, gen, server, overlapped>>

\* fetch rejects: generate catches it, an interval goes on.
GetFails(j, i) ==
    /\ gets[j][i] = "sent" /\ faults < MaxFaults
    /\ faults' = faults + 1
    /\ gets' = [gets EXCEPT ![j][i] = "unsent"]
    /\ IF i = 0
       THEN gen' = [gen EXCEPT ![j] = "over"] /\ disabled' = FALSE
       ELSE UNCHANGED <<gen, disabled>>
    /\ UNCHANGED <<flags, pollTimer, intervals, server, overlapped>>

-----------------------------------------------------------------------------
(***************************************************************************)
(* The server.                                                             *)
(***************************************************************************)

\* POST /jobs is carried out.
CreateJob(j) ==
    /\ gen[j] = "posting" /\ job[j] = "NONE"
    /\ job' = [job EXCEPT ![j] = "QUEUED"]
    /\ UNCHANGED <<flags, page, gen, gets, lost, overlapped, faults>>

\* The job goes on as JobStatus allows and as far as the features reach.
Advance(j) ==
    /\ job[j] # "NONE" /\ ~lost[j]
    /\ \E s \in Statuses \ {"NONE"} :
          /\ job' = [job EXCEPT ![j] = s]
          /\ Server(j)!Next
          /\ job[j] = "BIBLE_LOCKED" => shotsOn
          /\ s = "SHOTS_READY" => ~assembleOn
          /\ s = "DELIVERED" => assembleOn
    /\ UNCHANGED <<flags, page, gen, gets, lost, overlapped, faults>>

\* The task of a job ends without having ended the job.  A crash ends any task,
\* and so does a failing lock, Redis or Postgres outside the graph.  An error
\* that escapes the shot phase leaves BIBLE_LOCKED, which nobody takes up again.
Abandon(j) ==
    /\ ~lost[j]
    /\ job[j] \in Server(j)!Stale \/ (job[j] = "BIBLE_LOCKED" /\ shotsOn)
    /\ lost' = [lost EXCEPT ![j] = TRUE]
    /\ UNCHANGED <<flags, page, gen, gets, job, overlapped, faults>>

\* A sweep or a resume request runs a stale job again.
RunAgain(j) ==
    /\ lost[j] /\ job[j] \in Server(j)!Stale
    /\ lost' = [lost EXCEPT ![j] = FALSE]
    /\ UNCHANGED <<flags, page, gen, gets, job, overlapped, faults>>

-----------------------------------------------------------------------------
Answered(j) ==
    \/ Posted(j) \/ FirstReply(j) \/ MediaEnds(j) \/ CreateJob(j)
    \/ \E i \in Slots : PollReply(j, i) \/ Serve(j, i)

Fails(j) ==
    \/ PostFails(j) \/ MediaFails(j)
    \/ \E i \in Slots : ServeError(j, i) \/ GetFails(j, i)

Next ==
    \E j \in Jobs :
        \/ Click(j) \/ Answered(j) \/ Fails(j)
        \/ Advance(j) \/ Abandon(j) \/ RunAgain(j)
        \/ \E i \in Slots : Tick(j, i)

Spec == Init /\ [][Next]_vars

\* Intervals fire, requests are answered, and a job comes to its end if nothing
\* ends its task before.
FairSpec ==
    /\ Spec
    /\ \A j \in Jobs :
          /\ WF_vars(Posted(j)) /\ WF_vars(FirstReply(j)) /\ WF_vars(CreateJob(j))
          /\ WF_vars(Advance(j))
          /\ \A i \in Slots : /\ WF_vars(Tick(j, i)) /\ WF_vars(Serve(j, i))
                              /\ WF_vars(PollReply(j, i))

-----------------------------------------------------------------------------
(***************************************************************************)
(* Properties.                                                             *)
(***************************************************************************)

\* Whoever waits for the button waits for something: generateJob is under way,
\* or the timer the page knows of is running.
WaitingIsWatched ==
    disabled => (\E j \in Jobs : Generating(j)) \/ pollTimer # 0

\* An interval the page has lost track of, and so polls for ever, takes two
\* overlapping runs of generateJob, which a late answer for an earlier job
\* makes possible.
LeakNeedsOverlap == ~overlapped => intervals \subseteq {pollTimer}

\* The page polls a job that nobody works on and that isTerminal still takes for
\* one under way.
PollsAbandoned(j) == pollTimer = j /\ lost[j] /\ ~IsTerminal(job[j])

\* The button comes back through every order of clicks, answers and failures,
\* unless the job the page polls was abandoned on the way.
ButtonComesBack == disabled ~> ~disabled \/ \E j \in Jobs : PollsAbandoned(j)
=============================================================================
