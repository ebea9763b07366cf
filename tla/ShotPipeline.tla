---------------------------- MODULE ShotPipeline ----------------------------
(***************************************************************************)
(* One job driven through the LangGraph pipeline by one in-process task:   *)
(* the nodes of app/nodes, the routers of app/graph/compile.py, the budget *)
(* gate of app/graph/budgets.py and run_locked_job of app/jobs/runner.py.  *)
(*                                                                         *)
(* The task holds lock:{job_id} throughout (JobLock models the lock), so   *)
(* no second task writes these rows.  The process may crash anywhere; the  *)
(* rows of Postgres, the checkpoint and the files under MEDIA_ROOT survive.*)
(*                                                                         *)
(* A clip is the number of the attempt that made it: 1 is generate_shot's, *)
(* n+1 is the n-th repair's.  0 is "no file".                              *)
(***************************************************************************)
EXTENDS Integers, FiniteSets

CONSTANTS
    NBeats,             \* shots per story, 4 in the code
    MaxRepairs,         \* MAX_REPAIR_ATTEMPTS
    SchemaAttempts,     \* _SCHEMA_ATTEMPTS
    Scores,             \* the scores the vision model may return
    PassScore,          \* QC_PASS_THRESHOLD
    Signatures,         \* AppError codes a provider call may fail with
    Features,           \* the settings of the FEATURE_* flags
    Conditioning,       \* whether the provider may have frame_conditioning
    ClipUsd, CallUsd,   \* cost of a clip and of a gateway call
    MaxUsd, MaxIterations,  \* the job's budget caps
    MaxCrashes,         \* bound on process crashes
    LateCheckpoints     \* checkpoints may still be unwritten at a crash

ASSUME BeatsAssumption == NBeats \in Nat \ {0}
ASSUME RepairAssumption == MaxRepairs \in Nat /\ SchemaAttempts \in Nat \ {0}
ASSUME ScoreAssumption == Scores \subseteq Nat \ {0} /\ PassScore \in Nat
ASSUME FlagAssumption ==
    Features \subseteq [shots: BOOLEAN, qc: BOOLEAN, assemble: BOOLEAN]
ASSUME ProviderAssumption == Conditioning \subseteq BOOLEAN
ASSUME BudgetAssumption ==
    /\ ClipUsd \in Nat /\ CallUsd \in Nat
    /\ MaxUsd \in Nat /\ MaxIterations \in Nat
ASSUME CrashAssumption == MaxCrashes \in Nat /\ LateCheckpoints \in BOOLEAN
ASSUME SignatureAssumption == "NONE" \notin Signatures

VARIABLES
    \* the asyncio task: lost in a crash
    up,         \* the task is running
    node, beat, \* the graph node it is at, or the step inside that node
    gs,         \* the graph state, as VideoAgentState
    tries,      \* schema attempts made by plan_story / lock_continuity_bible
    verdict,    \* a score received and not yet recorded, 0 if none
    \* durable
    ckpt,       \* the latest checkpoint of the job's thread
    status,     \* jobs.status
    used,       \* jobs.budget_used_usd and budget_used_iterations
    degraded,   \* jobs.degraded
    download,   \* jobs.download_url is set
    rows,       \* commits of the story plan and of the continuity bible
    shot,       \* the shots rows with their qc_scores rows
    canon,      \* shot_<n>.mp4
    frame,      \* frame_<n>.png: the clip it was taken from
    film,       \* assembled.mp4: the clip used for each beat, 0 if none
    \* environment
    late,       \* the wall-clock cap has passed
    crashes,
    capable,    \* the provider has the frame_conditioning capability
    flags,      \* FEATURE_SHOT_GENERATION, _QC_REPAIR and _ASSEMBLE_DELIVER
    \* history, never read by the code
    cond,       \* frame the last provider call of each beat was given
    failures    \* provider calls that failed

taskVars == <<up, node, beat, gs, tries, verdict>>
jobVars == <<status, used, degraded, download, rows>>
fileVars == <<canon, frame, film>>
envVars == <<late, crashes, capable, flags>>
histVars == <<cond, failures>>
vars == <<taskVars, ckpt, jobVars, shot, fileVars, envVars, histVars>>

JobView == INSTANCE JobStatus

-----------------------------------------------------------------------------
ShotGeneration == flags.shots
QcRepair == flags.qc
AssembleDeliver == flags.assemble

Beats == 1..NBeats
Clips == 0..(MaxRepairs + 1)

TextNodes == {"plan_story", "lock_continuity_bible"}
ShotNodes == {"generate_shot", "chain_frame", "qc_score", "repair_shot",
              "flag_degraded"}
Nodes == TextNodes \cup ShotNodes \cup {"assemble", "deliver"}
\* Steps inside a node at which a crash leaves part of its writes behind.
Commits == {"generate_commit", "qc_commit", "repair_commit"}
\* "end": the graph returned; "done": the status is written; "escaped": an
\* exception left the graph and the status was made terminal.
Places == Nodes \cup Commits \cup {"end", "done", "escaped"}

Stale == {"QUEUED", "RUNNING"}
Terminal == {"BIBLE_LOCKED", "SHOTS_READY", "DELIVERED", "PARTIAL", "FAILED",
             "FAILED_NO_PROGRESS"}
Stopped == {"PARTIAL", "FAILED", "FAILED_NO_PROGRESS"}
Outcomes == {"NONE", "SUCCESS"} \cup Stopped

\* current_clip_path: 0 is shot_<beat>.mp4, n is shot_<beat>_attempt_<n>.mp4.
\* prior_frame_path: the beat of the frame file, 0 if none.
GraphState ==
    [outcome: Outcomes, qc_passed: BOOLEAN, repair_count: 0..MaxRepairs,
     clip: 0..MaxRepairs, prior: 0..NBeats, job_degraded: BOOLEAN,
     shots_completed: BOOLEAN, assembled: BOOLEAN, delivered: BOOLEAN,
     signature: Signatures \cup {"NONE"}]

ShotRow ==
    [made: BOOLEAN, repair_count: 0..MaxRepairs, qc_score: {0} \cup Scores,
     degraded: BOOLEAN, scored: SUBSET (Clips \X Scores)]

EmptyState ==
    [outcome |-> "NONE", qc_passed |-> FALSE, repair_count |-> 0, clip |-> 0,
     prior |-> 0, job_degraded |-> FALSE, shots_completed |-> FALSE,
     assembled |-> FALSE, delivered |-> FALSE, signature |-> "NONE"]

NoShot ==
    [made |-> FALSE, repair_count |-> 0, qc_score |-> 0, degraded |-> FALSE,
     scored |-> {}]

Place(n, b) == [node |-> n, beat |-> b]
StartPlace == Place("plan_story", 1)

Init ==
    /\ up = FALSE /\ node = "plan_story" /\ beat = 1
    /\ gs = EmptyState /\ tries = 0 /\ verdict = 0
    /\ ckpt = [at |-> StartPlace, gs |-> EmptyState]
    /\ status = "QUEUED"
    /\ used = [usd |-> 0, iterations |-> 0]
    /\ degraded = FALSE /\ download = FALSE
    /\ rows = [n \in TextNodes |-> 0]
    /\ shot = [b \in Beats |-> NoShot]
    /\ canon = [b \in Beats |-> 0]
    /\ frame = [b \in Beats |-> 0]
    /\ film = [b \in Beats |-> 0]
    /\ late = FALSE /\ crashes = 0 /\ capable \in Conditioning /\ flags \in Features
    /\ cond = [b \in Beats |-> [beat |-> 0, clip |-> 0]]
    /\ failures = 0

-----------------------------------------------------------------------------
(***************************************************************************)
(* Routing: the conditional edges of the graph.                            *)
(***************************************************************************)

TerminalAfterChain == ~QcRepair /\ ~AssembleDeliver

NextAfterShot(b) ==
    IF b < NBeats THEN Place("generate_shot", b + 1)
    ELSE Place(IF AssembleDeliver THEN "assemble" ELSE "end", b)

\* Mutant: a stopped graph never assembles.
StopPlaceNoAssembly(outcome, b) == Place("end", b)

StopPlace(outcome, b) ==
    Place(IF AssembleDeliver /\ outcome = "PARTIAL" THEN "assemble" ELSE "end", b)

AfterPlan(g) ==
    Place(IF g.outcome \in Stopped THEN "end" ELSE "lock_continuity_bible", 1)

AfterBible(g) ==
    Place(IF g.outcome \notin Stopped /\ ShotGeneration
          THEN "generate_shot" ELSE "end", 1)

AfterGenerate(g, b) ==
    IF g.outcome \in Stopped THEN StopPlace(g.outcome, b)
    ELSE Place("chain_frame", b)

AfterChain(g, b) ==
    IF g.outcome \in Stopped THEN StopPlace(g.outcome, b)
    ELSE IF QcRepair THEN Place("qc_score", b) ELSE NextAfterShot(b)

\* Mutants: one repair too many; one too few; no flag at the cap.
AfterQcOneMore(g, b) ==
    IF g.outcome \in Stopped THEN StopPlace(g.outcome, b)
    ELSE IF g.qc_passed THEN NextAfterShot(b)
    ELSE IF g.repair_count <= MaxRepairs THEN Place("repair_shot", b)
    ELSE Place("flag_degraded", b)
AfterQcOneLess(g, b) ==
    IF g.outcome \in Stopped THEN StopPlace(g.outcome, b)
    ELSE IF g.qc_passed THEN NextAfterShot(b)
    ELSE IF g.repair_count + 1 < MaxRepairs THEN Place("repair_shot", b)
    ELSE Place("flag_degraded", b)
AfterQcNoFlag(g, b) ==
    IF g.outcome \in Stopped THEN StopPlace(g.outcome, b)
    ELSE IF g.qc_passed \/ g.repair_count >= MaxRepairs THEN NextAfterShot(b)
    ELSE Place("repair_shot", b)

AfterQc(g, b) ==
    IF g.outcome \in Stopped THEN StopPlace(g.outcome, b)
    ELSE IF g.qc_passed THEN NextAfterShot(b)
    ELSE IF g.repair_count < MaxRepairs THEN Place("repair_shot", b)
    ELSE Place("flag_degraded", b)

AfterFlag(b) == NextAfterShot(b)

\* The node returned g as the new graph state and p is where the graph goes.
\* LangGraph writes that step's checkpoint in the background: it is durable
\* before the next node ends, or the durable one is still an older one.
Return(p, g) ==
    /\ node' = p.node /\ beat' = p.beat
    /\ gs' = g
    /\ ckpt' \in {[at |-> p, gs |-> g]}
                 \cup (IF LateCheckpoints THEN {ckpt} ELSE {})
    /\ tries' = 0 /\ verdict' = 0
    /\ UNCHANGED up

\* A step inside a node.
Inside(place) ==
    /\ node' = place
    /\ UNCHANGED <<up, beat, gs, tries, ckpt>>

At(place) == up /\ node = place

\* Mutants: the error path leaves the status alone; it overwrites any status.
EnsureTerminalSkipped(s) == s
EnsureFailed(s) == "FAILED"

\* run_locked_job's except clauses: _ensure_terminal leaves a status alone
\* that is terminal already.
EnsureTerminal(s) == IF s \in Terminal THEN s ELSE "FAILED"
Escape ==
    /\ up' = FALSE
    /\ node' = "escaped"
    /\ UNCHANGED <<beat, gs, tries, verdict, ckpt>>

-----------------------------------------------------------------------------
(***************************************************************************)
(* The budget gate.                                                        *)
(***************************************************************************)

\* Mutant: a cap that is just reached does not stop the job.
ExhaustedTooLate ==
    used.usd > MaxUsd \/ used.iterations > MaxIterations \/ late

Exhausted ==
    used.usd >= MaxUsd \/ used.iterations >= MaxIterations \/ late

Charge(cost) == [usd |-> used.usd + cost, iterations |-> used.iterations + 1]

\* _partial, _stop_if_budget_exhausted: a node's gate stops the graph.
Partial == [gs EXCEPT !.outcome = "PARTIAL"]
BudgetStop(p) ==
    /\ Exhausted
    /\ status' = "PARTIAL"
    /\ Return(p, Partial)
    /\ UNCHANGED <<used, degraded, download, rows, shot, fileVars, envVars,
                   histVars>>

-----------------------------------------------------------------------------
(***************************************************************************)
(* run_locked_job: start or resume, the error path and the final status.   *)
(***************************************************************************)

\* _has_checkpoint and _mark_running: a terminal job is refused; the graph
\* starts from its input or from the last durable checkpoint.
StartRun ==
    /\ ~up
    /\ status \notin Terminal
    /\ status' = "RUNNING"
    /\ up' = TRUE
    /\ node' = ckpt.at.node /\ beat' = ckpt.at.beat /\ gs' = ckpt.gs
    /\ tries' = 0 /\ verdict' = 0
    /\ UNCHANGED <<ckpt, used, degraded, download, rows, shot, fileVars,
                   envVars, histVars>>

\* A node raises, at its start or in a later transaction of its own: the
\* gateway ladder is exhausted, a file, ffmpeg or database operation fails.
NodeRaises ==
    /\ up /\ node \in Nodes \cup Commits
    /\ Escape
    /\ status' = EnsureTerminal(status)
    /\ UNCHANGED <<used, degraded, download, rows, shot, fileVars, envVars,
                   histVars>>

\* Mutant: whatever was delivered is DELIVERED.
FinalStatusAnyDelivery(g) ==
    IF g.delivered THEN "DELIVERED"
    ELSE IF g.shots_completed /\ g.outcome = "SUCCESS" THEN "SHOTS_READY"
    ELSE IF g.outcome = "SUCCESS" THEN "BIBLE_LOCKED"
    ELSE g.outcome

\* The graph returned: the outcome becomes the job's status.
FinalStatus(g) ==
    IF g.delivered /\ g.outcome = "SUCCESS" THEN "DELIVERED"
    ELSE IF g.shots_completed /\ g.outcome = "SUCCESS" THEN "SHOTS_READY"
    ELSE IF g.outcome = "SUCCESS" THEN "BIBLE_LOCKED"
    ELSE g.outcome

Finish ==
    /\ At("end")
    /\ status' = IF gs.outcome = "NONE" THEN status ELSE FinalStatus(gs)
    /\ up' = FALSE /\ node' = "done"
    /\ UNCHANGED <<beat, gs, tries, verdict, ckpt, used, degraded, download,
                   rows, shot, fileVars, envVars, histVars>>

\* The process dies; what the task had in memory is gone.
Crash ==
    /\ up /\ crashes < MaxCrashes
    /\ up' = FALSE
    /\ crashes' = crashes + 1
    /\ UNCHANGED <<node, beat, gs, tries, verdict, ckpt, jobVars, shot,
                   fileVars, late, capable, flags, histVars>>

\* The wall-clock budget runs from started_at, the first start of the job.
WallClockExpires ==
    /\ ~late /\ status # "QUEUED"
    /\ late' = TRUE
    /\ UNCHANGED <<taskVars, ckpt, jobVars, shot, fileVars, crashes, capable, flags,
                   histVars>>

-----------------------------------------------------------------------------
(***************************************************************************)
(* plan_story and lock_continuity_bible: n is the node.                    *)
(***************************************************************************)

AfterText(n, g) == IF n = "plan_story" THEN AfterPlan(g) ELSE AfterBible(g)

\* Only the bible node reports an outcome.
TextDone(n) ==
    IF n = "plan_story" THEN gs ELSE [gs EXCEPT !.outcome = "SUCCESS"]

\* The gate before the node's work and before each schema attempt.
TextStop(n) ==
    /\ At(n)
    /\ BudgetStop(AfterText(n, Partial))

\* A resumed node finds its row and does not call the gateway again.
TextReuse(n) ==
    /\ At(n) /\ ~Exhausted
    /\ tries = 0 /\ rows[n] > 0
    /\ Return(AfterText(n, TextDone(n)), TextDone(n))
    /\ UNCHANGED <<jobVars, shot, fileVars, envVars, histVars>>

\* Mutant: the row of an earlier run is not looked for.
TextAcceptedAgain(n) ==
    /\ At(n) /\ ~Exhausted
    /\ used' = Charge(CallUsd)
    /\ rows' = [rows EXCEPT ![n] = @ + 1]
    /\ status' = IF n = "lock_continuity_bible" THEN "BIBLE_LOCKED" ELSE status
    /\ Return(AfterText(n, TextDone(n)), TextDone(n))
    /\ UNCHANGED <<degraded, download, shot, fileVars, envVars, histVars>>

\* A valid payload: usage and row in one transaction, and with the bible the
\* status of the job.
TextAccepted(n) ==
    /\ At(n) /\ ~Exhausted
    /\ tries > 0 \/ rows[n] = 0
    /\ used' = Charge(CallUsd)
    /\ rows' = [rows EXCEPT ![n] = @ + 1]
    /\ status' = IF n = "lock_continuity_bible" THEN "BIBLE_LOCKED" ELSE status
    /\ Return(AfterText(n, TextDone(n)), TextDone(n))
    /\ UNCHANGED <<degraded, download, shot, fileVars, envVars, histVars>>

\* An invalid payload is paid for; the last attempt fails the job.
TextRejected(n) ==
    /\ At(n) /\ ~Exhausted
    /\ tries > 0 \/ rows[n] = 0
    /\ used' = Charge(CallUsd)
    /\ IF tries + 1 < SchemaAttempts
       THEN /\ tries' = tries + 1
            /\ UNCHANGED <<up, node, beat, gs, verdict, ckpt, status>>
       ELSE /\ status' = "FAILED"
            /\ Escape
    /\ UNCHANGED <<degraded, download, rows, shot, fileVars, envVars, histVars>>

-----------------------------------------------------------------------------
(***************************************************************************)
(* generate_shot and repair_shot: the calls to the video provider.         *)
(***************************************************************************)

AnySucceeded == \E b \in Beats : shot[b].made

\* _provider_failure
FailedOutcome(sig) ==
    IF gs.signature = sig THEN "FAILED_NO_PROGRESS"
    ELSE IF AnySucceeded THEN "PARTIAL" ELSE "FAILED"

ProviderFailed(sig) ==
    [gs EXCEPT !.outcome = FailedOutcome(sig), !.signature = sig]

ProviderFailure(p, sig) ==
    /\ status' = FailedOutcome(sig)
    /\ failures' = failures + 1
    /\ Return(p, ProviderFailed(sig))
    /\ UNCHANGED <<used, degraded, download, rows, shot, fileVars, envVars,
                   cond>>

\* The frame file a provider call for this beat is conditioned on.
PriorFrame ==
    IF beat > 1 /\ gs.prior > 0
    THEN [beat |-> gs.prior, clip |-> frame[gs.prior]]
    ELSE [beat |-> 0, clip |-> 0]

CapabilityMissing == beat > 1 /\ ~capable

GenerateStop ==
    /\ At("generate_shot")
    /\ BudgetStop(AfterGenerate(Partial, beat))

GenerateNoCapability ==
    /\ At("generate_shot") /\ ~Exhausted
    /\ ~shot[beat].made /\ CapabilityMissing
    /\ status' = IF AnySucceeded THEN "PARTIAL" ELSE "FAILED"
    /\ Escape
    /\ UNCHANGED <<used, degraded, download, rows, shot, fileVars, envVars,
                   histVars>>

GenerateFailed(sig) ==
    /\ At("generate_shot") /\ ~Exhausted
    /\ ~shot[beat].made /\ ~CapabilityMissing
    /\ ProviderFailure(AfterGenerate(ProviderFailed(sig), beat), sig)

\* An existing SUCCEEDED shot is returned as it is; otherwise the provider
\* makes a clip and save_bytes writes it, before the transaction below.
GenerateClip ==
    /\ At("generate_shot") /\ ~Exhausted
    /\ IF shot[beat].made
       THEN /\ LET g == [gs EXCEPT !.clip = 0,
                                   !.prior = IF frame[beat] = 0 THEN 0 ELSE beat]
               IN Return(AfterGenerate(g, beat), g)
            /\ UNCHANGED <<canon, cond>>
       ELSE /\ ~CapabilityMissing
            /\ canon' = [canon EXCEPT ![beat] = 1]
            /\ cond' = [cond EXCEPT ![beat] = PriorFrame]
            /\ Inside("generate_commit")
            /\ UNCHANGED verdict
    /\ UNCHANGED <<jobVars, shot, frame, film, envVars, failures>>

\* Budget, shot upsert and ledger row in one transaction.
GenerateCommit ==
    /\ At("generate_commit")
    /\ used' = Charge(ClipUsd)
    /\ shot' = [shot EXCEPT ![beat].made = TRUE]
    /\ LET g == [gs EXCEPT !.clip = 0] IN Return(AfterGenerate(g, beat), g)
    /\ UNCHANGED <<status, degraded, download, rows, fileVars, envVars,
                   histVars>>

RepairStop ==
    /\ At("repair_shot")
    /\ BudgetStop(Place("chain_frame", beat))

RepairFailed(sig) ==
    /\ At("repair_shot") /\ ~Exhausted
    /\ ProviderFailure(Place("chain_frame", beat), sig)

\* The attempt is written beside the clip kept so far.
RepairClip ==
    /\ At("repair_shot") /\ ~Exhausted
    /\ cond' = [cond EXCEPT ![beat] = PriorFrame]
    /\ Inside("repair_commit")
    /\ UNCHANGED <<verdict, jobVars, shot, fileVars, envVars, failures>>

RepairCommit ==
    /\ At("repair_commit")
    /\ used' = Charge(ClipUsd)
    /\ LET n == shot[beat].repair_count + 1
       IN  /\ shot' = [shot EXCEPT ![beat].repair_count = n]
           /\ Return(Place("chain_frame", beat),
                     [gs EXCEPT !.clip = n, !.qc_passed = FALSE,
                                !.repair_count = n])
    /\ UNCHANGED <<status, degraded, download, rows, fileVars, envVars,
                   histVars>>

-----------------------------------------------------------------------------
(***************************************************************************)
(* chain_frame, qc_score, flag_degraded.                                   *)
(***************************************************************************)

CurrentClip == IF gs.clip = 0 THEN canon[beat] ELSE gs.clip + 1

\* Mutant: a frame that is there already is kept.
ChainFrameOnce ==
    /\ At("chain_frame")
    /\ frame' = IF frame[beat] = 0 THEN [frame EXCEPT ![beat] = CurrentClip]
                ELSE frame
    /\ LET last == beat = NBeats
           g == [gs EXCEPT !.prior = beat,
                           !.shots_completed = @ \/ last,
                           !.outcome = IF last /\ TerminalAfterChain
                                       THEN "SUCCESS" ELSE @]
       IN Return(AfterChain(g, beat), g)
    /\ UNCHANGED <<jobVars, shot, canon, film, envVars, histVars>>

ChainFrame ==
    /\ At("chain_frame")
    /\ frame' = [frame EXCEPT ![beat] = CurrentClip]
    /\ LET last == beat = NBeats
           g == [gs EXCEPT !.prior = beat,
                           !.shots_completed = @ \/ last,
                           !.outcome = IF last /\ TerminalAfterChain
                                       THEN "SUCCESS" ELSE @]
       IN Return(AfterChain(g, beat), g)
    /\ UNCHANGED <<jobVars, shot, canon, film, envVars, histVars>>

QcStop ==
    /\ At("qc_score")
    /\ BudgetStop(AfterQc(Partial, beat))

\* The call is paid for, then its payload turns out not to be a score.
QcInvalid ==
    /\ At("qc_score") /\ ~Exhausted
    /\ used' = Charge(CallUsd)
    /\ Escape
    /\ status' = EnsureTerminal(status)
    /\ UNCHANGED <<degraded, download, rows, shot, fileVars, envVars, histVars>>

\* Mutant: the newest attempt always replaces the kept clip.
KeepNewAlways(s) == TRUE

\* keep_new of _record_score: a tie goes to the newer attempt.
KeepNew(s) == shot[beat].qc_score = 0 \/ s >= shot[beat].qc_score

\* Usage is persisted and a better attempt is copied over the kept clip,
\* before the transaction below.
QcScored(s) ==
    /\ At("qc_score") /\ ~Exhausted
    /\ used' = Charge(CallUsd)
    /\ canon' = IF KeepNew(s) THEN [canon EXCEPT ![beat] = CurrentClip] ELSE canon
    /\ verdict' = s
    /\ Inside("qc_commit")
    /\ UNCHANGED <<status, degraded, download, rows, shot, frame, film,
                   envVars, histVars>>

QcCommit ==
    /\ At("qc_commit")
    /\ shot' = [shot EXCEPT
                  ![beat].scored = @ \cup {<<shot[beat].repair_count + 1, verdict>>},
                  ![beat].qc_score = IF KeepNew(verdict) THEN verdict ELSE @]
    /\ LET passed == verdict >= PassScore
           last == passed /\ beat = NBeats /\ ~AssembleDeliver
           g == [gs EXCEPT !.qc_passed = passed, !.clip = 0,
                           !.repair_count = shot[beat].repair_count,
                           !.outcome = IF last THEN "SUCCESS" ELSE @,
                           !.shots_completed = @ \/ last]
       IN Return(AfterQc(g, beat), g)
    /\ UNCHANGED <<jobVars, fileVars, envVars, histVars>>

FlagDegraded ==
    /\ At("flag_degraded")
    /\ shot' = [shot EXCEPT ![beat].degraded = TRUE]
    /\ degraded' = TRUE
    /\ LET last == beat = NBeats /\ ~AssembleDeliver
           g == [gs EXCEPT !.qc_passed = FALSE, !.job_degraded = TRUE,
                           !.outcome = IF last THEN "PARTIAL" ELSE @,
                           !.shots_completed = @ \/ last]
       IN Return(AfterFlag(beat), g)
    /\ UNCHANGED <<status, used, download, rows, fileVars, envVars, histVars>>

-----------------------------------------------------------------------------
(***************************************************************************)
(* assemble and deliver.                                                   *)
(***************************************************************************)

\* With no clip at all assemble can only raise: NodeRaises.
Assemble ==
    /\ At("assemble")
    /\ AnySucceeded
    /\ film' = [b \in Beats |-> IF shot[b].made THEN canon[b] ELSE 0]
    /\ LET flawed == \/ gs.job_degraded
                     \/ \E b \in Beats : shot[b].degraded \/ ~shot[b].made
           outcome == IF flawed THEN "PARTIAL" ELSE gs.outcome
       IN  /\ degraded' = flawed
           /\ Return(Place("deliver", beat),
                     [gs EXCEPT !.assembled = TRUE, !.shots_completed = TRUE,
                                !.job_degraded = flawed,
                                !.outcome = IF outcome \in {"PARTIAL", "FAILED"}
                                            THEN outcome ELSE "SUCCESS"])
    /\ UNCHANGED <<status, used, download, rows, shot, canon, frame, envVars,
                   histVars>>

Deliver ==
    /\ At("deliver")
    /\ gs.assembled
    /\ download' = TRUE
    /\ degraded' = gs.job_degraded
    /\ Return(Place("end", beat),
              [gs EXCEPT !.delivered = TRUE, !.shots_completed = TRUE,
                         !.outcome = IF gs.job_degraded \/ @ = "PARTIAL"
                                     THEN "PARTIAL" ELSE "SUCCESS"])
    /\ UNCHANGED <<status, used, rows, shot, fileVars, envVars, histVars>>

-----------------------------------------------------------------------------
TextNode(n) == TextStop(n) \/ TextReuse(n) \/ TextAccepted(n) \/ TextRejected(n)

GenerateShot ==
    \/ GenerateStop \/ GenerateNoCapability
    \/ \E sig \in Signatures : GenerateFailed(sig)
    \/ GenerateClip \/ GenerateCommit

RepairShot ==
    \/ RepairStop
    \/ \E sig \in Signatures : RepairFailed(sig)
    \/ RepairClip \/ RepairCommit

Qc == QcStop \/ QcInvalid \/ (\E s \in Scores : QcScored(s)) \/ QcCommit

\* The steps of a running task.
TaskStep ==
    \/ \E n \in TextNodes : TextNode(n)
    \/ GenerateShot \/ ChainFrame \/ Qc \/ RepairShot \/ FlagDegraded
    \/ Assemble \/ Deliver \/ Finish
    \/ NodeRaises

Next == StartRun \/ TaskStep \/ Crash \/ WallClockExpires

Spec == Init /\ [][Next]_vars

\* The event loop runs a scheduled task to its end, and a job that can be
\* resumed is resumed: by the POST's task, the sweep or a resume request.
FairSpec == Spec /\ WF_vars(TaskStep) /\ WF_vars(StartRun)

-----------------------------------------------------------------------------
(***************************************************************************)
(* Properties.                                                             *)
(***************************************************************************)

TaskTypeOK ==
    /\ up \in BOOLEAN /\ node \in Places /\ beat \in Beats
    /\ gs \in GraphState
    /\ tries \in 0..(SchemaAttempts - 1) /\ verdict \in {0} \cup Scores
    /\ ckpt \in [at: [node: Nodes \cup {"end"}, beat: Beats], gs: GraphState]

StoreTypeOK ==
    /\ used \in [usd: Nat, iterations: Nat]
    /\ degraded \in BOOLEAN /\ download \in BOOLEAN
    /\ rows \in [TextNodes -> Nat]
    /\ shot \in [Beats -> ShotRow]
    /\ canon \in [Beats -> Clips] /\ frame \in [Beats -> Clips]
    /\ film \in [Beats -> Clips]
    /\ late \in BOOLEAN /\ crashes \in 0..MaxCrashes /\ capable \in BOOLEAN
    /\ flags \in Features
    /\ cond \in [Beats -> [beat: 0..NBeats, clip: Clips]]
    /\ failures \in Nat

\* Every variable has its type.  The repair counters of rows and graph state
\* are bounded by MaxRepairs: no route leads to one repair too many.
TypeOK ==
    /\ TaskTypeOK
    /\ StoreTypeOK
    /\ status \in Stale \cup Terminal

Settled == node \in {"done", "escaped"}

\* What a status of success says is there.  DELIVERED: a film of every beat,
\* made of the clips kept, none of them degraded and, with QC on, each of them
\* passed.  SHOTS_READY: every clip, and the last frame of each but of a
\* degraded one, whose last attempt may not be the clip kept.
SuccessIsComplete ==
    /\ status = "DELIVERED" =>
          /\ download /\ ~degraded
          /\ \A b \in Beats :
                /\ shot[b].made /\ ~shot[b].degraded
                /\ film[b] = canon[b] /\ canon[b] # 0
                /\ QcRepair => shot[b].qc_score >= PassScore
    /\ status = "SHOTS_READY" =>
          \A b \in Beats :
              /\ shot[b].made /\ canon[b] # 0 /\ frame[b] # 0
              /\ frame[b] = canon[b] \/ shot[b].degraded

\* Inside _record_score, or when it raised, the file may be ahead of the row: the
\* newest attempt is in it and has no score yet.
AheadOfRow(b) ==
    /\ b = beat /\ node \in {"qc_commit", "escaped"}
    /\ canon[b] = shot[b].repair_count + 1
    /\ \A row \in shot[b].scored : row[1] # canon[b]

\* The clip kept for a beat is the best scored of its attempts, and qc_score
\* is that score, whatever order good and bad attempts came in.  A failure between
\* the file and the row leaves nothing worse than the newest attempt in the file.
KeptClipIsBest ==
    \A b \in Beats : shot[b].scored # {} =>
        /\ \A row \in shot[b].scored : row[2] <= shot[b].qc_score
        /\ <<canon[b], shot[b].qc_score>> \in shot[b].scored \/ AheadOfRow(b)

\* A shot is flagged degraded only when the generated clip and every allowed
\* repair were scored, once each, and all of them failed.
DegradedOnlyAfterCap ==
    \A b \in Beats : shot[b].degraded =>
        /\ {row[1] : row \in shot[b].scored} = 1..(MaxRepairs + 1)
        /\ Cardinality(shot[b].scored) = MaxRepairs + 1
        /\ \A row \in shot[b].scored : row[2] < PassScore

\* A shot is generated only when the one before it is finished: its clip
\* made, its last frame taken and, with QC on, passed or flagged.
ShotsInOrder ==
    \A b \in Beats : b > 1 /\ canon[b] # 0 =>
        /\ shot[b - 1].made /\ frame[b - 1] # 0
        /\ QcRepair => \/ shot[b - 1].qc_score >= PassScore
                       \/ shot[b - 1].degraded

\* The caps bound what is spent: the call counter never passes its cap and
\* the dollars pass theirs by less than the one call in flight.
BudgetRespected ==
    /\ used.iterations <= MaxIterations
    /\ used.usd = 0 \/ used.usd < MaxUsd + ClipUsd \/ used.usd < MaxUsd + CallUsd

\* The story plan and the bible are written, and their accepted call billed,
\* at most once, although a crash may make their node run again.
TextWrittenOnce == \A n \in TextNodes : rows[n] <= 1

\* A graph that returned with assembly on delivered every shot it had.
PartialIsDelivered ==
    node = "done" /\ AssembleDeliver /\ AnySucceeded =>
        /\ download
        /\ \A b \in Beats : film[b] = IF shot[b].made THEN canon[b] ELSE 0

\* Every shot but the first is made by a provider that can condition on a
\* frame, and from the last frame of the clip kept for the shot before it.
\* There are two exceptions: a degraded shot, whose last attempt left the frame
\* and may be worse than the clip kept, and a repair, whose frame is its own.
OnlyDegradedBreaksChain ==
    \A b \in Beats : b > 1 /\ canon[b] # 0 =>
        /\ capable
        /\ \/ cond[b] = [beat |-> b - 1, clip |-> canon[b - 1]]
           \/ cond[b].beat = b - 1 /\ shot[b - 1].degraded
           \/ QcRepair /\ cond[b].beat = b

\* A job whose bible is committed can never be started again: its status is
\* terminal from then on, so no shot is generated twice by a resume.
BibleLockedIsFinal ==
    rows["lock_continuity_bible"] > 0 => status \in Terminal

\* The status a run ends with is never changed afterwards.
SettledForever == [][Settled => status' = status]_vars

\* The status a client sees moves only as JobStatus allows.
StatusLifecycle == JobView!Spec

\* Graph nodes a beat may take: its clip, frame and score, for each repair
\* another clip, frame and score, and the flag.
NodesPerBeat == 4 + 3 * MaxRepairs

\* Nodes the run may still complete, the one it is at included.  A stopped run
\* takes no frame but that of the repair it stopped at.
NodesInBeat ==
    LET repairs == 3 * (MaxRepairs - shot[beat].repair_count)
    IN  CASE node \in {"generate_shot", "generate_commit"} -> NodesPerBeat
          [] node = "chain_frame"                         -> repairs + 3
          [] node \in {"qc_score", "qc_commit"}           -> repairs + 2
          [] node \in {"repair_shot", "repair_commit"}    -> repairs + 1
          [] OTHER                                        -> 1

NodesLeft ==
    IF ~up THEN 0
    ELSE CASE node = "end"                   -> 0
           [] node = "deliver"               -> 1
           [] node = "assemble"              -> 2
           [] node = "lock_continuity_bible" -> NBeats * NodesPerBeat + 3
           [] node = "plan_story"            -> NBeats * NodesPerBeat + 4
           [] node = "chain_frame" /\ gs.outcome \in Stopped -> 3
           [] OTHER -> (NBeats - beat) * NodesPerBeat + 2 + NodesInBeat

\* What the run may still do without completing a node.
StepsInNode ==
    IF ~up THEN 0
    ELSE CASE node \in TextNodes -> SchemaAttempts - tries
           [] node \in Commits   -> 0
           [] OTHER              -> 1

\* However a run goes, every step of the task is one nearer to its end: it
\* completes a node, at most 44 in the code, or uses up a try inside one.
RunAdvances ==
    [][TaskStep =>
         /\ NodesLeft <= NBeats * NodesPerBeat + 4
         /\ \/ NodesLeft' < NodesLeft
            \/ NodesLeft' = NodesLeft /\ StepsInNode' < StepsInNode]_vars

\* Every job ends in a terminal status with no task left running.
JobSettles == <>[](status \in Terminal /\ ~up)

(***************************************************************************)
(* What a document of the repository says and the code does not do.        *)
(***************************************************************************)

\* README: "crash resumes, never restarts": the graph is run to an end.
CrashResumes == <>Settled
=============================================================================
