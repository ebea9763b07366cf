# Video-Agent: a verification project

TLA+ models of Video-Agent, the TLC runs that check them on small instances and
TLAPS proofs of theorems about them for every value of the constants. Line
numbers refer to the files under `src/`; `PROJECT.json` maps every definition to
the lines it stands for.

## The system

A client posts a prompt. The server commits a job, and a background task drives
it through a LangGraph graph: a story plan of four beats, a continuity bible,
then per beat a clip from a video provider, its last frame, a QC score by a
vision model and up to two repairs; the clips are assembled and delivered.

| Component | State | Operations | Interacts with |
|---|---|---|---|
| Jobs API (`api/jobs.py`) | none of its own | `create_job`, `resume_job`, reads | Postgres, Redis, schedules the runner |
| Runner (`jobs/runner.py`) | background tasks of the process | `run_job`, `run_locked_job`, `sweep_stale_jobs`, `drain_background_tasks` | lock, job row, graph |
| Job lock (`cache/locks.py`) | key `lock:{job_id}`, TTL 600 s | `try_acquire_job_lock`, `release_job_lock` | runner, resume |
| Graph (`graph/compile.py`) | graph state and checkpoints | routers, checkpoint after each node | nodes |
| Nodes (`nodes/*.py`) | rows of jobs, story_plans, continuity_bibles, shots, qc_scores; files under `MEDIA_ROOT` | one per stage | gateway, provider, ffmpeg |
| Budget gate (`graph/budgets.py`) | `jobs.budget_used_*` | `check_budget` | every node that pays |
| Gateway (`gateway/*.py`) | one breaker per alias, a cache of answers | `complete_json`; `allow`, `record_success`, `record_failure` | text and QC nodes of all jobs |
| Idempotency (`cache/idempotency.py`) | `idempotency_keys` row, Redis mirror | resolve, persist, mirror | `create_job` |
| Provider (`providers/higgsfield`) | one MCP client for all jobs: session, `initialized`, tool list | `generate_clip`: submit, poll, display, download; `_http_post` with retries | generate and repair nodes, Higgsfield's server |
| Checkpoint saver (`TenantAwarePostgresSaver` in `graph/compile.py`) | one connection with its lock and its `app.tenant_id`; a tenant per context | `aget_tuple`, `aput`, `aput_writes` | graph, runner, row level security |
| Test console (`static/console.js`) | the button, the poll timer, requests in flight | `generate`, `generateJob`, `refreshJob`, `attachMedia`, `stopPoll` | Jobs API |

What is hard here:

* **Crashes.** Rows, files and checkpoints are written at different moments, the
  checkpoint of a node later than its rows. A node that runs again must not pay
  or write twice. A crash leaves its lock in Redis.
* **Errors half-way.** An exception may escape between a file and its row, or
  after the job's status was already made terminal.
* **Interleavings.** A POST's task, the sweep and resume requests compete for a
  job; release is GET then DEL; the lock may expire, and two runs then read and
  write one budget; overlapping gateway calls report to one breaker in any order;
  overlapping clips share one MCP session that any of them may reset; jobs of all
  tenants share one checkpoint connection; the console's answers come in any order.
* **Retries.** A submit whose answer is lost is sent again.
* **Limits.** Budget caps, repair and schema attempts, the breaker's threshold.
* **Sequences.** Attempts of any quality in any order decide which clip is kept,
  which frame conditions the next shot and which status the client sees.

What makes each component correct, in one line each:

* Nodes and graph: a delivered film is complete and made of the best clips; caps
  on repairs and spending hold; nothing is paid for twice; a final status is final.
* Runner and lock: one worker per job; no job is reopened; none is left behind.
* Gateway: the breaker opens at its threshold, never gets stuck, calls end.
* Idempotency: one job per key, and every answer is that job.
* Provider: no purchase after an acknowledged one, a bounded number in all, and a
  client that never believes it has a session it has lost.
* Checkpoint saver: each statement under its own job's tenant; checkpoints are
  resumed from and added to, never lost or restarted; no operation waits for ever.
* Console: a disabled button is being waited for and comes back.

## Modules

| Module | Models | Checked by | Proofs |
|---|---|---|---|
| `ShotPipeline` | one job through the graph in one task: nodes, routers, gate, `run_locked_job`, crash and resume | `MCShotPipeline` | `ShotPipeline_proofs` |
| `JobStatus` | abstract: how the status a client sees may move | `lock_safe`, `pipeline_crash` (refinement) | through `ShotPipeline_proofs`, `JobLock_proofs` |
| `JobLock` | who works on a job: requests, background tasks, sweep, lock, TTL, shutdown, crash | `MCJobLock` | `JobLock_proofs` |
| `Runners` | `JobLock` with what its tasks pay: budget columns, shots rows, clips bought, when a run may outlive its lock | `MCRunners` | `Runners_proofs` |
| `Gateway` | `complete_json` with breaker, fallback and cache, overlapping calls | `MCGateway` | `Gateway_proofs` |
| `KeyedOnce` | abstract: what POST promises about one idempotency key | `idempotency` (refinement) | through `Idempotency_proofs` |
| `Idempotency` | racing POSTs with one key: mirror, INSERT, look-ups, commit, schedule | `MCIdempotency` | `Idempotency_proofs` |
| `ClipPurchase` | abstract: what `generate_clip` promises about what it buys | `provider` (refinement) | through `HiggsfieldClient_proofs` |
| `HiggsfieldClient` | `generate_clip` of overlapping calls through one MCP client | `MCHiggsfieldClient` | `HiggsfieldClient_proofs` |
| `CheckpointStore` | abstract: a run begins at the last checkpoint and adds to it | `saver` (refinement) | through `CheckpointSaver_proofs` |
| `CheckpointSaver` | the shared connection, its lock and tenant setting, `_has_checkpoint` and `ainvoke` | `MCCheckpointSaver` | `CheckpointSaver_proofs` |
| `Console` | the page's button and poll timer against jobs that move as `JobStatus` | `MCConsole` | `Console_proofs` |

How they fit together. `ShotPipeline` assumes what `JobLock` establishes (one task
at a time); `JobLock` abstracts the graph run to a text phase and a shot phase,
which `ShotPipeline` details; both implement `JobStatus`, and `Console` takes
`JobStatus` for the server. `Runners` extends `JobLock`: each of its steps is a
step of `JobLock` or a transaction inside one of its two phases (`RunsJobLock`,
checked and proved). `JobLock` takes
the creation of the job as one step, which `Idempotency` details. `ShotPipeline`
sees a gateway call as one that returns a payload or raises (`NodeRaises`), which
`Gateway` details, a provider call as a clip, an error or an exception, which
`HiggsfieldClient` details, and a checkpoint as a value that may lag, which
`CheckpointSaver` details.

### ShotPipeline

`node` and `beat` stand for LangGraph's node (`generate_shot_2` is node
`generate_shot`, beat 2) or for a step inside a node (`*_commit`) where a crash
or an error leaves a file without its row. `gs` is `VideoAgentState` reduced to
what routers and nodes read. `ckpt` is the last durable checkpoint; with
`LateCheckpoints` it may lag by any number of nodes, as LangGraph writes it in
the background. A clip is the number of the attempt that made it, so files
(`canon`, `frame`, `film`) record which attempt they hold. Costs: a clip costs
`ClipUsd`, a gateway call `CallUsd`; the token cap works like the dollar cap and
is folded into it. Scores are 1, 2, 3 with threshold 3: below, further below, at
the threshold. `capable` is what the configured provider answers about
`frame_conditioning`. `cond` (which frame a provider call was given) and
`failures` are history variables that no guard reads. The wall clock is `late`,
which may become true at any time after the first start. `flags` holds the three
feature flags (shots, QC, assembly); they are any of `Features` and stay what they
are for the life of the job, as a restart with other settings is not modelled.

Each node that pays is one step up to its transaction and one for the transaction
if a crash between the two would leave something behind. Text nodes add to the
budget in SQL and shot nodes read, add and write; with one task the two are the
same, and `Runners` tells them apart.

Status `ESCALATED` is declared in the code and set nowhere; it is left out.

### JobLock

A member of `Tasks` is a request or a background task; when idle it can become
another. `loaded` is the status `_mark_running` read before it writes. A crash
makes every task idle and the lock token an `orphan`, which only the TTL removes.
`Fault` is a failed Redis or Postgres call at any step; a Redis command that
failed for the caller may have been carried out. `SlowTasks` says whether a task
may outlive the TTL; the code does not prevent it (text calls alone may take
60 s x 3 attempts x 2 aliases x 3 schema attempts, and the awaits of the resume's
second check, `_has_checkpoint` and `_mark_running` have no limit). The TTL runs
from the SET, so the key of such a task may go wherever the task is. `bible` says
that the continuity bible is committed: a second task in the text phase finds it
and leaves the status alone. A run that ends in the shot phase leaves what
`_set_status` or `_ensure_terminal` make of the status.

### Runners

`step` and `item` say where a task is between the transactions of a node and at
which clip or QC call of the shot phase; `view` is the node's `budget_state`, read
once by `_load_budget`, and `seen` the value a charging transaction has read with
`session.get(Job)`. `used` is `jobs.budget_used_iterations`, `made` the beats with
a `SUCCEEDED` row. History: `spent`, the charges committed; `bought`, the clips
bought for each beat; `outlived`, that a lock ran out under its owner; `lapsed`,
that one did while the job was still `QUEUED`.
Repairs and rejected schema attempts are paid by the same transactions and left
out, as are failed Redis and Postgres calls, which `lock_safe` covers.

### Gateway

A call runs without interruption between its awaits: the HTTP exchange (`post`)
and the sleep between attempts (`backoff`). Time is counted in ticks; the breaker
keeps failures by age, saturated at the threshold, which is all its tests tell
apart. `probe` in a call is history: it was let in by a breaker that was not
closed. `OtherErrors` allows exceptions that `post_chat` does not turn into an
`AppError` (`httpx.RemoteProtocolError`, `AttributeError` on a null `usage`).

### Idempotency

One key of one tenant. A request is named like the job it would create, so
`row`, `mirror` and `seen` hold requests, and `Body` is the `request_hash`. A
step is one command to Redis or Postgres. `open` is the request whose
transaction has inserted the key and not ended: another INSERT of the key waits
for it, as Postgres' unique index does under READ COMMITTED. `DeleteJob` is
external: nothing under `src/` deletes a job, but `_cached_job_still_exists` and
the 404 of `create_job` are written for it. `KeyedOnce` lets a request be told of
a mismatch with a job deleted since: `_cached_outcome` compares the hash of a
mirror before anyone asks whether its job still exists.

### HiggsfieldClient

A call of `generate_clip` goes through its `Goals`: the tool list, the catalog and
its constraints (optional), `generate_video`, the status polls, the display
(optional), the download. Each but the download is a POST, which `_http_post`
sends up to `MaxAttempts` times; `Send` reads the client's session and the answer
comes in a later step, as other calls run in between. `_ensure_initialized` is
`check`, `initialize`, `notify`. A 404 for a session the server has forgotten
resets session and flag if the client has a session at that time, otherwise it
counts as a rejection. The server is external and is one of three kinds: without
sessions, naming the session in the answer to `initialize`, or in every answer, errors
included (`adapter.py:186-188` reads the header before the status).
`Faulty` is a lost answer (the request was carried out or not), a 5xx or nonsense.
`overlapped` is history. What an answer means is abstracted to its outcomes.

### CheckpointSaver

A saver operation waits for the lock of the upstream saver, sets `app.tenant_id`
from the ContextVar, runs its statement and resets the setting in a `finally`;
`op[j].at` is the next of these. `rows` counts the checkpoints of a job under each
tenant they are stamped with, and `Visible` is row level security's view of them.
`run` follows `run_locked_job`: `_has_checkpoint`, then `ainvoke` with or without
an initial state, which loads the last checkpoint itself, then puts. A lost
connection is never replaced before the process is started again. `alist`, which
nothing calls, is left out. `get_job` also reads through this saver
(`aget_state`, `api/jobs.py:104`): it takes its turn at the connection as the
`aget_tuple` of one more job does, and has no action of its own.

### Console

`gen` is where `generateJob` of a job is between its awaits, `gets` the GETs in
flight with their answers, `pollTimer` the interval the page knows of and
`intervals` those that exist: they differ when one is overwritten without being
cleared. A `fetch` and the reading of its body are one step. The server side is
`JobStatus`, cut off where the feature flags say. `Abandon` ends the task of a job
without ending the job: a crash, a lock or a database call that failed around the
graph, or an error in the shot phase, which leaves `BIBLE_LOCKED`. `RunAgain` is
the sweep or a resume, which take `QUEUED` and `RUNNING` jobs only; `lost` are the
jobs in between. `boot`'s own disabling of the button is left out: it is lifted
when the settings are read, and if they cannot be read the page never works.

## Runs

All runs are exhaustive. Deadlock checking is off where the system may stop: a
job that has ended (`pipeline_*`, `saver`), requests all answered
(`idempotency`), clips all ended (`provider`), a page at rest (`console`).

| Run | Instance | Shows |
|---|---|---|
| `pipeline_qc` | 4 beats, 2 repairs, every setting of the flags, provider capable of conditioning or not, 34 dollars, 19 iterations (1.3 M states) | a status of success is true, best clip kept, repair and spending caps, order of shots and their frames, `PARTIAL` is delivered, every step is one nearer the end |
| `pipeline_crash` | 2 beats, 2 repairs, 2 crashes, late checkpoints, every setting of the flags, 20 dollars, 12 iterations, fairness (1.5 M states) | texts written once, `JobStatus` implemented, jobs settle |
| `lock_safe` | 3 tasks, 2 crashes, 2 faults, TTL longer than runs, fairness and a client that asks again | the token is its owner's, `JobStatus` implemented, stale jobs settle |
| `runners` | 2 tasks, a lock may run out under its owner anywhere, 1 crash, 1 beat, 4 iterations (1.3 M states) | `JobLock` implemented, lost charges and double purchases need an outlived lock, locks are given up only by ended jobs unless one ran out before `RUNNING` was written |
| `gateway_errors` | 2 aliases, 2 calls, threshold 3, other errors (1.4 M states) | closed is below the threshold, a call's exchanges run out, the ladder ends in order |
| `gateway_live` | the same, threshold 1, AppErrors only, fairness | half-open has its probe, calls end |
| `idempotency` | 3 requests, 2 bodies, 2 faults, 1 crash, 1 deletion, fairness | one job per key, `KeyedOnce` implemented, requests answered |
| `provider` | 2 calls, 2 attempts, 2 polls, 1 fault, 1 expired session, fairness (0.6 M states) | `ClipPurchase` implemented, the session is lost in one race only, calls go only forward and end |
| `console` | 3 jobs, 1 poll in flight per job, 1 fault, any of the jobs abandoned at any time, every setting of the flags, fairness (0.3 M states) | a waiting button is watched and comes back unless the page polls an abandoned job, leaks need an overlap |
| `saver` | a job of each of 2 tenants, 2 saves, 2 faults, 2 crashes, fairness | own tenant, a setting ends with its operation, no failure without a fault, `CheckpointStore` implemented, operations end |

Why the bounds suffice. `pipeline_qc` has the code's four beats and two repairs,
which give three attempts in any order of quality. Its budget can run out at any
gate and can also suffice: 12 clips of 3 dollars and the calls cost more than 34,
the shortest way through less, and each of the two caps is the binding one in some
behaviour. `pipeline_crash` has two beats because its properties are about text
nodes and statuses, with a first and a last shot: a crash may fall at every step,
twice, and the lag of a checkpoint is any number of nodes. Two tasks make every
race for a lock and for the budget row; the third of `lock_safe` lets a refused
one watch. One beat of `runners` has a clip and a QC call, at which two tasks
charge one row and look for one another's clip; a second beat adds only the same
again. Its four iterations pay for plan, bible, clip and QC call, or for more text
and less of the rest: a run comes to its end, or meets the cap at the gate of a
text, of the clip or of the QC call. Two gateway calls overlap in every way a
breaker can tell apart, and threshold 3 needs the failures of both (two attempts
each); the code's 5 differs only in how many it takes. Two requests of one body
race, the third collides with either. Two clips overlap in every way one client
can tell apart: `initialized`, one session and one reset each; one expired session
and one fault at any POST reach the race of `SessionKept`. A third job of
`console` is needed for an answer of the first to meet the timer of the second
while the button is given to the third. Two saves make a checkpoint that is
resumed from and added to. The tasks of `runners` and the calls of
`gateway_errors` are symmetric: both runs check safety alone, and nothing but a
name tells one from another.

**Fairness.** `ShotPipeline!FairSpec`: the event loop runs a task to its end
(provider, gateway and ffmpeg calls have timeouts) and a resumable job is resumed.
`JobLock!FairSpec`: tasks progress, Redis expires keys, a stopped process is
started; `RetrySpec` adds a client that keeps asking (strong, since the request
competes with others). `Gateway!FairSpec`: exchanges time out after 60 s, sleeps
end, time passes. `Idempotency!FairSpec`: requests progress.
`HiggsfieldClient!FairSpec`: each POST is answered or times out (`httpx` timeouts
and the poll deadline). `Console!FairSpec`: intervals fire, requests are answered,
a job moves on as long as a task works on it; whether one does is left open
(`Abandon` may come at any time, `RunAgain` need not). `CheckpointSaver!FairSpec`:
statements return or the connection is lost, and the lock is strongly fair because
`asyncio.Lock` serves its waiters in turn. Crashes, faults, deletions, expired
sessions, abandoned jobs and new requests get none.

### Where a document and the code differ

Each `doc_*` run states one sentence of the repository and TLC refutes it;
`PROJECT.json` quotes it.

| Run | Behaviour of the code |
|---|---|
| `doc_crash_resumes` | `BIBLE_LOCKED` is terminal, so a crash in the shot phase is never resumed |
| `doc_stuck_probe` | a probe that raises another exception blocks its alias for ever |

Seven more differences are visible in the models and have no run of their own:

* `FAILED_NO_PROGRESS` is never reported. `README.md:181`, line 18 of
  `.cursor/rules/03-harness-loop-and-termination.mdc`, line 28 of
  `docs/superpowers/specs/2026-08-20-m3b-m4-m5-design.md` and
  `docs/glossary.md:25-26` promise it when the same failure comes twice, and
  `tests/chaos/test_no_progress.py` gets it by calling `generate_shot`'s node a
  second time with the state its first failure left. In the graph the first failure
  ends the run with `PARTIAL` or `FAILED`, both terminal, so that nothing resumes
  the job and `_provider_failure` never meets an earlier signature: `OneFailure`,
  proved for every number of shots, repairs, crashes and failures. There is no run
  for it: no state of the system ever shows two failures of one job.
* The console polls a job that an error left `BIBLE_LOCKED` for ever.
  `docs/superpowers/specs/2026-08-20-local-test-console-design.md:17-22` lists
  `BIBLE_LOCKED` under the statuses that stop polling; `isTerminal`
  (`console.js:25`) takes it for one only if shots are off, and an error that escapes
  the shot phase leaves it for good (`runner.py:300` changes no status that is
  already terminal). `ButtonComesBack` excuses that case by name
  (`PollsAbandoned`): without the excuse TLC finds a button that stays disabled.
* `README.md:181` and line 27 of the M3b/M4/M5 design make a job `PARTIAL` when any
  shot is degraded. With QC on and assembly off, `qc_score` reports success when
  the last shot passes (`qc_score.py:112`), and the job ends `SHOTS_READY` whatever
  was flagged before; `SuccessIsComplete` says what `SHOTS_READY` does tell.
* After a crash the lock of the dead process is still there, and the sweep of the
  next start drops the job; only another request runs it, which is why
  `StaleJobSettles` needs `RetrySpec`.
* `ainvoke` is given no `recursion_limit` (`runner.py:112`). LangGraph's default, 25
  nodes in the releases around the one `pyproject.toml` asks for, is less than the
  44 that `RunAdvances` allows: a job with several repairs would end in an error
  and stay `BIBLE_LOCKED`. The library's count is not modelled; its error is one of
  those `NodeRaises` lets escape.
* `.cursor/rules/05-failure-ladder.mdc` puts the fallback before the circuit
  breaker; a call whose own breaker refuses it goes straight to the cache and its
  fallback is not tried. `LadderInOrder` lists this way with the others.
* A client whose session was reset during `_ensure_initialized` sends tool calls
  without one; `SessionKept` says exactly when.

Some properties are as strong as the code allows and show where it stops short
of what one would wish:

* `OnlyDegradedBreaksChain`: after a degraded shot the next one may be
  conditioned on a frame of the last attempt, which is not the clip kept.
* `KeptClipIsBest`: a failure between the copy of an attempt and the transaction
  that records its score leaves an attempt in the file that no row tells of
  (`AheadOfRow`).
* `ReleasedIsTerminal`: a task may read `QUEUED` and stall, lose its lock, and write
  `RUNNING` when another has ended the job and is about to release (`lapsed`).
* `ButtonComesBack`: not while the page polls a job whose task is gone.
* `EnsureTerminal` in `JobSettles`: an error in the shot phase leaves
  `BIBLE_LOCKED`, which counts as terminal.
* `LossNeedsSlowRun`, `ClipBoughtOnce`: with a run of more than 600 s both fail;
  the lock is not renewed.
* `LeakNeedsOverlap`: an interval does leak when two runs of `generateJob` overlap.
* `BuysAsPromised`: a submit whose answer is lost is bought again, up to
  `_MAX_ATTEMPTS` times.

## Proofs

Each `*_proofs` module shows `Spec => []IInv` for an inductive `IInv` and derives
its theorems. Constants are constrained only by the `ASSUME`s of the component
and, where said, by one more assumption. Every invariant and every action or
refinement property of the passing runs is a theorem. `TypeOK` is checked in a
run for `ShotPipeline` and only proved for the other components; so is
`InsertWaitsForCommit` of `Idempotency`.

Liveness itself is out of the prover's reach, but what makes the runs, calls and
requests end is not. `RunAdvances`, `PostsRunOut` and `GoesForward` bound what is
left to do by a measure that every step lowers (or, for `PostsRunOut`, that no
step raises and every exchange lowers), so that with fairness nothing can go on
for ever; `InsertWaitsForCommit` and the cursor's lock in `TypeOK` of
`CheckpointSaver` say whom a waiting task waits for. They are proved for every
value of the constants; the liveness properties, which add that each step does come,
are checked.

* **`ShotPipeline_proofs`.** `IInv` is `TypeOK` with: a job that left the text
  phase has a terminal status (`LeftTextIsTerminal`), the text phase carries no
  outcome, a committed bible means a terminal status, a retry happens only with
  no row yet (`RetryHasNoRow`), `TextWrittenOnce`, room for another repair at
  `repair_shot` (`RepairRoom`, which bounds the counters in `TypeOK`) and a
  verdict at `qc_commit`. `TextWrittenOnce` is not inductive by itself: that a
  second acceptance is impossible rests on `tries > 0` implying no row. The budget
  needs `InFlight`: a step that charges came through a gate. Theorems:
  `TypeCorrect`, `TextOnce`, `BibleFinal`, `BudgetCorrect`, `SettledIsFinal`.

  Two more invariants stand on it. `Course` says which status and outcome go with
  the place of a task: the shots are being made (`Going`), a stop is passing
  `chain_frame` on its way out (`Stopping`), or they are over (`Ending`). A failed
  provider call leaves `Going` for good, hence `OneFailure` (a fact about the code
  that contradicts its documents, see above, and is checked by no run); what each
  step does to the status gives `Refinement` of `JobStatus`.

  `Tables` describes rows, scores and files. For every beat, for good: the kept
  clip is the best scored one, or the newest between file and row (`KeptBest`), a
  flag means all attempts were scored
  and failed (`Capped`), a clip means the beat before is finished and gave its
  frame (`InOrder`, `Chained`). While shots are made, the beats behind the current
  one are `Finished` and those ahead `Fresh` (`Around`), and `AtBeat` tells at each
  node which attempts of the current one are scored: all but the newest at
  `qc_score` (`Unscored`), all of them at `repair_shot` and `flag_degraded`
  (`Failed`). `AtEnd` carries this to `assemble` and `deliver`. `Around` is what
  makes the per-beat facts inductive: a step writes only the current beat, and the
  one fact that reads two beats has a fresh one behind. `Attempts` counts with
  cardinalities, not with a fold, so that nothing needs induction. Theorems:
  `KeptIsBest`, `DegradedAfterCap`, `ShotOrder`, `ChainKept`, `SuccessComplete`,
  `PartialDelivered`.

  `RunEnds` measures a run: the nodes it may still complete (`NodesLeft`, which
  counts the repairs left at this beat and a full beat for each one ahead) and the
  steps inside the node it is at. Crashes and resumes are excepted, since a resume
  begins at an older checkpoint. Each action gets its own lemma, in which the
  products of constants stay opaque terms.
* **`JobLock_proofs`.** Under `~SlowTasks`: `OwnerHoldsLock` is inductive with the
  types and the facts on `loaded` and status at the places of `_mark_running`;
  `MutualExclusion` follows since one token is in Redis; `NeverReopened` and the
  refinement of `JobStatus` follow step by step. Without the assumption
  `OneWorker` is false. `Quiet` needs no such assumption and serves `Runners`: as
  long as no call to Redis or Postgres fails and no lock runs out while the job is
  `QUEUED`, that lock is its starter's, a later start finds the job `RUNNING` and
  writes nothing, and a committed bible means a terminal status (`StepQuiet`,
  `ProcessQuiet`).
* **`Gateway_proofs`.** `IInv` is `TypeOK`, `BackoffRoom` (a call asleep has an
  attempt left) and `ProbeKept` (`HalfOpenHasProbe`, if `~OtherErrors`): inductive
  without an assumption, so `TypeCorrect` needs none; `NeverStuckHalfOpen` needs
  `~OtherErrors`, and without it the property is false (`doc_stuck_probe`).
  `ClosedIsBelow` is about a fold over ages, for which the library's induction
  theorems cannot be instantiated; instead, a set of
  numbers has a least member (`Least`, from `WFMin`), so one that holds 0 and
  every successor holds them all (`Induct`), also the numbers at which a fact is
  true. So sums can be split, shifted and bounded: a tick
  shifts the ages (`ShiftedSum`), a failure adds one at age 0, and a breaker that
  stays closed had fewer than the threshold when it looked. `PostsBounded` and
  `LadderKept` are step by step.
* **`Idempotency_proofs`.** `OneJobPerKey` rests on `OpenCommits` (the one open
  transaction is that of the request about to commit, and the key is free); the
  refinement of `KeyedOnce` also on `NamesClaimed` (what key, mirror and requests
  name was committed) and `SeenIsSame` (a request looks only for a job of its own
  body). The COMMIT is the claim; `seen \in jobs` makes the job read the one the
  key names. `NoDeadlock` is `OpenCommits`, read from the one who waits.
* **`Runners_proofs`.** For all constants, `SlowTasks` included. `RInv` says that
  the column and every value read for a charge is at most what was spent, and that
  a lock was outlived or the run is `Alone`: `JobLock`'s invariant (whose proof
  needs only that no owned lock runs out, so it serves both modules),
  `PlaceTellsWork` (tasks outside the graph hold no half-done work, and what a
  task has read is the column's value), `BibleSays` (no bible before the status
  tells) and `Balanced` (`used = spent`, within the cap; a clip is bought at most
  once, and not yet for the items ahead). The disjunction is needed because one
  expiry makes everything but the first half false for good. Theorems:
  `ChargesKept`, `BoughtOnce`, and under `~SlowTasks` `PaidOnce`, where the excuse
  cannot arise. `Implements` shows that every step is one of `JobLock`'s or leaves
  its variables alone, slow runs included and without an invariant: a task that
  finds the bible of another is a case of `JobLock`'s `BibleLocked`. `StatusOfRuns`
  is then `JobLock`'s theorem. `ReleasedLate` rests on `QInv` of `JobLock_proofs`,
  which every step keeps until a lock runs out under a `QUEUED` job (`QuietRun`);
  `lapsed` says that one did, and stays (`LapseStays`).
* **`HiggsfieldClient_proofs`.** `IInv` adds to the types that purchases are counted
  by attempts (`AttemptsCounted`: before `generate_video` none, at it fewer than
  the attempts so far, which bounds them) and, without an overlap, that at most one
  call is active and the sessions in flight are the client's (`OneAtATime`). Each
  call moves by `CallStep`, a relation on one record, from which types, counts and
  the refinement of `ClipPurchase` follow; `CallsGoForward` compares the measures
  of the record before and after each of its moves. Theorems: `TypeCorrect`,
  `SessionStays`, `Refinement`, `CallsGoForward`.
* **`Console_proofs`.** `WaitingIsWatched` and `LeakNeedsOverlap` with
  `OneGenerates` (without an overlap at most one `generateJob` runs), which the
  second rests on.
* **`CheckpointSaver_proofs`.** Per job: the setting is the job's tenant inside its
  cursor (`OpOK`), what the run has found agrees with its rows (`RunOK`), and a
  failure or a lost connection has its fault (`FaultOK`). The lock's exclusivity is
  part of `TypeOK`. `Refinement` of `CheckpointStore` follows because every row is
  stamped with the job's own tenant. `CleanBetween`: the setting is made by the
  holder in its own scope and goes with the lock, or with the connection.

Model-checked only: the properties under fairness (`JobSettles`, `StaleJobSettles`,
`CallEnds` of both clients, `RequestsAnswered`, `ButtonComesBack`, `OperationsEnd`),
since the prover has neither fairness nor `ENABLED`.

## Not modelled

Wording and parsing (prompts, configuration, schemas, tool arguments), logging and
tracing, migrations and scripts, ffmpeg itself, link signing, the progress value in
Redis, the fake provider and gateways, which answer at once and keep nothing. Row
level security of the tables other than the checkpoints is set per transaction and
has no state between them. Retries and polls have no clock: a timeout is an outcome.
A degraded cached answer costs nothing in the code and `CallUsd` in
`ShotPipeline`, which can only make the budget stop earlier.

## Plan

1. All modules above with their runs, and the proofs listed: done.
2. Theorems about the abstract modules themselves (`ClipPurchase`, `KeyedOnce`,
   `CheckpointStore`), which then hold of what implements them.
3. An operator module for presigned links.
