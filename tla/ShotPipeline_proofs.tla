------------------------ MODULE ShotPipeline_proofs ------------------------
(***************************************************************************)
(* Proofs about ShotPipeline, for every value of its constants.            *)
(***************************************************************************)
EXTENDS ShotPipeline, FiniteSetTheorems, TLAPS

PlaceSet == [node: Nodes \cup {"end"}, beat: Beats]

\* Outside the two text nodes, in memory or in the checkpoint, the job's
\* status is terminal: the fact that keeps a task out of the shot nodes once
\* its process has died.
LeftTextIsTerminal ==
    node \notin TextNodes \/ ckpt.at.node \notin TextNodes => status \in Terminal

\* No text node is entered with an outcome, so its router goes on from it.
TextHasNoOutcome ==
    /\ node \in TextNodes => gs.outcome = "NONE"
    /\ ckpt.at.node \in TextNodes => ckpt.gs.outcome = "NONE"

\* A schema retry happens only where no row existed when the node began.
RetryHasNoRow ==
    \A n \in TextNodes : up /\ node = n /\ tries > 0 => rows[n] = 0

\* The routers send a shot to repair only below the cap.
RepairRoom ==
    node \in {"repair_shot", "repair_commit"} =>
        shot[beat].repair_count < MaxRepairs

\* A score waiting for its transaction is a score.
VerdictGiven == node = "qc_commit" => verdict \in Scores

\* The gate was open when a clip not yet billed was ordered.
InFlight ==
    node \in {"generate_commit", "repair_commit"} =>
        used.usd < MaxUsd /\ used.iterations < MaxIterations

IInv ==
    /\ TypeOK
    /\ LeftTextIsTerminal
    /\ TextHasNoOutcome
    /\ BibleLockedIsFinal
    /\ RetryHasNoRow
    /\ TextWrittenOnce
    /\ RepairRoom
    /\ VerdictGiven

-----------------------------------------------------------------------------
USE BeatsAssumption, RepairAssumption, ScoreAssumption, FlagAssumption,
    BudgetAssumption, CrashAssumption, SignatureAssumption,
    ProviderAssumption

\* The initial graph state is a graph state.
LEMMA EmptyStateType == EmptyState \in GraphState
  BY DEF EmptyState, GraphState, Outcomes, Stopped

\* Every router leads to a node of the graph or to its end.
LEMMA RouteType ==
    ASSUME NEW g, NEW b \in Beats
    PROVE  /\ AfterPlan(g) \in PlaceSet
           /\ AfterBible(g) \in PlaceSet
           /\ AfterGenerate(g, b) \in PlaceSet
           /\ AfterChain(g, b) \in PlaceSet
           /\ AfterQc(g, b) \in PlaceSet
           /\ AfterFlag(b) \in PlaceSet
  <1> USE DEF PlaceSet, Place, Nodes, TextNodes, ShotNodes, Beats
  <1>1. NextAfterShot(b) \in PlaceSet
    BY DEF NextAfterShot
  <1>2. \A o : StopPlace(o, b) \in PlaceSet
    BY DEF StopPlace
  <1>3. AfterPlan(g) \in PlaceSet /\ AfterBible(g) \in PlaceSet
    BY DEF AfterPlan, AfterBible
  <1>4. AfterGenerate(g, b) \in PlaceSet
    BY <1>2 DEF AfterGenerate
  <1>5. AfterChain(g, b) \in PlaceSet
    BY <1>1, <1>2 DEF AfterChain
  <1>6. AfterQc(g, b) \in PlaceSet
    BY <1>1, <1>2 DEF AfterQc
  <1>7. QED
    BY <1>1, <1>3, <1>4, <1>5, <1>6 DEF AfterFlag

\* A node's return keeps the invariant when the status goes with the place the
\* graph goes to.
LEMMA ReturnStep ==
    ASSUME IInv, NEW p \in PlaceSet, NEW g \in GraphState, Return(p, g),
           StoreTypeOK', status' \in Stale \cup Terminal,
           status \in Terminal => status' \in Terminal,
           p.node \in TextNodes => g.outcome = "NONE",
           p.node \notin TextNodes => status' \in Terminal,
           p.node = "repair_shot" => shot'[p.beat].repair_count < MaxRepairs,
           BibleLockedIsFinal', TextWrittenOnce'
    PROVE  IInv'
  <1>1. /\ node' = p.node /\ beat' = p.beat /\ gs' = g
        /\ tries' = 0 /\ verdict' = 0 /\ up' = up
        /\ ckpt' = [at |-> p, gs |-> g] \/ ckpt' = ckpt
    BY DEF Return
  <1>2. node' \notin Commits /\ node' \in Places /\ beat' \in Beats
    BY <1>1 DEF PlaceSet, Nodes, TextNodes, ShotNodes, Places, Commits
  <1>3. ckpt' \in [at: [node: Nodes \cup {"end"}, beat: Beats], gs: GraphState]
    BY <1>1 DEF PlaceSet, IInv, TypeOK, TaskTypeOK
  <1>4. TypeOK'
    BY <1>1, <1>2, <1>3 DEF IInv, TypeOK, TaskTypeOK
  <1>5. LeftTextIsTerminal' /\ RetryHasNoRow' /\ TextHasNoOutcome'
    BY <1>1 DEF IInv, LeftTextIsTerminal, RetryHasNoRow, TextHasNoOutcome
  <1>6. VerdictGiven' /\ RepairRoom'
    BY <1>1, <1>2 DEF VerdictGiven, RepairRoom, Commits
  <1>7. QED
    BY <1>4, <1>5, <1>6 DEF IInv

\* In the shot phase the status is terminal already.
LEMMA ReturnInv ==
    ASSUME IInv, NEW p \in PlaceSet, NEW g \in GraphState, Return(p, g),
           status' \in Terminal, StoreTypeOK', rows' = rows,
           p.node \notin TextNodes,
           p.node = "repair_shot" => shot'[p.beat].repair_count < MaxRepairs
    PROVE  IInv'
  <1>1. BibleLockedIsFinal' /\ TextWrittenOnce'
    BY DEF IInv, BibleLockedIsFinal, TextWrittenOnce
  <1>2. QED
    BY <1>1, ReturnStep

\* A task that stops working, by an error or because the job is finished,
\* leaves a terminal status.
LEMMA EndInv ==
    ASSUME IInv, up' = FALSE, node' \in {"escaped", "done"},
           UNCHANGED <<beat, gs, tries, verdict, ckpt, rows>>,
           status' \in Terminal, StoreTypeOK'
    PROVE  IInv'
  <1>1. TypeOK'
    BY DEF IInv, TypeOK, TaskTypeOK, Places
  <1>2. LeftTextIsTerminal' /\ BibleLockedIsFinal' /\ RetryHasNoRow'
    BY DEF LeftTextIsTerminal, BibleLockedIsFinal, RetryHasNoRow
  <1>5. TextHasNoOutcome'
    BY DEF IInv, TextHasNoOutcome, TextNodes
  <1>3. VerdictGiven' /\ RepairRoom' /\ TextWrittenOnce'
    BY DEF IInv, VerdictGiven, RepairRoom, TextWrittenOnce
  <1>4. QED
    BY <1>1, <1>2, <1>3, <1>5 DEF IInv

\* A step inside a shot node.
LEMMA InsideInv ==
    ASSUME IInv, NEW c \in Commits, Inside(c), node \notin TextNodes,
           UNCHANGED <<status, rows, shot>>, StoreTypeOK',
           verdict' \in {0} \cup Scores,
           c = "qc_commit" => verdict' \in Scores,
           c = "repair_commit" => shot[beat].repair_count < MaxRepairs
    PROVE  IInv'
  <1>1. node' = c /\ UNCHANGED <<up, beat, gs, tries, ckpt>>
    BY DEF Inside
  <1>2. TypeOK'
    BY <1>1 DEF IInv, TypeOK, TaskTypeOK, Places
  <1>3. c \notin TextNodes /\ c # "repair_shot"
    BY DEF Commits, TextNodes
  <1>4. LeftTextIsTerminal' /\ BibleLockedIsFinal' /\ RetryHasNoRow'
    BY <1>1, <1>3 DEF IInv, LeftTextIsTerminal, BibleLockedIsFinal, RetryHasNoRow
  <1>7. TextHasNoOutcome'
    BY <1>1, <1>3 DEF IInv, TextHasNoOutcome
  <1>5. VerdictGiven' /\ RepairRoom' /\ TextWrittenOnce'
    BY <1>1, <1>3 DEF IInv, VerdictGiven, RepairRoom, TextWrittenOnce
  <1>6. QED
    BY <1>2, <1>4, <1>5, <1>7 DEF IInv

\* A stopped outcome leads to assembly or to the end, never to more work.
LEMMA StoppedRoute ==
    ASSUME NEW g \in GraphState, g.outcome \in Stopped, NEW b \in Beats
    PROVE  /\ AfterPlan(g).node = "end" /\ AfterBible(g).node = "end"
           /\ AfterGenerate(g, b).node \in {"assemble", "end"}
           /\ AfterChain(g, b).node \in {"assemble", "end"}
           /\ AfterQc(g, b).node \in {"assemble", "end"}
  BY DEF AfterPlan, AfterBible, AfterGenerate, AfterChain, AfterQc, StopPlace,
         Place

\* Only plan_story leads to a text node, and only qc_score to repair_shot,
\* below the cap.
LEMMA RouteNode ==
    ASSUME NEW g \in GraphState, NEW b \in Beats
    PROVE  /\ AfterPlan(g).node \in {"lock_continuity_bible", "end"}
           /\ AfterBible(g).node \in {"generate_shot", "end"}
           /\ AfterGenerate(g, b).node \notin TextNodes \cup {"repair_shot"}
           /\ AfterChain(g, b).node \notin TextNodes \cup {"repair_shot"}
           /\ AfterFlag(b).node \notin TextNodes \cup {"repair_shot"}
           /\ AfterQc(g, b).node \notin TextNodes
           /\ AfterQc(g, b).node = "repair_shot" =>
                 AfterQc(g, b) = Place("repair_shot", b)
                 /\ g.repair_count < MaxRepairs
  BY DEF AfterPlan, AfterBible, AfterGenerate, AfterChain, AfterQc, AfterFlag,
         StopPlace, NextAfterShot, Place, TextNodes

\* The status constants are different strings.
LEMMA StatusFacts ==
    /\ Stopped \subseteq Terminal /\ "BIBLE_LOCKED" \in Terminal
    /\ "RUNNING" \in Stale /\ Stale \cap Terminal = {}
    /\ \A s \in Stale \cup Terminal : EnsureTerminal(s) \in Terminal
  BY DEF Stopped, Terminal, Stale, EnsureTerminal

\* A budget stop preserves the invariant wherever a gate stands.
LEMMA BudgetStopInv ==
    ASSUME IInv, NEW p \in PlaceSet, BudgetStop(p),
           p.node \notin TextNodes \cup {"repair_shot"}
    PROVE  IInv'
  <1>1. Partial \in GraphState
    BY DEF IInv, TypeOK, TaskTypeOK, GraphState, Partial, Outcomes, Stopped
  <1>2. Return(p, Partial) /\ status' \in Terminal
    BY DEF BudgetStop, Terminal
  <1>3. StoreTypeOK' /\ rows' = rows
    BY DEF BudgetStop, fileVars, envVars, histVars, IInv, TypeOK, StoreTypeOK
  <1>4. QED
    BY <1>1, <1>2, <1>3, ReturnInv

\* A budget charge keeps the counters natural numbers.
LEMMA ChargeType ==
    ASSUME StoreTypeOK, NEW c \in Nat
    PROVE  Charge(c) \in [usd: Nat, iterations: Nat]
  BY DEF StoreTypeOK, Charge

-----------------------------------------------------------------------------
\* A job is created QUEUED at the start of the graph.
LEMMA InitInv == Init => IInv
  <1> SUFFICES ASSUME Init PROVE IInv
    OBVIOUS
  <1> USE DEF Init
  <1>1. TaskTypeOK
    <2>1. StartPlace \in PlaceSet /\ 1 \in Beats
      BY DEF StartPlace, Place, PlaceSet, Nodes, TextNodes, Beats
    <2>2. ckpt \in [at: [node: Nodes \cup {"end"}, beat: Beats], gs: GraphState]
      BY <2>1, EmptyStateType DEF PlaceSet
    <2>3. up \in BOOLEAN /\ node \in Places /\ beat \in Beats /\ gs \in GraphState
      BY <2>1, EmptyStateType DEF Places, Nodes, TextNodes
    <2>4. tries \in 0..(SchemaAttempts - 1) /\ verdict \in {0} \cup Scores
      OBVIOUS
    <2>5. QED
      BY <2>2, <2>3, <2>4 DEF TaskTypeOK
  <1>2. StoreTypeOK
    <2>1. NoShot \in ShotRow
      BY DEF NoShot, ShotRow
    <2>2. 0 \in Clips /\ 0 \in 0..NBeats /\ 0 \in 0..MaxCrashes
      BY DEF Clips
    <2>3. cond \in [Beats -> [beat: 0..NBeats, clip: Clips]]
      BY <2>2
    <2>4. /\ shot \in [Beats -> ShotRow] /\ canon \in [Beats -> Clips]
          /\ frame \in [Beats -> Clips] /\ film \in [Beats -> Clips]
          /\ rows \in [TextNodes -> Nat] /\ used \in [usd: Nat, iterations: Nat]
      BY <2>1, <2>2
    <2>5. QED
      BY <2>2, <2>3, <2>4 DEF StoreTypeOK
  <1>3. QED
    BY <1>1, <1>2 DEF IInv, TypeOK, LeftTextIsTerminal, BibleLockedIsFinal,
                      RetryHasNoRow, TextWrittenOnce, RepairRoom, VerdictGiven,
                      TextHasNoOutcome, EmptyState, Stale, StartPlace, Place, TextNodes

\* The steps of the runner and of the environment keep the invariant.
LEMMA RunnerInv ==
    ASSUME IInv, StartRun \/ NodeRaises \/ Finish \/ Crash \/ WallClockExpires
    PROVE  IInv'
  <1>1. CASE StartRun
    <2>1. /\ ckpt.at.node \in TextNodes
          /\ node' = ckpt.at.node /\ tries' = 0 /\ status' = "RUNNING"
          /\ UNCHANGED <<ckpt, rows, shot>> /\ status \notin Terminal
      BY <1>1 DEF StartRun, IInv, LeftTextIsTerminal
    <2>2. TypeOK'
      <3>1. StoreTypeOK'
        BY <1>1 DEF StartRun, fileVars, envVars, histVars, IInv, TypeOK,
                    StoreTypeOK
      <3>2. TaskTypeOK'
        BY <1>1 DEF StartRun, IInv, TypeOK, TaskTypeOK, Places
      <3>3. QED
        BY <2>1, <3>1, <3>2 DEF TypeOK, Stale
    <2>3. rows["lock_continuity_bible"] = 0
      BY <2>1 DEF IInv, TypeOK, StoreTypeOK, BibleLockedIsFinal, TextNodes
    <2>4. LeftTextIsTerminal' /\ BibleLockedIsFinal' /\ RetryHasNoRow'
      BY <2>1, <2>3 DEF LeftTextIsTerminal, BibleLockedIsFinal, RetryHasNoRow
    <2>5. VerdictGiven' /\ RepairRoom' /\ TextWrittenOnce' /\ TextHasNoOutcome'
      BY <1>1, <2>1 DEF StartRun, IInv, VerdictGiven, RepairRoom,
         TextWrittenOnce, TextHasNoOutcome, TextNodes
    <2>6. QED
      BY <2>2, <2>4, <2>5 DEF IInv
  <1>2. CASE NodeRaises
    <2>1. status' \in Terminal
      BY <1>2, StatusFacts DEF NodeRaises, IInv, TypeOK
    <2>2. StoreTypeOK' /\ rows' = rows
      BY <1>2 DEF NodeRaises, fileVars, envVars, histVars, IInv, TypeOK,
                  StoreTypeOK
    <2>3. QED
      BY <1>2, <2>1, <2>2, EndInv DEF NodeRaises, Escape
  <1>3. CASE Finish
    <2>1. status \in Terminal
      BY <1>3 DEF Finish, At, IInv, LeftTextIsTerminal, TextNodes
    <2>2. gs.outcome \in Outcomes
      BY DEF IInv, TypeOK, TaskTypeOK, GraphState
    <2>3. status' \in Terminal
      BY <1>3, <2>1, <2>2 DEF Finish, FinalStatus, Outcomes, Stopped, Terminal
    <2>4. StoreTypeOK' /\ rows' = rows
      BY <1>3 DEF Finish, fileVars, envVars, histVars, IInv, TypeOK, StoreTypeOK
    <2>5. QED
      BY <1>3, <2>3, <2>4, EndInv DEF Finish
  <1>4. CASE Crash
    <2>1. StoreTypeOK'
      BY <1>4 DEF Crash, jobVars, fileVars, histVars, IInv, TypeOK, StoreTypeOK
    <2>2. TypeOK'
      BY <1>4, <2>1 DEF Crash, jobVars, IInv, TypeOK, TaskTypeOK
    <2>3. QED
      BY <1>4, <2>2 DEF Crash, jobVars, IInv, LeftTextIsTerminal,
         BibleLockedIsFinal, RetryHasNoRow, VerdictGiven, RepairRoom,
         TextWrittenOnce, TextHasNoOutcome
  <1>5. CASE WallClockExpires
    <2>1. StoreTypeOK'
      BY <1>5 DEF WallClockExpires, jobVars, fileVars, histVars, IInv, TypeOK,
                  StoreTypeOK
    <2>2. TypeOK'
      BY <1>5, <2>1 DEF WallClockExpires, taskVars, jobVars, IInv, TypeOK,
                        TaskTypeOK
    <2>3. QED
      BY <1>5, <2>2 DEF WallClockExpires, taskVars, jobVars, IInv,
         LeftTextIsTerminal, BibleLockedIsFinal, RetryHasNoRow, VerdictGiven,
         RepairRoom, TextWrittenOnce, TextHasNoOutcome
  <1>6. QED
    BY <1>1, <1>2, <1>3, <1>4, <1>5

\* The story and bible nodes keep the invariant: a second commit would need a
\* start with the first one's row present, and that start reuses the row.
LEMMA TextInv ==
    ASSUME IInv, NEW n \in TextNodes, TextNode(n)
    PROVE  IInv'
  <1>1. At(n) /\ ~(n = "plan_story" /\ n = "lock_continuity_bible")
        /\ gs \in GraphState /\ gs.outcome = "NONE"
    BY DEF TextNode, TextStop, TextReuse, TextAccepted, TextRejected, At, IInv,
           TypeOK, TaskTypeOK, TextHasNoOutcome
  <1> DEFINE done == TextDone(n)
  <1>2. done \in GraphState /\ 1 \in Beats
    BY <1>1 DEF TextDone, GraphState, Outcomes, Beats
  <1>3. AfterText(n, done) \in PlaceSet
    BY <1>2, RouteType DEF AfterText
  <1>4. CASE TextStop(n)
    <2>1. Partial \in GraphState /\ Partial.outcome \in Stopped
      BY <1>1 DEF Partial, GraphState, Outcomes, Stopped
    <2>2. AfterText(n, Partial) \in PlaceSet /\ AfterText(n, Partial).node = "end"
      BY <1>2, <2>1, RouteType, StoppedRoute DEF AfterText
    <2>3. QED
      BY <1>4, <2>2, BudgetStopInv DEF TextStop, TextNodes
  <1>5. CASE TextReuse(n)
    <2>1. Return(AfterText(n, done), done) /\ UNCHANGED <<status, rows>>
      BY <1>5 DEF TextReuse, jobVars
    <2>2. StoreTypeOK'
      BY <1>5 DEF TextReuse, jobVars, fileVars, envVars, histVars, IInv, TypeOK,
                  StoreTypeOK
    <2>3. n = "lock_continuity_bible" => status \in Terminal
      BY <1>5 DEF TextReuse, IInv, BibleLockedIsFinal
    <2>4. n = "plan_story" => AfterText(n, done).node = "lock_continuity_bible"
                              /\ done.outcome = "NONE"
      BY <1>1 DEF AfterText, AfterPlan, TextDone, Place, Stopped
    <2>5. n = "lock_continuity_bible" => AfterText(n, done).node \notin TextNodes
      BY <1>2, RouteNode DEF AfterText, TextNodes
    <2>6. n \in {"plan_story", "lock_continuity_bible"}
      BY DEF TextNodes
    <2>7. BibleLockedIsFinal' /\ TextWrittenOnce' /\ status' \in Stale \cup Terminal
      BY <2>1 DEF IInv, TypeOK, BibleLockedIsFinal, TextWrittenOnce
    <2>8. AfterText(n, done).node # "repair_shot"
      BY <1>2, RouteNode DEF AfterText
    <2>9. QED
      BY <1>2, <1>3, <2>1, <2>2, <2>3, <2>4, <2>5, <2>6, <2>7, <2>8, ReturnStep
         DEF TextNodes
  <1>6. CASE TextAccepted(n)
    <2>1. /\ Return(AfterText(n, done), done)
          /\ rows' = [rows EXCEPT ![n] = @ + 1]
          /\ status' = IF n = "lock_continuity_bible" THEN "BIBLE_LOCKED"
                       ELSE status
      BY <1>6 DEF TextAccepted
    <2>2. rows[n] = 0 /\ rows \in [TextNodes -> Nat]
      BY <1>6 DEF TextAccepted, At, IInv, RetryHasNoRow, TypeOK, StoreTypeOK,
                  TaskTypeOK
    <2>3. used' \in [usd: Nat, iterations: Nat]
      BY <1>6, ChargeType DEF TextAccepted, IInv, TypeOK
    <2>4. StoreTypeOK'
      BY <1>6, <2>1, <2>2, <2>3 DEF TextAccepted, fileVars, envVars, histVars,
         IInv, TypeOK, StoreTypeOK
    <2>5. TextWrittenOnce'
      BY <2>1, <2>2 DEF IInv, TextWrittenOnce
    <2>6. BibleLockedIsFinal'
      BY <2>1, <2>2 DEF IInv, BibleLockedIsFinal, TextNodes, Terminal
    <2>7. n = "plan_story" => AfterText(n, done).node = "lock_continuity_bible"
                              /\ done.outcome = "NONE"
      BY <1>1 DEF AfterText, AfterPlan, TextDone, Place, Stopped
    <2>8. n = "lock_continuity_bible" => AfterText(n, done).node \notin TextNodes
                                         /\ status' \in Terminal
      BY <1>2, <2>1, RouteNode DEF AfterText, TextNodes, Terminal
    <2>9. AfterText(n, done).node # "repair_shot"
      BY <1>2, RouteNode DEF AfterText
    <2>10. n \in {"plan_story", "lock_continuity_bible"}
           /\ status' \in Stale \cup Terminal
      BY <2>1, StatusFacts DEF TextNodes, IInv, TypeOK
    <2>11. status \in Terminal => status' \in Terminal
      BY <2>1, StatusFacts
    <2>12. QED
      BY <1>2, <1>3, <2>1, <2>4, <2>5, <2>6, <2>7, <2>8, <2>9, <2>10, <2>11,
         ReturnStep DEF TextNodes
  <1>7. CASE TextRejected(n)
    <2>1. used' \in [usd: Nat, iterations: Nat]
      BY <1>7, ChargeType DEF TextRejected, IInv, TypeOK
    <2>2. StoreTypeOK' /\ rows' = rows /\ shot' = shot
      BY <1>7, <2>1 DEF TextRejected, fileVars, envVars, histVars, IInv, TypeOK,
                        StoreTypeOK
    <2>3. CASE tries + 1 < SchemaAttempts
      <3>1. tries' = tries + 1 /\ UNCHANGED <<up, node, beat, gs, verdict, ckpt, status>>
        BY <1>7, <2>3 DEF TextRejected
      <3>2. TypeOK'
        BY <2>2, <2>3, <3>1 DEF IInv, TypeOK, TaskTypeOK
      <3>3. rows[n] = 0
        BY <1>7 DEF TextRejected, At, IInv, RetryHasNoRow, TypeOK, StoreTypeOK,
                    TaskTypeOK
      <3>4. RetryHasNoRow'
        BY <1>1, <2>2, <3>1, <3>3 DEF RetryHasNoRow, At
      <3>5. QED
        BY <2>2, <3>1, <3>2, <3>4 DEF IInv, LeftTextIsTerminal, TextHasNoOutcome,
           BibleLockedIsFinal, TextWrittenOnce, RepairRoom, VerdictGiven
    <2>4. CASE ~(tries + 1 < SchemaAttempts)
      <3>1. status' \in Terminal /\ Escape
        BY <1>7, <2>4 DEF TextRejected, Terminal
      <3>2. QED
        BY <2>2, <3>1, EndInv DEF Escape
    <2>5. QED
      BY <2>3, <2>4
  <1>8. QED
    BY <1>4, <1>5, <1>6, <1>7 DEF TextNode

\* A shots row may be replaced by another one of its type.
LEMMA ShotUpdate ==
    ASSUME IInv, NEW row \in ShotRow
    PROVE  [shot EXCEPT ![beat] = row] \in [Beats -> ShotRow]
  BY DEF IInv, TypeOK, TaskTypeOK, StoreTypeOK

\* What a failed provider call stores is typed and stopped.
LEMMA FailureFacts ==
    ASSUME IInv, NEW sig \in Signatures
    PROVE  /\ FailedOutcome(sig) \in Stopped
           /\ ProviderFailed(sig) \in GraphState
           /\ ProviderFailed(sig).outcome \in Stopped
  <1>1. FailedOutcome(sig) \in Stopped
    BY DEF FailedOutcome, Stopped
  <1>2. gs \in GraphState
    BY DEF IInv, TypeOK, TaskTypeOK
  <1>3. QED
    BY <1>1, <1>2 DEF ProviderFailed, GraphState, Outcomes

\* A failed provider call keeps the invariant.
LEMMA FailureInv ==
    ASSUME IInv, NEW sig \in Signatures, NEW p \in PlaceSet,
           ProviderFailure(p, sig), p.node \notin TextNodes \cup {"repair_shot"}
    PROVE  IInv'
  <1>1. StoreTypeOK' /\ rows' = rows
    BY DEF ProviderFailure, fileVars, envVars, IInv, TypeOK, StoreTypeOK
  <1>2. status' \in Terminal /\ Return(p, ProviderFailed(sig))
    BY FailureFacts, StatusFacts DEF ProviderFailure
  <1>3. QED
    BY <1>1, <1>2, FailureFacts, ReturnInv

\* The gate of a node of the shot phase opens onto typed places.
LEMMA ShotFacts ==
    ASSUME IInv
    PROVE  /\ gs \in GraphState /\ beat \in Beats /\ Partial \in GraphState
           /\ Partial.outcome \in Stopped
           /\ node \notin TextNodes => status \in Terminal
           /\ shot[beat] \in ShotRow
           /\ PriorFrame \in [beat: 0..NBeats, clip: Clips]
  <1>1. gs \in GraphState /\ beat \in Beats
    BY DEF IInv, TypeOK, TaskTypeOK
  <1>2. Partial \in GraphState /\ Partial.outcome \in Stopped
    BY <1>1 DEF Partial, GraphState, Outcomes, Stopped
  <1>3. shot[beat] \in ShotRow /\ (node \notin TextNodes => status \in Terminal)
    BY <1>1 DEF IInv, TypeOK, StoreTypeOK, LeftTextIsTerminal
  <1>4. gs.prior \in 0..NBeats
    BY <1>1 DEF GraphState
  <1>5. PriorFrame \in [beat: 0..NBeats, clip: Clips]
    <2>1. CASE beat > 1 /\ gs.prior > 0
      <3>1. gs.prior \in Beats
        BY <1>4, <2>1 DEF Beats
      <3>2. frame[gs.prior] \in Clips
        BY <3>1 DEF IInv, TypeOK, StoreTypeOK
      <3>3. QED
        BY <1>4, <2>1, <3>2 DEF PriorFrame
    <2>2. CASE ~(beat > 1 /\ gs.prior > 0)
      BY <2>2 DEF PriorFrame, Clips
    <2>3. QED
      BY <2>1, <2>2
  <1>6. QED
    BY <1>1, <1>2, <1>3, <1>5

\* The steps of generate_shot keep the invariant.
LEMMA GenerateInv ==
    ASSUME IInv, GenerateShot
    PROVE  IInv'
  <1>1. gs \in GraphState /\ beat \in Beats /\ Partial \in GraphState
    BY ShotFacts
  <1>2. CASE GenerateStop
    BY <1>1, <1>2, RouteType, RouteNode, BudgetStopInv DEF GenerateStop
  <1>3. CASE GenerateNoCapability
    <2>1. StoreTypeOK' /\ rows' = rows /\ status' \in Terminal
      BY <1>3 DEF GenerateNoCapability, fileVars, envVars, histVars, IInv,
                  TypeOK, StoreTypeOK, Terminal
    <2>2. QED
      BY <1>3, <2>1, EndInv DEF GenerateNoCapability, Escape
  <1>4. ASSUME NEW sig \in Signatures, GenerateFailed(sig) PROVE IInv'
    BY <1>1, <1>4, FailureFacts, RouteType, RouteNode, FailureInv
       DEF GenerateFailed
  <1>5. CASE GenerateClip
    <2>1. node = "generate_shot" /\ status' = status /\ rows' = rows /\ shot' = shot
      BY <1>5 DEF GenerateClip, At, jobVars
    <2>2. status \in Terminal
      BY <2>1, ShotFacts DEF TextNodes
    <2>3. CASE shot[beat].made
      <3> DEFINE prior == IF frame[beat] = 0 THEN 0 ELSE beat
                 g == [gs EXCEPT !.clip = 0, !.prior = prior]
      <3>1. Return(AfterGenerate(g, beat), g) /\ UNCHANGED <<canon, cond>>
        BY <1>5, <2>3 DEF GenerateClip
      <3>2. g \in GraphState
        <4>1. 0 \in 0..MaxRepairs /\ beat \in 0..NBeats
              /\ 0 \in 0..NBeats
          BY <1>1, BeatsAssumption, RepairAssumption DEF Beats
        <4>2. prior \in 0..NBeats
          BY <4>1
        <4>3. QED
          BY <1>1, <4>1, <4>2 DEF GraphState
      <3>3. StoreTypeOK'
        BY <1>5, <3>1 DEF GenerateClip, jobVars, envVars, IInv, TypeOK, StoreTypeOK
      <3>4. /\ AfterGenerate(g, beat) \in PlaceSet
            /\ AfterGenerate(g, beat).node \notin TextNodes \cup {"repair_shot"}
        BY <1>1, <3>2, RouteType, RouteNode
      <3>5. QED
        BY <2>1, <2>2, <3>1, <3>2, <3>3, <3>4, ReturnInv
    <2>4. CASE ~shot[beat].made
      <3>1. /\ canon' = [canon EXCEPT ![beat] = 1]
            /\ cond' = [cond EXCEPT ![beat] = PriorFrame]
            /\ Inside("generate_commit") /\ verdict' = verdict
        BY <1>5, <2>4 DEF GenerateClip
      <3>2. 1 \in Clips
        BY DEF Clips
      <3>3. canon' \in [Beats -> Clips]
            /\ cond' \in [Beats -> [beat: 0..NBeats, clip: Clips]]
        BY <3>1, <3>2, ShotFacts DEF IInv, TypeOK, StoreTypeOK
      <3>4. StoreTypeOK'
        BY <1>5, <3>3 DEF GenerateClip, jobVars, envVars, IInv, TypeOK, StoreTypeOK
      <3>5. verdict' \in {0} \cup Scores
        BY <3>1 DEF IInv, TypeOK, TaskTypeOK
      <3>6. QED
        BY <2>1, <3>1, <3>4, <3>5, InsideInv DEF Commits, TextNodes
    <2>5. QED
      BY <2>3, <2>4
  <1>6. CASE GenerateCommit
    <2> DEFINE g == [gs EXCEPT !.clip = 0]
    <2>1. /\ Return(AfterGenerate(g, beat), g) /\ status' = status /\ rows' = rows
          /\ node = "generate_commit"
          /\ shot' = [shot EXCEPT ![beat].made = TRUE]
      BY <1>6 DEF GenerateCommit, At
    <2>2. g \in GraphState /\ status \in Terminal
      BY <1>1, <2>1, ShotFacts DEF GraphState, TextNodes
    <2>3. [shot[beat] EXCEPT !.made = TRUE] \in ShotRow
      BY ShotFacts DEF ShotRow
    <2>4. shot' \in [Beats -> ShotRow]
      BY <2>1, <2>3, ShotUpdate
    <2>5. used' \in [usd: Nat, iterations: Nat]
      BY <1>6, ChargeType DEF GenerateCommit, IInv, TypeOK
    <2>6. StoreTypeOK'
      BY <1>6, <2>4, <2>5 DEF GenerateCommit, fileVars, envVars, histVars, IInv,
                              TypeOK, StoreTypeOK
    <2>7. /\ AfterGenerate(g, beat) \in PlaceSet
          /\ AfterGenerate(g, beat).node \notin TextNodes \cup {"repair_shot"}
      BY <1>1, <2>2, RouteType, RouteNode
    <2>8. QED
      BY <2>1, <2>2, <2>6, <2>7, ReturnInv
  <1>7. QED
    BY <1>2, <1>3, <1>4, <1>5, <1>6 DEF GenerateShot

\* The steps of repair_shot keep the invariant: RepairRoom keeps the repair
\* counters within MaxRepairs.
LEMMA RepairInv ==
    ASSUME IInv, RepairShot
    PROVE  IInv'
  <1> DEFINE next == Place("chain_frame", beat)
  <1>1. gs \in GraphState /\ beat \in Beats /\ shot[beat] \in ShotRow
    BY ShotFacts
  <1>2. next \in PlaceSet /\ next.node \notin TextNodes \cup {"repair_shot"}
    BY <1>1 DEF Place, PlaceSet, Nodes, ShotNodes, TextNodes
  <1>3. CASE RepairStop
    BY <1>2, <1>3, BudgetStopInv DEF RepairStop
  <1>4. ASSUME NEW sig \in Signatures, RepairFailed(sig) PROVE IInv'
    BY <1>2, <1>4, FailureInv DEF RepairFailed
  <1>5. CASE RepairClip
    <2>1. cond' \in [Beats -> [beat: 0..NBeats, clip: Clips]]
      BY <1>5, ShotFacts DEF RepairClip, IInv, TypeOK, StoreTypeOK
    <2>2. StoreTypeOK'
      BY <1>5, <2>1 DEF RepairClip, jobVars, fileVars, envVars, IInv, TypeOK,
                        StoreTypeOK
    <2>3. /\ node = "repair_shot" /\ Inside("repair_commit")
          /\ UNCHANGED <<status, rows, shot, verdict>>
      BY <1>5 DEF RepairClip, At, jobVars
    <2>4. shot[beat].repair_count < MaxRepairs /\ verdict' \in {0} \cup Scores
      BY <2>3 DEF IInv, RepairRoom, TypeOK, TaskTypeOK
    <2>5. QED
      BY <2>2, <2>3, <2>4, InsideInv DEF Commits, TextNodes
  <1>6. CASE RepairCommit
    <2> DEFINE n == shot[beat].repair_count + 1
               g == [gs EXCEPT !.clip = n, !.qc_passed = FALSE, !.repair_count = n]
    <2>1. /\ Return(next, g) /\ status' = status /\ rows' = rows
          /\ node = "repair_commit"
          /\ shot' = [shot EXCEPT ![beat].repair_count = n]
      BY <1>6 DEF RepairCommit, At
    <2>2. n \in 0..MaxRepairs
      BY <1>1, <2>1 DEF IInv, RepairRoom, ShotRow
    <2>3. g \in GraphState /\ status \in Terminal
      BY <1>1, <2>1, <2>2, ShotFacts DEF GraphState, TextNodes
    <2>4. [shot[beat] EXCEPT !.repair_count = n] \in ShotRow
      BY <1>1, <2>2 DEF ShotRow
    <2>5. shot' \in [Beats -> ShotRow]
      BY <2>1, <2>4, ShotUpdate
    <2>6. used' \in [usd: Nat, iterations: Nat]
      BY <1>6, ChargeType DEF RepairCommit, IInv, TypeOK
    <2>7. StoreTypeOK'
      BY <1>6, <2>5, <2>6 DEF RepairCommit, fileVars, envVars, histVars, IInv,
                              TypeOK, StoreTypeOK
    <2>8. QED
      BY <1>2, <2>1, <2>3, <2>7, ReturnInv
  <1>7. QED
    BY <1>3, <1>4, <1>5, <1>6 DEF RepairShot

\* The step of chain_frame keeps the invariant.
LEMMA ChainInv ==
    ASSUME IInv, ChainFrame
    PROVE  IInv'
  <1> DEFINE last == beat = NBeats
             g == [gs EXCEPT !.prior = beat,
                             !.shots_completed = @ \/ last,
                             !.outcome = IF last /\ TerminalAfterChain
                                         THEN "SUCCESS" ELSE @]
  <1>1. gs \in GraphState /\ beat \in Beats /\ beat \in 0..NBeats
    BY ShotFacts DEF Beats
  <1>2. /\ Return(AfterChain(g, beat), g) /\ status' = status /\ rows' = rows
        /\ frame' = [frame EXCEPT ![beat] = CurrentClip] /\ node = "chain_frame"
    BY DEF ChainFrame, At, jobVars
  <1>3. g \in GraphState /\ status \in Terminal
    BY <1>1, <1>2, ShotFacts DEF GraphState, Outcomes, TextNodes
  <1>4. CurrentClip \in Clips
    BY <1>1 DEF CurrentClip, GraphState, Clips, IInv, TypeOK, StoreTypeOK
  <1>5. frame' \in [Beats -> Clips]
    BY <1>2, <1>4 DEF IInv, TypeOK, StoreTypeOK
  <1>6. StoreTypeOK'
    BY <1>5 DEF ChainFrame, jobVars, envVars, histVars, IInv, TypeOK, StoreTypeOK
  <1>7. /\ AfterChain(g, beat) \in PlaceSet
        /\ AfterChain(g, beat).node \notin TextNodes \cup {"repair_shot"}
    BY <1>1, <1>3, RouteType, RouteNode
  <1>8. QED
    BY <1>2, <1>3, <1>6, <1>7, ReturnInv

\* The steps of qc_score keep the invariant: a failed verdict below the cap is
\* the only way to repair_shot.
LEMMA QcInv ==
    ASSUME IInv, Qc
    PROVE  IInv'
  <1>1. gs \in GraphState /\ beat \in Beats /\ shot[beat] \in ShotRow
    BY ShotFacts
  <1>2. CASE QcStop
    <2>1. AfterQc(Partial, beat).node \in {"assemble", "end"}
      BY <1>1, ShotFacts, StoppedRoute
    <2>2. AfterQc(Partial, beat) \in PlaceSet
      BY <1>1, ShotFacts, RouteType
    <2>3. QED
      BY <1>2, <2>1, <2>2, BudgetStopInv DEF QcStop, TextNodes
  <1>3. CASE QcInvalid
    <2>1. used' \in [usd: Nat, iterations: Nat]
      BY <1>3, ChargeType DEF QcInvalid, IInv, TypeOK
    <2>2. StoreTypeOK' /\ rows' = rows
      BY <1>3, <2>1 DEF QcInvalid, fileVars, envVars, histVars, IInv, TypeOK,
                        StoreTypeOK
    <2>3. status' \in Terminal /\ Escape
      BY <1>3, StatusFacts DEF QcInvalid, IInv, TypeOK
    <2>4. QED
      BY <2>2, <2>3, EndInv DEF Escape
  <1>4. ASSUME NEW s \in Scores, QcScored(s) PROVE IInv'
    <2>1. /\ node = "qc_score" /\ Inside("qc_commit") /\ verdict' = s
          /\ UNCHANGED <<status, rows, shot>>
      BY <1>4 DEF QcScored, At
    <2>2. used' \in [usd: Nat, iterations: Nat]
      BY <1>4, ChargeType DEF QcScored, IInv, TypeOK
    <2>3. CurrentClip \in Clips
      BY <1>1 DEF CurrentClip, GraphState, Clips, IInv, TypeOK, StoreTypeOK
    <2>4. canon' \in [Beats -> Clips]
      BY <1>4, <2>3 DEF QcScored, IInv, TypeOK, StoreTypeOK
    <2>5. StoreTypeOK'
      BY <1>4, <2>2, <2>4 DEF QcScored, envVars, histVars, IInv, TypeOK,
                              StoreTypeOK
    <2>6. QED
      BY <2>1, <2>5, InsideInv DEF Commits, TextNodes
  <1>5. CASE QcCommit
    <2> DEFINE passed == verdict >= PassScore
               last == passed /\ beat = NBeats /\ ~AssembleDeliver
               g == [gs EXCEPT !.qc_passed = passed, !.clip = 0,
                               !.repair_count = shot[beat].repair_count,
                               !.outcome = IF last THEN "SUCCESS" ELSE @,
                               !.shots_completed = @ \/ last]
               row == [shot[beat] EXCEPT
                         !.scored = @ \cup {<<shot[beat].repair_count + 1, verdict>>},
                         !.qc_score = IF KeepNew(verdict) THEN verdict ELSE @]
    <2>0. shot' = [shot EXCEPT ![beat] = row]
      BY <1>5 DEF QcCommit
    <2>02. Return(AfterQc(g, beat), g)
      BY <1>5 DEF QcCommit
    <2>1. /\ Return(AfterQc(g, beat), g) /\ status' = status /\ rows' = rows
          /\ node = "qc_commit" /\ shot' = [shot EXCEPT ![beat] = row]
      BY <1>5, <2>0, <2>02 DEF QcCommit, At, jobVars
    <2>2. verdict \in Scores /\ status \in Terminal
      BY <2>1, ShotFacts DEF IInv, VerdictGiven, TextNodes
    <2>3. row \in ShotRow
      <3>1. shot[beat].repair_count + 1 \in Clips
        BY <1>1 DEF ShotRow, Clips
      <3>2. shot[beat].scored \cup {<<shot[beat].repair_count + 1, verdict>>}
              \in SUBSET (Clips \X Scores)
        BY <1>1, <2>2, <3>1 DEF ShotRow
      <3>3. (IF KeepNew(verdict) THEN verdict ELSE shot[beat].qc_score)
              \in {0} \cup Scores
        BY <1>1, <2>2 DEF ShotRow
      <3>4. QED
        BY <1>1, <3>2, <3>3 DEF ShotRow
    <2>4. shot' \in [Beats -> ShotRow]
      BY <2>1, <2>3, ShotUpdate
    <2>5. StoreTypeOK'
      BY <1>5, <2>4 DEF QcCommit, jobVars, fileVars, envVars, histVars, IInv,
                        TypeOK, StoreTypeOK
    <2>6. g \in GraphState
      <3>1. shot[beat].repair_count \in 0..MaxRepairs /\ 0 \in 0..MaxRepairs
        BY <1>1 DEF ShotRow
      <3>2. passed \in BOOLEAN /\ (gs.shots_completed \/ last) \in BOOLEAN
        OBVIOUS
      <3>3. (IF last THEN "SUCCESS" ELSE gs.outcome) \in Outcomes
        BY <1>1 DEF GraphState, Outcomes
      <3>4. QED
        BY <1>1, <3>1, <3>2, <3>3 DEF GraphState
    <2>7. shot'[beat].repair_count = g.repair_count
      BY <1>1, <2>1, <2>4 DEF IInv, TypeOK, StoreTypeOK, ShotRow, GraphState
    <2>8. /\ AfterQc(g, beat) \in PlaceSet
          /\ AfterQc(g, beat).node \notin TextNodes
          /\ AfterQc(g, beat).node = "repair_shot" =>
                AfterQc(g, beat).beat = beat /\ g.repair_count < MaxRepairs
      <3> HIDE DEF g
      <3>1. AfterQc(g, beat) \in PlaceSet
        BY <1>1, <2>6, RouteType
      <3>2. /\ AfterQc(g, beat).node \notin TextNodes
            /\ AfterQc(g, beat).node = "repair_shot" =>
                  AfterQc(g, beat) = Place("repair_shot", beat)
                  /\ g.repair_count < MaxRepairs
        BY <1>1, <2>6, RouteNode
      <3>3. QED
        BY <3>1, <3>2 DEF Place
    <2>9. QED
      BY <2>1, <2>2, <2>5, <2>6, <2>7, <2>8, ReturnInv
  <1>6. QED
    BY <1>2, <1>3, <1>4, <1>5 DEF Qc

\* The step of flag_degraded keeps the invariant.
LEMMA FlagInv ==
    ASSUME IInv, FlagDegraded
    PROVE  IInv'
  <1> DEFINE last == beat = NBeats /\ ~AssembleDeliver
             g == [gs EXCEPT !.qc_passed = FALSE, !.job_degraded = TRUE,
                             !.outcome = IF last THEN "PARTIAL" ELSE @,
                             !.shots_completed = @ \/ last]
  <1>1. gs \in GraphState /\ beat \in Beats /\ shot[beat] \in ShotRow
    BY ShotFacts
  <1>2. /\ Return(AfterFlag(beat), g) /\ status' = status /\ rows' = rows
        /\ shot' = [shot EXCEPT ![beat].degraded = TRUE]
        /\ node = "flag_degraded"
    BY DEF FlagDegraded, At
  <1>3. g \in GraphState /\ status \in Terminal
    <2>1. (gs.shots_completed \/ last) \in BOOLEAN
      OBVIOUS
    <2>2. (IF last THEN "PARTIAL" ELSE gs.outcome) \in Outcomes
      BY <1>1 DEF GraphState, Outcomes, Stopped
    <2>3. g \in GraphState
      BY <1>1, <2>1, <2>2 DEF GraphState
    <2>4. QED
      BY <1>2, <2>3, ShotFacts DEF TextNodes
  <1>4. [shot[beat] EXCEPT !.degraded = TRUE] \in ShotRow
    BY <1>1 DEF ShotRow
  <1>5. shot' \in [Beats -> ShotRow]
    BY <1>2, <1>4, ShotUpdate
  <1>6. StoreTypeOK'
    BY <1>5 DEF FlagDegraded, fileVars, envVars, histVars, IInv, TypeOK,
                StoreTypeOK
  <1>7. /\ AfterFlag(beat) \in PlaceSet
        /\ AfterFlag(beat).node \notin TextNodes \cup {"repair_shot"}
    BY <1>1, <1>3, RouteType, RouteNode
  <1>8. QED
    BY <1>2, <1>3, <1>6, <1>7, ReturnInv

\* The step of assemble keeps the invariant.
LEMMA AssembleInv ==
    ASSUME IInv, Assemble
    PROVE  IInv'
  <1>1. gs \in GraphState /\ beat \in Beats /\ node = "assemble"
    BY ShotFacts DEF Assemble, At
  <1> DEFINE flawed == \/ gs.job_degraded
                       \/ \E b \in Beats : shot[b].degraded \/ ~shot[b].made
             outcome == IF flawed THEN "PARTIAL" ELSE gs.outcome
             g == [gs EXCEPT !.assembled = TRUE, !.shots_completed = TRUE,
                             !.job_degraded = flawed,
                             !.outcome = IF outcome \in {"PARTIAL", "FAILED"}
                                         THEN outcome ELSE "SUCCESS"]
             p == Place("deliver", beat)
  <1>2. /\ Return(p, g) /\ status' = status /\ rows' = rows
        /\ degraded' = flawed
        /\ film' = [b \in Beats |-> IF shot[b].made THEN canon[b] ELSE 0]
    BY DEF Assemble
  <1>3. flawed \in BOOLEAN
    <2>1. gs.job_degraded \in BOOLEAN
      BY <1>1 DEF GraphState
    <2>2. QED
      BY <2>1
  <1>4. g \in GraphState /\ status \in Terminal
    <2> DEFINE o == IF outcome \in {"PARTIAL", "FAILED"} THEN outcome ELSE "SUCCESS"
    <2>1. o \in Outcomes
      BY DEF Outcomes, Stopped
    <2> HIDE DEF o, flawed
    <2>2. g \in GraphState
      BY <1>1, <1>3, <2>1 DEF GraphState, o
    <2>3. status \in Terminal
      BY <1>1, ShotFacts DEF TextNodes
    <2>4. QED
      BY <2>2, <2>3
  <1>5. film' \in [Beats -> Clips]
    BY <1>2 DEF IInv, TypeOK, StoreTypeOK, Clips
  <1>6. StoreTypeOK'
    BY <1>2, <1>3, <1>5 DEF Assemble, envVars, histVars, IInv, TypeOK, StoreTypeOK
  <1>7. p \in PlaceSet /\ p.node \notin TextNodes \cup {"repair_shot"}
    BY <1>1 DEF Place, PlaceSet, Nodes, TextNodes
  <1>8. QED
    BY <1>2, <1>4, <1>6, <1>7, ReturnInv

\* The step of deliver keeps the invariant.
LEMMA DeliverInv ==
    ASSUME IInv, Deliver
    PROVE  IInv'
  <1>1. gs \in GraphState /\ beat \in Beats /\ node = "deliver"
    BY ShotFacts DEF Deliver, At
  <1> DEFINE g == [gs EXCEPT !.delivered = TRUE, !.shots_completed = TRUE,
                             !.outcome = IF gs.job_degraded \/ @ = "PARTIAL"
                                         THEN "PARTIAL" ELSE "SUCCESS"]
             p == Place("end", beat)
  <1>2. /\ Return(p, g) /\ status' = status /\ rows' = rows
        /\ degraded' = gs.job_degraded /\ download' = TRUE
    BY DEF Deliver
  <1>3. g \in GraphState /\ status \in Terminal /\ gs.job_degraded \in BOOLEAN
    BY <1>1, ShotFacts DEF GraphState, Outcomes, Stopped, TextNodes
  <1>4. StoreTypeOK'
    BY <1>2, <1>3 DEF Deliver, fileVars, envVars, histVars, IInv, TypeOK, StoreTypeOK
  <1>5. p \in PlaceSet /\ p.node \notin TextNodes \cup {"repair_shot"}
    BY <1>1 DEF Place, PlaceSet, TextNodes
  <1>6. QED
    BY <1>2, <1>3, <1>4, <1>5, ReturnInv

-----------------------------------------------------------------------------
\* IInv is inductive.
LEMMA NextInv == IInv /\ [Next]_vars => IInv'
  <1> SUFFICES ASSUME IInv, [Next]_vars PROVE IInv'
    OBVIOUS
  <1>1. CASE Next
    BY <1>1, RunnerInv, TextInv, GenerateInv, ChainInv, QcInv, RepairInv, FlagInv,
       AssembleInv, DeliverInv DEF Next, TaskStep
  <1>2. CASE UNCHANGED vars
    BY <1>2 DEF vars, taskVars, jobVars, fileVars, envVars, histVars, IInv, TypeOK,
       TaskTypeOK, StoreTypeOK, LeftTextIsTerminal, TextHasNoOutcome,
       BibleLockedIsFinal, RetryHasNoRow, TextWrittenOnce, RepairRoom, VerdictGiven
  <1>3. QED
    BY <1>1, <1>2

\* The invariant holds of every state a job can be in.
THEOREM Invariant == Spec => []IInv
  BY InitInv, NextInv, PTL DEF Spec

\* Every variable keeps its type, for any number of beats, repairs, crashes
\* and any budget.  In particular the repair counters of the shots rows and
\* of the graph state never pass MAX_REPAIR_ATTEMPTS.
THEOREM TypeCorrect == Spec => []TypeOK
  <1>1. IInv => TypeOK
    BY DEF IInv
  <1>2. QED
    BY <1>1, Invariant, PTL

\* A resumed job does not pay for or write its story plan or its bible again,
\* however often its process crashes.
THEOREM TextOnce == Spec => []TextWrittenOnce
  <1>1. IInv => TextWrittenOnce
    BY DEF IInv
  <1>2. QED
    BY <1>1, Invariant, PTL

\* A job whose bible is committed is never started again.
THEOREM BibleFinal == Spec => []BibleLockedIsFinal
  <1>1. IInv => BibleLockedIsFinal
    BY DEF IInv
  <1>2. QED
    BY <1>1, Invariant, PTL
-----------------------------------------------------------------------------
\* A call made while the gate was open overshoots the dollar cap by less than
\* its own cost, and the iteration cap not at all.
LEMMA ChargeBound ==
    ASSUME StoreTypeOK, used.usd < MaxUsd, used.iterations < MaxIterations,
           NEW c \in {ClipUsd, CallUsd}, used' = Charge(c)
    PROVE  BudgetRespected'
  <1>1. used.usd \in Nat /\ used.iterations \in Nat /\ c \in Nat
    BY DEF StoreTypeOK
  <1>2. used'.usd = used.usd + c /\ used'.iterations = used.iterations + 1
    BY DEF Charge
  <1>3. QED
    BY <1>1, <1>2 DEF BudgetRespected

\* The negation of the gate, in the counters' own order.
LEMMA GateOpen ==
    ASSUME StoreTypeOK, ~Exhausted
    PROVE  used.usd < MaxUsd /\ used.iterations < MaxIterations
  BY DEF StoreTypeOK, Exhausted

\* No route of the graph leads into the middle of a node.
LEMMA ReturnPlace ==
    ASSUME NEW p \in PlaceSet, NEW g, Return(p, g)
    PROVE  node' \notin Commits
  BY DEF Return, PlaceSet, Commits, Nodes, TextNodes, ShotNodes

\* A step that bills nothing and orders no clip keeps both facts.
LEMMA IdleBudget ==
    ASSUME BudgetRespected, used' = used, node' \notin Commits
    PROVE  InFlight' /\ BudgetRespected'
  BY DEF InFlight, BudgetRespected, Commits

\* The budget facts are preserved: each charge is made under an open gate, or
\* completes a node that was entered under one.
LEMMA BudgetNext ==
    ASSUME IInv, InFlight, BudgetRespected, [Next]_vars
    PROVE  InFlight' /\ BudgetRespected'
  <1>1. StoreTypeOK /\ beat \in Beats /\ gs \in GraphState
        /\ ckpt.at.node \in Nodes \cup {"end"}
    BY DEF IInv, TypeOK, TaskTypeOK
  <1>2. 1 \in Beats /\ Place("chain_frame", beat) \in PlaceSet
    BY <1>1 DEF Beats, Place, PlaceSet, Nodes, ShotNodes
  <1>3. \A n, g : AfterText(n, g) \in PlaceSet
    BY <1>2, RouteType DEF AfterText
  <1>4. CASE StartRun \/ NodeRaises \/ Finish
    <2>1. used' = used /\ node' \notin Commits
      BY <1>1, <1>4 DEF StartRun, NodeRaises, Finish, Escape, Commits, Nodes,
         TextNodes, ShotNodes
    <2>2. QED
      BY <2>1, IdleBudget
  <1>5. CASE Crash \/ WallClockExpires \/ UNCHANGED vars
    BY <1>5 DEF Crash, WallClockExpires, vars, taskVars, jobVars, InFlight,
       BudgetRespected
  <1>6. ASSUME NEW n \in TextNodes, TextNode(n)
        PROVE  InFlight' /\ BudgetRespected'
    <2>1. node' \notin Commits
      <3>1. CASE TextStop(n)
        BY <1>3, <3>1, ReturnPlace DEF TextStop, BudgetStop
      <3>2. CASE TextReuse(n)
        BY <1>3, <3>2, ReturnPlace DEF TextReuse
      <3>3. CASE TextAccepted(n)
        BY <1>3, <3>3, ReturnPlace DEF TextAccepted
      <3>4. CASE TextRejected(n)
        BY <3>4 DEF TextRejected, Escape, At, TextNodes, Commits
      <3>5. QED
        BY <1>6, <3>1, <3>2, <3>3, <3>4 DEF TextNode
    <2>2. CASE used' = used
      BY <2>1, <2>2, IdleBudget
    <2>3. CASE ~Exhausted /\ used' = Charge(CallUsd)
      BY <1>1, <2>1, <2>3, GateOpen, ChargeBound DEF InFlight, Commits
    <2>4. QED
      BY <1>6, <2>2, <2>3 DEF TextNode, TextStop, TextReuse, TextAccepted,
         TextRejected, BudgetStop, jobVars
  <1>7. CASE GenerateClip \/ RepairClip
    <2>1. used' = used /\ ~Exhausted
      BY <1>7 DEF GenerateClip, RepairClip, jobVars
    <2>2. QED
      BY <1>1, <2>1, GateOpen DEF InFlight, BudgetRespected
  <1>8. CASE GenerateCommit \/ RepairCommit
    <2>1. used' = Charge(ClipUsd) /\ node \in {"generate_commit", "repair_commit"}
      BY <1>8 DEF GenerateCommit, RepairCommit, At
    <2>2. node' \notin Commits
      BY <1>1, <1>2, <1>8, RouteType, ReturnPlace DEF GenerateCommit, RepairCommit
    <2>3. QED
      BY <1>1, <2>1, <2>2, ChargeBound DEF InFlight, Commits
  <1>9. CASE GenerateStop \/ GenerateNoCapability \/ RepairStop
    <2>1. used' = used
      BY <1>9 DEF GenerateStop, GenerateNoCapability, RepairStop, BudgetStop
    <2>2. node' \notin Commits
      BY <1>1, <1>2, <1>9, RouteType, ReturnPlace DEF GenerateStop,
         GenerateNoCapability, RepairStop, BudgetStop, Escape, Commits
    <2>3. QED
      BY <2>1, <2>2, IdleBudget
  <1>10. ASSUME NEW sig \in Signatures, GenerateFailed(sig) \/ RepairFailed(sig)
         PROVE  InFlight' /\ BudgetRespected'
    <2>1. used' = used
      BY <1>10 DEF GenerateFailed, RepairFailed, ProviderFailure
    <2>2. node' \notin Commits
      BY <1>1, <1>2, <1>10, RouteType, ReturnPlace DEF GenerateFailed,
         RepairFailed, ProviderFailure
    <2>3. QED
      BY <2>1, <2>2, IdleBudget
  <1>11. CASE QcInvalid \/ \E s \in Scores : QcScored(s)
    <2>1. used' = Charge(CallUsd) /\ ~Exhausted
          /\ node' \notin {"generate_commit", "repair_commit"}
      BY <1>11 DEF QcInvalid, QcScored, Escape, Inside
    <2>2. QED
      BY <1>1, <2>1, GateOpen, ChargeBound DEF InFlight
  <1>12. CASE QcStop \/ QcCommit \/ ChainFrame \/ FlagDegraded
    <2>1. used' = used
      BY <1>12 DEF QcStop, QcCommit, ChainFrame, FlagDegraded, BudgetStop, jobVars
    <2>2. node' \notin Commits
      BY <1>1, <1>12, RouteType, ReturnPlace DEF QcStop, QcCommit, ChainFrame,
         FlagDegraded, BudgetStop
    <2>3. QED
      BY <2>1, <2>2, IdleBudget
  <1>13. CASE Assemble \/ Deliver
    <2>1. used' = used /\ node' \in {"deliver", "end"}
      BY <1>13 DEF Assemble, Deliver, Return, Place
    <2>2. QED
      BY <2>1, IdleBudget DEF Commits
  <1>14. QED
    BY <1>4, <1>5, <1>6, <1>7, <1>8, <1>9, <1>10, <1>11, <1>12, <1>13
       DEF Next, TaskStep, GenerateShot, RepairShot, Qc

\* The job never spends past its caps by more than the one call in flight.
THEOREM BudgetCorrect == Spec => []BudgetRespected
  <1>1. Init => InFlight /\ BudgetRespected
    BY DEF Init, InFlight, BudgetRespected
  <1>2. IInv /\ InFlight /\ BudgetRespected /\ [Next]_vars
        => (InFlight /\ BudgetRespected)'
    BY BudgetNext
  <1>3. QED
    BY <1>1, <1>2, Invariant, PTL DEF Spec

\* The status a run ends with is final: a settled job is terminal, and nothing
\* but a start writes the status of a job no task works for.
THEOREM SettledIsFinal == Spec => SettledForever
  <1>1. IInv /\ [Next]_vars => [Settled => status' = status]_vars
    <2> SUFFICES ASSUME IInv, Next, Settled PROVE status' = status
      BY DEF vars
    <2>1. status \in Terminal /\ node \in {"done", "escaped"}
      BY DEF Settled, IInv, LeftTextIsTerminal, TextNodes
    <2>2. ~StartRun
      BY <2>1 DEF StartRun
    <2>3. CASE Crash \/ WallClockExpires
      BY <2>3 DEF Crash, WallClockExpires, jobVars
    <2>4. ~TaskStep
      BY <2>1 DEF TaskStep, TextNode, TextStop, TextReuse, TextAccepted,
         TextRejected, GenerateShot, GenerateStop, GenerateNoCapability,
         GenerateFailed, GenerateClip, GenerateCommit, ChainFrame, Qc, QcStop,
         QcInvalid, QcScored, QcCommit, RepairShot, RepairStop, RepairFailed,
         RepairClip, RepairCommit, FlagDegraded, Assemble, Deliver, Finish,
         NodeRaises, At, Nodes, TextNodes, ShotNodes, Commits
    <2>5. QED
      BY <2>2, <2>3, <2>4 DEF Next
  <1>2. QED
    BY <1>1, Invariant, PTL DEF Spec, SettledForever

-----------------------------------------------------------------------------
(***************************************************************************)
(* The course of a job: which statuses and outcomes go with the place the  *)
(* task is at.                                                             *)
(***************************************************************************)

\* The graph makes shots.
Going ==
    /\ status = "BIBLE_LOCKED" /\ failures = 0
    /\ gs.outcome = "SUCCESS" /\ gs.signature = "NONE"

\* A stop at repair_shot passes chain_frame on its way out.
Stopping ==
    /\ node = "chain_frame" /\ QcRepair
    /\ gs.outcome \in {"PARTIAL", "FAILED"} /\ status = gs.outcome

\* The shots are over.  A final status shows that a gate or a failure ended
\* them.
Ending ==
    /\ gs.outcome \in {"SUCCESS", "PARTIAL", "FAILED"}
    /\ status = "BIBLE_LOCKED" \/ status = gs.outcome
    /\ node # "end" => gs.outcome # "FAILED"

QcNodes == {"qc_score", "qc_commit", "repair_shot", "repair_commit", "flag_degraded"}

PlaceTellsStatus ==
    up => /\ node \in TextNodes => status = "RUNNING" /\ gs.signature = "NONE"
          /\ node \in ShotNodes \cup Commits => Going \/ Stopping
          /\ node \in QcNodes => QcRepair
          /\ node \in {"assemble", "deliver", "end"} => Ending
          /\ node \notin {"done", "escaped"}

\* A failed provider call is the last one of its job, and the branch of
\* _provider_failure that reports FAILED_NO_PROGRESS is never taken.
OneProviderFailure == failures <= 1 /\ status # "FAILED_NO_PROGRESS"

Course ==
    /\ PlaceTellsStatus
    /\ OneProviderFailure
    /\ status \notin Terminal => failures = 0
    /\ ckpt.at.node \in TextNodes => ckpt.gs.signature = "NONE"

\* The status is left alone or moves as JobStatus allows.
StatusMoves == status' = status \/ JobView!Next

\* A return from a shot node keeps the course.
LEMMA ReturnCourse ==
    ASSUME IInv, Course, up, node \notin TextNodes, flags' = flags,
           NEW p \in PlaceSet, NEW g, Return(p, g), p.node \notin TextNodes,
           status' \in Terminal \ {"FAILED_NO_PROGRESS"}, failures' \in {0, 1},
           p.node \in ShotNodes => Going' \/ Stopping',
           p.node \in QcNodes => QcRepair,
           p.node \in {"assemble", "deliver", "end"} => Ending'
    PROVE  Course'
  <1>1. /\ node' = p.node /\ gs' = g /\ up' = up
        /\ ckpt' = [at |-> p, gs |-> g] \/ ckpt' = ckpt
    BY DEF Return
  <1>2. node' \notin Commits \cup {"done", "escaped"}
    BY <1>1 DEF PlaceSet, Nodes, TextNodes, ShotNodes, Commits
  <1>3. QcRepair' = QcRepair
    BY DEF QcRepair
  <1>4. PlaceTellsStatus'
    BY <1>1, <1>2, <1>3 DEF PlaceTellsStatus
  <1>5. OneProviderFailure'
    BY DEF OneProviderFailure
  <1>6. ckpt'.at.node \in TextNodes => ckpt'.gs.signature = "NONE"
    BY <1>1 DEF Course
  <1>7. QED
    BY <1>4, <1>5, <1>6 DEF Course

\* So does a return that leaves status, failures and outcome alone and goes
\* on with the shots or ends them.
LEMMA GoingOn ==
    ASSUME IInv, Course, up, node \notin TextNodes, Going,
           UNCHANGED <<status, failures, flags>>,
           NEW p \in PlaceSet, NEW g, Return(p, g), p.node \notin TextNodes,
           p.node \in QcNodes => QcRepair,
           g.signature = gs.signature,
           g.outcome = "SUCCESS" \/ (g.outcome = "PARTIAL" /\ p.node = "end")
    PROVE  Course'
  <1>1. node' = p.node /\ gs' = g
    BY DEF Return
  <1>2. status' \in Terminal \ {"FAILED_NO_PROGRESS"} /\ failures' \in {0, 1}
    BY DEF Going, Terminal
  <1>3. p.node \in ShotNodes => Going'
    BY <1>1 DEF Going, ShotNodes
  <1>4. p.node \in {"assemble", "deliver", "end"} => Ending'
    BY <1>1 DEF Going, Ending
  <1>5. QED
    BY <1>2, <1>3, <1>4, ReturnCourse

\* An exception in the shot phase, and the end of the job.
LEMMA EndCourse ==
    ASSUME Course, up' = FALSE, status' \in Terminal \ {"FAILED_NO_PROGRESS"},
           UNCHANGED <<ckpt, failures>>
    PROVE  Course'
  BY DEF Course, PlaceTellsStatus, OneProviderFailure

\* Statuses a shot phase that is going on may end with.
LEMMA ShotsMove ==
    ASSUME status = "BIBLE_LOCKED", status' \in {"PARTIAL", "FAILED", "SHOTS_READY", "DELIVERED"}
    PROVE  StatusMoves
  BY DEF StatusMoves, JobView!Next, JobView!EndShots, JobView!Final

\* The gate of a shot node.
LEMMA StopCourse ==
    ASSUME IInv, Course, up, node \in ShotNodes, Going, NEW p \in PlaceSet,
           BudgetStop(p),
           \/ p = StopPlace("PARTIAL", beat)
           \/ p.node = "chain_frame" /\ QcRepair
    PROVE  Course' /\ StatusMoves
  <1>1. /\ status' = "PARTIAL" /\ Return(p, Partial) /\ failures' = failures
        /\ flags' = flags
    BY DEF BudgetStop, histVars, envVars
  <1>2. Partial.outcome = "PARTIAL"
    BY ShotFacts DEF Partial, GraphState
  <1>3. node' = p.node /\ gs' = Partial
    BY <1>1 DEF Return
  <1>4. p.node \in {"chain_frame", "assemble", "end"}
    BY DEF StopPlace, Place
  <1>5. p.node \in ShotNodes => Stopping'
    BY <1>1, <1>2, <1>3, <1>4 DEF Stopping, StopPlace, Place, QcRepair, ShotNodes
  <1>6. Ending'
    BY <1>1, <1>2, <1>3 DEF Ending
  <1>7. /\ status' \in Terminal \ {"FAILED_NO_PROGRESS"} /\ failures' \in {0, 1}
        /\ p.node \notin TextNodes \cup QcNodes /\ node \notin TextNodes
    BY <1>1, <1>4 DEF Terminal, Going, TextNodes, ShotNodes, QcNodes
  <1>8. Course'
    BY <1>1, <1>5, <1>6, <1>7, ReturnCourse
  <1>9. QED
    BY <1>1, <1>8, ShotsMove DEF Going

\* A provider call that fails: the first of the job, as none follows it.
LEMMA FailureCourse ==
    ASSUME IInv, Course, up, node \in ShotNodes, Going, NEW p \in PlaceSet,
           NEW sig \in Signatures, ProviderFailure(p, sig),
           \/ p = StopPlace(ProviderFailed(sig).outcome, beat)
           \/ p.node = "chain_frame" /\ QcRepair
    PROVE  Course' /\ StatusMoves
  <1> DEFINE g == ProviderFailed(sig)
  <1>1. /\ status' = FailedOutcome(sig) /\ Return(p, g) /\ failures' = failures + 1
        /\ flags' = flags
    BY DEF ProviderFailure, envVars
  <1>2. FailedOutcome(sig) \in {"PARTIAL", "FAILED"}
    BY DEF FailedOutcome, Going
  <1>3. g.outcome = FailedOutcome(sig)
    BY ShotFacts DEF ProviderFailed, GraphState
  <1>4. node' = p.node /\ gs' = g
    BY <1>1 DEF Return
  <1>5. p.node \in {"chain_frame", "assemble", "end"}
        /\ (p.node = "assemble" => g.outcome = "PARTIAL")
    BY DEF StopPlace, Place
  <1>6. p.node \in ShotNodes => Stopping'
    BY <1>1, <1>2, <1>3, <1>4, <1>5 DEF Stopping, StopPlace, Place, QcRepair, ShotNodes
  <1>7. p.node \in {"assemble", "deliver", "end"} => Ending'
    BY <1>1, <1>2, <1>3, <1>4, <1>5 DEF Ending
  <1>8. /\ status' \in Terminal \ {"FAILED_NO_PROGRESS"} /\ failures' \in {0, 1}
        /\ p.node \notin TextNodes \cup QcNodes /\ node \notin TextNodes
    BY <1>1, <1>2, <1>5 DEF Terminal, Going, TextNodes, ShotNodes, QcNodes
  <1>9. Course'
    BY <1>1, <1>6, <1>7, <1>8, ReturnCourse
  <1>10. QED
    BY <1>1, <1>2, <1>9, ShotsMove DEF Going

\* The steps of the runner and of the environment.
LEMMA RunnerCourse ==
    ASSUME IInv, Course,
           StartRun \/ NodeRaises \/ Finish \/ Crash \/ WallClockExpires
    PROVE  Course' /\ StatusMoves
  <1>0. status \in Stale \cup Terminal /\ beat \in Beats /\ gs \in GraphState
    BY DEF IInv, TypeOK, TaskTypeOK
  <1>1. CASE StartRun
    <2>1. /\ ckpt.at.node \in TextNodes /\ ckpt.gs.signature = "NONE"
          /\ node' = ckpt.at.node /\ gs' = ckpt.gs /\ status' = "RUNNING"
          /\ failures' = failures /\ ckpt' = ckpt /\ failures = 0
          /\ status \in Stale
      BY <1>0, <1>1 DEF StartRun, IInv, LeftTextIsTerminal, Course, histVars
    <2>2. PlaceTellsStatus'
      BY <2>1 DEF PlaceTellsStatus, TextNodes, ShotNodes, Commits, QcNodes
    <2>3. OneProviderFailure' /\ status' \notin Terminal
      BY <2>1 DEF OneProviderFailure, Terminal
    <2>4. StatusMoves
      BY <2>1 DEF StatusMoves, JobView!Next, JobView!Start, JobView!Stale, Stale
    <2>5. QED
      BY <2>1, <2>2, <2>3, <2>4 DEF Course
  <1>2. CASE NodeRaises
    <2>1. /\ up /\ up' = FALSE /\ UNCHANGED <<ckpt, failures>>
          /\ node \in Nodes \cup Commits
          /\ status' = EnsureTerminal(status)
      BY <1>2 DEF NodeRaises, Escape, histVars
    <2>2. CASE status \in Terminal
      <3>1. status' = status /\ status # "FAILED_NO_PROGRESS"
        BY <2>1, <2>2 DEF EnsureTerminal, Course, OneProviderFailure
      <3>2. QED
        BY <2>1, <2>2, <3>1, EndCourse DEF StatusMoves
    <2>3. CASE status \notin Terminal
      <3>1. status = "RUNNING" /\ status' = "FAILED"
        BY <2>1, <2>3 DEF EnsureTerminal, Course, PlaceTellsStatus, IInv,
           LeftTextIsTerminal
      <3>2. StatusMoves
        BY <3>1 DEF StatusMoves, JobView!Next, JobView!EndText
      <3>3. QED
        BY <2>1, <3>1, <3>2, EndCourse DEF Terminal
    <2>4. QED
      BY <2>2, <2>3
  <1>3. CASE Finish
    <2>1. /\ up /\ node = "end" /\ up' = FALSE /\ UNCHANGED <<ckpt, failures>>
          /\ status' = IF gs.outcome = "NONE" THEN status ELSE FinalStatus(gs)
      BY <1>3 DEF Finish, At, histVars
    <2>2. Ending
      BY <2>1 DEF Course, PlaceTellsStatus
    <2>3. status' = FinalStatus(gs)
      BY <2>1, <2>2 DEF Ending
    <2>4. CASE gs.outcome = "SUCCESS"
      <3>1. status = "BIBLE_LOCKED"
        BY <1>0, <2>2, <2>4 DEF Ending, Stale, Terminal
      <3>2. status' \in {"DELIVERED", "SHOTS_READY", "BIBLE_LOCKED"}
        BY <2>3, <2>4 DEF FinalStatus
      <3>3. Course'
        BY <2>1, <3>2, EndCourse DEF Terminal
      <3>4. QED
        BY <3>1, <3>2, <3>3, ShotsMove DEF StatusMoves
    <2>5. CASE gs.outcome # "SUCCESS"
      <3>1. status' = gs.outcome /\ gs.outcome \in {"PARTIAL", "FAILED"}
        BY <2>2, <2>3, <2>5 DEF FinalStatus, Ending
      <3>2. Course'
        BY <2>1, <3>1, EndCourse DEF Terminal
      <3>3. StatusMoves
        BY <2>2, <3>1, ShotsMove DEF Ending, StatusMoves
      <3>4. QED
        BY <3>2, <3>3
    <2>6. QED
      BY <2>4, <2>5
  <1>4. CASE Crash
    BY <1>4 DEF Crash, jobVars, histVars, Course, PlaceTellsStatus,
       OneProviderFailure, StatusMoves
  <1>5. CASE WallClockExpires
    BY <1>5 DEF WallClockExpires, taskVars, jobVars, histVars, Course,
       PlaceTellsStatus, OneProviderFailure, StatusMoves, Going, Stopping, Ending,
       QcRepair
  <1>6. QED
    BY <1>1, <1>2, <1>3, <1>4, <1>5

\* The story and bible nodes.
LEMMA TextCourse ==
    ASSUME IInv, Course, NEW n \in TextNodes, TextNode(n)
    PROVE  Course' /\ StatusMoves
  <1>1. /\ up /\ node = n /\ status = "RUNNING" /\ failures = 0
        /\ gs.signature = "NONE" /\ gs.outcome = "NONE" /\ gs \in GraphState
        /\ rows["lock_continuity_bible"] = 0
    <2>1. up /\ node = n
      BY DEF TextNode, TextStop, TextReuse, TextAccepted, TextRejected, At
    <2>2. status = "RUNNING" /\ gs.signature = "NONE"
      BY <2>1 DEF Course, PlaceTellsStatus
    <2>3. gs.outcome = "NONE" /\ gs \in GraphState
      BY <2>1 DEF IInv, TextHasNoOutcome, TypeOK, TaskTypeOK
    <2>4. status \notin Terminal
      BY <2>2 DEF Terminal
    <2>5. rows["lock_continuity_bible"] = 0
      BY <2>4 DEF IInv, BibleLockedIsFinal, TypeOK, StoreTypeOK, TextNodes
    <2>6. QED
      BY <2>1, <2>2, <2>3, <2>4, <2>5 DEF Course
  <1>2. /\ n # "lock_continuity_bible" => n = "plan_story"
        /\ 1 \in Beats /\ beat \in Beats
    BY DEF TextNodes, Beats, IInv, TypeOK, TaskTypeOK
  <1> DEFINE done == TextDone(n)
  <1>3. CASE TextStop(n)
    <2>1. /\ status' = "PARTIAL" /\ Return(AfterText(n, Partial), Partial)
          /\ failures' = failures
      BY <1>3 DEF TextStop, BudgetStop, histVars
    <2>2. Partial.outcome = "PARTIAL"
      BY <1>1 DEF Partial, GraphState
    <2>3. AfterText(n, Partial).node = "end"
      BY <2>2 DEF AfterText, AfterPlan, AfterBible, Place, Stopped
    <2>4. node' = "end" /\ gs' = Partial
      BY <2>1, <2>3 DEF Return
    <2>5. PlaceTellsStatus'
      BY <2>1, <2>2, <2>4 DEF PlaceTellsStatus, Ending, TextNodes, ShotNodes,
         Commits, QcNodes
    <2>6. ckpt'.at.node \in TextNodes => ckpt'.gs.signature = "NONE"
      BY <2>1, <2>3 DEF Course, Return, TextNodes
    <2>7. QED
      BY <1>1, <2>1, <2>5, <2>6 DEF Course, OneProviderFailure, Terminal,
         StatusMoves, JobView!Next, JobView!EndText
  <1>4. CASE n = "plan_story" /\ (TextReuse(n) \/ TextAccepted(n))
    <2>1. /\ Return(AfterText(n, gs), gs) /\ status' = status /\ failures' = failures
      BY <1>4 DEF TextReuse, TextAccepted, TextDone, jobVars, histVars
    <2>2. AfterText(n, gs).node = "lock_continuity_bible"
      BY <1>1, <1>4 DEF AfterText, AfterPlan, Place, Stopped
    <2>3. /\ node' = "lock_continuity_bible" /\ gs' = gs
          /\ ckpt' = ckpt \/ ckpt'.gs = gs
      BY <2>1, <2>2 DEF Return
    <2>4. PlaceTellsStatus'
      BY <1>1, <2>1, <2>3 DEF PlaceTellsStatus, TextNodes, ShotNodes, Commits, QcNodes
    <2>5. QED
      BY <1>1, <2>1, <2>3, <2>4 DEF Course, OneProviderFailure, StatusMoves
  <1>5. CASE n = "lock_continuity_bible" /\ TextAccepted(n)
    <2>1. /\ Return(AfterBible(done), done) /\ status' = "BIBLE_LOCKED"
          /\ failures' = failures
      BY <1>5 DEF TextAccepted, AfterText, histVars
    <2>2. done.outcome = "SUCCESS" /\ done.signature = "NONE"
      BY <1>1, <1>5 DEF TextDone, GraphState
    <2>3. AfterBible(done).node \in {"generate_shot", "end"}
      BY DEF AfterBible, Place
    <2>4. /\ node' \in {"generate_shot", "end"} /\ gs' = done
          /\ ckpt' = ckpt \/ ckpt'.at.node \in {"generate_shot", "end"}
      BY <2>1, <2>3 DEF Return
    <2>5. Going' /\ Ending'
      BY <1>1, <2>1, <2>2, <2>4 DEF Going, Ending
    <2>6. PlaceTellsStatus'
      BY <2>4, <2>5 DEF PlaceTellsStatus, TextNodes, QcNodes
    <2>7. QED
      BY <1>1, <2>1, <2>4, <2>6 DEF Course, OneProviderFailure, Terminal, TextNodes,
         StatusMoves, JobView!Next, JobView!EndText
  <1>6. CASE TextRejected(n)
    <2>1. CASE tries + 1 < SchemaAttempts
      BY <1>1, <1>6, <2>1 DEF TextRejected, histVars, Course, PlaceTellsStatus,
         OneProviderFailure, StatusMoves, TextNodes, ShotNodes, Commits, QcNodes
    <2>2. CASE ~(tries + 1 < SchemaAttempts)
      <3>1. status' = "FAILED" /\ up' = FALSE /\ UNCHANGED <<ckpt, failures>>
        BY <1>6, <2>2 DEF TextRejected, Escape, histVars
      <3>2. QED
        BY <1>1, <3>1, EndCourse DEF Terminal, StatusMoves, JobView!Next,
           JobView!EndText
    <2>3. QED
      BY <2>1, <2>2
  <1>7. ~(n = "lock_continuity_bible" /\ TextReuse(n))
    BY <1>1 DEF TextReuse
  <1>8. QED
    BY <1>2, <1>3, <1>4, <1>5, <1>6, <1>7 DEF TextNode

\* Outside chain_frame a working shot node goes on with the shots.
LEMMA ShotPlace ==
    ASSUME IInv, Course, up, node \in (ShotNodes \cup Commits) \ {"chain_frame"}
    PROVE  /\ Going /\ node \notin TextNodes
           /\ status' = status => StatusMoves
  BY DEF Course, PlaceTellsStatus, Stopping, ShotNodes, Commits, TextNodes,
     StatusMoves

\* A step into the middle of a node.
LEMMA InsideCourse ==
    ASSUME IInv, Course, up, Going, NEW c \in Commits, Inside(c),
           UNCHANGED <<status, failures, flags>>,
           c \in QcNodes => QcRepair
    PROVE  Course' /\ StatusMoves
  <1>1. node' = c /\ UNCHANGED <<up, gs, ckpt>>
    BY DEF Inside
  <1>2. Going' /\ c \notin TextNodes \cup {"assemble", "deliver", "end", "done", "escaped"}
    BY <1>1 DEF Going, Commits, TextNodes
  <1>3. PlaceTellsStatus'
    BY <1>1, <1>2 DEF PlaceTellsStatus, QcRepair
  <1>4. QED
    BY <1>1, <1>3 DEF Course, OneProviderFailure, StatusMoves

\* generate_shot: its gate, its failures, its clip and its transaction.
LEMMA GenerateCourse ==
    ASSUME IInv, Course, GenerateShot
    PROVE  Course' /\ StatusMoves
  <1>1. up /\ node \in {"generate_shot", "generate_commit"}
    BY DEF GenerateShot, GenerateStop, GenerateNoCapability, GenerateFailed,
           GenerateClip, GenerateCommit, At
  <1>2. /\ Going /\ node \notin TextNodes
        /\ status' = status => StatusMoves
    BY <1>1, ShotPlace DEF ShotNodes, Commits
  <1>3. gs \in GraphState /\ beat \in Beats /\ Partial \in GraphState
    BY ShotFacts
  <1>4. CASE GenerateStop
    <2>1. Partial.outcome = "PARTIAL"
      BY <1>3 DEF Partial, GraphState
    <2>2. AfterGenerate(Partial, beat) = StopPlace("PARTIAL", beat)
      BY <1>3, <2>1 DEF AfterGenerate, Stopped
    <2>3. QED
      BY <1>1, <1>2, <1>3, <1>4, <2>2, RouteType, StopCourse DEF GenerateStop, At, ShotNodes
  <1>5. CASE GenerateNoCapability
    <2>1. /\ status' \in {"PARTIAL", "FAILED"} /\ up' = FALSE
          /\ UNCHANGED <<ckpt, failures>>
      BY <1>5 DEF GenerateNoCapability, Escape, histVars
    <2>2. QED
      BY <1>2, <2>1, EndCourse, ShotsMove DEF Going, Terminal
  <1>6. ASSUME NEW sig \in Signatures, GenerateFailed(sig)
        PROVE  Course' /\ StatusMoves
    <2> DEFINE g == ProviderFailed(sig)
    <2>1. g.outcome = FailedOutcome(sig)
      BY <1>3 DEF ProviderFailed, GraphState
    <2>2. g.outcome \in Stopped
      BY <2>1 DEF FailedOutcome, Stopped
    <2>3. AfterGenerate(g, beat) = StopPlace(g.outcome, beat)
      BY <2>2 DEF AfterGenerate
    <2>4. QED
      BY <1>1, <1>2, <1>3, <1>6, <2>3, RouteType, FailureCourse
         DEF GenerateFailed, At, ShotNodes
  <1>7. CASE GenerateClip
    <2>1. UNCHANGED <<status, failures, flags>>
      BY <1>7 DEF GenerateClip, jobVars, envVars
    <2>2. CASE shot[beat].made
      <3> DEFINE g == [gs EXCEPT !.clip = 0, !.prior = IF frame[beat] = 0 THEN 0 ELSE beat]
      <3>1. Return(AfterGenerate(g, beat), g)
        BY <1>7, <2>2 DEF GenerateClip
      <3>2. g.outcome = "SUCCESS" /\ g.signature = gs.signature
        BY <1>2, <1>3 DEF Going, GraphState
      <3>3. AfterGenerate(g, beat) = Place("chain_frame", beat)
        BY <3>2 DEF AfterGenerate, Stopped
      <3>4. AfterGenerate(g, beat).node \notin QcNodes \cup TextNodes
        BY <3>3 DEF Place, QcNodes, TextNodes
      <3>5. QED
        BY <1>1, <1>2, <1>3, <2>1, <3>1, <3>2, <3>4, RouteType, GoingOn
    <2>3. CASE ~shot[beat].made
      <3>1. Inside("generate_commit")
        BY <1>7, <2>3 DEF GenerateClip
      <3>2. QED
        BY <1>1, <1>2, <2>1, <3>1, InsideCourse DEF Commits, QcNodes
    <2>4. QED
      BY <2>2, <2>3
  <1>8. CASE GenerateCommit
    <2> DEFINE g == [gs EXCEPT !.clip = 0]
    <2>1. Return(AfterGenerate(g, beat), g) /\ UNCHANGED <<status, failures, flags>>
      BY <1>8 DEF GenerateCommit, envVars, histVars
    <2>2. g.outcome = "SUCCESS" /\ g.signature = gs.signature
      BY <1>2, <1>3 DEF Going, GraphState
    <2>3. AfterGenerate(g, beat) = Place("chain_frame", beat)
      BY <2>2 DEF AfterGenerate, Stopped
    <2>4. AfterGenerate(g, beat).node \notin QcNodes \cup TextNodes
      BY <2>3 DEF Place, QcNodes, TextNodes
    <2>5. QED
      BY <1>1, <1>2, <1>3, <2>1, <2>2, <2>4, RouteType, GoingOn
  <1>9. QED
    BY <1>4, <1>5, <1>6, <1>7, <1>8 DEF GenerateShot

\* repair_shot, whose stops pass chain_frame on their way out.
LEMMA RepairCourse ==
    ASSUME IInv, Course, RepairShot
    PROVE  Course' /\ StatusMoves
  <1>1. up /\ node \in {"repair_shot", "repair_commit"}
    BY DEF RepairShot, RepairStop, RepairFailed, RepairClip, RepairCommit, At
  <1>2. /\ Going /\ node \notin TextNodes
        /\ status' = status => StatusMoves
    BY <1>1, ShotPlace DEF ShotNodes, Commits
  <1>3. gs \in GraphState /\ beat \in Beats /\ QcRepair
    BY <1>1, ShotFacts DEF Course, PlaceTellsStatus, QcNodes
  <1> DEFINE p == Place("chain_frame", beat)
  <1>4. p \in PlaceSet /\ p.node = "chain_frame"
    BY <1>3 DEF Place, PlaceSet, Nodes, ShotNodes
  <1> HIDE DEF p
  <1>5. CASE RepairStop
    BY <1>1, <1>2, <1>3, <1>4, <1>5, StopCourse DEF RepairStop, At, ShotNodes, p
  <1>6. ASSUME NEW sig \in Signatures, RepairFailed(sig)
        PROVE  Course' /\ StatusMoves
    BY <1>1, <1>2, <1>3, <1>4, <1>6, FailureCourse DEF RepairFailed, At, ShotNodes, p
  <1>7. CASE RepairClip
    <2>1. UNCHANGED <<status, failures, flags>> /\ Inside("repair_commit")
      BY <1>7 DEF RepairClip, jobVars, envVars
    <2>2. QED
      BY <1>1, <1>2, <1>3, <2>1, InsideCourse DEF Commits
  <1>8. CASE RepairCommit
    <2> DEFINE m == shot[beat].repair_count + 1
               g == [gs EXCEPT !.clip = m, !.qc_passed = FALSE, !.repair_count = m]
    <2>1. Return(p, g) /\ UNCHANGED <<status, failures, flags>>
      BY <1>8 DEF RepairCommit, envVars, histVars, p
    <2>2. g.outcome = "SUCCESS" /\ g.signature = gs.signature
      BY <1>2, <1>3 DEF Going, GraphState
    <2>3. p.node \notin QcNodes \cup TextNodes
      BY <1>4 DEF QcNodes, TextNodes
    <2>4. QED
      BY <1>1, <1>2, <1>4, <2>1, <2>2, <2>3, GoingOn
  <1>9. QED
    BY <1>5, <1>6, <1>7, <1>8 DEF RepairShot

\* chain_frame goes on to scoring or the next shot, or lets a stop through.
LEMMA ChainCourse ==
    ASSUME IInv, Course, ChainFrame
    PROVE  Course' /\ StatusMoves
  <1> DEFINE last == beat = NBeats
             g == [gs EXCEPT !.prior = beat,
                             !.shots_completed = @ \/ last,
                             !.outcome = IF last /\ TerminalAfterChain
                                         THEN "SUCCESS" ELSE @]
             p == AfterChain(g, beat)
  <1>1. /\ up /\ node = "chain_frame" /\ UNCHANGED <<status, failures, flags>>
        /\ Return(p, g)
    BY DEF ChainFrame, At, jobVars, histVars, envVars
  <1>2. gs \in GraphState /\ beat \in Beats /\ (Going \/ Stopping)
    BY <1>1, ShotFacts DEF Course, PlaceTellsStatus, ShotNodes
  <1>3. g.outcome = (IF last /\ TerminalAfterChain THEN "SUCCESS" ELSE gs.outcome)
        /\ g.signature = gs.signature
    BY <1>2 DEF GraphState
  <1> HIDE DEF g
  <1>4. p \in PlaceSet /\ node \notin TextNodes
    BY <1>1, <1>2, RouteType DEF TextNodes
  <1>5. CASE Going
    <2>1. g.outcome = "SUCCESS"
      BY <1>3, <1>5 DEF Going
    <2>2. p = IF QcRepair THEN Place("qc_score", beat) ELSE NextAfterShot(beat)
      BY <2>1 DEF AfterChain, Stopped
    <2>3. p.node \notin TextNodes /\ (p.node \in QcNodes => QcRepair)
      BY <2>2 DEF NextAfterShot, Place, TextNodes, QcNodes
    <2>4. QED
      BY <1>1, <1>3, <1>4, <1>5, <2>1, <2>3, GoingOn DEF StatusMoves
  <1>6. CASE Stopping
    <2>1. g.outcome = gs.outcome /\ g.outcome \in Stopped
      BY <1>3, <1>6 DEF Stopping, TerminalAfterChain, Stopped
    <2>2. p = StopPlace(g.outcome, beat)
      BY <2>1 DEF AfterChain
    <2>3. /\ p.node \in {"assemble", "end"}
          /\ p.node = "assemble" => g.outcome = "PARTIAL"
      BY <2>2 DEF StopPlace, Place
    <2>4. node' = p.node /\ gs' = g
      BY <1>1 DEF Return
    <2>5. Ending'
      BY <1>1, <1>6, <2>1, <2>3, <2>4 DEF Stopping, Ending
    <2>6. /\ status' \in Terminal \ {"FAILED_NO_PROGRESS"} /\ failures' \in {0, 1}
          /\ p.node \notin TextNodes \cup ShotNodes \cup QcNodes
      BY <1>1, <1>6, <2>3 DEF Stopping, Terminal, TextNodes, ShotNodes, QcNodes,
         Course, OneProviderFailure, IInv, TypeOK, StoreTypeOK
    <2>7. QED
      BY <1>1, <1>4, <2>5, <2>6, ReturnCourse DEF StatusMoves
  <1>7. QED
    BY <1>2, <1>5, <1>6

\* qc_score and its transaction.
LEMMA QcCourse ==
    ASSUME IInv, Course, Qc
    PROVE  Course' /\ StatusMoves
  <1>1. up /\ node \in {"qc_score", "qc_commit"}
    BY DEF Qc, QcStop, QcInvalid, QcScored, QcCommit, At
  <1>2. /\ Going /\ node \notin TextNodes
        /\ status' = status => StatusMoves
    BY <1>1, ShotPlace DEF ShotNodes, Commits
  <1>3. /\ gs \in GraphState /\ beat \in Beats /\ Partial \in GraphState
        /\ QcRepair
    BY <1>1, ShotFacts DEF Course, PlaceTellsStatus, QcNodes
  <1>4. CASE QcStop
    <2>1. Partial.outcome = "PARTIAL"
      BY <1>3 DEF Partial, GraphState
    <2>2. AfterQc(Partial, beat) = StopPlace("PARTIAL", beat)
      BY <2>1 DEF AfterQc, Stopped
    <2>3. QED
      BY <1>1, <1>2, <1>3, <1>4, <2>2, RouteType, StopCourse DEF QcStop, At, ShotNodes
  <1>5. CASE QcInvalid
    <2>1. status' = status /\ up' = FALSE /\ UNCHANGED <<ckpt, failures>>
      BY <1>2, <1>5 DEF QcInvalid, Escape, histVars, Going, EnsureTerminal, Terminal
    <2>2. QED
      BY <1>2, <2>1, EndCourse DEF Going, Terminal
  <1>6. ASSUME NEW s \in Scores, QcScored(s)
        PROVE  Course' /\ StatusMoves
    <2>1. UNCHANGED <<status, failures, flags>> /\ Inside("qc_commit")
      BY <1>6 DEF QcScored, envVars, histVars
    <2>2. QED
      BY <1>1, <1>2, <1>3, <2>1, InsideCourse DEF Commits
  <1>7. CASE QcCommit
    <2> DEFINE passed == verdict >= PassScore
               last == passed /\ beat = NBeats /\ ~AssembleDeliver
               g == [gs EXCEPT !.qc_passed = passed, !.clip = 0,
                               !.repair_count = shot[beat].repair_count,
                               !.outcome = IF last THEN "SUCCESS" ELSE @,
                               !.shots_completed = @ \/ last]
    <2>1. UNCHANGED <<status, failures, flags>> /\ Return(AfterQc(g, beat), g)
      BY <1>7 DEF QcCommit, jobVars, envVars, histVars
    <2>2. g.outcome = "SUCCESS" /\ g.signature = gs.signature
      BY <1>2, <1>3 DEF Going, GraphState
    <2> HIDE DEF g
    <2>3. AfterQc(g, beat).node \notin TextNodes
      BY <2>2 DEF AfterQc, Stopped, NextAfterShot, Place, TextNodes
    <2>4. QED
      BY <1>1, <1>2, <1>3, <2>1, <2>2, <2>3, RouteType, GoingOn
  <1>8. QED
    BY <1>4, <1>5, <1>6, <1>7 DEF Qc

\* flag_degraded, which ends the last shot as PARTIAL.
LEMMA FlagCourse ==
    ASSUME IInv, Course, FlagDegraded
    PROVE  Course' /\ StatusMoves
  <1> DEFINE last == beat = NBeats /\ ~AssembleDeliver
             g == [gs EXCEPT !.qc_passed = FALSE, !.job_degraded = TRUE,
                             !.outcome = IF last THEN "PARTIAL" ELSE @,
                             !.shots_completed = @ \/ last]
             p == NextAfterShot(beat)
  <1>1. /\ up /\ node = "flag_degraded" /\ UNCHANGED <<status, failures, flags>>
        /\ Return(p, g)
    BY DEF FlagDegraded, At, AfterFlag, histVars, envVars
  <1>2. /\ Going /\ node \notin TextNodes /\ (status' = status => StatusMoves)
    BY <1>1, ShotPlace DEF ShotNodes
  <1>3. gs \in GraphState /\ beat \in Beats
    BY ShotFacts
  <1>4. /\ g.outcome = (IF last THEN "PARTIAL" ELSE "SUCCESS")
        /\ g.signature = gs.signature
    BY <1>2, <1>3 DEF GraphState, Going
  <1> HIDE DEF g
  <1>5. p \in PlaceSet
    BY <1>3, RouteType DEF AfterFlag
  <1>6. p.node \notin TextNodes \cup QcNodes /\ (last => p.node = "end")
    BY DEF NextAfterShot, Place, TextNodes, QcNodes
  <1>7. Course'
    BY <1>1, <1>2, <1>4, <1>5, <1>6, GoingOn
  <1>8. QED
    BY <1>1, <1>2, <1>7

\* assemble and deliver leave the status to the end of the run.
LEMMA TailCourse ==
    ASSUME IInv, Course, Assemble \/ Deliver
    PROVE  Course' /\ StatusMoves
  <1>1. /\ up /\ node \in {"assemble", "deliver"} /\ node \notin TextNodes
        /\ UNCHANGED <<status, failures, flags>>
    BY DEF Assemble, Deliver, At, histVars, envVars, TextNodes
  <1>2. gs.outcome \in {"SUCCESS", "PARTIAL"} /\ (status = "BIBLE_LOCKED" \/ status = gs.outcome)
    BY <1>1 DEF Course, PlaceTellsStatus, Ending
  <1>3. gs \in GraphState /\ beat \in Beats /\ failures \in Nat
        /\ status \in Stale \cup Terminal
    BY ShotFacts DEF IInv, TypeOK, StoreTypeOK
  <1>4. PICK p, g :
          /\ p \in PlaceSet /\ Return(p, g) /\ p.node \in {"deliver", "end"}
          /\ g.outcome \in {"SUCCESS", "PARTIAL"}
          /\ gs.outcome = "PARTIAL" => g.outcome = "PARTIAL"
    <2>1. \A n \in {"deliver", "end"} : /\ Place(n, beat) \in PlaceSet
                                        /\ Place(n, beat).node = n
      BY <1>3 DEF Place, PlaceSet, Nodes
    <2>2. CASE Assemble
      <3> DEFINE flawed == \/ gs.job_degraded
                           \/ \E b \in Beats : shot[b].degraded \/ ~shot[b].made
                 outcome == IF flawed THEN "PARTIAL" ELSE gs.outcome
                 g == [gs EXCEPT !.assembled = TRUE, !.shots_completed = TRUE,
                                 !.job_degraded = flawed,
                                 !.outcome = IF outcome \in {"PARTIAL", "FAILED"}
                                             THEN outcome ELSE "SUCCESS"]
      <3>1. Return(Place("deliver", beat), g)
        BY <2>2 DEF Assemble
      <3>2. g.outcome = IF outcome \in {"PARTIAL", "FAILED"} THEN outcome ELSE "SUCCESS"
        BY <1>3 DEF GraphState
      <3> HIDE DEF g, flawed
      <3>3. QED
        BY <1>2, <2>1, <3>1, <3>2
    <2>3. CASE Deliver
      <3> DEFINE g == [gs EXCEPT !.delivered = TRUE, !.shots_completed = TRUE,
                                 !.outcome = IF gs.job_degraded \/ @ = "PARTIAL"
                                             THEN "PARTIAL" ELSE "SUCCESS"]
      <3>1. Return(Place("end", beat), g)
        BY <2>3 DEF Deliver
      <3>2. g.outcome = IF gs.job_degraded \/ gs.outcome = "PARTIAL"
                        THEN "PARTIAL" ELSE "SUCCESS"
        BY <1>3 DEF GraphState
      <3> HIDE DEF g
      <3>3. QED
        BY <2>1, <3>1, <3>2
    <2>4. QED
      BY <2>2, <2>3
  <1>5. node' = p.node /\ gs' = g
    BY <1>4 DEF Return
  <1>6. status \in {"BIBLE_LOCKED", "PARTIAL"}
        /\ (status = "PARTIAL" => gs.outcome = "PARTIAL")
    BY <1>2, <1>3 DEF Stale, Terminal
  <1>7. Ending'
    BY <1>1, <1>4, <1>5, <1>6 DEF Ending
  <1>8. status' \in Terminal \ {"FAILED_NO_PROGRESS"}
    BY <1>1, <1>6 DEF Terminal
  <1>9. failures' \in {0, 1}
    BY <1>1, <1>3 DEF Course, OneProviderFailure
  <1>10. p.node \notin TextNodes \cup ShotNodes \cup QcNodes
    BY <1>4 DEF TextNodes, ShotNodes, QcNodes
  <1>11. QED
    BY <1>1, <1>4, <1>7, <1>8, <1>9, <1>10, ReturnCourse DEF StatusMoves

\* Every step keeps the course and moves the status as JobStatus allows.
LEMMA CourseNext ==
    ASSUME IInv, Course, [Next]_vars
    PROVE  Course' /\ StatusMoves
  <1>1. CASE Next
    BY <1>1, RunnerCourse, TextCourse, GenerateCourse, ChainCourse, QcCourse,
       RepairCourse, FlagCourse, TailCourse DEF Next, TaskStep
  <1>2. CASE UNCHANGED vars
    BY <1>2 DEF vars, taskVars, jobVars, envVars, histVars, Course,
       PlaceTellsStatus, OneProviderFailure, Going, Stopping, Ending, QcRepair,
       StatusMoves
  <1>3. QED
    BY <1>1, <1>2

\* A queued job has not begun its course.
LEMMA InitCourse == Init => Course
  BY DEF Init, Course, PlaceTellsStatus, OneProviderFailure, StartPlace, Place,
         EmptyState

\* The course is an invariant, with the inductive one it rests on.
LEMMA CourseInvariant == Spec => [](IInv /\ Course)
  <1>1. Init => IInv /\ Course
    BY InitInv, InitCourse
  <1>2. IInv /\ Course /\ [Next]_vars => (IInv /\ Course)'
    BY NextInv, CourseNext
  <1>3. QED
    BY <1>1, <1>2, PTL DEF Spec

\* One failed provider call ends the graph and nothing resumes a job that ended,
\* so _provider_failure never meets the signature of an earlier failure:
\* FAILED_NO_PROGRESS, which the documents promise for a repeated one, is never
\* reported.
THEOREM OneFailure == Spec => []OneProviderFailure
  <1>1. IInv /\ Course => OneProviderFailure
    BY DEF Course
  <1>2. QED
    BY <1>1, CourseInvariant, PTL

\* The status a client polls moves only as JobStatus allows: from the start
\* through the locked bible to one final status, whatever fails and crashes.
THEOREM Refinement == Spec => StatusLifecycle
  <1>1. Init => JobView!Init
    BY DEF Init, JobView!Init
  <1>2. IInv /\ Course /\ [Next]_vars => [JobView!Next]_status
    BY CourseNext DEF StatusMoves
  <1>3. QED
    BY <1>1, <1>2, CourseInvariant, PTL DEF Spec, StatusLifecycle, JobView!Spec

-----------------------------------------------------------------------------
(***************************************************************************)
(* The tables of a job: what the shots rows with their scores and the      *)
(* files say of each beat, beat by beat and place by place.                *)
(***************************************************************************)

\* A beat nothing was made for.
Fresh(b) == shot[b] = NoShot /\ canon[b] = 0

\* The attempts 1 to k were scored, once each, and all of them failed.
Attempts(S, k) ==
    /\ IsFiniteSet(S) /\ Cardinality(S) = k
    /\ \A row \in S : row[1] \in 1..k /\ row[2] < PassScore
    /\ \A n \in 1..k : \E row \in S : row[1] = n

\* No score of S is better than q.
TopScore(S, q) == \A row \in S : row[2] <= q

Best(b) ==
    shot[b].scored # {} => /\ <<canon[b], shot[b].qc_score>> \in shot[b].scored
                           /\ TopScore(shot[b].scored, shot[b].qc_score)

\* What holds of each beat, for good: the four properties, beat by beat.
KeptBest(b) == Best(b) \/ (TopScore(shot[b].scored, shot[b].qc_score) /\ AheadOfRow(b))

Capped(b) == shot[b].degraded => Attempts(shot[b].scored, MaxRepairs + 1)

InOrder(b) ==
    b > 1 /\ canon[b] # 0 =>
        /\ shot[b - 1].made /\ frame[b - 1] # 0
        /\ QcRepair => shot[b - 1].qc_score >= PassScore \/ shot[b - 1].degraded

Chained(b) ==
    b > 1 /\ canon[b] # 0 =>
        /\ capable
        /\ \/ cond[b] = [beat |-> b - 1, clip |-> canon[b - 1]]
           \/ cond[b].beat = b - 1 /\ shot[b - 1].degraded
           \/ QcRepair /\ cond[b].beat = b

Lasting(b) == Capped(b) /\ InOrder(b) /\ Chained(b)

\* A beat as it is left for the next one.
Finished(b) ==
    /\ shot[b].made /\ canon[b] # 0 /\ frame[b] # 0
    /\ frame[b] = canon[b] \/ shot[b].degraded
    /\ QcRepair => shot[b].qc_score >= PassScore \/ shot[b].degraded

\* The beats before and after the current one.
Around ==
    /\ \A b \in Beats : b > beat => Fresh(b)
    /\ \A b \in Beats : b < beat => Finished(b)

\* The current beat has a clip, not flagged.
Made == shot[beat].made /\ ~shot[beat].degraded /\ canon[beat] # 0

\* The attempt that was made last.
Newest == shot[beat].repair_count + 1

\* The newest attempt waits for its score; it has one, and it failed.
Unscored ==
    /\ Made /\ Attempts(shot[beat].scored, shot[beat].repair_count)
    /\ TopScore(shot[beat].scored, shot[beat].qc_score)
    /\ shot[beat].scored = {} => shot[beat].qc_score = 0
Failed ==
    /\ Made /\ Attempts(shot[beat].scored, Newest)
    /\ TopScore(shot[beat].scored, shot[beat].qc_score)
    /\ frame[beat] # 0

\* The current beat at each place of a graph that is going on.
AtBeat ==
    /\ node = "generate_shot" => Fresh(beat) /\ gs.prior = beat - 1
    /\ node = "generate_commit" => shot[beat] = NoShot /\ canon[beat] = 1
    /\ node = "chain_frame" =>
          Unscored /\ CurrentClip = Newest /\ (QcRepair \/ gs.clip = 0)
    /\ node \in {"qc_score", "qc_commit"} => Unscored /\ frame[beat] = Newest
    /\ node = "qc_score" => CurrentClip = Newest
    /\ node = "qc_commit" =>
          IF KeepNew(verdict) THEN canon[beat] = Newest
          ELSE <<canon[beat], shot[beat].qc_score>> \in shot[beat].scored
    /\ node \in {"repair_shot", "repair_commit", "flag_degraded"} => Failed
    /\ node = "flag_degraded" => shot[beat].repair_count = MaxRepairs
    /\ node \in QcNodes => gs.prior = beat

AllFinished == \A b \in Beats : Finished(b)
FilmIsKept == \A b \in Beats : film[b] = IF shot[b].made THEN canon[b] ELSE 0
NoneFlagged == \A b \in Beats : ~shot[b].degraded

\* The tables at each place behind the shots.
AtEnd ==
    /\ node \in {"assemble", "deliver"} /\ gs.outcome = "SUCCESS" => AllFinished
    /\ node = "deliver" => FilmIsKept /\ (~gs.job_degraded => NoneFlagged)
    /\ node = "end" =>
          /\ gs.delivered => download /\ FilmIsKept
          /\ gs.delivered /\ gs.outcome = "SUCCESS" =>
                ~degraded /\ AllFinished /\ NoneFlagged
          /\ gs.shots_completed /\ gs.outcome = "SUCCESS" => AllFinished
          /\ AssembleDeliver /\ AnySucceeded => gs.delivered

\* A graph state before the first shot.
NoShotYet(g) == ~g.delivered /\ ~g.shots_completed /\ g.prior = 0

PlaceTellsTables ==
    up => /\ node \in TextNodes => NoShotYet(gs)
          /\ node \in ShotNodes \cup Commits =>
                /\ ~gs.delivered /\ Around
                /\ IF Going THEN AtBeat
                   ELSE gs.outcome = "PARTIAL" /\ shot[beat].made
          /\ AtEnd

Tables ==
    /\ \A b \in Beats : KeptBest(b) /\ Lasting(b)
    /\ PlaceTellsTables
    /\ status \notin Terminal => \A b \in Beats : Fresh(b)
    /\ ckpt.at.node \in TextNodes => NoShotYet(ckpt.gs)
    /\ SuccessIsComplete /\ PartialIsDelivered

-----------------------------------------------------------------------------
\* Scoring one attempt more, which fails.
LEMMA AttemptsAdd ==
    ASSUME NEW S, NEW k \in Nat, Attempts(S, k), NEW v, v < PassScore
    PROVE  Attempts(S \cup {<<k + 1, v>>}, k + 1)
  <1> DEFINE x == <<k + 1, v>>
             T == S \cup {x}
  <1>1. x \notin S
    BY DEF Attempts
  <1>2. IsFiniteSet(T) /\ Cardinality(T) = k + 1
    BY <1>1, FS_AddElement DEF Attempts
  <1>3. \A row \in T : row[1] \in 1..(k + 1) /\ row[2] < PassScore
    BY DEF Attempts
  <1>4. \A n \in 1..(k + 1) : \E row \in T : row[1] = n
    <2> SUFFICES ASSUME NEW n \in 1..(k + 1) PROVE \E row \in T : row[1] = n
      OBVIOUS
    <2>1. CASE n = k + 1
      <3>1. x[1] = n /\ x \in T
        BY <2>1
      <3>2. QED
        BY <3>1
    <2>2. CASE n # k + 1
      <3>1. n \in 1..k
        BY <2>2
      <3>2. QED
        BY <3>1 DEF Attempts
    <2>3. QED
      BY <2>1, <2>2
  <1>5. QED
    BY <1>2, <1>3, <1>4 DEF Attempts

\* No attempt was scored yet.
LEMMA AttemptsNone == Attempts({}, 0)
  BY FS_EmptySet DEF Attempts

\* The attempts as DegradedOnlyAfterCap counts them.
LEMMA AttemptsImage ==
    ASSUME NEW S, NEW k \in Nat, Attempts(S, k)
    PROVE  {row[1] : row \in S} = 1..k
  BY DEF Attempts

\* The types the tables of the current beat rest on.
LEMMA TableTypes ==
    ASSUME IInv
    PROVE  /\ gs \in GraphState /\ beat \in Beats
           /\ shot \in [Beats -> ShotRow] /\ canon \in [Beats -> Clips]
           /\ frame \in [Beats -> Clips] /\ film \in [Beats -> Clips]
           /\ cond \in [Beats -> [beat: 0..NBeats, clip: Clips]]
           /\ flags.qc \in BOOLEAN /\ flags.assemble \in BOOLEAN
           /\ capable \in BOOLEAN /\ degraded \in BOOLEAN
           /\ \A b \in Beats : /\ shot[b].made \in BOOLEAN
                               /\ shot[b].degraded \in BOOLEAN
                               /\ shot[b].repair_count \in 0..MaxRepairs
                               /\ shot[b].qc_score \in {0} \cup Scores
                               /\ shot[b].scored \subseteq Clips \X Scores
  <1>1. /\ gs \in GraphState /\ beat \in Beats
        /\ shot \in [Beats -> ShotRow] /\ canon \in [Beats -> Clips]
        /\ frame \in [Beats -> Clips] /\ film \in [Beats -> Clips]
        /\ cond \in [Beats -> [beat: 0..NBeats, clip: Clips]]
        /\ flags \in Features /\ capable \in BOOLEAN /\ degraded \in BOOLEAN
    BY DEF IInv, TypeOK, TaskTypeOK, StoreTypeOK
  <1>2. \A b \in Beats : shot[b] \in ShotRow
    BY <1>1
  <1>3. flags.qc \in BOOLEAN /\ flags.assemble \in BOOLEAN
    BY <1>1
  <1>4. QED
    BY <1>1, <1>2, <1>3 DEF ShotRow

\* A row and the files of beat b are what they were.
Same(b) ==
    /\ shot'[b] = shot[b] /\ canon'[b] = canon[b]
    /\ frame'[b] = frame[b] /\ cond'[b] = cond[b]

\* A step that changes at most the rows and files of beat c.
OnlyBeat(c) ==
    /\ \A b \in Beats \ {c} : Same(b)
    /\ UNCHANGED <<flags, capable>>

\* A task that works has not settled the job.
LEMMA Unsettled ==
    ASSUME IInv, Course, up
    PROVE  status \notin {"DELIVERED", "SHOTS_READY"} /\ node # "done"
  BY DEF IInv, TypeOK, TaskTypeOK, Places, Nodes, Course, PlaceTellsStatus, Going,
     Stopping, Ending

LEMMA UnsettledNext ==
    ASSUME IInv', Course', up'
    PROVE  SuccessIsComplete' /\ PartialIsDelivered'
  BY DEF IInv, TypeOK, TaskTypeOK, Places, Nodes, Course, PlaceTellsStatus, Going,
     Stopping, Ending, SuccessIsComplete, PartialIsDelivered

\* What holds of the other beats, and of the current one after the step, holds
\* of all of them: the beat behind it is fresh.
LEMMA LastingKept ==
    ASSUME Tables, Around, NEW c \in Beats, beat = c, OnlyBeat(c), Lasting(c)'
    PROVE  \A b \in Beats : Lasting(b)'
  <1> SUFFICES ASSUME NEW b \in Beats, b # c PROVE Lasting(b)'
    OBVIOUS
  <1>1. Same(b) /\ Lasting(b) /\ flags' = flags /\ capable' = capable
    BY DEF OnlyBeat, Tables
  <1>2. CASE b = c + 1
    <2>1. canon'[b] = 0 /\ ~shot[b].degraded
      BY <1>1, <1>2 DEF Around, Fresh, Same, NoShot, Beats
    <2>2. QED
      BY <1>1, <2>1 DEF Lasting, Capped, InOrder, Chained, Same
  <1>3. CASE b # c + 1
    <2>1. b > 1 => b - 1 \in Beats \ {c}
      BY <1>3 DEF Beats
    <2>2. b > 1 => Same(b - 1)
      BY <2>1 DEF OnlyBeat
    <2>3. Capped(b)'
      BY <1>1 DEF Lasting, Capped, Same
    <2>4. InOrder(b)'
      BY <1>1, <2>2 DEF Lasting, InOrder, Same, QcRepair
    <2>5. Chained(b)'
      BY <1>1, <2>2 DEF Lasting, Chained, Same, QcRepair
    <2>6. QED
      BY <2>3, <2>4, <2>5 DEF Lasting
  <1>4. QED
    BY <1>2, <1>3

LEMMA BestKept ==
    ASSUME Tables, NEW c \in Beats, beat = c, OnlyBeat(c),
           KeptBest(c)'
    PROVE  \A b \in Beats : KeptBest(b)'
  <1> SUFFICES ASSUME NEW b \in Beats, b # c PROVE Best(b)'
    BY DEF KeptBest
  <1>1. Same(b) /\ Best(b)
    BY DEF OnlyBeat, Tables, KeptBest, AheadOfRow
  <1>2. QED
    BY <1>1 DEF Best, Same

\* The neighbours of the current beat stay what they are.
LEMMA AroundKept ==
    ASSUME Around, NEW c \in Beats, beat = c, OnlyBeat(c), beat' = c
    PROVE  Around'
  <1>1. \A b \in Beats \ {c} : Same(b)
    BY DEF OnlyBeat
  <1>2. ASSUME NEW b \in Beats, b > c PROVE Fresh(b)'
    BY <1>1, <1>2 DEF Around, Fresh, Same, Beats
  <1>3. ASSUME NEW b \in Beats, b < c PROVE Finished(b)'
    BY <1>1, <1>3 DEF Around, Finished, Same, OnlyBeat, QcRepair, Beats
  <1>4. QED
    BY <1>2, <1>3 DEF Around

\* With the current beat finished the next one is begun, or all are finished.
LEMMA AroundNext ==
    ASSUME Around, NEW c \in Beats, beat = c, OnlyBeat(c), Finished(c)'
    PROVE  /\ c < NBeats /\ beat' = c + 1 => Around' /\ Fresh(beat)'
           /\ c = NBeats => AllFinished'
  <1>1. \A b \in Beats \ {c} : Same(b)
    BY DEF OnlyBeat
  <1>2. ASSUME NEW b \in Beats, b > c PROVE Fresh(b)'
    BY <1>1, <1>2 DEF Around, Fresh, Same, Beats
  <1>3. ASSUME NEW b \in Beats, b < c PROVE Finished(b)'
    BY <1>1, <1>3 DEF Around, Finished, Same, OnlyBeat, QcRepair, Beats
  <1>4. c = NBeats => AllFinished'
    BY <1>3 DEF AllFinished, Beats
  <1>5. ASSUME c < NBeats, beat' = c + 1 PROVE Around' /\ Fresh(beat)'
    <2>1. c + 1 \in Beats
      BY <1>5 DEF Beats
    <2>2. Fresh(c + 1)'
      BY <1>2, <2>1 DEF Beats
    <2>3. ASSUME NEW b \in Beats, b > c + 1 PROVE Fresh(b)'
      BY <1>2, <2>3 DEF Beats
    <2>4. ASSUME NEW b \in Beats, b < c + 1 PROVE Finished(b)'
      BY <1>3, <2>4 DEF Beats
    <2>5. Fresh(beat)'
      BY <1>5, <2>2 DEF Fresh
    <2>6. QED
      BY <1>5, <2>3, <2>4, <2>5 DEF Around
  <1>6. QED
    BY <1>4, <1>5

\* An exception leaves rows and files alone.
LEMMA EscapeTables ==
    ASSUME Tables, up' = FALSE, node' = "escaped",
           UNCHANGED <<beat, ckpt, shot, canon, frame, film, cond, flags, capable>>,
           status' \in Terminal \ {"DELIVERED", "SHOTS_READY"}
    PROVE  Tables'
  <1>1. ASSUME NEW b \in Beats PROVE KeptBest(b)' /\ Lasting(b)'
    <2>1. KeptBest(b) /\ Lasting(b)
      BY DEF Tables
    <2>2. KeptBest(b)'
      BY <2>1 DEF KeptBest, Best, AheadOfRow
    <2>3. Capped(b)' /\ InOrder(b)'
      BY <2>1 DEF Lasting, Capped, InOrder, QcRepair
    <2>4. Chained(b)'
      BY <2>1 DEF Lasting, Chained, QcRepair
    <2>5. QED
      BY <2>2, <2>3, <2>4 DEF Lasting
  <1>2. PlaceTellsTables'
    BY DEF PlaceTellsTables
  <1>3. SuccessIsComplete' /\ PartialIsDelivered'
    BY DEF SuccessIsComplete, PartialIsDelivered
  <1>4. ckpt'.at.node \in TextNodes => NoShotYet(ckpt'.gs)
    BY DEF Tables
  <1>5. QED
    BY <1>1, <1>2, <1>3, <1>4 DEF Tables

\* Nor does a step that leaves the place, the rows and the files alone.
LEMMA IdleTables ==
    ASSUME Tables, up' = up \/ up' = FALSE,
           UNCHANGED <<node, beat, gs, verdict, ckpt, shot, canon, frame, film, cond,
                       flags, capable, status, degraded, download, failures>>
    PROVE  Tables'
  <1>1. ASSUME NEW b \in Beats PROVE KeptBest(b)' /\ Lasting(b)'
    <2>1. KeptBest(b) /\ Lasting(b)
      BY DEF Tables
    <2>2. KeptBest(b)'
      BY <2>1 DEF KeptBest, Best, AheadOfRow
    <2>3. Capped(b)' /\ InOrder(b)'
      BY <2>1 DEF Lasting, Capped, InOrder, QcRepair
    <2>4. Chained(b)'
      BY <2>1 DEF Lasting, Chained, QcRepair
    <2>5. QED
      BY <2>2, <2>3, <2>4 DEF Lasting
  <1>2. Around' = Around /\ Going' = Going /\ AnySucceeded' = AnySucceeded
    BY DEF Around, Fresh, Finished, QcRepair, Going, AnySucceeded
  <1>3. AtBeat' = AtBeat
    BY DEF AtBeat, Fresh, Unscored, Failed, Made, Newest, CurrentClip, KeepNew,
       QcRepair
  <1>4. AtEnd' = AtEnd
    BY <1>2 DEF AtEnd, AllFinished, Finished, FilmIsKept, NoneFlagged, QcRepair,
       AssembleDeliver
  <1>5. PlaceTellsTables'
    BY <1>2, <1>3, <1>4 DEF Tables, PlaceTellsTables, NoShotYet
  <1>6. SuccessIsComplete' /\ PartialIsDelivered'
    BY <1>2 DEF Tables, SuccessIsComplete, PartialIsDelivered, QcRepair, AssembleDeliver
  <1>7. ckpt'.at.node \in TextNodes => NoShotYet(ckpt'.gs)
    BY DEF Tables
  <1>8. status' \notin Terminal => \A b \in Beats : Fresh(b)'
    BY DEF Tables, Fresh
  <1>9. QED
    BY <1>1, <1>5, <1>6, <1>7, <1>8 DEF Tables

\* A node of the shot phase returns.
LEMMA ReturnTables ==
    ASSUME IInv', Course', Tables, Around, up, status' \in Terminal,
           NEW c \in Beats, beat = c, OnlyBeat(c), Best(c)', Lasting(c)',
           NEW p \in PlaceSet, NEW g, Return(p, g), p.node \notin TextNodes,
           PlaceTellsTables'
    PROVE  Tables'
  <1>1. \A b \in Beats : KeptBest(b)' /\ Lasting(b)'
    BY LastingKept, BestKept DEF KeptBest
  <1>2. up' /\ (ckpt' = [at |-> p, gs |-> g] \/ ckpt' = ckpt)
    BY DEF Return
  <1>3. SuccessIsComplete' /\ PartialIsDelivered'
    BY <1>2, UnsettledNext
  <1>4. ckpt'.at.node \in TextNodes => NoShotYet(ckpt'.gs)
    BY <1>2 DEF Tables
  <1>5. QED
    BY <1>1, <1>3, <1>4 DEF Tables

\* A step into the middle of a node.
LEMMA InsideTables ==
    ASSUME IInv', Course', Tables, Around, up, status' \in Terminal,
           NEW c \in Beats, beat = c, OnlyBeat(c), Lasting(c)',
           NEW m \in Commits, Inside(m), KeptBest(c)',
           ~gs.delivered, Going', AtBeat'
    PROVE  Tables'
  <1>1. node' = m /\ UNCHANGED <<up, beat, gs, ckpt>>
    BY DEF Inside
  <1>2. \A b \in Beats : KeptBest(b)' /\ Lasting(b)'
    BY <1>1, LastingKept, BestKept
  <1>3. Around'
    BY <1>1, AroundKept
  <1>4. m \notin TextNodes \cup {"assemble", "deliver", "end"}
    BY DEF Commits, TextNodes
  <1>5. PlaceTellsTables'
    BY <1>1, <1>3, <1>4 DEF PlaceTellsTables, AtEnd
  <1>6. SuccessIsComplete' /\ PartialIsDelivered'
    BY <1>1, UnsettledNext
  <1>7. ckpt'.at.node \in TextNodes => NoShotYet(ckpt'.gs)
    BY <1>1 DEF Tables
  <1>8. QED
    BY <1>2, <1>5, <1>6, <1>7 DEF Tables

\* The graph goes to the next shot, or leaves the shots behind.
LEMMA NextShotTells ==
    ASSUME Around, NEW c \in Beats, beat = c, OnlyBeat(c), Finished(c)',
           NEW g, Return(NextAfterShot(c), g), ~g.delivered, g.prior = c,
           Course'
    PROVE  PlaceTellsTables'
  <1> DEFINE p == NextAfterShot(c)
  <1>1. node' = p.node /\ beat' = p.beat /\ gs' = g
    BY DEF Return
  <1>2. AssembleDeliver' = AssembleDeliver
    BY DEF OnlyBeat, AssembleDeliver
  <1>3. CASE c < NBeats
    <2>1. node' = "generate_shot" /\ beat' = c + 1
      BY <1>1, <1>3 DEF NextAfterShot, Place
    <2>2. Around' /\ Fresh(beat)'
      BY <1>3, <2>1, AroundNext
    <2>3. AtBeat'
      BY <1>1, <2>1, <2>2 DEF AtBeat, QcNodes, Beats
    <2>4. up' => Going'
      BY <2>1 DEF Course, PlaceTellsStatus, Stopping, ShotNodes
    <2>5. QED
      BY <1>1, <2>1, <2>2, <2>3, <2>4 DEF PlaceTellsTables, AtEnd, TextNodes
  <1>4. CASE ~(c < NBeats)
    <2>1. c = NBeats
      BY <1>4 DEF Beats
    <2>2. AllFinished'
      BY <2>1, AroundNext
    <2>3. node' = IF AssembleDeliver THEN "assemble" ELSE "end"
      BY <1>1, <1>4 DEF NextAfterShot, Place
    <2>4. AtEnd'
      BY <1>1, <1>2, <2>2, <2>3 DEF AtEnd
    <2>5. QED
      BY <2>3, <2>4 DEF PlaceTellsTables, TextNodes, ShotNodes, Commits
  <1>5. QED
    BY <1>3, <1>4

\* The graph is stopped.
LEMMA StopTells ==
    ASSUME NEW b, NEW g, Return(StopPlace(g.outcome, b), g), ~g.delivered,
           g.outcome \in {"PARTIAL", "FAILED"},
           g.outcome = "FAILED" => ~AnySucceeded,
           UNCHANGED <<shot, flags>>
    PROVE  PlaceTellsTables'
  <1>1. /\ node' = (IF AssembleDeliver /\ g.outcome = "PARTIAL" THEN "assemble" ELSE "end")
        /\ gs' = g
    BY DEF Return, StopPlace, Place
  <1>2. AssembleDeliver' = AssembleDeliver /\ AnySucceeded' = AnySucceeded
    BY DEF AssembleDeliver, AnySucceeded
  <1>3. AtEnd'
    BY <1>1, <1>2 DEF AtEnd
  <1>4. QED
    BY <1>1, <1>3 DEF PlaceTellsTables, TextNodes, ShotNodes, Commits

\* What a step leaves to the beats when it leaves rows and files alone.
LEMMA Untouched ==
    ASSUME Tables, UNCHANGED <<shot, canon, frame, cond, flags, capable>>
    PROVE  \A b \in Beats : /\ Lasting(b)'
                            /\ Best(b) => Best(b)'
                            /\ Fresh(b) => Fresh(b)'
                            /\ Finished(b) => Finished(b)'
                            /\ OnlyBeat(b)
  <1> SUFFICES ASSUME NEW b \in Beats
               PROVE  /\ Lasting(b)'
                      /\ Best(b) => Best(b)'
                      /\ Fresh(b) => Fresh(b)'
                      /\ Finished(b) => Finished(b)'
                      /\ OnlyBeat(b)
    OBVIOUS
  <1>1. Lasting(b)
    BY DEF Tables
  <1>2. Capped(b)' /\ InOrder(b)' /\ Chained(b)'
    BY <1>1 DEF Lasting, Capped, InOrder, Chained, QcRepair
  <1>3. (Best(b) => Best(b)') /\ (Fresh(b) => Fresh(b)') /\ (Finished(b) => Finished(b)')
    BY DEF Best, Fresh, Finished, QcRepair
  <1>4. QED
    BY <1>2, <1>3 DEF Lasting, OnlyBeat, Same

\* What it leaves to the current beat when it changes only its row or frame.
LEMMA RowKept ==
    ASSUME Tables, NEW c \in Beats, beat = c, OnlyBeat(c), cond'[c] = cond[c],
           canon[c] # 0 \/ canon'[c] = canon[c]
    PROVE  /\ InOrder(c)' /\ Chained(c)' /\ (shot'[c] = shot[c] => Capped(c)')
           /\ shot'[c] = shot[c] /\ canon'[c] = canon[c] /\ Best(c) => Best(c)'
  <1>1. Lasting(c) /\ flags' = flags /\ capable' = capable
    BY DEF Tables, OnlyBeat
  <1>2. ASSUME c > 1 PROVE Same(c - 1)
    <2>1. c - 1 \in Beats \ {c}
      BY <1>2 DEF Beats
    <2>2. QED
      BY <2>1 DEF OnlyBeat
  <1>3. InOrder(c)'
    BY <1>1, <1>2 DEF Lasting, InOrder, Same, QcRepair
  <1>4. Chained(c)'
    BY <1>1, <1>2 DEF Lasting, Chained, Same, QcRepair
  <1>5. QED
    BY <1>1, <1>3, <1>4 DEF Lasting, Capped, Best

\* What the tables and the course say while the graph makes shots.
LEMMA Working ==
    ASSUME IInv, Course, Tables, up, node \in (ShotNodes \cup Commits) \ {"chain_frame"}
    PROVE  /\ Going /\ AtBeat /\ Around /\ ~gs.delivered
           /\ beat \in Beats /\ gs \in GraphState /\ status \in Terminal
           /\ status \notin {"DELIVERED", "SHOTS_READY"}
           /\ node # "qc_commit" => Best(beat)
           /\ node \in QcNodes => QcRepair
  <1>1. Going /\ beat \in Beats /\ gs \in GraphState /\ (node \in QcNodes => QcRepair)
    BY ShotPlace, ShotFacts DEF Course, PlaceTellsStatus
  <1>2. AtBeat /\ Around /\ ~gs.delivered
    BY <1>1 DEF Tables, PlaceTellsTables
  <1>3. node # "qc_commit" => Best(beat)
    BY <1>1 DEF Tables, KeptBest, AheadOfRow, ShotNodes, Commits
  <1>4. QED
    BY <1>1, <1>2, <1>3 DEF Going, Terminal

\* A stop, by the gate or by a failure, outside chain_frame.
LEMMA StopTables ==
    ASSUME IInv, Course, Tables, IInv', Course', up,
           node \in ShotNodes \ {"chain_frame"}, status' \in Terminal,
           UNCHANGED <<shot, canon, frame, cond, flags, capable>>,
           NEW p \in PlaceSet, NEW g, Return(p, g), ~g.delivered,
           g.outcome \in {"PARTIAL", "FAILED"},
           g.outcome = "FAILED" => ~AnySucceeded,
           \/ p = StopPlace(g.outcome, beat)
           \/ p = Place("chain_frame", beat) /\ shot[beat].made
    PROVE  Tables'
  <1>1. PICK c \in Beats : c = beat
    BY Working DEF ShotNodes
  <1>2. /\ Around /\ OnlyBeat(c) /\ Best(c)' /\ Lasting(c)'
    <2>1. node # "qc_commit"
      BY DEF ShotNodes
    <2>2. Around /\ Best(c)
      BY <1>1, <2>1, Working
    <2>3. QED
      BY <2>2, Untouched
  <1>3. p.node \notin TextNodes
    BY DEF StopPlace, Place, TextNodes
  <1>4. PlaceTellsTables'
    <2>1. CASE p = StopPlace(g.outcome, beat)
      BY <2>1, StopTells
    <2>2. CASE p = Place("chain_frame", beat) /\ shot[beat].made
      <3>1. node' = "chain_frame" /\ beat' = c /\ gs' = g
        BY <1>1, <2>2 DEF Return, Place
      <3>2. Around'
        BY <1>1, <1>2, <3>1, AroundKept
      <3>3. AnySucceeded
        BY <1>1, <2>2 DEF AnySucceeded
      <3>4. ~Going' /\ gs'.outcome = "PARTIAL" /\ ~gs'.delivered /\ shot'[beat'].made
        BY <1>1, <2>2, <3>1, <3>3 DEF Going
      <3>5. QED
        BY <3>1, <3>2, <3>4 DEF PlaceTellsTables, AtEnd, TextNodes
    <2>3. QED
      BY <2>1, <2>2
  <1>5. QED
    BY <1>1, <1>2, <1>3, <1>4, ReturnTables

\* Every beat is as fresh, or as good, as it was.
LEMMA AllKept ==
    ASSUME Tables, UNCHANGED <<shot, canon, frame, cond, flags, capable>>,
           \A b \in Beats : Best(b)
    PROVE  \A b \in Beats : KeptBest(b)' /\ Lasting(b)'
  BY Untouched DEF KeptBest

\* The runner and the environment.
LEMMA RunnerTables ==
    ASSUME IInv, Course, Tables, IInv', Course',
           StartRun \/ NodeRaises \/ Finish \/ Crash \/ WallClockExpires
    PROVE  Tables'
  <1>1. CASE StartRun
    <2>1. /\ ckpt.at.node \in TextNodes /\ NoShotYet(ckpt.gs)
          /\ node' = ckpt.at.node /\ gs' = ckpt.gs /\ ckpt' = ckpt /\ up'
          /\ \A b \in Beats : Fresh(b)
          /\ UNCHANGED <<shot, canon, frame, cond, flags, capable>>
      BY <1>1 DEF StartRun, IInv, LeftTextIsTerminal, Tables, fileVars, envVars,
         histVars
    <2>2. \A b \in Beats : Best(b)
      BY <2>1 DEF Fresh, Best, NoShot
    <2>3. \A b \in Beats : KeptBest(b)' /\ Lasting(b)' /\ Fresh(b)'
      BY <2>1, <2>2, AllKept, Untouched
    <2>4. PlaceTellsTables'
      BY <2>1 DEF PlaceTellsTables, AtEnd, NoShotYet, TextNodes, ShotNodes, Commits
    <2>5. SuccessIsComplete' /\ PartialIsDelivered'
      BY <2>1, UnsettledNext
    <2>6. ckpt'.at.node \in TextNodes => NoShotYet(ckpt'.gs)
      BY <2>1
    <2>7. QED
      BY <2>3, <2>4, <2>5, <2>6 DEF Tables
  <1>2. CASE NodeRaises
    <2>1. /\ up /\ up' = FALSE /\ node' = "escaped" /\ status' = EnsureTerminal(status)
          /\ UNCHANGED <<beat, ckpt, shot, canon, frame, film, cond, flags, capable>>
      BY <1>2 DEF NodeRaises, Escape, fileVars, envVars, histVars
    <2>2. status \notin {"DELIVERED", "SHOTS_READY"}
      BY <2>1, Unsettled
    <2>3. status' \in Terminal \ {"DELIVERED", "SHOTS_READY"}
      BY <2>1, <2>2 DEF EnsureTerminal, Terminal
    <2>4. QED
      BY <2>1, <2>3, EscapeTables
  <1>3. CASE Finish
    <2>1. /\ up /\ node = "end" /\ up' = FALSE /\ node' = "done"
          /\ UNCHANGED <<beat, gs, ckpt, degraded, download, shot, canon, frame, film,
                         cond, flags, capable>>
          /\ status' = IF gs.outcome = "NONE" THEN status ELSE FinalStatus(gs)
      BY <1>3 DEF Finish, At, fileVars, envVars, histVars
    <2>2. Ending /\ AtEnd
      BY <2>1 DEF Course, PlaceTellsStatus, Tables, PlaceTellsTables
    <2>3. status' = FinalStatus(gs)
      BY <2>1, <2>2 DEF Ending
    <2>4. \A b \in Beats : Best(b)
      BY <2>1 DEF Tables, KeptBest, AheadOfRow
    <2>5. \A b \in Beats : KeptBest(b)' /\ Lasting(b)'
      BY <2>1, <2>4, AllKept
    <2>6. /\ status' = "DELIVERED" => gs.delivered /\ gs.outcome = "SUCCESS"
          /\ status' = "SHOTS_READY" => gs.shots_completed /\ gs.outcome = "SUCCESS"
          /\ status' \in Terminal
      BY <2>2, <2>3 DEF Ending, FinalStatus, Terminal
    <2>7. SuccessIsComplete'
      <3>1. ASSUME status' = "DELIVERED" PROVE SuccessIsComplete'
        <4>1. download /\ ~degraded /\ AllFinished /\ NoneFlagged /\ FilmIsKept
          BY <2>1, <2>2, <2>6, <3>1 DEF AtEnd
        <4>2. \A b \in Beats : /\ shot[b].made /\ ~shot[b].degraded
                               /\ film[b] = canon[b] /\ canon[b] # 0
                               /\ QcRepair => shot[b].qc_score >= PassScore
          BY <4>1 DEF AllFinished, Finished, NoneFlagged, FilmIsKept
        <4>3. QED
          BY <2>1, <3>1, <4>1, <4>2 DEF SuccessIsComplete, QcRepair
      <3>2. ASSUME status' = "SHOTS_READY" PROVE SuccessIsComplete'
        <4>1. AllFinished
          BY <2>1, <2>2, <2>6, <3>2 DEF AtEnd
        <4>2. QED
          BY <2>1, <3>2, <4>1 DEF SuccessIsComplete, AllFinished, Finished
      <3>3. QED
        BY <3>1, <3>2 DEF SuccessIsComplete
    <2>8. PartialIsDelivered'
      <3>1. AssembleDeliver /\ AnySucceeded => download /\ FilmIsKept
        BY <2>1, <2>2 DEF AtEnd
      <3>2. QED
        BY <2>1, <3>1 DEF PartialIsDelivered, AssembleDeliver, AnySucceeded, FilmIsKept
    <2>9. ckpt'.at.node \in TextNodes => NoShotYet(ckpt'.gs)
      BY <2>1 DEF Tables
    <2>10. PlaceTellsTables'
      BY <2>1 DEF PlaceTellsTables
    <2>11. QED
      BY <2>5, <2>6, <2>7, <2>8, <2>9, <2>10 DEF Tables
  <1>4. CASE Crash
    BY <1>4, IdleTables DEF Crash, jobVars, fileVars, histVars
  <1>5. CASE WallClockExpires
    BY <1>5, IdleTables DEF WallClockExpires, taskVars, jobVars, fileVars, histVars
  <1>6. QED
    BY <1>1, <1>2, <1>3, <1>4, <1>5

\* The text nodes, before which nothing was made for any beat.
LEMMA TextTables ==
    ASSUME IInv, Course, Tables, IInv', Course', NEW n \in TextNodes, TextNode(n)
    PROVE  Tables'
  <1>1. /\ up /\ node = n /\ status = "RUNNING" /\ gs \in GraphState
        /\ NoShotYet(gs) /\ \A b \in Beats : Fresh(b)
    <2>1. up /\ node = n
      BY DEF TextNode, TextStop, TextReuse, TextAccepted, TextRejected, At
    <2>2. status = "RUNNING"
      BY <2>1 DEF Course, PlaceTellsStatus
    <2>3. QED
      BY <2>1, <2>2, ShotFacts DEF Tables, PlaceTellsTables, Terminal
  <1>2. UNCHANGED <<shot, canon, frame, film, cond, flags, capable, download, failures,
                    degraded>>
    BY DEF TextNode, TextStop, TextReuse, TextAccepted, TextRejected, BudgetStop,
           jobVars, fileVars, envVars, histVars
  <1>3. \A b \in Beats : KeptBest(b)' /\ Lasting(b)' /\ Fresh(b)'
    <2>1. \A b \in Beats : Best(b)
      BY <1>1 DEF Fresh, Best, NoShot
    <2>2. QED
      BY <1>1, <1>2, <2>1, AllKept, Untouched
  <1>4. ~AnySucceeded'
    BY <1>3 DEF AnySucceeded, Fresh, NoShot
  <1>5. ASSUME NEW p \in {AfterText(n, Partial), AfterText(n, TextDone(n))},
               NEW g \in {Partial, TextDone(n)}, Return(p, g),
               g.outcome = "PARTIAL" => p.node = "end",
               p.node = "generate_shot" => p.beat = 1
        PROVE  Tables'
    <2>1. /\ node' = p.node /\ beat' = p.beat /\ gs' = g /\ up'
          /\ ckpt' = [at |-> p, gs |-> g] \/ ckpt' = ckpt
      BY <1>1, <1>5 DEF Return
    <2>2. NoShotYet(g)
      BY <1>1 DEF Partial, TextDone, GraphState, NoShotYet
    <2>3. p.node \in {"lock_continuity_bible", "generate_shot", "end"}
      BY DEF AfterText, AfterPlan, AfterBible, Place
    <2>4. AtEnd'
      BY <1>4, <2>1, <2>2, <2>3 DEF AtEnd, NoShotYet
    <2>5. CASE p.node = "generate_shot"
      <3>1. node' = "generate_shot" /\ beat' = 1 /\ 1 \in Beats
        BY <1>5, <2>1, <2>5 DEF Beats
      <3>2. Around' /\ Fresh(beat)'
        BY <1>3, <3>1 DEF Around, Fresh, Beats
      <3>3. Going'
        BY <2>1, <3>1 DEF Course, PlaceTellsStatus, Stopping, ShotNodes
      <3>4. AtBeat'
        BY <2>1, <2>2, <3>1, <3>2 DEF AtBeat, NoShotYet, QcNodes
      <3>5. PlaceTellsTables'
        BY <2>1, <2>2, <2>4, <3>1, <3>2, <3>3, <3>4 DEF PlaceTellsTables, NoShotYet,
           TextNodes
      <3>6. QED
        BY <1>3, <2>1, <2>2, <2>5, <3>5, UnsettledNext DEF Tables, TextNodes
    <2>6. CASE p.node # "generate_shot"
      <3>1. PlaceTellsTables'
        BY <2>1, <2>2, <2>3, <2>4, <2>6 DEF PlaceTellsTables, TextNodes, ShotNodes,
           Commits, NoShotYet
      <3>2. QED
        BY <1>3, <2>1, <2>2, <3>1, UnsettledNext DEF Tables, NoShotYet
    <2>7. QED
      BY <2>5, <2>6
  <1>6. CASE TextStop(n)
    <2>1. Return(AfterText(n, Partial), Partial)
      BY <1>6 DEF TextStop, BudgetStop
    <2>2. Partial.outcome = "PARTIAL"
      BY <1>1 DEF Partial, GraphState
    <2>3. AfterText(n, Partial).node = "end"
      BY <2>2 DEF AfterText, AfterPlan, AfterBible, Place, Stopped
    <2>4. QED
      BY <1>5, <2>1, <2>3
  <1>7. CASE TextReuse(n) \/ TextAccepted(n)
    <2>1. Return(AfterText(n, TextDone(n)), TextDone(n))
      BY <1>7 DEF TextReuse, TextAccepted
    <2>2. TextDone(n).outcome \in {"SUCCESS", "NONE"}
      BY <1>1 DEF TextDone, GraphState, IInv, TextHasNoOutcome
    <2>3. AfterText(n, TextDone(n)).beat = 1
      BY DEF AfterText, AfterPlan, AfterBible, Place
    <2>4. QED
      BY <1>5, <2>1, <2>2, <2>3
  <1>8. CASE TextRejected(n)
    <2>1. CASE tries + 1 < SchemaAttempts
      <3>1. UNCHANGED <<up, node, beat, gs, verdict, ckpt, status>>
        BY <1>8, <2>1 DEF TextRejected
      <3>2. QED
        BY <1>2, <3>1, IdleTables
    <2>2. CASE ~(tries + 1 < SchemaAttempts)
      <3>1. /\ status' = "FAILED" /\ up' = FALSE /\ node' = "escaped"
            /\ UNCHANGED <<beat, ckpt>>
        BY <1>8, <2>2 DEF TextRejected, Escape
      <3>2. QED
        BY <1>2, <3>1, EscapeTables DEF Terminal
    <2>3. QED
      BY <2>1, <2>2
  <1>9. QED
    BY <1>6, <1>7, <1>8 DEF TextNode

\* generate_shot: its beat is fresh, and conditioned on the beat before it.
LEMMA GenerateTables ==
    ASSUME IInv, Course, Tables, IInv', Course', GenerateShot
    PROVE  Tables'
  <1>1. up /\ node \in {"generate_shot", "generate_commit"}
    BY DEF GenerateShot, GenerateStop, GenerateNoCapability, GenerateFailed,
           GenerateClip, GenerateCommit, At
  <1>2. /\ Going /\ AtBeat /\ Around /\ ~gs.delivered /\ beat \in Beats
        /\ gs \in GraphState /\ status \in Terminal /\ Best(beat)
        /\ status \notin {"DELIVERED", "SHOTS_READY"}
    BY <1>1, Working DEF ShotNodes, Commits
  <1>3. PICK c \in Beats : c = beat
    BY <1>2
  <1>4. CASE GenerateStop
    <2>1. /\ node = "generate_shot" /\ status' = "PARTIAL"
          /\ Return(AfterGenerate(Partial, beat), Partial)
          /\ UNCHANGED <<shot, canon, frame, cond, flags, capable>>
      BY <1>4 DEF GenerateStop, At, BudgetStop, fileVars, envVars, histVars
    <2>2. Partial.outcome = "PARTIAL" /\ ~Partial.delivered
      BY <1>2 DEF Partial, GraphState
    <2>3. AfterGenerate(Partial, beat) = StopPlace("PARTIAL", beat)
      BY <2>2 DEF AfterGenerate, Stopped
    <2>4. AfterGenerate(Partial, beat) \in PlaceSet
      BY <1>2, RouteType
    <2>5. QED
      BY <1>1, <2>1, <2>2, <2>3, <2>4, StopTables DEF ShotNodes, Terminal
  <1>5. CASE GenerateNoCapability
    <2>1. /\ up' = FALSE /\ node' = "escaped" /\ status' \in {"PARTIAL", "FAILED"}
          /\ UNCHANGED <<beat, ckpt, shot, canon, frame, film, cond, flags, capable>>
      BY <1>5 DEF GenerateNoCapability, Escape, fileVars, envVars, histVars
    <2>2. QED
      BY <2>1, EscapeTables DEF Terminal
  <1>6. ASSUME NEW sig \in Signatures, GenerateFailed(sig) PROVE Tables'
    <2> DEFINE g == ProviderFailed(sig)
    <2>1. /\ node = "generate_shot" /\ status' = FailedOutcome(sig)
          /\ Return(AfterGenerate(g, beat), g)
          /\ UNCHANGED <<shot, canon, frame, cond, flags, capable>>
      BY <1>6 DEF GenerateFailed, At, ProviderFailure, fileVars, envVars
    <2>2. g.outcome = FailedOutcome(sig) /\ ~g.delivered
      BY <1>2 DEF ProviderFailed, GraphState
    <2>3. /\ FailedOutcome(sig) \in {"PARTIAL", "FAILED"}
          /\ FailedOutcome(sig) = "FAILED" => ~AnySucceeded
      BY <1>2 DEF FailedOutcome, Going
    <2> HIDE DEF g
    <2>4. AfterGenerate(g, beat) = StopPlace(g.outcome, beat)
      BY <2>2, <2>3 DEF AfterGenerate, Stopped
    <2>5. AfterGenerate(g, beat) \in PlaceSet
      BY <1>2, RouteType
    <2>6. QED
      BY <1>1, <2>1, <2>2, <2>3, <2>4, <2>5, StopTables DEF ShotNodes, Terminal
  <1>7. CASE GenerateClip
    <2>1. node = "generate_shot" /\ Fresh(c) /\ gs.prior = c - 1
      BY <1>2, <1>3, <1>7 DEF GenerateClip, At, AtBeat, Fresh
    <2>2. ~shot[beat].made
      BY <1>3, <2>1 DEF Fresh, NoShot
    <2>3. /\ Inside("generate_commit") /\ ~CapabilityMissing
          /\ canon' = [canon EXCEPT ![beat] = 1]
          /\ cond' = [cond EXCEPT ![beat] = PriorFrame]
          /\ UNCHANGED <<status, shot, frame, flags, capable, failures>>
      BY <1>7, <2>2 DEF GenerateClip, jobVars, envVars
    <2>4. /\ canon'[c] = 1 /\ cond'[c] = PriorFrame /\ shot'[c] = NoShot
          /\ \A b \in Beats \ {c} : canon'[b] = canon[b] /\ cond'[b] = cond[b]
      BY <1>3, <2>1, <2>3, TableTypes DEF Fresh
    <2>5. OnlyBeat(c)
      BY <2>3, <2>4 DEF OnlyBeat, Same
    <2>6. Best(c)' /\ Capped(c)'
      BY <2>4 DEF Best, Capped, NoShot
    <2>7. ASSUME c > 1 PROVE InOrder(c)' /\ Chained(c)'
      <3>1. c - 1 \in Beats \ {c} /\ c - 1 < beat
        BY <1>3, <2>7 DEF Beats
      <3>2. Finished(c - 1) /\ Same(c - 1)
        BY <1>2, <2>5, <3>1 DEF Around, OnlyBeat
      <3>3. capable /\ cond'[c] = [beat |-> c - 1, clip |-> frame[c - 1]]
        BY <1>3, <2>1, <2>3, <2>4, <2>7 DEF CapabilityMissing, PriorFrame, Beats
      <3>4. InOrder(c)'
        BY <2>3, <3>2 DEF Finished, Same, InOrder, QcRepair
      <3>5. Chained(c)'
        BY <2>3, <3>2, <3>3 DEF Finished, Same, Chained
      <3>6. QED
        BY <3>4, <3>5
    <2>8. Lasting(c)'
      BY <2>6, <2>7 DEF Lasting, InOrder, Chained
    <2>9. node' = "generate_commit" /\ beat' = c /\ gs' = gs
      BY <1>3, <2>3 DEF Inside
    <2>10. Going' /\ AtBeat'
      BY <1>2, <2>3, <2>4, <2>9 DEF Going, AtBeat, QcNodes
    <2>11. "generate_commit" \in Commits /\ status' \in Terminal
      BY <1>2, <2>3 DEF Commits
    <2>12. QED
      BY <1>1, <1>2, <1>3, <2>3, <2>5, <2>6, <2>8, <2>10, <2>11, InsideTables
         DEF KeptBest
  <1>8. CASE GenerateCommit
    <2> DEFINE g == [gs EXCEPT !.clip = 0]
               p == Place("chain_frame", beat)
    <2>1. /\ node = "generate_commit" /\ shot' = [shot EXCEPT ![beat].made = TRUE]
          /\ Return(AfterGenerate(g, beat), g)
          /\ UNCHANGED <<status, canon, frame, cond, flags, capable>>
      BY <1>8 DEF GenerateCommit, At, fileVars, envVars, histVars
    <2>2. shot[c] = NoShot /\ canon[c] = 1
      BY <1>2, <1>3, <2>1 DEF AtBeat
    <2>3. g.outcome = "SUCCESS" /\ ~g.delivered /\ g.clip = 0
      BY <1>2 DEF Going, GraphState
    <2> HIDE DEF g
    <2>4. AfterGenerate(g, beat) = p /\ p \in PlaceSet
      BY <1>2, <2>3, RouteType DEF AfterGenerate, Stopped
    <2>5. /\ shot'[c] = [NoShot EXCEPT !.made = TRUE]
          /\ \A b \in Beats \ {c} : shot'[b] = shot[b]
      BY <1>3, <2>1, <2>2, TableTypes
    <2>6. /\ shot'[c].made /\ ~shot'[c].degraded /\ shot'[c].scored = {}
          /\ shot'[c].qc_score = 0 /\ shot'[c].repair_count = 0
      BY <2>5 DEF NoShot
    <2>7. OnlyBeat(c)
      BY <2>1, <2>5 DEF OnlyBeat, Same
    <2>8. Best(c)' /\ Lasting(c)'
      <3>1. InOrder(c)' /\ Chained(c)'
        BY <1>3, <2>1, <2>7, RowKept
      <3>2. QED
        BY <2>6, <3>1 DEF Best, Lasting, Capped
    <2>9. node' = "chain_frame" /\ beat' = c /\ gs' = g
      BY <1>3, <2>1, <2>4 DEF Return, Place
    <2>10. AtBeat'
      <3>1. Unscored'
        <4>1. Made'
          BY <2>1, <2>2, <2>6, <2>9 DEF Made
        <4>2. /\ Attempts(shot'[beat'].scored, shot'[beat'].repair_count)
              /\ TopScore(shot'[beat'].scored, shot'[beat'].qc_score)
          BY <2>6, <2>9, AttemptsNone DEF TopScore
        <4>3. QED
          BY <2>6, <2>9, <4>1, <4>2 DEF Unscored
      <3>2. CurrentClip' = Newest'
        BY <2>1, <2>2, <2>3, <2>6, <2>9 DEF CurrentClip, Newest
      <3>3. QED
        BY <2>3, <2>9, <3>1, <3>2 DEF AtBeat, QcNodes
    <2>11. up' /\ Going'
      BY <1>1, <2>1, <2>3, <2>9 DEF Return, Course, PlaceTellsStatus, Stopping, ShotNodes
    <2>12. Around'
      BY <1>2, <1>3, <2>7, <2>9, AroundKept
    <2>13. PlaceTellsTables'
      BY <2>3, <2>9, <2>10, <2>11, <2>12 DEF PlaceTellsTables, AtEnd, TextNodes
    <2>14. p.node \notin TextNodes
      BY DEF Place, TextNodes
    <2>15. QED
      BY <1>1, <1>2, <1>3, <2>1, <2>4, <2>7, <2>8, <2>13, <2>14, ReturnTables
  <1>9. QED
    BY <1>4, <1>5, <1>6, <1>7, <1>8 DEF GenerateShot

\* chain_frame takes the frame of the newest attempt.
LEMMA ChainTables ==
    ASSUME IInv, Course, Tables, IInv', Course', ChainFrame
    PROVE  Tables'
  <1> DEFINE last == beat = NBeats
             g == [gs EXCEPT !.prior = beat,
                             !.shots_completed = @ \/ last,
                             !.outcome = IF last /\ TerminalAfterChain
                                         THEN "SUCCESS" ELSE @]
             p == AfterChain(g, beat)
  <1>1. /\ up /\ node = "chain_frame" /\ Return(p, g)
        /\ frame' = [frame EXCEPT ![beat] = CurrentClip]
        /\ UNCHANGED <<status, shot, canon, cond, flags, capable>>
    BY DEF ChainFrame, At, jobVars, histVars, envVars
  <1>2. /\ gs \in GraphState /\ beat \in Beats /\ (Going \/ Stopping)
        /\ Around /\ ~gs.delivered /\ status \in Terminal
    BY <1>1, ShotFacts DEF Course, PlaceTellsStatus, ShotNodes, TextNodes, Tables,
       PlaceTellsTables
  <1>3. PICK c \in Beats : c = beat
    BY <1>2
  <1>4. /\ g.outcome = (IF last /\ TerminalAfterChain THEN "SUCCESS" ELSE gs.outcome)
        /\ g.prior = c /\ ~g.delivered /\ g.clip = gs.clip
    BY <1>2, <1>3 DEF GraphState
  <1> HIDE DEF g
  <1>5. p \in PlaceSet
    BY <1>2, RouteType
  <1>6. frame'[c] = CurrentClip /\ \A b \in Beats \ {c} : frame'[b] = frame[b]
    BY <1>1, <1>3, TableTypes
  <1>7. OnlyBeat(c)
    BY <1>1, <1>6 DEF OnlyBeat, Same
  <1>8. Best(c)
    BY <1>1 DEF Tables, KeptBest, AheadOfRow
  <1>9. Best(c)' /\ Lasting(c)'
    BY <1>1, <1>3, <1>7, <1>8, RowKept DEF Lasting
  <1>10. CASE Going
    <2>1. /\ Unscored /\ CurrentClip = Newest /\ (QcRepair \/ gs.clip = 0)
          /\ shot[c].repair_count \in Nat
      BY <1>1, <1>10, TableTypes DEF Tables, PlaceTellsTables, AtBeat, ShotNodes
    <2>2. g.outcome = "SUCCESS"
      BY <1>4, <1>10 DEF Going
    <2>3. CASE QcRepair
      <3>1. p = Place("qc_score", beat)
        BY <2>2, <2>3 DEF AfterChain, Stopped
      <3>2. node' = "qc_score" /\ beat' = c /\ gs' = g /\ up'
        BY <1>1, <1>3, <3>1 DEF Return, Place
      <3>3. Around'
        BY <1>2, <1>3, <1>7, <3>2, AroundKept
      <3>4. Going'
        BY <3>2 DEF Course, PlaceTellsStatus, Stopping, ShotNodes
      <3>5. Unscored' /\ Newest' = Newest /\ CurrentClip' = CurrentClip
        BY <1>1, <1>3, <1>4, <2>1, <3>2 DEF Unscored, Made, Newest, CurrentClip
      <3>6. AtBeat'
        BY <1>4, <1>6, <2>1, <3>2, <3>5 DEF AtBeat
      <3>7. PlaceTellsTables'
        BY <1>4, <3>2, <3>3, <3>4, <3>6 DEF PlaceTellsTables, AtEnd, TextNodes
      <3>8. p.node \notin TextNodes
        BY <3>1 DEF Place, TextNodes
      <3>9. QED
        BY <1>1, <1>2, <1>3, <1>5, <1>7, <1>9, <3>7, <3>8, ReturnTables
    <2>4. CASE ~QcRepair
      <3>1. p = NextAfterShot(c)
        BY <1>3, <2>2, <2>4 DEF AfterChain, Stopped
      <3>2. Finished(c)'
        BY <1>1, <1>3, <1>6, <2>1, <2>4 DEF Finished, Unscored, Made, CurrentClip,
           QcRepair
      <3>3. PlaceTellsTables'
        BY <1>1, <1>2, <1>3, <1>4, <1>7, <3>1, <3>2, NextShotTells
      <3>4. p.node \notin TextNodes
        BY <3>1 DEF NextAfterShot, Place, TextNodes
      <3>5. QED
        BY <1>1, <1>2, <1>3, <1>5, <1>7, <1>9, <3>3, <3>4, ReturnTables
    <2>5. QED
      BY <2>3, <2>4
  <1>11. CASE ~Going
    <2>1. Stopping /\ gs.outcome = "PARTIAL"
      BY <1>1, <1>2, <1>11 DEF Tables, PlaceTellsTables, ShotNodes
    <2>2. g.outcome = "PARTIAL"
      BY <1>4, <2>1 DEF Stopping, TerminalAfterChain
    <2>3. p = StopPlace(g.outcome, beat)
      BY <2>2 DEF AfterChain, Stopped
    <2>4. PlaceTellsTables'
      BY <1>1, <1>4, <2>2, <2>3, StopTells
    <2>5. p.node \notin TextNodes
      BY <2>3 DEF StopPlace, Place, TextNodes
    <2>6. QED
      BY <1>1, <1>2, <1>3, <1>5, <1>7, <1>9, <2>4, <2>5, ReturnTables
  <1>12. QED
    BY <1>10, <1>11

\* qc_score: the gate, and a payload that is no score.
LEMMA QcStopTables ==
    ASSUME IInv, Course, Tables, IInv', Course', QcStop \/ QcInvalid
    PROVE  Tables'
  <1>1. up /\ node = "qc_score"
    BY DEF QcStop, QcInvalid, At
  <1>2. /\ ~gs.delivered /\ beat \in Beats /\ gs \in GraphState
        /\ status \in Terminal \ {"DELIVERED", "SHOTS_READY"}
    BY <1>1, Working DEF ShotNodes
  <1>3. CASE QcStop
    <2>1. /\ status' = "PARTIAL" /\ Return(AfterQc(Partial, beat), Partial)
          /\ UNCHANGED <<shot, canon, frame, cond, flags, capable>>
      BY <1>3 DEF QcStop, BudgetStop, fileVars, envVars, histVars
    <2>2. Partial.outcome = "PARTIAL" /\ ~Partial.delivered
      BY <1>2 DEF Partial, GraphState
    <2>3. AfterQc(Partial, beat) = StopPlace("PARTIAL", beat)
      BY <2>2 DEF AfterQc, Stopped
    <2>4. AfterQc(Partial, beat) \in PlaceSet
      BY <1>2, RouteType
    <2>5. QED
      BY <1>1, <2>1, <2>2, <2>3, <2>4, StopTables DEF ShotNodes, Terminal
  <1>4. CASE QcInvalid
    <2>1. /\ up' = FALSE /\ node' = "escaped" /\ status' = EnsureTerminal(status)
          /\ UNCHANGED <<beat, ckpt, shot, canon, frame, film, cond, flags, capable>>
      BY <1>4 DEF QcInvalid, Escape, fileVars, envVars, histVars
    <2>2. QED
      BY <1>2, <2>1, EscapeTables DEF EnsureTerminal
  <1>5. QED
    BY <1>3, <1>4

\* A better attempt replaces the kept clip before its score is recorded.
LEMMA QcScoredTables ==
    ASSUME IInv, Course, Tables, IInv', Course', NEW s \in Scores, QcScored(s)
    PROVE  Tables'
  <1>1. /\ up /\ node = "qc_score" /\ verdict' = s /\ Inside("qc_commit")
        /\ canon' = IF KeepNew(s) THEN [canon EXCEPT ![beat] = CurrentClip] ELSE canon
        /\ UNCHANGED <<status, shot, frame, cond, flags, capable, failures>>
    BY DEF QcScored, At, envVars, histVars
  <1>2. /\ Going /\ AtBeat /\ Around /\ ~gs.delivered /\ beat \in Beats
        /\ status \in Terminal /\ Best(beat)
    BY <1>1, Working DEF ShotNodes
  <1>3. PICK c \in Beats : c = beat
    BY <1>2
  <1>4. /\ Unscored /\ frame[c] = Newest /\ CurrentClip = Newest /\ gs.prior = c
        /\ Newest \in Nat \ {0}
    BY <1>1, <1>2, <1>3, TableTypes DEF AtBeat, QcNodes, Newest
  <1>5. /\ canon'[c] = IF KeepNew(s) THEN Newest ELSE canon[c]
        /\ \A b \in Beats \ {c} : canon'[b] = canon[b]
    BY <1>1, <1>3, <1>4, TableTypes
  <1>6. OnlyBeat(c)
    BY <1>1, <1>5 DEF OnlyBeat, Same
  <1>7. Lasting(c)'
    BY <1>1, <1>3, <1>4, <1>6, RowKept DEF Unscored, Made, Lasting
  <1>8. node' = "qc_commit" /\ beat' = c /\ gs' = gs
    BY <1>1, <1>3 DEF Inside
  <1>9. AtBeat'
    <2>1. Unscored' /\ Newest' = Newest
      BY <1>1, <1>3, <1>4, <1>5, <1>8 DEF Unscored, Made, Newest
    <2>2. KeepNew(verdict)' = KeepNew(s)
      BY <1>1, <1>3, <1>8 DEF KeepNew
    <2>3. ~KeepNew(s) => <<canon[c], shot[c].qc_score>> \in shot[c].scored
      BY <1>2, <1>3, <1>4 DEF KeepNew, Unscored, Best
    <2>4. (IF KeepNew(verdict) THEN canon[beat] = Newest
           ELSE <<canon[beat], shot[beat].qc_score>> \in shot[beat].scored)'
      BY <1>1, <1>3, <1>5, <1>8, <2>1, <2>2, <2>3
    <2>5. QED
      BY <1>1, <1>4, <1>8, <2>1, <2>4 DEF AtBeat
  <1>10. Going'
    BY <1>1, <1>2, <1>8 DEF Going
  <1>11. "qc_commit" \in Commits
    BY DEF Commits
  <1>12. KeptBest(c)'
    <2>1. CASE KeepNew(s)
      <3>1. TopScore(shot[c].scored, shot[c].qc_score)
        BY <1>3, <1>4 DEF Unscored
      <3>2. \A row \in shot[c].scored : row[1] # Newest
        BY <1>3, <1>4, TableTypes DEF Unscored, Attempts, Newest
      <3>3. canon'[c] = Newest /\ shot' = shot
        BY <1>1, <1>5, <2>1
      <3>4. AheadOfRow(c)'
        BY <1>3, <1>8, <3>2, <3>3 DEF AheadOfRow, Newest
      <3>5. QED
        BY <3>1, <3>3, <3>4 DEF KeptBest
    <2>2. CASE ~KeepNew(s)
      BY <1>1, <1>2, <1>3, <1>5, <2>2 DEF KeptBest, Best
    <2>3. QED
      BY <2>1, <2>2
  <1>13. QED
    BY <1>1, <1>2, <1>3, <1>6, <1>7, <1>9, <1>10, <1>11, <1>12, InsideTables

\* The transaction of qc_score: the score joins the others, and the route goes
\* by whether it passed.
LEMMA QcCommitTables ==
    ASSUME IInv, Course, Tables, IInv', Course', QcCommit
    PROVE  Tables'
  <1> DEFINE passed == verdict >= PassScore
             last == passed /\ beat = NBeats /\ ~AssembleDeliver
             g == [gs EXCEPT !.qc_passed = passed, !.clip = 0,
                             !.repair_count = shot[beat].repair_count,
                             !.outcome = IF last THEN "SUCCESS" ELSE @,
                             !.shots_completed = @ \/ last]
             p == AfterQc(g, beat)
             row == <<Newest, verdict>>
  <1>1. /\ up /\ node = "qc_commit" /\ Return(p, g)
        /\ shot' = [shot EXCEPT
                      ![beat].scored = @ \cup {<<shot[beat].repair_count + 1, verdict>>},
                      ![beat].qc_score = IF KeepNew(verdict) THEN verdict ELSE @]
        /\ UNCHANGED <<status, canon, frame, cond, flags, capable>>
    BY DEF QcCommit, At, jobVars, fileVars, envVars, histVars
  <1>2. /\ Going /\ AtBeat /\ Around /\ ~gs.delivered /\ beat \in Beats
        /\ gs \in GraphState /\ status \in Terminal
    BY <1>1, Working DEF Commits
  <1>3. PICK c \in Beats : c = beat
    BY <1>2
  <1>4. verdict \in Nat /\ shot[c].repair_count \in 0..MaxRepairs /\ shot[c].qc_score \in Nat
    BY <1>1, TableTypes DEF IInv, VerdictGiven
  <1>5. /\ Unscored /\ frame[c] = Newest /\ gs.prior = c
        /\ IF KeepNew(verdict) THEN canon[c] = Newest
           ELSE <<canon[c], shot[c].qc_score>> \in shot[c].scored
    BY <1>1, <1>2, <1>3 DEF AtBeat, QcNodes
  <1>6. /\ g.outcome = "SUCCESS" /\ ~g.delivered /\ g.prior = c
        /\ g.qc_passed = passed /\ g.repair_count = shot[c].repair_count
    BY <1>2, <1>3, <1>5 DEF Going, GraphState
  <1> HIDE DEF g
  <1>7. p \in PlaceSet
    BY <1>2, RouteType
  <1>8. /\ shot'[c].scored = shot[c].scored \cup {row}
        /\ shot'[c].qc_score = IF KeepNew(verdict) THEN verdict ELSE shot[c].qc_score
        /\ shot'[c].repair_count = shot[c].repair_count
        /\ shot'[c].made = shot[c].made /\ shot'[c].degraded = shot[c].degraded
        /\ \A b \in Beats \ {c} : shot'[b] = shot[b]
    <2>1. shot \in [Beats -> ShotRow] /\ shot[c] \in ShotRow
      BY TableTypes
    <2>2. QED
      BY <1>1, <1>3, <2>1 DEF ShotRow, Newest
  <1>9. OnlyBeat(c)
    BY <1>1, <1>8 DEF OnlyBeat, Same
  <1>10. shot'[c].made /\ ~shot'[c].degraded /\ canon'[c] # 0
    BY <1>1, <1>3, <1>5, <1>8 DEF Unscored, Made
  <1>11. TopScore(shot'[c].scored, shot'[c].qc_score)
    <2>1. TopScore(shot[c].scored, shot[c].qc_score)
      BY <1>3, <1>5 DEF Unscored
    <2>2. \A r \in shot[c].scored : r[2] \in Nat
      BY TableTypes
    <2>3. shot[c].qc_score <= shot'[c].qc_score /\ verdict <= shot'[c].qc_score
      BY <1>3, <1>4, <1>8 DEF KeepNew
    <2>4. shot'[c].qc_score \in Nat /\ row[2] = verdict
      BY <1>4, <1>8
    <2> HIDE DEF row
    <2>5. QED
      BY <1>4, <1>8, <2>1, <2>2, <2>3, <2>4 DEF TopScore
  <1>12. <<canon'[c], shot'[c].qc_score>> \in shot'[c].scored
    BY <1>1, <1>5, <1>8
  <1>13. Best(c)' /\ Lasting(c)'
    <2>1. InOrder(c)' /\ Chained(c)'
      BY <1>1, <1>3, <1>9, RowKept
    <2>2. QED
      BY <1>10, <1>11, <1>12, <2>1 DEF Best, Lasting, Capped
  <1>14. p.node \notin TextNodes
    BY <1>6 DEF AfterQc, Stopped, NextAfterShot, Place, TextNodes
  <1>15. CASE passed
    <2>1. p = NextAfterShot(c)
      BY <1>3, <1>6, <1>15 DEF AfterQc, Stopped
    <2>2. shot'[c].qc_score >= PassScore /\ canon[c] = Newest
      <3>1. CASE KeepNew(verdict)
        BY <1>5, <1>8, <1>15, <3>1
      <3>2. CASE ~KeepNew(verdict)
        <4>1. shot[c].qc_score > verdict
          BY <1>3, <1>4, <3>2 DEF KeepNew
        <4>2. shot[c].qc_score < PassScore
          BY <1>3, <1>5, <3>2 DEF Unscored, Attempts
        <4>3. QED
          BY <1>4, <1>15, <4>1, <4>2
      <3>3. QED
        BY <3>1, <3>2
    <2>3. Finished(c)'
      BY <1>1, <1>5, <1>10, <2>2 DEF Finished
    <2>4. PlaceTellsTables'
      BY <1>1, <1>2, <1>3, <1>6, <1>9, <2>1, <2>3, NextShotTells
    <2>5. QED
      BY <1>1, <1>2, <1>3, <1>7, <1>9, <1>13, <1>14, <2>4, ReturnTables
  <1>16. CASE ~passed
    <2>1. p = Place(IF shot[c].repair_count < MaxRepairs THEN "repair_shot"
                    ELSE "flag_degraded", c)
      BY <1>3, <1>6, <1>16 DEF AfterQc, Stopped
    <2>2. /\ node' = (IF shot[c].repair_count < MaxRepairs THEN "repair_shot"
                      ELSE "flag_degraded")
          /\ beat' = c /\ gs' = g /\ up'
      BY <1>1, <2>1 DEF Return, Place
    <2>3. Attempts(shot'[c].scored, shot[c].repair_count + 1)
      <3>1. verdict < PassScore
        BY <1>4, <1>16
      <3>2. Attempts(shot[c].scored, shot[c].repair_count)
        BY <1>3, <1>5 DEF Unscored
      <3>3. shot'[c].scored =
               shot[c].scored \cup {<<shot[c].repair_count + 1, verdict>>}
        BY <1>3, <1>8 DEF Newest
      <3>4. shot[c].repair_count \in Nat
        BY <1>4
      <3>5. QED
        BY <3>1, <3>2, <3>3, <3>4, AttemptsAdd
    <2>4. Failed'
      <3>1. Made' /\ frame'[beat'] # 0
        BY <1>1, <1>3, <1>4, <1>5, <1>10, <2>2 DEF Made, Newest
      <3>2. /\ Attempts(shot'[beat'].scored, Newest')
            /\ TopScore(shot'[beat'].scored, shot'[beat'].qc_score)
        BY <1>8, <1>11, <2>2, <2>3 DEF Newest
      <3>3. QED
        BY <3>1, <3>2 DEF Failed
    <2>5. AtBeat'
      BY <1>4, <1>6, <1>8, <2>2, <2>4 DEF AtBeat
    <2>6. Around'
      BY <1>2, <1>3, <1>9, <2>2, AroundKept
    <2>7. Going'
      BY <2>2 DEF Course, PlaceTellsStatus, Stopping, ShotNodes
    <2>8. PlaceTellsTables'
      BY <1>6, <2>2, <2>5, <2>6, <2>7 DEF PlaceTellsTables, AtEnd, TextNodes
    <2>9. QED
      BY <1>1, <1>2, <1>3, <1>7, <1>9, <1>13, <1>14, <2>8, ReturnTables
  <1>17. QED
    BY <1>15, <1>16

\* repair_shot makes one attempt more of a shot whose attempts all failed.
LEMMA RepairTables ==
    ASSUME IInv, Course, Tables, IInv', Course', RepairShot
    PROVE  Tables'
  <1>1. up /\ node \in {"repair_shot", "repair_commit"}
    BY DEF RepairShot, RepairStop, RepairFailed, RepairClip, RepairCommit, At
  <1>2. /\ Going /\ AtBeat /\ Around /\ ~gs.delivered /\ beat \in Beats
        /\ gs \in GraphState /\ status \in Terminal /\ Best(beat) /\ QcRepair
    BY <1>1, Working DEF ShotNodes, Commits, QcNodes
  <1>3. PICK c \in Beats : c = beat
    BY <1>2
  <1>4. Failed /\ gs.prior = c
    BY <1>1, <1>2, <1>3 DEF AtBeat, QcNodes
  <1> DEFINE p == Place("chain_frame", beat)
  <1>5. p \in PlaceSet /\ p.node \notin TextNodes /\ p.node = "chain_frame" /\ p.beat = c
    BY <1>2, <1>3 DEF Place, PlaceSet, Nodes, ShotNodes, TextNodes
  <1> HIDE DEF p
  <1>6. CASE RepairStop
    <2>1. /\ node = "repair_shot" /\ status' = "PARTIAL" /\ Return(p, Partial)
          /\ UNCHANGED <<shot, canon, frame, cond, flags, capable>>
      BY <1>6 DEF RepairStop, At, BudgetStop, fileVars, envVars, histVars, p
    <2>2. Partial.outcome = "PARTIAL" /\ ~Partial.delivered
      BY <1>2 DEF Partial, GraphState
    <2>3. QED
      BY <1>1, <1>4, <1>5, <2>1, <2>2, StopTables DEF ShotNodes, Terminal, Failed,
         Made, p
  <1>7. ASSUME NEW sig \in Signatures, RepairFailed(sig) PROVE Tables'
    <2> DEFINE g == ProviderFailed(sig)
    <2>1. /\ node = "repair_shot" /\ status' = FailedOutcome(sig) /\ Return(p, g)
          /\ UNCHANGED <<shot, canon, frame, cond, flags, capable>>
      BY <1>7 DEF RepairFailed, At, ProviderFailure, fileVars, envVars, p
    <2>2. g.outcome = FailedOutcome(sig) /\ ~g.delivered
      BY <1>2 DEF ProviderFailed, GraphState
    <2>3. AnySucceeded
      BY <1>2, <1>4 DEF Failed, Made, AnySucceeded
    <2>4. FailedOutcome(sig) = "PARTIAL"
      BY <1>2, <2>3 DEF FailedOutcome, Going
    <2> HIDE DEF g
    <2>5. QED
      BY <1>1, <1>4, <1>5, <2>1, <2>2, <2>4, StopTables DEF ShotNodes, Terminal,
         Failed, Made, p
  <1>8. CASE RepairClip
    <2>1. /\ Inside("repair_commit") /\ cond' = [cond EXCEPT ![beat] = PriorFrame]
          /\ UNCHANGED <<status, shot, canon, frame, flags, capable, failures>>
      BY <1>8 DEF RepairClip, jobVars, fileVars, envVars
    <2>2. cond'[c] = PriorFrame /\ \A b \in Beats \ {c} : cond'[b] = cond[b]
      BY <1>3, <2>1, TableTypes
    <2>3. OnlyBeat(c)
      BY <2>1, <2>2 DEF OnlyBeat, Same
    <2>4. Lasting(c) /\ Best(c)
      BY <1>2, <1>3 DEF Tables
    <2>5. Best(c)' /\ Capped(c)'
      BY <2>1, <2>4 DEF Best, Lasting, Capped
    <2>6. ASSUME c > 1 PROVE InOrder(c)' /\ Chained(c)'
      <3>1. c - 1 \in Beats \ {c}
        BY <2>6 DEF Beats
      <3>2. Same(c - 1)
        BY <2>3, <3>1 DEF OnlyBeat
      <3>3. cond'[c].beat = c
        BY <1>3, <1>4, <2>2, <2>6 DEF PriorFrame, Beats
      <3>4. InOrder(c)'
        BY <2>1, <2>4, <3>2 DEF Lasting, InOrder, Same, QcRepair
      <3>5. Chained(c)'
        BY <1>2, <2>1, <2>4, <3>3 DEF Lasting, Chained, QcRepair
      <3>6. QED
        BY <3>4, <3>5
    <2>7. Lasting(c)'
      BY <2>5, <2>6 DEF Lasting, InOrder, Chained
    <2>8. node' = "repair_commit" /\ beat' = c /\ gs' = gs
      BY <1>3, <2>1 DEF Inside
    <2>9. Failed'
      BY <1>3, <1>4, <2>1, <2>8 DEF Failed, Made, Newest
    <2>10. Going' /\ AtBeat'
      BY <1>2, <1>4, <2>1, <2>8, <2>9 DEF Going, AtBeat
    <2>11. "repair_commit" \in Commits /\ status' \in Terminal
      BY <1>2, <2>1 DEF Commits
    <2>12. QED
      BY <1>1, <1>2, <1>3, <2>1, <2>3, <2>5, <2>7, <2>10, <2>11, InsideTables
         DEF KeptBest
  <1>9. CASE RepairCommit
    <2> DEFINE n == shot[beat].repair_count + 1
               g == [gs EXCEPT !.clip = n, !.qc_passed = FALSE, !.repair_count = n]
    <2>1. /\ node = "repair_commit" /\ shot' = [shot EXCEPT ![beat].repair_count = n]
          /\ Return(p, g)
          /\ UNCHANGED <<status, canon, frame, cond, flags, capable>>
      BY <1>9 DEF RepairCommit, At, fileVars, envVars, histVars, p
    <2>2. g.outcome = "SUCCESS" /\ ~g.delivered /\ g.clip = n
      BY <1>2 DEF Going, GraphState
    <2> HIDE DEF g
    <2>3. /\ shot'[c].repair_count = n /\ shot'[c].made = shot[c].made
          /\ shot'[c].degraded = shot[c].degraded /\ shot'[c].scored = shot[c].scored
          /\ shot'[c].qc_score = shot[c].qc_score
          /\ \A b \in Beats \ {c} : shot'[b] = shot[b]
      <3>1. shot \in [Beats -> ShotRow] /\ shot[c] \in ShotRow
        BY TableTypes
      <3>2. QED
        BY <1>3, <2>1, <3>1 DEF ShotRow
    <2>4. n \in Nat \ {0} /\ n = Newest
      BY <1>3, TableTypes DEF Newest
    <2> HIDE DEF n
    <2>5. OnlyBeat(c)
      BY <2>1, <2>3 DEF OnlyBeat, Same
    <2>6. /\ shot[c].made /\ ~shot[c].degraded /\ canon[c] # 0
          /\ Attempts(shot[c].scored, n) /\ TopScore(shot[c].scored, shot[c].qc_score)
      BY <1>3, <1>4, <2>4 DEF Failed, Made
    <2>7. Best(c)' /\ Lasting(c)'
      <3>1. InOrder(c)' /\ Chained(c)'
        BY <1>3, <2>1, <2>5, RowKept
      <3>2. Best(c)
        BY <1>2, <1>3
      <3>3. QED
        BY <2>1, <2>3, <2>6, <3>1, <3>2 DEF Best, Lasting, Capped
    <2>8. node' = "chain_frame" /\ beat' = c /\ gs' = g /\ up'
      BY <1>1, <1>5, <2>1 DEF Return
    <2>9. AtBeat'
      <3>1. shot[c].scored # {}
        BY <2>4, <2>6 DEF Attempts
      <3>2. Unscored'
        BY <2>1, <2>3, <2>6, <2>8, <3>1 DEF Unscored, Made
      <3>3. CurrentClip' = Newest' /\ QcRepair'
        BY <1>2, <2>1, <2>2, <2>3, <2>4, <2>8 DEF CurrentClip, Newest, QcRepair
      <3>4. QED
        BY <2>8, <3>2, <3>3 DEF AtBeat, QcNodes
    <2>10. Going'
      BY <2>2, <2>8 DEF Course, PlaceTellsStatus, Stopping, ShotNodes
    <2>11. Around'
      BY <1>2, <1>3, <2>5, <2>8, AroundKept
    <2>12. PlaceTellsTables'
      BY <2>2, <2>8, <2>9, <2>10, <2>11 DEF PlaceTellsTables, AtEnd, TextNodes
    <2>13. QED
      BY <1>1, <1>2, <1>3, <1>5, <2>1, <2>5, <2>7, <2>12, ReturnTables
  <1>10. QED
    BY <1>6, <1>7, <1>8, <1>9 DEF RepairShot

\* flag_degraded closes a shot whose attempts are used up.
LEMMA FlagTables ==
    ASSUME IInv, Course, Tables, IInv', Course', FlagDegraded
    PROVE  Tables'
  <1> DEFINE last == beat = NBeats /\ ~AssembleDeliver
             g == [gs EXCEPT !.qc_passed = FALSE, !.job_degraded = TRUE,
                             !.outcome = IF last THEN "PARTIAL" ELSE @,
                             !.shots_completed = @ \/ last]
             p == NextAfterShot(beat)
  <1>1. /\ up /\ node = "flag_degraded" /\ Return(p, g)
        /\ shot' = [shot EXCEPT ![beat].degraded = TRUE]
        /\ UNCHANGED <<status, canon, frame, cond, flags, capable>>
    BY DEF FlagDegraded, At, AfterFlag, fileVars, envVars, histVars
  <1>2. /\ AtBeat /\ Around /\ ~gs.delivered /\ beat \in Beats
        /\ gs \in GraphState /\ status \in Terminal /\ Best(beat)
    BY <1>1, Working DEF ShotNodes
  <1>3. PICK c \in Beats : c = beat
    BY <1>2
  <1>4. Failed /\ shot[c].repair_count = MaxRepairs /\ gs.prior = c
    BY <1>1, <1>2, <1>3 DEF AtBeat, QcNodes
  <1>5. g.prior = c /\ ~g.delivered
    BY <1>2, <1>4 DEF GraphState
  <1> HIDE DEF g
  <1>6. p \in PlaceSet /\ p.node \notin TextNodes
    BY <1>2, RouteType DEF AfterFlag, NextAfterShot, Place, TextNodes
  <1>7. /\ shot'[c].degraded /\ shot'[c].made = shot[c].made
        /\ shot'[c].scored = shot[c].scored /\ shot'[c].qc_score = shot[c].qc_score
        /\ \A b \in Beats \ {c} : shot'[b] = shot[b]
    <2>1. shot \in [Beats -> ShotRow] /\ shot[c] \in ShotRow
      BY TableTypes
    <2>2. QED
      BY <1>1, <1>3, <2>1 DEF ShotRow
  <1>8. OnlyBeat(c)
    BY <1>1, <1>7 DEF OnlyBeat, Same
  <1>9. Finished(c)'
    BY <1>1, <1>3, <1>4, <1>7 DEF Finished, Failed, Made
  <1>10. Best(c)' /\ Lasting(c)'
    <2>1. InOrder(c)' /\ Chained(c)'
      BY <1>1, <1>3, <1>8, RowKept
    <2>2. Attempts(shot'[c].scored, MaxRepairs + 1)
      BY <1>3, <1>4, <1>7 DEF Failed, Newest
    <2>3. QED
      BY <1>1, <1>2, <1>3, <1>7, <2>1, <2>2 DEF Best, Lasting, Capped
  <1>11. PlaceTellsTables'
    BY <1>1, <1>2, <1>3, <1>5, <1>8, <1>9, NextShotTells
  <1>12. QED
    BY <1>1, <1>2, <1>3, <1>6, <1>8, <1>10, <1>11, ReturnTables

\* assemble takes the kept clip of every shot, and tells whether one is flawed.
LEMMA AssembleTables ==
    ASSUME IInv, Course, Tables, IInv', Course', Assemble
    PROVE  Tables'
  <1> DEFINE flawed == \/ gs.job_degraded
                       \/ \E b \in Beats : shot[b].degraded \/ ~shot[b].made
             outcome == IF flawed THEN "PARTIAL" ELSE gs.outcome
             g == [gs EXCEPT !.assembled = TRUE, !.shots_completed = TRUE,
                             !.job_degraded = flawed,
                             !.outcome = IF outcome \in {"PARTIAL", "FAILED"}
                                         THEN outcome ELSE "SUCCESS"]
             p == Place("deliver", beat)
  <1>1. /\ up /\ node = "assemble" /\ Return(p, g)
        /\ film' = [b \in Beats |-> IF shot[b].made THEN canon[b] ELSE 0]
        /\ UNCHANGED <<status, shot, canon, frame, cond, flags, capable>>
    BY DEF Assemble, At, envVars, histVars
  <1>2. /\ gs \in GraphState /\ Ending /\ AtEnd /\ \A b \in Beats : Best(b)
    BY <1>1, ShotFacts DEF Course, PlaceTellsStatus, Tables, PlaceTellsTables, KeptBest,
       AheadOfRow
  <1>3. /\ g.job_degraded = flawed
        /\ g.outcome = IF outcome \in {"PARTIAL", "FAILED"} THEN outcome ELSE "SUCCESS"
    BY <1>2 DEF GraphState
  <1>4. g.outcome = "SUCCESS" => ~flawed /\ gs.outcome = "SUCCESS"
    BY <1>1, <1>2, <1>3 DEF Ending
  <1>5. ~flawed => NoneFlagged
    BY DEF NoneFlagged
  <1> HIDE DEF g, flawed
  <1>6. node' = "deliver" /\ gs' = g /\ (ckpt' = ckpt \/ ckpt'.at.node = "deliver") /\ up'
    BY <1>1 DEF Return, Place
  <1>7. \A b \in Beats : KeptBest(b)' /\ Lasting(b)'
    BY <1>1, <1>2, AllKept
  <1>8. AllFinished => AllFinished'
    BY <1>1, Untouched DEF AllFinished
  <1>9. NoneFlagged' = NoneFlagged /\ FilmIsKept'
    BY <1>1 DEF NoneFlagged, FilmIsKept
  <1>10. AtEnd'
    BY <1>1, <1>2, <1>3, <1>4, <1>5, <1>6, <1>8, <1>9 DEF AtEnd
  <1>11. PlaceTellsTables'
    BY <1>6, <1>10 DEF PlaceTellsTables, TextNodes, ShotNodes, Commits
  <1>12. status' \in Terminal
    BY <1>1, ShotFacts DEF TextNodes
  <1>13. QED
    BY <1>6, <1>7, <1>11, <1>12, UnsettledNext DEF Tables, TextNodes

\* deliver offers the film, flawed or not.
LEMMA DeliverTables ==
    ASSUME IInv, Course, Tables, IInv', Course', Deliver
    PROVE  Tables'
  <1> DEFINE g == [gs EXCEPT !.delivered = TRUE, !.shots_completed = TRUE,
                             !.outcome = IF gs.job_degraded \/ @ = "PARTIAL"
                                         THEN "PARTIAL" ELSE "SUCCESS"]
             p == Place("end", beat)
  <1>1. /\ up /\ node = "deliver" /\ Return(p, g)
        /\ download' = TRUE /\ degraded' = gs.job_degraded
        /\ UNCHANGED <<status, shot, canon, frame, film, cond, flags, capable>>
    BY DEF Deliver, At, fileVars, envVars, histVars
  <1>2. /\ gs \in GraphState /\ Ending /\ AtEnd /\ \A b \in Beats : Best(b)
    BY <1>1, ShotFacts DEF Course, PlaceTellsStatus, Tables, PlaceTellsTables, KeptBest,
       AheadOfRow
  <1>3. /\ g.delivered
        /\ g.outcome = IF gs.job_degraded \/ gs.outcome = "PARTIAL" THEN "PARTIAL" ELSE "SUCCESS"
    BY <1>2 DEF GraphState
  <1>4. g.outcome = "SUCCESS" => ~gs.job_degraded /\ gs.outcome = "SUCCESS"
    BY <1>1, <1>2, <1>3 DEF Ending
  <1> HIDE DEF g
  <1>5. node' = "end" /\ gs' = g /\ (ckpt' = ckpt \/ ckpt'.at.node = "end") /\ up'
    BY <1>1 DEF Return, Place
  <1>6. \A b \in Beats : KeptBest(b)' /\ Lasting(b)'
    BY <1>1, <1>2, AllKept
  <1>7. AllFinished => AllFinished'
    BY <1>1, Untouched DEF AllFinished
  <1>8. NoneFlagged' = NoneFlagged /\ FilmIsKept' = FilmIsKept
    BY <1>1 DEF NoneFlagged, FilmIsKept
  <1>9. AtEnd'
    BY <1>1, <1>2, <1>3, <1>4, <1>5, <1>7, <1>8 DEF AtEnd
  <1>10. PlaceTellsTables'
    BY <1>5, <1>9 DEF PlaceTellsTables, TextNodes, ShotNodes, Commits
  <1>11. status' \in Terminal
    BY <1>1, ShotFacts DEF TextNodes
  <1>12. QED
    BY <1>5, <1>6, <1>10, <1>11, UnsettledNext DEF Tables, TextNodes

\* Every step keeps the tables.
LEMMA TablesNext ==
    ASSUME IInv, Course, Tables, IInv', Course', [Next]_vars
    PROVE  Tables'
  <1>1. CASE Next
    <2>1. ASSUME Qc PROVE Tables'
      BY <2>1, QcStopTables, QcScoredTables, QcCommitTables DEF Qc
    <2>2. QED
      BY <1>1, <2>1, RunnerTables, TextTables, GenerateTables, ChainTables,
         RepairTables, FlagTables, AssembleTables, DeliverTables DEF Next, TaskStep
  <1>2. CASE UNCHANGED vars
    BY <1>2, IdleTables DEF vars, taskVars, jobVars, fileVars, envVars, histVars
  <1>3. QED
    BY <1>1, <1>2

\* A queued job has no shots.
LEMMA InitTables == Init => Tables
  <1> SUFFICES ASSUME Init PROVE Tables
    OBVIOUS
  <1>1. \A b \in Beats : shot[b] = NoShot /\ canon[b] = 0
    BY DEF Init
  <1>2. \A b \in Beats : Fresh(b) /\ KeptBest(b) /\ Lasting(b)
    BY <1>1 DEF Fresh, KeptBest, Best, Lasting, Capped, InOrder, Chained, NoShot
  <1>3. ~up /\ NoShotYet(ckpt.gs) /\ status = "QUEUED" /\ node = "plan_story"
    BY DEF Init, NoShotYet, EmptyState
  <1>4. QED
    BY <1>2, <1>3 DEF Tables, PlaceTellsTables, SuccessIsComplete, PartialIsDelivered

\* The tables are an invariant, with the two invariants they rest on.
LEMMA TablesInvariant == Spec => [](IInv /\ Tables)
  <1>1. Init => IInv /\ Course /\ Tables
    BY InitInv, InitCourse, InitTables
  <1>2. IInv /\ Course /\ Tables /\ [Next]_vars => (IInv /\ Course /\ Tables)'
    BY NextInv, CourseNext, TablesNext
  <1>3. QED
    BY <1>1, <1>2, PTL DEF Spec

\* Whatever order good and bad attempts come in, and wherever a run breaks off,
\* qc_score is the best score of a shot and the clip kept is the one that got it,
\* or the newest attempt, whose score a failure kept from its row.
THEOREM KeptIsBest == Spec => []KeptClipIsBest
  <1>1. Tables => KeptClipIsBest
    BY DEF Tables, KeptBest, Best, TopScore, KeptClipIsBest
  <1>2. QED
    BY <1>1, TablesInvariant, PTL

\* A shot is degraded only after the clip and every repair were scored once
\* each and failed, for every cap and every threshold.
THEOREM DegradedAfterCap == Spec => []DegradedOnlyAfterCap
  <1>1. Tables => DegradedOnlyAfterCap
    <2> SUFFICES ASSUME Tables, NEW b \in Beats, shot[b].degraded
                 PROVE  /\ {row[1] : row \in shot[b].scored} = 1..(MaxRepairs + 1)
                        /\ Cardinality(shot[b].scored) = MaxRepairs + 1
                        /\ \A row \in shot[b].scored : row[2] < PassScore
      BY DEF DegradedOnlyAfterCap
    <2>1. Attempts(shot[b].scored, MaxRepairs + 1)
      BY DEF Tables, Lasting, Capped
    <2>2. {row[1] : row \in shot[b].scored} = 1..(MaxRepairs + 1)
      BY <2>1, AttemptsImage
    <2>3. QED
      BY <2>1, <2>2 DEF Attempts
  <1>2. QED
    BY <1>1, TablesInvariant, PTL

\* generate_shot begins a shot only behind a finished one, for every number of
\* shots and however often the job is interrupted.
THEOREM ShotOrder == Spec => []ShotsInOrder
  <1>1. Tables => ShotsInOrder
    BY DEF Tables, Lasting, InOrder, ShotsInOrder
  <1>2. QED
    BY <1>1, TablesInvariant, PTL

\* A shot is conditioned on the last frame of the clip kept for the shot before
\* it, unless that one is degraded or the shot was repaired.
THEOREM ChainKept == Spec => []OnlyDegradedBreaksChain
  <1>1. Tables => OnlyDegradedBreaksChain
    BY DEF Tables, Lasting, Chained, OnlyDegradedBreaksChain
  <1>2. QED
    BY <1>1, TablesInvariant, PTL

\* DELIVERED and SHOTS_READY say the truth about rows, files and film.
THEOREM SuccessComplete == Spec => []SuccessIsComplete
  <1>1. Tables => SuccessIsComplete
    BY DEF Tables
  <1>2. QED
    BY <1>1, TablesInvariant, PTL

\* With assembly on, a graph that returned has delivered every clip it made.
THEOREM PartialDelivered == Spec => []PartialIsDelivered
  <1>1. Tables => PartialIsDelivered
    BY DEF Tables
  <1>2. QED
    BY <1>1, TablesInvariant, PTL
-----------------------------------------------------------------------------
(***************************************************************************)
(* A run ends: the nodes it may still complete, and the steps inside them. *)
(***************************************************************************)

\* The nodes of the beats to come, and what NodesLeft is at a place.
LaterBeats(b) == (NBeats - b) * NodesPerBeat
Repairs(k) == 3 * (MaxRepairs - k)

Left(n, b, stopped, k) ==
    CASE n = "end"                   -> 0
      [] n = "deliver"               -> 1
      [] n = "assemble"              -> 2
      [] n = "lock_continuity_bible" -> NBeats * NodesPerBeat + 3
      [] n = "plan_story"            -> NBeats * NodesPerBeat + 4
      [] n = "chain_frame" /\ stopped -> 3
      [] OTHER ->
           LaterBeats(b) + 2 +
           (CASE n \in {"generate_shot", "generate_commit"} -> NodesPerBeat
              [] n = "chain_frame"                         -> Repairs(k) + 3
              [] n \in {"qc_score", "qc_commit"}           -> Repairs(k) + 2
              [] n \in {"repair_shot", "repair_commit"}    -> Repairs(k) + 1
              [] OTHER                                     -> 1)

LeftAt(p, g, k) == Left(p.node, p.beat, g.outcome \in Stopped, k)

\* NodesLeft is Left at the place of a running task, before and after a step.
LEMMA NodesLeftIs ==
    /\ up => NodesLeft =
                Left(node, beat, gs.outcome \in Stopped, shot[beat].repair_count)
    /\ ~up => NodesLeft = 0 /\ StepsInNode = 0
    /\ up' => NodesLeft' =
                Left(node', beat', gs'.outcome \in Stopped, shot'[beat'].repair_count)
    /\ ~up' => NodesLeft' = 0 /\ StepsInNode' = 0
  BY DEF NodesLeft, NodesInBeat, StepsInNode, Left, LaterBeats, Repairs

\* The nodes of the beats to come, one beat at a time.
LEMMA Later ==
    ASSUME NEW b \in Beats
    PROVE  /\ NodesPerBeat \in Nat /\ NodesPerBeat = 4 + 3 * MaxRepairs
           /\ LaterBeats(b) \in Nat
           /\ LaterBeats(1) + NodesPerBeat = NBeats * NodesPerBeat
           /\ LaterBeats(b) + NodesPerBeat <= NBeats * NodesPerBeat
           /\ b < NBeats => LaterBeats(b) = LaterBeats(b + 1) + NodesPerBeat
  <1>1. ASSUME NEW n \in Nat \ {0}, NEW K \in Nat, NEW c \in 1..n
        PROVE  /\ (n - c) * K \in Nat
               /\ (n - 1) * K + K = n * K
               /\ (n - c) * K + K <= n * K
               /\ (n - c) * K = (n - (c + 1)) * K + K
    <2>1. n - c \in Nat /\ c - 1 \in Nat
      OBVIOUS
    <2>2. \A i \in Nat : i * K \in Nat
      OBVIOUS
    <2>3. (n - c) * K \in Nat /\ (c - 1) * K \in Nat
      BY <2>1, <2>2
    <2>4. (n - c) * K + K + (c - 1) * K = n * K
      OBVIOUS
    <2>5. n * K \in Nat
      OBVIOUS
    <2>6. (n - c) * K + K <= n * K
      BY <2>3, <2>4, <2>5
    <2>7. (n - 1) * K + K = n * K /\ (n - c) * K = (n - (c + 1)) * K + K
      OBVIOUS
    <2>8. QED
      BY <2>3, <2>6, <2>7
  <1>2. NodesPerBeat \in Nat /\ NodesPerBeat = 4 + 3 * MaxRepairs
    BY DEF NodesPerBeat
  <1>3. NBeats \in Nat \ {0} /\ b \in 1..NBeats
    BY DEF Beats
  <1>4. QED
    BY <1>1, <1>2, <1>3 DEF LaterBeats

\* What is left at each place.
LEMMA LeftFacts ==
    ASSUME NEW b \in Beats, NEW s \in BOOLEAN, NEW k \in 0..MaxRepairs
    PROVE  /\ Left("end", b, s, k) = 0
           /\ Left("deliver", b, s, k) = 1
           /\ Left("assemble", b, s, k) = 2
           /\ Left("lock_continuity_bible", b, s, k) = NBeats * NodesPerBeat + 3
           /\ Left("plan_story", b, s, k) = NBeats * NodesPerBeat + 4
           /\ s => Left("chain_frame", b, s, k) = 3
           /\ ~s => Left("chain_frame", b, s, k) = LaterBeats(b) + 2 + (Repairs(k) + 3)
           /\ \A n \in {"generate_shot", "generate_commit"} :
                 Left(n, b, s, k) = LaterBeats(b) + 2 + NodesPerBeat
           /\ \A n \in {"qc_score", "qc_commit"} :
                 Left(n, b, s, k) = LaterBeats(b) + 2 + (Repairs(k) + 2)
           /\ \A n \in {"repair_shot", "repair_commit"} :
                 Left(n, b, s, k) = LaterBeats(b) + 2 + (Repairs(k) + 1)
           /\ Left("flag_degraded", b, s, k) = LaterBeats(b) + 2 + 1
           /\ Repairs(k) \in 0..(3 * MaxRepairs)
           /\ k < MaxRepairs => Repairs(k) = Repairs(k + 1) + 3
  <1>1. /\ Repairs(k) \in 0..(3 * MaxRepairs)
        /\ k < MaxRepairs => Repairs(k) = Repairs(k + 1) + 3
    BY DEF Repairs
  <1>2. QED
    BY <1>1 DEF Left

\* A running task has a bounded number of nodes left, and none only at the end.
LEMMA LeftBounds ==
    ASSUME IInv
    PROVE  /\ NodesLeft \in 0..(NBeats * NodesPerBeat + 4)
           /\ up /\ node \in Nodes \cup Commits => NodesLeft >= 1
  <1>1. /\ beat \in Beats /\ shot[beat].repair_count \in 0..MaxRepairs
        /\ node \in Places
    BY DEF IInv, TypeOK, TaskTypeOK, StoreTypeOK, ShotRow
  <1>2. /\ NodesPerBeat \in Nat /\ NodesPerBeat = 4 + 3 * MaxRepairs
        /\ LaterBeats(beat) \in Nat
        /\ LaterBeats(beat) + NodesPerBeat <= NBeats * NodesPerBeat
        /\ NBeats * NodesPerBeat \in Nat
    BY <1>1, Later
  <1> DEFINE s == gs.outcome \in Stopped
             k == shot[beat].repair_count
  <1>3. up /\ node \notin {"done", "escaped"} =>
            /\ NodesLeft = Left(node, beat, s, k)
            /\ Left(node, beat, s, k) \in 0..(NBeats * NodesPerBeat + 4)
            /\ node # "end" => Left(node, beat, s, k) >= 1
    <2>1. s \in BOOLEAN /\ k \in 0..MaxRepairs
      BY <1>1
    <2> HIDE DEF s, k
    <2>2. Repairs(k) \in 0..(3 * MaxRepairs)
      BY <1>1, <2>1, LeftFacts
    <2>3. ASSUME up, node \in {"end", "deliver", "assemble",
                               "lock_continuity_bible", "plan_story"}
          PROVE  /\ Left(node, beat, s, k) \in 0..(NBeats * NodesPerBeat + 4)
                 /\ node # "end" => Left(node, beat, s, k) >= 1
      BY <1>1, <1>2, <2>1, <2>3, LeftFacts
    <2>4. ASSUME node \in ShotNodes \cup Commits
          PROVE  Left(node, beat, s, k) \in 1..(NBeats * NodesPerBeat + 4)
      <3>1. Left(node, beat, s, k) \in
              {3} \cup {LaterBeats(beat) + 2 + i :
                          i \in {NodesPerBeat, Repairs(k) + 3, Repairs(k) + 2,
                                 Repairs(k) + 1, 1}}
        BY <1>1, <2>1, <2>4, LeftFacts DEF ShotNodes, Commits
      <3>2. PICK i \in {NodesPerBeat, Repairs(k) + 3, Repairs(k) + 2,
                        Repairs(k) + 1, 1} :
              \/ Left(node, beat, s, k) = 3
              \/ Left(node, beat, s, k) = LaterBeats(beat) + 2 + i
        BY <3>1
      <3>3. i \in 1..NodesPerBeat
        BY <1>2, <2>2, <3>2
      <3>4. QED
        BY <1>2, <3>2, <3>3
    <2>5. QED
      BY <1>1, <2>3, <2>4, NodesLeftIs DEF Places, Nodes, TextNodes, s, k
  <1>4. up => node \notin {"done", "escaped"} \/ NodesLeft = LaterBeats(beat) + 2 + 1
    BY DEF NodesLeft, NodesInBeat, LaterBeats
  <1>5. QED
    BY <1>2, <1>3, <1>4, NodesLeftIs DEF Nodes, Commits, TextNodes, ShotNodes

\* What is left where the routers lead: a stopped run goes to assembly or to
\* its end, any other to what comes next in the beat or to the next beat.
LEMMA RouteLeft ==
    ASSUME NEW b \in Beats, NEW g \in GraphState, NEW k \in 0..MaxRepairs
    PROVE  /\ LeftAt(NextAfterShot(b), g, k) \in 0..(LaterBeats(b) + 2)
           /\ g.outcome \in Stopped =>
                 /\ LeftAt(AfterPlan(g), g, k) = 0 /\ LeftAt(AfterBible(g), g, k) = 0
                 /\ LeftAt(AfterGenerate(g, b), g, k) \in 0..2
                 /\ LeftAt(AfterChain(g, b), g, k) \in 0..2
                 /\ LeftAt(AfterQc(g, b), g, k) \in 0..2
           /\ g.outcome \notin Stopped =>
                 /\ LeftAt(AfterPlan(g), g, k) = NBeats * NodesPerBeat + 3
                 /\ LeftAt(AfterBible(g), g, k) \in 0..(NBeats * NodesPerBeat + 2)
                 /\ AfterGenerate(g, b).beat = b
                 /\ LeftAt(AfterGenerate(g, b), g, k) = LaterBeats(b) + 2 + (Repairs(k) + 3)
                 /\ \/ LeftAt(AfterChain(g, b), g, k) \in 0..(LaterBeats(b) + 2)
                    \/ /\ AfterChain(g, b).beat = b
                       /\ LeftAt(AfterChain(g, b), g, k) = LaterBeats(b) + 2 + (Repairs(k) + 2)
                 /\ \/ LeftAt(AfterQc(g, b), g, k) \in 0..(LaterBeats(b) + 2)
                    \/ /\ AfterQc(g, b).beat = b
                       /\ LeftAt(AfterQc(g, b), g, k) \in
                            0..(LaterBeats(b) + 2 + (Repairs(k) + 1))
  <1> DEFINE s == g.outcome \in Stopped
  <1>1. /\ NodesPerBeat \in Nat /\ LaterBeats(b) \in Nat /\ s \in BOOLEAN
        /\ Repairs(k) \in 0..(3 * MaxRepairs) /\ 1 \in Beats
        /\ NBeats * NodesPerBeat \in Nat
    BY Later, LeftFacts DEF Beats
  <1>0. \A n, c : LeftAt(Place(n, c), g, k) = Left(n, c, s, k)
    BY DEF LeftAt, Place
  <1> HIDE DEF s
  <1>2. /\ LeftAt(Place("end", b), g, k) = 0 /\ LeftAt(Place("end", 1), g, k) = 0
        /\ LeftAt(Place("assemble", b), g, k) = 2
    BY <1>0, <1>1, LeftFacts
  <1>3. LeftAt(NextAfterShot(b), g, k) \in 0..(LaterBeats(b) + 2)
    <2>1. CASE b < NBeats
      <3>1. b + 1 \in Beats /\ LaterBeats(b + 1) \in Nat
        BY <2>1, Later DEF Beats
      <3>2. LeftAt(Place("generate_shot", b + 1), g, k) = LaterBeats(b + 1) + 2 + NodesPerBeat
        BY <1>0, <1>1, <3>1, LeftFacts
      <3>3. LaterBeats(b) = LaterBeats(b + 1) + NodesPerBeat
        BY <2>1, Later
      <3>4. QED
        BY <1>1, <2>1, <3>1, <3>2, <3>3 DEF NextAfterShot
    <2>2. CASE ~(b < NBeats)
      BY <1>1, <1>2, <2>2 DEF NextAfterShot
    <2>3. QED
      BY <2>1, <2>2
  <1>4. \A o : LeftAt(StopPlace(o, b), g, k) \in 0..2
    BY <1>2 DEF StopPlace
  <1>5. CASE g.outcome \in Stopped
    BY <1>2, <1>3, <1>4, <1>5 DEF AfterPlan, AfterBible, AfterGenerate, AfterChain, AfterQc
  <1>6. CASE g.outcome \notin Stopped
    <2>1. /\ LeftAt(Place("lock_continuity_bible", 1), g, k) = NBeats * NodesPerBeat + 3
          /\ LeftAt(Place("generate_shot", 1), g, k) = LaterBeats(1) + 2 + NodesPerBeat
          /\ LeftAt(Place("chain_frame", b), g, k) = LaterBeats(b) + 2 + (Repairs(k) + 3)
          /\ LeftAt(Place("qc_score", b), g, k) = LaterBeats(b) + 2 + (Repairs(k) + 2)
          /\ LeftAt(Place("repair_shot", b), g, k) = LaterBeats(b) + 2 + (Repairs(k) + 1)
          /\ LeftAt(Place("flag_degraded", b), g, k) = LaterBeats(b) + 2 + 1
      <3>1. ~s
        BY <1>6 DEF s
      <3>2. QED
        BY <1>0, <1>1, <3>1, LeftFacts
    <2>2. LaterBeats(1) \in Nat /\ LaterBeats(1) + NodesPerBeat = NBeats * NodesPerBeat
      BY <1>1, Later
    <2>3. LeftAt(AfterPlan(g), g, k) = NBeats * NodesPerBeat + 3
      BY <1>6, <2>1 DEF AfterPlan
    <2>4. LeftAt(AfterBible(g), g, k) \in 0..(NBeats * NodesPerBeat + 2)
      <3>1. LeftAt(Place("generate_shot", 1), g, k) = NBeats * NodesPerBeat + 2
        BY <1>1, <2>1, <2>2
      <3>2. QED
        BY <1>1, <1>2, <3>1 DEF AfterBible
    <2>5. /\ AfterGenerate(g, b) = Place("chain_frame", b)
          /\ AfterChain(g, b) \in {Place("qc_score", b), NextAfterShot(b)}
          /\ AfterQc(g, b) \in {NextAfterShot(b), Place("repair_shot", b),
                                Place("flag_degraded", b)}
      BY <1>6 DEF AfterGenerate, AfterChain, AfterQc
    <2>6. \A n : Place(n, b).beat = b
      BY DEF Place
    <2>7. /\ LaterBeats(b) + 2 + (Repairs(k) + 1) \in 0..(LaterBeats(b) + 2 + (Repairs(k) + 1))
          /\ LaterBeats(b) + 2 + 1 \in 0..(LaterBeats(b) + 2 + (Repairs(k) + 1))
      BY <1>1
    <2>8. \/ LeftAt(AfterChain(g, b), g, k) \in 0..(LaterBeats(b) + 2)
          \/ /\ AfterChain(g, b).beat = b
             /\ LeftAt(AfterChain(g, b), g, k) = LaterBeats(b) + 2 + (Repairs(k) + 2)
      BY <1>3, <2>1, <2>5, <2>6
    <2>9. \/ LeftAt(AfterQc(g, b), g, k) \in 0..(LaterBeats(b) + 2)
          \/ /\ AfterQc(g, b).beat = b
             /\ LeftAt(AfterQc(g, b), g, k) \in
                  0..(LaterBeats(b) + 2 + (Repairs(k) + 1))
      <3>1. CASE AfterQc(g, b) = NextAfterShot(b)
        BY <1>3, <3>1
      <3>2. CASE AfterQc(g, b) \in {Place("repair_shot", b), Place("flag_degraded", b)}
        <4>1. AfterQc(g, b).beat = b
          BY <2>6, <3>2
        <4>2. QED
          BY <2>1, <2>7, <3>2, <4>1
      <3>3. QED
        BY <2>5, <3>1, <3>2
    <2>10. QED
      BY <1>3, <1>6, <2>1, <2>3, <2>4, <2>5, <2>6, <2>8, <2>9
  <1>7. QED
    BY <1>5, <1>6

\* What is left of a running task, with the types that go with it.
LEMMA LeftNow ==
    ASSUME IInv, up
    PROVE  /\ NodesLeft = Left(node, beat, gs.outcome \in Stopped, shot[beat].repair_count)
           /\ beat \in Beats /\ gs \in GraphState /\ (gs.outcome \in Stopped) \in BOOLEAN
           /\ shot[beat].repair_count \in 0..MaxRepairs
           /\ NodesPerBeat \in Nat /\ LaterBeats(beat) \in Nat
           /\ NBeats * NodesPerBeat \in Nat
           /\ NodesPerBeat = 4 + 3 * MaxRepairs
           /\ Repairs(shot[beat].repair_count) \in 0..(3 * MaxRepairs)
  <1>1. beat \in Beats /\ gs \in GraphState /\ shot[beat].repair_count \in 0..MaxRepairs
    BY DEF IInv, TypeOK, TaskTypeOK, StoreTypeOK, ShotRow
  <1>2. QED
    BY <1>1, Later, LeftFacts, NodesLeftIs

\* A node that returned: what is left is what is left at the new place.
LEMMA ReturnLeft ==
    ASSUME IInv', up, NEW p, NEW g, Return(p, g)
    PROVE  \E k \in 0..MaxRepairs :
              /\ NodesLeft' = LeftAt(p, g, k) /\ k = shot'[p.beat].repair_count
  <1>1. up' /\ node' = p.node /\ beat' = p.beat /\ gs' = g
    BY DEF Return
  <1>2. NodesLeft' = Left(node', beat', gs'.outcome \in Stopped, shot'[beat'].repair_count)
    BY <1>1, NodesLeftIs
  <1>3. shot'[beat'].repair_count \in 0..MaxRepairs
    BY DEF IInv, TypeOK, TaskTypeOK, StoreTypeOK, ShotRow
  <1>4. QED
    BY <1>1, <1>2, <1>3 DEF LeftAt

\* One step nearer to the end.
Nearer ==
    \/ NodesLeft' < NodesLeft
    \/ NodesLeft' = NodesLeft /\ StepsInNode' < StepsInNode

\* A task that ends, by an error or because the graph returned.
LEMMA StopNearer ==
    ASSUME IInv, up, ~up', node \in Places \ {"done", "escaped"}
    PROVE  Nearer
  <1>1. CASE node = "end"
    <2>1. NodesLeft = 0
      BY <1>1 DEF NodesLeft
    <2>2. StepsInNode = 1
      BY <1>1 DEF StepsInNode, TextNodes, Commits
    <2>3. QED
      BY <2>1, <2>2, NodesLeftIs DEF Nearer
  <1>2. CASE node # "end"
    BY <1>2, LeftBounds, NodesLeftIs DEF Nearer, Places
  <1>3. QED
    BY <1>1, <1>2

\* A node that did its work and now writes it.
LEMMA InsideNearer ==
    ASSUME IInv, up, NEW c \in Commits, Inside(c),
           node \in {"generate_shot", "qc_score", "repair_shot"},
           c = "generate_commit" <=> node = "generate_shot",
           c = "qc_commit" <=> node = "qc_score",
           shot' = shot
    PROVE  Nearer
  <1>1. up' /\ node' = c /\ beat' = beat /\ gs' = gs
    BY DEF Inside
  <1>2. NodesLeft' = Left(c, beat, gs.outcome \in Stopped, shot[beat].repair_count)
    BY <1>1, NodesLeftIs
  <1>3. NodesLeft' = NodesLeft
    <2> DEFINE s == gs.outcome \in Stopped
               k == shot[beat].repair_count
    <2>1. s \in BOOLEAN /\ k \in 0..MaxRepairs /\ beat \in Beats
          /\ NodesLeft = Left(node, beat, s, k) /\ NodesLeft' = Left(c, beat, s, k)
      BY <1>2, LeftNow
    <2> HIDE DEF s, k
    <2>2. /\ Left("generate_shot", beat, s, k) = Left("generate_commit", beat, s, k)
          /\ Left("qc_score", beat, s, k) = Left("qc_commit", beat, s, k)
          /\ Left("repair_shot", beat, s, k) = Left("repair_commit", beat, s, k)
      BY <2>1, LeftFacts
    <2>3. \/ node = "generate_shot" /\ c = "generate_commit"
          \/ node = "qc_score" /\ c = "qc_commit"
          \/ node = "repair_shot" /\ c = "repair_commit"
      BY DEF Commits
    <2>4. QED
      BY <2>1, <2>2, <2>3
  <1>4. StepsInNode' = 0 /\ StepsInNode = 1
    BY <1>1 DEF StepsInNode, Commits, TextNodes
  <1>5. QED
    BY <1>3, <1>4 DEF Nearer

\* A stop of the budget gate, or a failed provider call, before a router.
LEMMA StoppedNearer ==
    ASSUME IInv, IInv', up, NEW p, NEW g, Return(p, g),
           \A k \in 0..MaxRepairs : LeftAt(p, g, k) \in 0..2,
           node \in TextNodes \cup {"generate_shot", "chain_frame", "qc_score"}
    PROVE  Nearer
  <1>1. NodesLeft' \in 0..2
    BY ReturnLeft
  <1>2. NodesLeft >= 3
    <2> DEFINE s == gs.outcome \in Stopped
               k == shot[beat].repair_count
    <2>1. /\ s \in BOOLEAN /\ k \in 0..MaxRepairs /\ beat \in Beats
          /\ NodesLeft = Left(node, beat, s, k) /\ LaterBeats(beat) \in Nat
          /\ NBeats * NodesPerBeat \in Nat /\ NodesPerBeat = 4 + 3 * MaxRepairs
          /\ Repairs(k) \in 0..(3 * MaxRepairs)
      BY LeftNow
    <2> HIDE DEF s, k
    <2>2. CASE node \in {"plan_story", "lock_continuity_bible"}
      BY <2>1, <2>2, LeftFacts
    <2>3. CASE node \in {"generate_shot", "qc_score"}
      BY <2>1, <2>3, LeftFacts
    <2>4. CASE node = "chain_frame"
      BY <2>1, <2>4, LeftFacts
    <2>5. QED
      BY <2>2, <2>3, <2>4 DEF TextNodes
  <1>3. NodesLeft \in Int
    BY LeftBounds
  <1>4. QED
    BY <1>1, <1>2, <1>3 DEF Nearer

\* plan_story and lock_continuity_bible.
LEMMA TextNearer ==
    ASSUME IInv, IInv', NEW n \in TextNodes, TextNode(n)
    PROVE  Nearer
  <1>1. /\ up /\ node = n /\ gs.outcome = "NONE" /\ 1 \in Beats
        /\ gs \in GraphState /\ beat \in Beats
        /\ tries \in 0..(SchemaAttempts - 1)
    BY DEF TextNode, TextStop, TextReuse, TextAccepted, TextRejected, At, IInv,
           TypeOK, TaskTypeOK, TextHasNoOutcome, Beats
  <1>2. CASE TextStop(n)
    <2>1. Partial \in GraphState /\ Partial.outcome \in Stopped
      BY ShotFacts
    <2>2. Return(AfterText(n, Partial), Partial)
      BY <1>2 DEF TextStop, BudgetStop
    <2>3. \A k \in 0..MaxRepairs : LeftAt(AfterText(n, Partial), Partial, k) \in 0..2
      BY <1>1, <2>1, RouteLeft DEF AfterText
    <2>4. QED
      BY <1>1, <2>2, <2>3, StoppedNearer
  <1>3. CASE TextReuse(n) \/ TextAccepted(n)
    <2> DEFINE g == TextDone(n)
               p == AfterText(n, g)
    <2>1. Return(p, g)
      BY <1>3 DEF TextReuse, TextAccepted
    <2>2. g \in GraphState /\ g.outcome \notin Stopped
      BY <1>1 DEF TextDone, GraphState, Outcomes, Stopped
    <2> HIDE DEF g
    <2>3. \A k \in 0..MaxRepairs :
             LeftAt(p, g, k) \in 0..(IF n = "plan_story" THEN NBeats * NodesPerBeat + 3
                                     ELSE NBeats * NodesPerBeat + 2)
      <3>1. NBeats * NodesPerBeat \in Nat
        BY <1>1, LeftNow
      <3>2. QED
        BY <1>1, <2>2, <3>1, RouteLeft DEF AfterText
    <2>4. NodesLeft = IF n = "plan_story" THEN NBeats * NodesPerBeat + 4
                      ELSE NBeats * NodesPerBeat + 3
      BY <1>1 DEF NodesLeft, TextNodes
    <2> HIDE DEF p
    <2>5. PICK k \in 0..MaxRepairs : NodesLeft' = LeftAt(p, g, k)
      BY <1>1, <2>1, ReturnLeft
    <2>6. NBeats * NodesPerBeat \in Nat
      BY <1>1, LeftNow
    <2>7. QED
      BY <2>3, <2>4, <2>5, <2>6 DEF Nearer
  <1>4. CASE TextRejected(n)
    <2>1. CASE tries + 1 < SchemaAttempts
      <3>1. /\ tries' = tries + 1 /\ UNCHANGED <<up, node, beat, gs>> /\ shot' = shot
        BY <1>4, <2>1 DEF TextRejected
      <3>2. NodesLeft' = NodesLeft
        BY <1>1, <3>1 DEF NodesLeft, NodesInBeat
      <3>3. StepsInNode = SchemaAttempts - tries /\ StepsInNode' = SchemaAttempts - (tries + 1)
        BY <1>1, <3>1 DEF StepsInNode, TextNodes, Commits
      <3>4. QED
        BY <1>1, <3>2, <3>3 DEF Nearer
    <2>2. CASE ~(tries + 1 < SchemaAttempts)
      <3>1. ~up'
        BY <1>4, <2>2 DEF TextRejected, Escape
      <3>2. QED
        BY <1>1, <3>1, StopNearer DEF Places, Nodes, TextNodes
    <2>3. QED
      BY <2>1, <2>2
  <1>5. QED
    BY <1>2, <1>3, <1>4 DEF TextNode

\* generate_shot.
LEMMA GenerateNearer ==
    ASSUME IInv, IInv', GenerateShot
    PROVE  Nearer
  <1>1. beat \in Beats /\ gs \in GraphState
    BY ShotFacts
  <1>2. CASE GenerateStop
    <2>1. up /\ node = "generate_shot" /\ Return(AfterGenerate(Partial, beat), Partial)
      BY <1>2 DEF GenerateStop, At, BudgetStop
    <2>2. \A k \in 0..MaxRepairs : LeftAt(AfterGenerate(Partial, beat), Partial, k) \in 0..2
      BY <1>1, ShotFacts, RouteLeft
    <2>3. QED
      BY <2>1, <2>2, StoppedNearer
  <1>3. CASE GenerateNoCapability
    BY <1>3, StopNearer DEF GenerateNoCapability, At, Escape, Places, Nodes, ShotNodes
  <1>4. ASSUME NEW sig \in Signatures, GenerateFailed(sig) PROVE Nearer
    <2> DEFINE g == ProviderFailed(sig)
    <2>1. up /\ node = "generate_shot" /\ Return(AfterGenerate(g, beat), g)
      BY <1>4 DEF GenerateFailed, At, ProviderFailure
    <2>2. g \in GraphState /\ g.outcome \in Stopped
      BY FailureFacts
    <2> HIDE DEF g
    <2>3. \A k \in 0..MaxRepairs : LeftAt(AfterGenerate(g, beat), g, k) \in 0..2
      BY <1>1, <2>2, RouteLeft
    <2>4. QED
      BY <2>1, <2>3, StoppedNearer
  <1>5. ASSUME NEW g \in GraphState, Return(AfterGenerate(g, beat), g), up,
               node \in {"generate_shot", "generate_commit"}
        PROVE  Nearer
    <2>1. PICK k \in 0..MaxRepairs : NodesLeft' = LeftAt(AfterGenerate(g, beat), g, k)
      BY <1>5, ReturnLeft
    <2>2. /\ NodesPerBeat = 4 + 3 * MaxRepairs /\ LaterBeats(beat) \in Nat
          /\ Repairs(k) \in 0..(3 * MaxRepairs)
      BY <1>1, <1>5, LeftNow, LeftFacts
    <2>3. NodesLeft = LaterBeats(beat) + 2 + NodesPerBeat
      BY <1>5 DEF NodesLeft, NodesInBeat, LaterBeats
    <2>4. \/ LeftAt(AfterGenerate(g, beat), g, k) \in 0..2
          \/ LeftAt(AfterGenerate(g, beat), g, k) = LaterBeats(beat) + 2 + (Repairs(k) + 3)
      BY <1>1, RouteLeft
    <2>5. QED
      BY <2>1, <2>2, <2>3, <2>4 DEF Nearer
  <1>6. CASE GenerateClip
    <2>1. up /\ node = "generate_shot"
      BY <1>6 DEF GenerateClip, At
    <2>2. CASE shot[beat].made
      <3> DEFINE prior == IF frame[beat] = 0 THEN 0 ELSE beat
                 g == [gs EXCEPT !.clip = 0, !.prior = prior]
      <3>1. Return(AfterGenerate(g, beat), g)
        BY <1>6, <2>2 DEF GenerateClip
      <3>2. g \in GraphState
        <4>1. prior \in 0..NBeats /\ 0 \in 0..MaxRepairs
          BY <1>1 DEF Beats
        <4> HIDE DEF prior
        <4>2. QED
          BY <1>1, <4>1 DEF GraphState
      <3> HIDE DEF g
      <3>3. QED
        BY <1>5, <2>1, <3>1, <3>2
    <2>3. CASE ~shot[beat].made
      BY <1>6, <2>1, <2>3, InsideNearer DEF GenerateClip, Commits
    <2>4. QED
      BY <2>2, <2>3
  <1>7. CASE GenerateCommit
    <2> DEFINE g == [gs EXCEPT !.clip = 0]
    <2>1. up /\ node = "generate_commit" /\ Return(AfterGenerate(g, beat), g)
      BY <1>7 DEF GenerateCommit, At
    <2>2. g \in GraphState
      BY <1>1 DEF GraphState
    <2> HIDE DEF g
    <2>3. QED
      BY <1>5, <2>1, <2>2
  <1>8. QED
    BY <1>2, <1>3, <1>4, <1>6, <1>7 DEF GenerateShot

\* chain_frame, also behind a repair that was stopped.
LEMMA ChainNearer ==
    ASSUME IInv, IInv', ChainFrame
    PROVE  Nearer
  <1> DEFINE last == beat = NBeats
             g == [gs EXCEPT !.prior = beat,
                             !.shots_completed = @ \/ last,
                             !.outcome = IF last /\ TerminalAfterChain
                                         THEN "SUCCESS" ELSE @]
  <1>1. /\ up /\ node = "chain_frame" /\ shot' = shot
        /\ Return(AfterChain(g, beat), g)
    BY DEF ChainFrame, At
  <1>2. beat \in Beats /\ gs \in GraphState
    BY ShotFacts
  <1>3. /\ g \in GraphState
        /\ g.outcome \in Stopped <=> gs.outcome \in Stopped /\ ~(last /\ TerminalAfterChain)
    <2>1. beat \in 0..NBeats
      BY <1>2 DEF Beats
    <2>2. g \in GraphState
      BY <1>2, <2>1 DEF GraphState, Outcomes
    <2>3. g.outcome = IF last /\ TerminalAfterChain THEN "SUCCESS" ELSE gs.outcome
      BY <1>2 DEF GraphState
    <2>4. QED
      BY <2>2, <2>3 DEF Stopped
  <1> HIDE DEF g
  <1>4. PICK k \in 0..MaxRepairs : /\ NodesLeft' = LeftAt(AfterChain(g, beat), g, k)
                                  /\ k = shot'[AfterChain(g, beat).beat].repair_count
    BY <1>1, ReturnLeft
  <1>5. /\ LaterBeats(beat) \in Nat
        /\ Repairs(shot[beat].repair_count) \in 0..(3 * MaxRepairs)
    BY <1>1, LeftNow
  <1>6. CASE gs.outcome \in Stopped
    <2>1. NodesLeft = 3
      BY <1>1, <1>6 DEF NodesLeft
    <2>2. CASE g.outcome \in Stopped
      <3>1. LeftAt(AfterChain(g, beat), g, k) \in 0..2
        BY <1>2, <1>3, <2>2, RouteLeft
      <3>2. QED
        BY <1>4, <2>1, <3>1 DEF Nearer
    <2>3. CASE g.outcome \notin Stopped
      <3>1. AfterChain(g, beat) = Place("end", beat)
        BY <1>3, <1>6, <2>3 DEF AfterChain, NextAfterShot, TerminalAfterChain, Stopped
      <3>2. NodesLeft' = 0
        BY <1>1, <3>1 DEF Return, Place, NodesLeft
      <3>3. QED
        BY <2>1, <3>2 DEF Nearer
    <2>4. QED
      BY <2>2, <2>3
  <1>7. CASE gs.outcome \notin Stopped
    <2>1. g.outcome \notin Stopped
      BY <1>3, <1>7
    <2>2. NodesLeft = LaterBeats(beat) + 2 + (Repairs(shot[beat].repair_count) + 3)
      BY <1>1, <1>7 DEF NodesLeft, NodesInBeat, LaterBeats, Repairs
    <2>3. \/ LeftAt(AfterChain(g, beat), g, k) \in 0..(LaterBeats(beat) + 2)
          \/ /\ AfterChain(g, beat).beat = beat
             /\ LeftAt(AfterChain(g, beat), g, k) = LaterBeats(beat) + 2 + (Repairs(k) + 2)
      BY <1>2, <1>3, <2>1, RouteLeft
    <2>4. CASE LeftAt(AfterChain(g, beat), g, k) \in 0..(LaterBeats(beat) + 2)
      BY <1>4, <1>5, <2>2, <2>4 DEF Nearer
    <2>5. CASE /\ AfterChain(g, beat).beat = beat
               /\ LeftAt(AfterChain(g, beat), g, k) = LaterBeats(beat) + 2 + (Repairs(k) + 2)
      <3>1. k = shot[beat].repair_count
        BY <1>1, <1>4, <2>5
      <3>2. QED
        BY <1>4, <1>5, <2>2, <2>5, <3>1 DEF Nearer
    <2>6. QED
      BY <2>3, <2>4, <2>5
  <1>8. QED
    BY <1>6, <1>7

\* qc_score.
LEMMA QcNearer ==
    ASSUME IInv, IInv', Qc
    PROVE  Nearer
  <1>1. beat \in Beats /\ gs \in GraphState
    BY ShotFacts
  <1>2. CASE QcStop
    <2>1. up /\ node = "qc_score" /\ Return(AfterQc(Partial, beat), Partial)
      BY <1>2 DEF QcStop, At, BudgetStop
    <2>2. \A k \in 0..MaxRepairs : LeftAt(AfterQc(Partial, beat), Partial, k) \in 0..2
      BY <1>1, ShotFacts, RouteLeft
    <2>3. QED
      BY <2>1, <2>2, StoppedNearer
  <1>3. CASE QcInvalid
    BY <1>3, StopNearer DEF QcInvalid, At, Escape, Places, Nodes, ShotNodes
  <1>4. ASSUME NEW s \in Scores, QcScored(s) PROVE Nearer
    BY <1>4, InsideNearer DEF QcScored, At, Commits
  <1>5. CASE QcCommit
    <2> DEFINE passed == verdict >= PassScore
               last == passed /\ beat = NBeats /\ ~AssembleDeliver
               g == [gs EXCEPT !.qc_passed = passed, !.clip = 0,
                               !.repair_count = shot[beat].repair_count,
                               !.outcome = IF last THEN "SUCCESS" ELSE @,
                               !.shots_completed = @ \/ last]
    <2>1. up /\ node = "qc_commit" /\ Return(AfterQc(g, beat), g)
      BY <1>5 DEF QcCommit, At
    <2>2. verdict \in Nat /\ shot[beat].repair_count \in 0..MaxRepairs
      BY <2>1, LeftNow DEF IInv, TypeOK, TaskTypeOK
    <2>3. passed \in BOOLEAN /\ last \in BOOLEAN
      BY <2>2
    <2>4. g \in GraphState
      <3>1. (IF last THEN "SUCCESS" ELSE gs.outcome) \in Outcomes
        BY <1>1 DEF GraphState, Outcomes
      <3>2. (gs.shots_completed \/ last) \in BOOLEAN /\ 0 \in 0..MaxRepairs
        OBVIOUS
      <3> HIDE DEF last, passed
      <3>3. QED
        BY <1>1, <2>2, <2>3, <3>1, <3>2 DEF GraphState
    <2> HIDE DEF g
    <2>5. PICK k \in 0..MaxRepairs : /\ NodesLeft' = LeftAt(AfterQc(g, beat), g, k)
                                    /\ k = shot'[AfterQc(g, beat).beat].repair_count
      BY <2>1, ReturnLeft
    <2>6. /\ LaterBeats(beat) \in Nat
          /\ Repairs(shot[beat].repair_count) \in 0..(3 * MaxRepairs)
      BY <2>1, LeftNow
    <2>7. NodesLeft = LaterBeats(beat) + 2 + (Repairs(shot[beat].repair_count) + 2)
      BY <2>1 DEF NodesLeft, NodesInBeat, LaterBeats, Repairs
    <2>8. \/ LeftAt(AfterQc(g, beat), g, k) \in 0..2
          \/ LeftAt(AfterQc(g, beat), g, k) \in 0..(LaterBeats(beat) + 2)
          \/ /\ AfterQc(g, beat).beat = beat
             /\ LeftAt(AfterQc(g, beat), g, k) \in
                  0..(LaterBeats(beat) + 2 + (Repairs(k) + 1))
      BY <1>1, <2>4, RouteLeft
    <2>9. CASE LeftAt(AfterQc(g, beat), g, k) \in 0..2
               \/ LeftAt(AfterQc(g, beat), g, k) \in 0..(LaterBeats(beat) + 2)
      BY <2>5, <2>6, <2>7, <2>9 DEF Nearer
    <2>10. CASE /\ AfterQc(g, beat).beat = beat
                /\ LeftAt(AfterQc(g, beat), g, k) \in
                     0..(LaterBeats(beat) + 2 + (Repairs(k) + 1))
      <3>1. shot'[beat].repair_count = shot[beat].repair_count
        BY <1>1, <1>5 DEF QcCommit, IInv, TypeOK, StoreTypeOK, ShotRow
      <3>2. k = shot[beat].repair_count
        BY <2>5, <2>10, <3>1
      <3>3. QED
        BY <2>5, <2>6, <2>7, <2>10, <3>2 DEF Nearer
    <2>11. QED
      BY <2>8, <2>9, <2>10
  <1>6. QED
    BY <1>2, <1>3, <1>4, <1>5 DEF Qc

\* repair_shot: a stopped one still takes its frame, and then goes to the end.
LEMMA RepairNearer ==
    ASSUME IInv, IInv', RepairShot
    PROVE  Nearer
  <1> DEFINE p == Place("chain_frame", beat)
  <1>1. /\ up /\ node \in {"repair_shot", "repair_commit"}
        /\ shot[beat].repair_count < MaxRepairs
    BY DEF RepairShot, RepairStop, RepairFailed, RepairClip, RepairCommit, At, IInv,
           RepairRoom
  <1>2. beat \in Beats /\ gs \in GraphState /\ p.beat = beat
    BY ShotFacts DEF Place
  <1>3. /\ NodesLeft = LaterBeats(beat) + 2 + (Repairs(shot[beat].repair_count) + 1)
        /\ LaterBeats(beat) \in Nat
        /\ shot[beat].repair_count \in 0..MaxRepairs
        /\ Repairs(shot[beat].repair_count) = Repairs(shot[beat].repair_count + 1) + 3
        /\ Repairs(shot[beat].repair_count + 1) \in Nat
    <2>1. NodesLeft = LaterBeats(beat) + 2 + (Repairs(shot[beat].repair_count) + 1)
      BY <1>1 DEF NodesLeft, NodesInBeat, LaterBeats, Repairs
    <2>2. shot[beat].repair_count \in 0..MaxRepairs /\ LaterBeats(beat) \in Nat
      BY <1>1, LeftNow
    <2>3. QED
      BY <1>1, <2>1, <2>2 DEF Repairs
  <1>4. ASSUME NEW g, g.outcome \in Stopped, Return(p, g)
        PROVE  Nearer
    <2>1. NodesLeft' = 3
      BY <1>1, <1>4 DEF Return, Place, NodesLeft
    <2>2. QED
      BY <1>3, <2>1 DEF Nearer
  <1>5. CASE RepairStop
    BY <1>4, <1>5, ShotFacts DEF RepairStop, BudgetStop
  <1>6. ASSUME NEW sig \in Signatures, RepairFailed(sig) PROVE Nearer
    BY <1>4, <1>6, FailureFacts DEF RepairFailed, ProviderFailure
  <1>7. CASE RepairClip
    BY <1>7, InsideNearer DEF RepairClip, At, Commits
  <1>8. CASE RepairCommit
    <2> DEFINE n == shot[beat].repair_count + 1
               g == [gs EXCEPT !.clip = n, !.qc_passed = FALSE, !.repair_count = n]
    <2>1. /\ node = "repair_commit" /\ Return(p, g)
          /\ shot' = [shot EXCEPT ![beat].repair_count = n]
      BY <1>8 DEF RepairCommit, At
    <2>2. shot'[beat].repair_count = n
      BY <1>2, <2>1 DEF IInv, TypeOK, StoreTypeOK, ShotRow
    <2>3. PICK k \in 0..MaxRepairs : /\ NodesLeft' = LeftAt(p, g, k)
                                    /\ k = shot'[p.beat].repair_count
      BY <1>1, <2>1, ReturnLeft
    <2>4. k = n
      BY <1>2, <2>2, <2>3
    <2> HIDE DEF g, n
    <2>5. PICK s \in BOOLEAN : NodesLeft' = Left("chain_frame", beat, s, n)
      <3> DEFINE s == g.outcome \in Stopped
      <3>1. NodesLeft' = Left("chain_frame", beat, s, n)
        BY <2>3, <2>4 DEF LeftAt, Place
      <3>2. s \in BOOLEAN
        OBVIOUS
      <3> HIDE DEF s
      <3>3. QED
        BY <3>1, <3>2
    <2>6. NodesLeft' = 3 \/ NodesLeft' = LaterBeats(beat) + 2 + (Repairs(n) + 3)
      <3>1. n \in 0..MaxRepairs
        BY <2>3, <2>4
      <3>2. QED
        BY <1>2, <2>5, <3>1, LeftFacts
    <2>7. QED
      BY <1>3, <2>6 DEF Nearer, n
  <1>9. QED
    BY <1>5, <1>6, <1>7, <1>8 DEF RepairShot

\* flag_degraded, assemble and deliver.
LEMMA LastNearer ==
    ASSUME IInv, IInv', FlagDegraded \/ Assemble \/ Deliver
    PROVE  Nearer
  <1>1. beat \in Beats /\ gs \in GraphState /\ up
    BY ShotFacts DEF FlagDegraded, Assemble, Deliver, At
  <1>2. CASE FlagDegraded
    <2> DEFINE last == beat = NBeats /\ ~AssembleDeliver
               g == [gs EXCEPT !.qc_passed = FALSE, !.job_degraded = TRUE,
                               !.outcome = IF last THEN "PARTIAL" ELSE @,
                               !.shots_completed = @ \/ last]
    <2>1. node = "flag_degraded" /\ Return(NextAfterShot(beat), g)
      BY <1>2 DEF FlagDegraded, At, AfterFlag
    <2>2. g \in GraphState
      BY <1>1 DEF GraphState, Outcomes, Stopped
    <2> HIDE DEF g
    <2>3. PICK k \in 0..MaxRepairs : NodesLeft' = LeftAt(NextAfterShot(beat), g, k)
      BY <1>1, <2>1, ReturnLeft
    <2>4. NodesLeft' \in 0..(LaterBeats(beat) + 2)
      BY <1>1, <2>2, <2>3, RouteLeft
    <2>5. NodesLeft = LaterBeats(beat) + 2 + 1 /\ LaterBeats(beat) \in Nat
      BY <1>1, <2>1, LeftNow DEF NodesLeft, NodesInBeat, LaterBeats
    <2>6. QED
      BY <2>4, <2>5 DEF Nearer
  <1>3. CASE Assemble
    <2>1. node = "assemble" /\ node' = "deliver" /\ up'
      BY <1>1, <1>3 DEF Assemble, At, Return, Place
    <2>2. NodesLeft = 2 /\ NodesLeft' = 1
      BY <1>1, <2>1 DEF NodesLeft
    <2>3. QED
      BY <2>2 DEF Nearer
  <1>4. CASE Deliver
    <2>1. node = "deliver" /\ node' = "end" /\ up'
      BY <1>1, <1>4 DEF Deliver, At, Return, Place
    <2>2. NodesLeft = 1 /\ NodesLeft' = 0
      BY <1>1, <2>1 DEF NodesLeft
    <2>3. QED
      BY <2>2 DEF Nearer
  <1>5. QED
    BY <1>2, <1>3, <1>4

\* The end of the graph and an error in a node.
LEMMA EndNearer ==
    ASSUME IInv, Finish \/ NodeRaises
    PROVE  Nearer
  <1>1. up /\ ~up' /\ node \in Places \ {"done", "escaped"}
    BY DEF Finish, NodeRaises, At, Escape, Places, Nodes, Commits, TextNodes, ShotNodes
  <1>2. QED
    BY <1>1, StopNearer

\* A run ends: it completes at most NBeats * NodesPerBeat + 4 nodes, whatever
\* scores, failures and caps it meets, for every number of beats and repairs.
THEOREM RunEnds == Spec => RunAdvances
  <1>1. ASSUME IInv, [Next]_vars, TaskStep
        PROVE  /\ NodesLeft <= NBeats * NodesPerBeat + 4
               /\ Nearer
    <2>1. IInv'
      BY <1>1, NextInv
    <2>2. NodesLeft <= NBeats * NodesPerBeat + 4
      <3>1. NBeats * NodesPerBeat \in Nat
        BY <1>1, Later DEF IInv, TypeOK, TaskTypeOK
      <3>2. QED
        BY <1>1, <3>1, LeftBounds
    <2>3. Nearer
      BY <1>1, <2>1, TextNearer, GenerateNearer, ChainNearer, QcNearer, RepairNearer,
         LastNearer, EndNearer DEF TaskStep
    <2>4. QED
      BY <2>2, <2>3
  <1>2. IInv /\ [Next]_vars =>
          [TaskStep => /\ NodesLeft <= NBeats * NodesPerBeat + 4
                       /\ \/ NodesLeft' < NodesLeft
                          \/ NodesLeft' = NodesLeft /\ StepsInNode' < StepsInNode]_vars
    BY <1>1 DEF Nearer
  <1>3. QED
    BY <1>2, Invariant, PTL DEF Spec, RunAdvances
=============================================================================
