-------------------------- MODULE HiggsfieldClient --------------------------
(***************************************************************************)
(* generate_clip of app/providers/higgsfield/adapter.py: the calls of all  *)
(* jobs share one MCP client, with one session and one initialized flag.   *)
(* A POST is two steps, for other calls run while its answer is awaited.   *)
(* The server is external: it opens and expires sessions and makes clips.  *)
(***************************************************************************)
EXTENDS Integers

CONSTANTS
    Calls,          \* calls of generate_clip
    MaxAttempts,    \* _MAX_ATTEMPTS of one POST
    MaxPolls,       \* attempts of _await_job
    MaxFaults,      \* bound on lost, failed and malformed answers
    MaxExpiries     \* bound on the sessions the server expires

ASSUME CountAssumption == MaxAttempts \in Nat \ {0} /\ MaxPolls \in Nat \ {0}
ASSUME BoundAssumption == MaxFaults \in Nat /\ MaxExpiries \in Nat

VARIABLES
    server,     \* in which answers it names the session: "none" has no
                \* sessions, "initialize" and "every" follow the protocol
    live, opened,       \* its live sessions, and how many it ever opened
    session, initialized, tools,    \* of the client; no session is 0
    call,       \* where each call is
    bought,     \* generations the server made for each call
    overlapped, \* some call began before another had ended
    faults, expiries

vars == <<server, live, opened, session, initialized, tools, call, bought,
          overlapped, faults, expiries>>
serverVars == <<server, live, opened, expiries>>
clientVars == <<session, initialized, tools>>

-----------------------------------------------------------------------------
\* What a call is after: the tools of the client's calls in their order, and
\* the download.
Goals == {"tools", "list", "get", "generate", "status", "display", "fetch"}

\* The POST a goal is at; at "check" it has not looked at initialized yet.
Posts == {"check", "initialize", "notify", "call"}

Unsent == -1
Codes == {"PROVIDER_RETRYABLE", "PROVIDER_REJECTED", "PROVIDER_INVALID_RESPONSE"}
Results == {"none", "clip", "ValueError"} \cup Codes

Call == [goal: {"idle", "done"} \cup Goals, post: Posts,
         sent: {Unsent} \cup Nat,       \* the session of the POST in flight
         attempt: 1..MaxAttempts, polls: 0..(MaxPolls - 1),
         result: Results]

TypeOK ==
    /\ server \in {"none", "initialize", "every"}
    /\ opened \in Nat /\ live \subseteq 1..opened
    /\ session \in 0..opened /\ initialized \in BOOLEAN /\ tools \in BOOLEAN
    /\ call \in [Calls -> Call]
    /\ \A c \in Calls : /\ call[c].sent <= opened
                        /\ call[c].result # "none" <=> call[c].goal = "done"
    /\ bought \in [Calls -> 0..MaxAttempts]
    /\ overlapped \in BOOLEAN
    /\ faults \in 0..MaxFaults /\ expiries \in 0..MaxExpiries

NewCall == [goal |-> "idle", post |-> "check", sent |-> Unsent, attempt |-> 1,
            polls |-> 0, result |-> "none"]

Init ==
    /\ server \in {"none", "initialize", "every"}
    /\ live = {} /\ opened = 0
    /\ session = 0 /\ initialized = FALSE /\ tools = FALSE
    /\ call = [c \in Calls |-> NewCall] /\ bought = [c \in Calls |-> 0]
    /\ overlapped = FALSE /\ faults = 0 /\ expiries = 0

Active(c) == call[c].goal \in Goals
Posting(c) == Active(c) /\ call[c].goal # "fetch"
InFlight(c) == call[c].sent # Unsent

\* Call c goes on to the next thing it is after, or to the next POST for it.
Pursue(c, goal) ==
    call' = [call EXCEPT ![c].goal = goal, ![c].post = "check",
                         ![c].sent = Unsent, ![c].attempt = 1, ![c].polls = 0]
NextPost(c, post) ==
    call' = [call EXCEPT ![c].post = post, ![c].sent = Unsent, ![c].attempt = 1]
End(c, result) ==
    call' = [call EXCEPT ![c] = [NewCall EXCEPT !.goal = "done", !.result = result]]

-----------------------------------------------------------------------------
(***************************************************************************)
(* Sending.                                                                *)
(***************************************************************************)

Begin(c) ==
    /\ call[c].goal = "idle"
    /\ Pursue(c, "tools")
    /\ overlapped' = (overlapped \/ \E d \in Calls : Active(d))
    /\ UNCHANGED <<serverVars, clientVars, bought, faults>>

\* tool_input_schema of an initialized client that knows the tools.
KnowsTools(c) ==
    /\ call[c].goal = "tools" /\ call[c].post = "check" /\ initialized /\ tools
    /\ Pursue(c, "list")
    /\ UNCHANGED <<serverVars, clientVars, bought, overlapped, faults>>

\* _ensure_initialized, and the headers of _post_once.
Send(c) ==
    LET post == IF call[c].post # "check" THEN call[c].post
                ELSE IF initialized THEN "call" ELSE "initialize"
    IN  /\ Posting(c) /\ ~InFlight(c)
        /\ ~(call[c].goal = "tools" /\ call[c].post = "check" /\ initialized /\ tools)
        /\ call' = [call EXCEPT ![c].post = post, ![c].sent = session]
        /\ UNCHANGED <<serverVars, clientVars, bought, overlapped, faults>>

-----------------------------------------------------------------------------
(***************************************************************************)
(* Failures.                                                               *)
(***************************************************************************)

\* An AppError leaves call_tool: the catalog, the constraints and the display
\* are optional.
Raise(c, code) ==
    CASE call[c].goal \in {"list", "get"} -> Pursue(c, "generate")
      [] call[c].goal = "display" -> Pursue(c, "fetch")
      [] OTHER -> End(c, code)

\* Mutant: a status request that failed starts the whole call again.
RestartsCall(c, code) ==
    IF code = "PROVIDER_RETRYABLE" /\ call[c].attempt < MaxAttempts
    THEN call' = [call EXCEPT ![c].sent = Unsent, ![c].attempt = call[c].attempt + 1]
    ELSE IF call[c].goal = "status" THEN Pursue(c, "generate")
    ELSE Raise(c, code)

\* _http_post: the same payload again after a backoff.
Fails(c, code) ==
    IF code = "PROVIDER_RETRYABLE" /\ call[c].attempt < MaxAttempts
    THEN call' = [call EXCEPT ![c].sent = Unsent, ![c].attempt = call[c].attempt + 1]
    ELSE Raise(c, code)

\* The server carries out the request, whatever becomes of the answer.
Makes(c) ==
    IF call[c].goal = "generate" /\ call[c].post = "call"
    THEN bought' = [bought EXCEPT ![c] = bought[c] + 1]
    ELSE UNCHANGED bought

\* Sessions the server accepts a request under.
Known(c) ==
    \/ server = "none"
    \/ call[c].sent \in live
    \/ call[c].sent = 0 /\ call[c].post = "initialize"

\* The server opens a session and its answer names it.
Opens ==
    /\ opened' = opened + 1 /\ session' = opened + 1
    /\ live' = live \cup {opened + 1}

\* _post_once takes the session an answer names before it looks at the status.
NamedAllTheSame(c) ==
    \/ UNCHANGED <<session, live, opened>>
    \/ server # "none" /\ Known(c) /\ call[c].post = "initialize" /\ Opens
    \/ /\ server = "every" /\ call[c].sent \in live
       /\ session' = call[c].sent /\ UNCHANGED <<live, opened>>

\* No answer, an answer that blames the server, an error or nonsense.
Faulty(c) ==
    /\ Posting(c) /\ InFlight(c) /\ faults < MaxFaults
    /\ faults' = faults + 1
    /\ \/ Known(c) /\ Makes(c)
       \/ UNCHANGED bought
    /\ NamedAllTheSame(c)
    /\ \E code \in Codes : Fails(c, code)
    /\ UNCHANGED <<server, expiries, initialized, tools, overlapped>>

\* Mutant: only the session is forgotten, and the client stays initialized.
StaysInitialized(c) ==
    /\ Posting(c) /\ call[c].sent > 0 /\ call[c].sent \notin live
    /\ session' = 0
    /\ Fails(c, IF session = 0 THEN "PROVIDER_REJECTED" ELSE "PROVIDER_RETRYABLE")
    /\ UNCHANGED <<serverVars, initialized, tools, bought, overlapped, faults>>

\* Mutant: a POST sent again under a new session is not counted.
ExpiredUncounted(c) ==
    /\ Posting(c) /\ call[c].sent > 0 /\ call[c].sent \notin live
    /\ IF session # 0
       THEN /\ session' = 0 /\ initialized' = FALSE
            /\ call' = [call EXCEPT ![c].sent = Unsent]
       ELSE /\ Fails(c, "PROVIDER_REJECTED")
            /\ UNCHANGED <<session, initialized>>
    /\ UNCHANGED <<serverVars, tools, bought, overlapped, faults>>

\* 404: the first answer of this kind resets the client, whatever session it
\* has by now; a client without a session takes it for a rejection.
Expired(c) ==
    /\ Posting(c) /\ call[c].sent > 0 /\ call[c].sent \notin live
    /\ IF session # 0
       THEN /\ session' = 0 /\ initialized' = FALSE
            /\ Fails(c, "PROVIDER_RETRYABLE")
       ELSE /\ Fails(c, "PROVIDER_REJECTED")
            /\ UNCHANGED <<session, initialized>>
    /\ UNCHANGED <<serverVars, tools, bought, overlapped, faults>>

\* 400: the server has sessions and the request names none.
NoSession(c) ==
    /\ Posting(c) /\ call[c].sent = 0 /\ ~Known(c)
    /\ Fails(c, "PROVIDER_REJECTED")
    /\ UNCHANGED <<serverVars, clientVars, bought, overlapped, faults>>

-----------------------------------------------------------------------------
(***************************************************************************)
(* Answers.                                                                *)
(***************************************************************************)

Accepted(c) == Posting(c) /\ InFlight(c) /\ Known(c)

InitializeDone(c) ==
    /\ Accepted(c) /\ call[c].post = "initialize"
    /\ IF server = "none" THEN UNCHANGED <<session, live, opened>> ELSE Opens
    /\ NextPost(c, "notify")
    /\ UNCHANGED <<server, initialized, tools, bought, overlapped, faults, expiries>>

\* A server that names the session in every answer it gives under one.
Named(c) ==
    session' = IF server = "every" THEN call[c].sent ELSE session

\* The last await of _ensure_initialized; what another call reset meanwhile is
\* not looked at again.
NotifyDone(c) ==
    /\ Accepted(c) /\ call[c].post = "notify"
    /\ Named(c) /\ initialized' = TRUE
    /\ IF call[c].goal = "tools" /\ tools THEN Pursue(c, "list")
       ELSE NextPost(c, "call")
    /\ UNCHANGED <<serverVars, tools, bought, overlapped, faults>>

\* A tool answered.
Answered(c, goal) ==
    /\ Accepted(c) /\ call[c].post = "call" /\ call[c].goal = goal
    /\ Named(c) /\ Makes(c)
    /\ UNCHANGED <<serverVars, initialized, overlapped, faults>>

ToolsListed(c) == Answered(c, "tools") /\ tools' = TRUE /\ Pursue(c, "list")

\* An empty catalog needs no constraints.
CatalogListed(c) ==
    /\ Answered(c, "list") /\ UNCHANGED tools
    /\ Pursue(c, "get") \/ Pursue(c, "generate")

\* A duration that is no number is not an AppError.
ConstraintsGot(c) ==
    /\ Answered(c, "get") /\ UNCHANGED tools
    /\ Pursue(c, "generate") \/ End(c, "ValueError")

\* The answer holds a clip, the id of a generation, neither, or isError.
Submitted(c) ==
    /\ Answered(c, "generate") /\ UNCHANGED tools
    /\ \/ Pursue(c, "fetch") \/ Pursue(c, "status")
       \/ \E code \in Codes \ {"PROVIDER_RETRYABLE"} : End(c, code)

\* Mutant: polling goes on until the generation is over.
PollsForEver(c) ==
    /\ Answered(c, "status") /\ UNCHANGED tools
    /\ \/ Pursue(c, "display")
       \/ End(c, "PROVIDER_REJECTED")
       \/ Pursue(c, "status")

\* _await_job: the generation is done, has failed, or is looked at again
\* until the polls are used up.
Polled(c) ==
    /\ Answered(c, "status") /\ UNCHANGED tools
    /\ \/ Pursue(c, "display")
       \/ End(c, "PROVIDER_REJECTED")
       \/ IF call[c].polls + 1 < MaxPolls
          THEN call' = [call EXCEPT ![c].polls = call[c].polls + 1,
                            ![c].post = "check", ![c].sent = Unsent, ![c].attempt = 1]
          ELSE End(c, "PROVIDER_RETRYABLE")

Displayed(c) == Answered(c, "display") /\ UNCHANGED tools /\ Pursue(c, "fetch")

\* _extract_video_bytes and _download, without a retry.
Fetch(c) ==
    /\ call[c].goal = "fetch"
    /\ \E result \in {"clip", "PROVIDER_RETRYABLE", "PROVIDER_INVALID_RESPONSE"} :
          End(c, result)
    /\ UNCHANGED <<serverVars, clientVars, bought, overlapped, faults>>

-----------------------------------------------------------------------------
\* The server forgets a session.
Expire(s) ==
    /\ expiries < MaxExpiries
    /\ expiries' = expiries + 1 /\ live' = live \ {s}
    /\ UNCHANGED <<server, opened, clientVars, call, bought, overlapped, faults>>

Receive(c) ==
    \/ Expired(c) \/ NoSession(c)
    \/ InitializeDone(c) \/ NotifyDone(c) \/ ToolsListed(c) \/ CatalogListed(c)
    \/ ConstraintsGot(c) \/ Submitted(c) \/ Polled(c) \/ Displayed(c)

Step(c) == KnowsTools(c) \/ Send(c) \/ Receive(c) \/ Fetch(c)

Next ==
    \/ \E c \in Calls : Begin(c) \/ Step(c) \/ Faulty(c)
    \/ \E s \in live : Expire(s)

Spec == Init /\ [][Next]_vars

\* The client's timeouts end every wait: a POST is answered or fails.
FairSpec == Spec /\ \A c \in Calls : WF_vars(Step(c))

-----------------------------------------------------------------------------
(***************************************************************************)
(* Properties.                                                             *)
(***************************************************************************)

\* A client that counts as initialized has a session, if the server has any.
\* Where the server names it only when it opens one, a late 404 may reset the
\* client between initialize and the end of _ensure_initialized, and no later
\* call repairs it: that takes two calls at a time.
SessionKept ==
    initialized /\ session = 0 /\ server # "none" =>
        server = "initialize" /\ overlapped

\* Each generate_clip buys as ClipPurchase says: never again once a submit is
\* acknowledged, at most MaxAttempts times, and no clip without a purchase.
Order(c) ==
    CASE call[c].result = "clip" -> "clip"
      [] call[c].goal = "done" /\ call[c].result # "clip" -> "failed"
      [] call[c].goal \in {"status", "display", "fetch"} -> "placed"
      [] OTHER -> "open"

Purchase == INSTANCE ClipPurchase WITH
    Calls <- Calls, MaxAttempts <- MaxAttempts,
    bought <- bought, order <- [c \in Calls |-> Order(c)]

BuysAsPromised == Purchase!Spec

\* What a call may still turn to, the turn under way included: the goals from
\* its own on, with a turn for each poll that is left.
TurnsLeft(c) ==
    LET goal == call[c].goal
    IN  CASE goal = "tools"    -> MaxPolls + 6
          [] goal = "list"     -> MaxPolls + 5
          [] goal = "get"      -> MaxPolls + 4
          [] goal = "generate" -> MaxPolls + 3
          [] goal = "status"   -> MaxPolls + 2 - call[c].polls
          [] goal = "display"  -> 2
          [] goal = "fetch"    -> 1
          [] goal = "done"     -> 0
          [] goal = "idle"     -> MaxPolls + 7

\* What it may still send and receive in this turn: MaxAttempts of the POST it
\* is at, and of each that _ensure_initialized and the tool still need.
StepsInTurn(c) ==
    LET later == CASE call[c].post \in {"check", "initialize"} -> 2
                   [] call[c].post = "notify"                  -> 1
                   [] call[c].post = "call"                    -> 0
    IN  2 * later * MaxAttempts
        + 2 * (MaxAttempts - call[c].attempt) + (IF InFlight(c) THEN 1 ELSE 2)

\* A call goes only forward: whatever the server answers and the other calls do
\* to the session, no step sends it back to a goal, to a POST of the handshake
\* or to an attempt it has had.  So it ends after at most 3 * MaxAttempts POSTs
\* in each of the MaxPolls + 5 turns that send any.
GoesForward ==
    [][\A c \in Calls :
          call'[c] # call[c] =>
              \/ TurnsLeft(c)' < TurnsLeft(c)
              \/ TurnsLeft(c)' = TurnsLeft(c) /\ StepsInTurn(c)' < StepsInTurn(c)]_vars

\* generate_clip comes to an end, whatever the server answers: no call is under
\* way for ever.
CallEnds == \A c \in Calls : []<>~Active(c)
=============================================================================
