---------------------- MODULE HiggsfieldClient_proofs ----------------------
(***************************************************************************)
(* Proofs about HiggsfieldClient for any number of calls, attempts, polls, *)
(* faults and expired sessions.                                            *)
(***************************************************************************)
EXTENDS HiggsfieldClient, TLAPS

-----------------------------------------------------------------------------
(***************************************************************************)
(* The inductive invariant.                                                *)
(***************************************************************************)

\* A POST is counted from its first attempt on, and no generation is bought
\* but by the attempts of the submit.
AttemptsCounted ==
    \A c \in Calls :
        /\ call[c].post = "check" => call[c].attempt = 1 /\ ~InFlight(c)
        /\ call[c].goal \in {"idle", "tools", "list", "get"} => bought[c] = 0
        /\ call[c].goal = "generate" =>
              IF call[c].post = "call" THEN bought[c] < call[c].attempt
              ELSE bought[c] = 0

\* As long as calls do not overlap, one is active at most and the session it
\* posts under is the client's.
OneAtATime ==
    ~overlapped =>
        \A c, d \in Calls :
            /\ Active(c) /\ Active(d) => c = d
            /\ Active(c) /\ InFlight(c) /\ call[c].sent > 0 =>
                  session = call[c].sent

IInv == TypeOK /\ AttemptsCounted /\ OneAtATime /\ SessionKept

USE CountAssumption, BoundAssumption

\* The first state satisfies the invariant.
LEMMA InitInv == Init => IInv
  <1> SUFFICES ASSUME Init PROVE IInv
    OBVIOUS
  <1>1. NewCall \in Call
    BY DEF NewCall, Call, Goals, Posts, Results, Unsent
  <1>2. \A c \in Calls : call[c] = NewCall /\ bought[c] = 0
    BY DEF Init
  <1>3. TypeOK
    <2>1. NewCall.sent <= 0 /\ NewCall.result = "none" /\ NewCall.goal = "idle"
      BY DEF NewCall, Unsent
    <2>2. /\ bought \in [Calls -> 0..MaxAttempts] /\ call \in [Calls -> Call]
          /\ faults \in 0..MaxFaults /\ expiries \in 0..MaxExpiries
      BY <1>1 DEF Init
    <2>3. /\ server \in {"none", "initialize", "every"} /\ opened = 0 /\ live = {}
          /\ session = 0 /\ initialized = FALSE /\ tools = FALSE
          /\ overlapped = FALSE
      BY DEF Init
    <2>4. ASSUME NEW c \in Calls
          PROVE  /\ call[c].sent <= opened
                 /\ call[c].result # "none" <=> call[c].goal = "done"
      BY <1>2, <2>1, <2>3
    <2>5. bought \in [Calls -> 0..MaxAttempts]
      BY DEF Init
    <2>6. opened \in Nat /\ live \subseteq 1..opened /\ session \in 0..opened
      BY <2>3
    <2>7. QED
      BY <2>2, <2>3, <2>4, <2>5, <2>6 DEF TypeOK
  <1>4. AttemptsCounted /\ OneAtATime /\ SessionKept
    BY <1>2 DEF Init, AttemptsCounted, OneAtATime, SessionKept, NewCall, Active,
                InFlight, Goals, Unsent
  <1>5. QED
    BY <1>3, <1>4 DEF IInv

-----------------------------------------------------------------------------
(***************************************************************************)
(* How a call moves.                                                       *)
(***************************************************************************)

\* The steps of a call.
Progress(c) == Begin(c) \/ Step(c) \/ Faulty(c)

\* What an action makes of the record of its call.
Pursued(k, goal) == [k EXCEPT !.goal = goal, !.post = "check", !.sent = Unsent,
                              !.attempt = 1, !.polls = 0]
Posted(k, post) == [k EXCEPT !.post = post, !.sent = Unsent, !.attempt = 1]
Ended(result) == [NewCall EXCEPT !.goal = "done", !.result = result]
Sent(k, post, s) == [k EXCEPT !.post = post, !.sent = s]
Retried(k) == [k EXCEPT !.sent = Unsent, !.attempt = k.attempt + 1]
PolledAgain(k) == [k EXCEPT !.polls = k.polls + 1, !.post = "check",
                            !.sent = Unsent, !.attempt = 1]

\* Each of them is a call's record again.
LEMMA Records ==
    ASSUME NEW k \in Call
    PROVE  /\ \A goal \in Goals : Pursued(k, goal) \in Call
           /\ \A post \in Posts : Posted(k, post) \in Call
           /\ \A result \in Results : Ended(result) \in Call
           /\ \A post \in Posts, s \in Nat : Sent(k, post, s) \in Call
           /\ k.attempt < MaxAttempts => Retried(k) \in Call
           /\ k.polls + 1 < MaxPolls => PolledAgain(k) \in Call
  <1>1. 1 \in 1..MaxAttempts /\ 0 \in 0..(MaxPolls - 1)
    OBVIOUS
  <1>2. \A goal \in Goals : Pursued(k, goal) \in Call
    BY <1>1 DEF Call, Pursued, Posts, Unsent
  <1>3. \A post \in Posts : Posted(k, post) \in Call
    BY <1>1 DEF Call, Posted, Unsent
  <1>4. \A result \in Results : Ended(result) \in Call
    BY <1>1 DEF Call, Ended, NewCall, Posts, Unsent
  <1>5. \A post \in Posts, s \in Nat : Sent(k, post, s) \in Call
    BY DEF Call, Sent
  <1>6. ASSUME k.attempt < MaxAttempts PROVE Retried(k) \in Call
    <2>1. PICK n \in 1..MaxAttempts : n = k.attempt + 1
      BY <1>6 DEF Call
    <2>2. Retried(k) = [k EXCEPT !.sent = Unsent, !.attempt = n]
      BY <2>1 DEF Retried
    <2>3. QED
      BY <2>2 DEF Call, Unsent
  <1>7. ASSUME k.polls + 1 < MaxPolls PROVE PolledAgain(k) \in Call
    <2>1. PICK n \in 0..(MaxPolls - 1) : n = k.polls + 1
      BY <1>7 DEF Call
    <2>2. PolledAgain(k) = [k EXCEPT !.polls = n, !.post = "check",
                                     !.sent = Unsent, !.attempt = 1]
      BY <2>1 DEF PolledAgain
    <2>3. QED
      BY <1>1, <2>2 DEF Call, Posts, Unsent
  <1>8. QED
    BY <1>2, <1>3, <1>4, <1>5, <1>6, <1>7

\* Where a failed POST leaves its call: after something else, ready to send it
\* again, or ended.
LEMMA FailsMoves ==
    ASSUME TypeOK, NEW c \in Calls, NEW code \in Codes, Posting(c), Fails(c, code)
    PROVE  \/ /\ call[c].attempt < MaxAttempts
              /\ call' = [call EXCEPT ![c] = Retried(call[c])]
           \/ /\ call[c].goal \in {"list", "get"}
              /\ call' = [call EXCEPT ![c] = Pursued(call[c], "generate")]
           \/ /\ call[c].goal = "display"
              /\ call' = [call EXCEPT ![c] = Pursued(call[c], "fetch")]
           \/ call' = [call EXCEPT ![c] = Ended(code)]
  BY DEF TypeOK, Fails, Raise, Pursue, End, Retried, Pursued, Ended

\* An action that replaces the record of one call keeps the type, if the record
\* is one, says of a result what its goal says and names a session that exists.
LEMMA MoveType ==
    ASSUME TypeOK, NEW c \in Calls, NEW r \in Call,
           call' = [call EXCEPT ![c] = r],
           r.sent <= opened', r.result # "none" <=> r.goal = "done",
           opened' \in Nat, opened <= opened', live' \subseteq 1..opened',
           session' \in 0..opened', initialized' \in BOOLEAN, tools' \in BOOLEAN,
           overlapped' \in BOOLEAN, faults' \in 0..MaxFaults,
           bought' \in [Calls -> 0..MaxAttempts], UNCHANGED <<server, expiries>>
    PROVE  TypeOK'
  <1>1. call' \in [Calls -> Call]
    BY DEF TypeOK
  <1>2. ASSUME NEW d \in Calls
        PROVE  /\ call'[d].sent <= opened'
               /\ call'[d].result # "none" <=> call'[d].goal = "done"
    <2>1. CASE d = c
      BY <2>1 DEF TypeOK
    <2>2. CASE d # c
      <3>1. call'[d] = call[d] /\ call[d] \in Call /\ call[d].sent <= opened
        BY <2>2 DEF TypeOK
      <3>2. call[d].sent \in Int
        BY <3>1 DEF Call, Unsent
      <3>3. QED
        BY <3>1, <3>2 DEF TypeOK
    <2>3. QED
      BY <2>1, <2>2
  <1>3. QED
    BY <1>1, <1>2 DEF TypeOK

-----------------------------------------------------------------------------
(***************************************************************************)
(* Type correctness and the count of attempts.                             *)
(***************************************************************************)

\* Only the answer to a submit buys, and no submit is sent too often.
LEMMA BoughtStep ==
    ASSUME IInv, NEW c \in Calls, Progress(c)
    PROVE  /\ \/ UNCHANGED bought
              \/ /\ call[c].goal = "generate" /\ call[c].post = "call"
                 /\ bought' = [bought EXCEPT ![c] = bought[c] + 1]
           /\ bought' \in [Calls -> 0..MaxAttempts]
  <1>1. \/ UNCHANGED bought
        \/ /\ call[c].goal = "generate" /\ call[c].post = "call"
           /\ bought' = [bought EXCEPT ![c] = bought[c] + 1]
    BY DEF Progress, Begin, Step, Faulty, KnowsTools, Send, Receive, Fetch, Expired,
           NoSession, InitializeDone, NotifyDone, ToolsListed, CatalogListed,
           ConstraintsGot, Submitted, Polled, Displayed, Answered, Makes
  <1>2. ASSUME call[c].goal = "generate", call[c].post = "call",
               bought' = [bought EXCEPT ![c] = bought[c] + 1]
        PROVE  bought' \in [Calls -> 0..MaxAttempts]
    <2>1. /\ bought[c] \in Nat /\ bought[c] < call[c].attempt
          /\ call[c].attempt \in 1..MaxAttempts
      BY <1>2 DEF IInv, TypeOK, AttemptsCounted, Call
    <2>2. bought[c] + 1 \in 0..MaxAttempts
      BY <2>1
    <2>3. QED
      BY <1>2, <2>2 DEF IInv, TypeOK
  <1>3. QED
    BY <1>1, <1>2 DEF IInv, TypeOK

\* What every step of a call leaves in its type.
LEMMA SharedType ==
    ASSUME IInv, NEW c \in Calls, Progress(c)
    PROVE  /\ opened' \in Nat /\ opened <= opened' /\ live' \subseteq 1..opened'
           /\ session' \in 0..opened' /\ initialized' \in BOOLEAN
           /\ tools' \in BOOLEAN /\ overlapped' \in BOOLEAN
           /\ faults' \in 0..MaxFaults /\ UNCHANGED <<server, expiries>>
  <1> USE DEF serverVars, clientVars
  <1>0. /\ opened \in Nat /\ live \subseteq 1..opened /\ session \in 0..opened
        /\ initialized \in BOOLEAN /\ tools \in BOOLEAN /\ overlapped \in BOOLEAN
        /\ faults \in 0..MaxFaults
    BY DEF IInv, TypeOK
  <1>1. CASE InitializeDone(c)
    <2>1. /\ opened + 1 \in Nat /\ opened + 1 \in 0..(opened + 1)
          /\ live \cup {opened + 1} \subseteq 1..(opened + 1)
      BY <1>0
    <2>2. /\ UNCHANGED <<session, live, opened>>
          \/ /\ opened' = opened + 1 /\ session' = opened + 1
             /\ live' = live \cup {opened + 1}
      BY <1>1 DEF InitializeDone, Opens
    <2>3. UNCHANGED <<server, initialized, tools, bought, overlapped, faults, expiries>>
      BY <1>1 DEF InitializeDone
    <2>4. CASE UNCHANGED <<session, live, opened>>
      BY <1>0, <2>3, <2>4
    <2>5. CASE /\ opened' = opened + 1 /\ session' = opened + 1
               /\ live' = live \cup {opened + 1}
      BY <1>0, <2>1, <2>3, <2>5
    <2>6. QED
      BY <2>2, <2>4, <2>5
  <1>2. CASE Begin(c) \/ KnowsTools(c) \/ Send(c) \/ Fetch(c)
    <2>1. UNCHANGED <<server, live, opened, expiries, session, initialized, tools, faults>>
      BY <1>2 DEF Begin, KnowsTools, Send, Fetch
    <2>2. overlapped' \in BOOLEAN
      <3>1. CASE Begin(c)
        BY <3>1 DEF Begin
      <3>2. CASE KnowsTools(c) \/ Send(c) \/ Fetch(c)
        BY <1>0, <3>2 DEF KnowsTools, Send, Fetch
      <3>3. QED
        BY <1>2, <3>1, <3>2
    <2>3. QED
      BY <1>0, <2>1, <2>2
  <1>3. CASE Faulty(c) \/ Expired(c) \/ NoSession(c)
    <2>1. CASE Faulty(c)
      <3>1. faults < MaxFaults /\ faults' = faults + 1
        BY <2>1 DEF Faulty
      <3>2. faults' \in 0..MaxFaults
        BY <1>0, <3>1
      <3>3. ASSUME call[c].sent \in live PROVE call[c].sent \in 0..opened
        <4>1. call[c].sent \in 1..opened
          BY <1>0, <3>3
        <4>2. QED
          BY <1>0, <4>1
      <3>4. /\ opened + 1 \in Nat /\ opened <= opened + 1 /\ opened + 1 \in 0..(opened + 1)
            /\ live \cup {opened + 1} \subseteq 1..(opened + 1)
        BY <1>0
      <3>5. /\ opened' \in Nat /\ opened <= opened' /\ live' \subseteq 1..opened'
            /\ session' \in 0..opened'
        <4>1. CASE UNCHANGED <<session, live, opened>>
          BY <1>0, <4>1
        <4>2. CASE Opens
          BY <3>4, <4>2 DEF Opens
        <4>3. CASE /\ call[c].sent \in live /\ session' = call[c].sent
                   /\ UNCHANGED <<live, opened>>
          BY <1>0, <3>3, <4>3
        <4>4. QED
          BY <2>1, <4>1, <4>2, <4>3 DEF Faulty, NamedAllTheSame
      <3>6. QED
        BY <1>0, <2>1, <3>2, <3>5 DEF Faulty
    <2>2. CASE Expired(c) \/ NoSession(c)
      <3>1. /\ UNCHANGED <<server, live, opened, expiries, tools, overlapped, faults>>
            /\ session' \in {0, session}
        BY <2>2 DEF Expired, NoSession
      <3>2. initialized' \in BOOLEAN
        BY <1>0, <2>2 DEF Expired, NoSession
      <3>3. QED
        BY <1>0, <3>1, <3>2
    <2>3. QED
      BY <1>3, <2>1, <2>2
  <1>4. ASSUME Named(c), Accepted(c) PROVE session' \in 0..opened
    <2>1. call[c].sent \in {Unsent} \cup Nat /\ call[c].sent <= opened
      BY DEF IInv, TypeOK, Call
    <2>2. call[c].sent # Unsent
      BY <1>4 DEF Accepted, InFlight
    <2>3. call[c].sent \in 0..opened
      BY <1>0, <2>1, <2>2
    <2>4. QED
      BY <1>0, <1>4, <2>3 DEF Named
  <1>5. CASE NotifyDone(c)
    BY <1>0, <1>4, <1>5 DEF NotifyDone
  <1>6. CASE ToolsListed(c) \/ CatalogListed(c) \/ ConstraintsGot(c)
             \/ Submitted(c) \/ Polled(c) \/ Displayed(c)
    <2>1. Named(c) /\ Accepted(c) /\ UNCHANGED <<serverVars, initialized, overlapped, faults>>
      BY <1>6 DEF ToolsListed, CatalogListed, ConstraintsGot, Submitted, Polled,
                  Displayed, Answered
    <2>2. tools' \in BOOLEAN
      <3>1. tools' = TRUE \/ UNCHANGED tools
        BY <1>6 DEF ToolsListed, CatalogListed, ConstraintsGot, Submitted, Polled,
                    Displayed
      <3>2. QED
        BY <1>0, <3>1
    <2>3. QED
      BY <1>0, <1>4, <2>1, <2>2
  <1>7. QED
    BY <1>1, <1>2, <1>3, <1>5, <1>6 DEF Progress, Step, Receive

\* Every step of a call replaces its record by one of these.
LEMMA CallStep ==
    ASSUME IInv, NEW c \in Calls, Progress(c)
    PROVE  \/ /\ call[c].goal = "idle"
              /\ call' = [call EXCEPT ![c] = Pursued(call[c], "tools")]
           \/ /\ call[c].goal \in {"tools", "list"}
              /\ \E goal \in {"list", "get", "generate"} :
                    /\ call' = [call EXCEPT ![c] = Pursued(call[c], goal)]
                    /\ goal = "list" => call[c].goal = "tools"
              /\ UNCHANGED bought
           \/ /\ call[c].goal = "get" /\ UNCHANGED bought
              /\ call' = [call EXCEPT ![c] = Pursued(call[c], "generate")]
           \/ /\ call[c].goal = "generate" /\ call[c].post = "call"
              /\ bought' = [bought EXCEPT ![c] = bought[c] + 1]
              /\ \E goal \in {"status", "fetch"} :
                    call' = [call EXCEPT ![c] = Pursued(call[c], goal)]
           \/ /\ call[c].goal \in {"status", "display"} /\ UNCHANGED bought
              /\ \E goal \in {"display", "fetch"} :
                    /\ call' = [call EXCEPT ![c] = Pursued(call[c], goal)]
                    /\ goal = "display" => call[c].goal = "status"
           \/ /\ Posting(c) /\ UNCHANGED bought
              /\ \E post \in {"notify", "call"} :
                    /\ call' = [call EXCEPT ![c] = Posted(call[c], post)]
                    /\ call[c].post = IF post = "notify" THEN "initialize"
                                      ELSE "notify"
           \/ /\ Posting(c) /\ ~InFlight(c) /\ UNCHANGED bought
              /\ \E post \in Posts \ {"check"} :
                    /\ call' = [call EXCEPT ![c] = Sent(call[c], post, session)]
                    /\ call[c].post \in {"check", post}
           \/ /\ Posting(c) /\ call[c].attempt < MaxAttempts /\ InFlight(c)
              /\ call' = [call EXCEPT ![c] = Retried(call[c])]
           \/ /\ call[c].goal = "status" /\ call[c].polls + 1 < MaxPolls
              /\ UNCHANGED bought
              /\ call' = [call EXCEPT ![c] = PolledAgain(call[c])]
           \/ /\ Posting(c)
              /\ \E result \in Results \ {"none", "clip"} :
                    call' = [call EXCEPT ![c] = Ended(result)]
           \/ /\ call[c].goal = "fetch" /\ UNCHANGED bought
              /\ \E result \in Results \ {"none"} :
                    call' = [call EXCEPT ![c] = Ended(result)]
  <1>0. call \in [Calls -> Call] /\ Codes \subseteq Results \ {"none", "clip"}
    BY DEF IInv, TypeOK, Codes, Results
  <1>1. CASE Begin(c)
    BY <1>0, <1>1 DEF Begin, Pursue, Pursued
  <1>2. CASE KnowsTools(c)
    BY <1>0, <1>2 DEF KnowsTools, Pursue, Pursued
  <1>3. CASE Send(c)
    <2>1. PICK post \in Posts \ {"check"} :
             /\ call' = [call EXCEPT ![c].post = post, ![c].sent = session]
             /\ call[c].post \in {"check", post}
      <3>1. call[c].post \in Posts
        BY <1>0 DEF Call
      <3>2. {"call", "initialize"} \subseteq Posts \ {"check"}
        BY DEF Posts
      <3>3. CASE call[c].post = "check"
        BY <1>3, <3>2, <3>3 DEF Send
      <3>4. CASE call[c].post # "check"
        BY <1>3, <3>1, <3>4 DEF Send
      <3>5. QED
        BY <3>3, <3>4
    <2>2. call' = [call EXCEPT ![c] = Sent(call[c], post, session)]
      BY <1>0, <2>1 DEF Sent
    <2>3. Posting(c) /\ ~InFlight(c) /\ UNCHANGED bought
      BY <1>3 DEF Send
    <2>4. QED
      BY <2>1, <2>2, <2>3
  <1>4. CASE Faulty(c) \/ Expired(c) \/ NoSession(c)
    <2>1. /\ Posting(c) /\ InFlight(c)
          /\ \E code \in Codes : Fails(c, code)
          /\ call[c].goal \in {"list", "get", "display"} => UNCHANGED bought
      BY <1>4 DEF Faulty, Expired, NoSession, Codes, Makes, InFlight, Unsent
    <2>2. PICK code \in Codes : Fails(c, code)
      BY <2>1
    <2>3. QED
      BY <1>0, <2>1, <2>2, FailsMoves DEF IInv
  <1>5. CASE InitializeDone(c) \/ NotifyDone(c)
    BY <1>0, <1>5 DEF InitializeDone, NotifyDone, Accepted, Pursue, NextPost,
                      Pursued, Posted
  <1>6. CASE ToolsListed(c) \/ CatalogListed(c) \/ ConstraintsGot(c) \/ Displayed(c)
    <2>1. CASE ToolsListed(c) \/ CatalogListed(c)
      BY <1>0, <2>1 DEF ToolsListed, CatalogListed, Answered, Makes, Pursue, Pursued
    <2>2. CASE ConstraintsGot(c)
      <3>1. Posting(c) /\ call[c].goal = "get" /\ UNCHANGED bought
        BY <2>2 DEF ConstraintsGot, Answered, Accepted, Makes
      <3>2. \/ call' = [call EXCEPT ![c] = Pursued(call[c], "generate")]
            \/ call' = [call EXCEPT ![c] = Ended("ValueError")]
        BY <1>0, <2>2 DEF ConstraintsGot, Pursue, Pursued, End, Ended
      <3>3. "ValueError" \in Results \ {"none", "clip"}
        BY DEF Results
      <3>4. QED
        BY <3>1, <3>2, <3>3
    <2>3. CASE Displayed(c)
      BY <1>0, <2>3 DEF Displayed, Answered, Makes, Pursue, Pursued
    <2>4. QED
      BY <1>6, <2>1, <2>2, <2>3
  <1>7. CASE Submitted(c)
    <2>1. /\ Posting(c) /\ call[c].goal = "generate" /\ call[c].post = "call"
          /\ bought' = [bought EXCEPT ![c] = bought[c] + 1]
      BY <1>7 DEF Submitted, Answered, Accepted, Makes
    <2>2. \/ \E goal \in {"status", "fetch"} :
                call' = [call EXCEPT ![c] = Pursued(call[c], goal)]
          \/ \E code \in Codes : call' = [call EXCEPT ![c] = Ended(code)]
      BY <1>0, <1>7 DEF Submitted, Pursue, Pursued, End, Ended
    <2>3. QED
      BY <1>0, <2>1, <2>2
  <1>8. CASE Polled(c)
    <2>1. Posting(c) /\ call[c].goal = "status" /\ UNCHANGED bought
      BY <1>8 DEF Polled, Answered, Accepted, Makes
    <2>2. \/ call' = [call EXCEPT ![c] = Pursued(call[c], "display")]
          \/ /\ call[c].polls + 1 < MaxPolls
             /\ call' = [call EXCEPT ![c] = PolledAgain(call[c])]
          \/ \E code \in Codes : call' = [call EXCEPT ![c] = Ended(code)]
      BY <1>0, <1>8 DEF Polled, Pursue, Pursued, End, Ended, Codes, PolledAgain
    <2>3. QED
      BY <1>0, <2>1, <2>2
  <1>9. CASE Fetch(c)
    BY <1>0, <1>9 DEF Fetch, End, Ended, Results, Codes
  <1>10. QED
    BY <1>1, <1>2, <1>3, <1>4, <1>5, <1>6, <1>7, <1>8, <1>9
       DEF Progress, Step, Receive

\* What the records of CallStep hold where types and counts look.
LEMMA RecordFields ==
    ASSUME NEW k \in Call
    PROVE  /\ \A goal : LET r == Pursued(k, goal)
                       IN  /\ r.goal = goal /\ r.post = "check" /\ r.sent = Unsent
                           /\ r.attempt = 1 /\ r.result = k.result
           /\ \A post : LET r == Posted(k, post)
                       IN  /\ r.goal = k.goal /\ r.post = post /\ r.sent = Unsent
                           /\ r.attempt = 1 /\ r.result = k.result
           /\ \A post, s : LET r == Sent(k, post, s)
                       IN  /\ r.goal = k.goal /\ r.post = post /\ r.sent = s
                           /\ r.attempt = k.attempt /\ r.result = k.result
           /\ \A result : LET r == Ended(result)
                       IN  /\ r.goal = "done" /\ r.post = "check" /\ r.sent = Unsent
                           /\ r.attempt = 1 /\ r.result = result
           /\ LET r == Retried(k)
              IN  /\ r.goal = k.goal /\ r.post = k.post /\ r.sent = Unsent
                  /\ r.attempt = k.attempt + 1 /\ r.result = k.result
           /\ LET r == PolledAgain(k)
              IN  /\ r.goal = k.goal /\ r.post = "check" /\ r.sent = Unsent
                  /\ r.attempt = 1 /\ r.result = k.result
  BY DEF Call, Pursued, Posted, Sent, Ended, NewCall, Retried, PolledAgain

\* The goals before the submit, and those after it.
Before == {"idle", "tools", "list", "get"}

\* What types, counts and purchases look at in the new record of a call.
After(c, r) ==
    /\ call[c].goal # "done"
    /\ r.sent \in {Unsent, session}
    /\ r.result # "none" <=> r.goal = "done"
    /\ r.post = "check" => r.attempt = 1 /\ r.sent = Unsent
    /\ r.goal \in Before => call[c].goal \in Before
    /\ r.goal = "generate" =>
          \/ call[c].goal \in Before /\ r.post = "check"
          \/ call[c].goal = "generate" /\ r.post # "call" /\ call[c].post # "call"
          \/ /\ call[c].goal = "generate" /\ r.post = "call" /\ UNCHANGED bought
             /\ r.attempt = IF call[c].post = "call" THEN call[c].attempt ELSE 1
          \/ /\ call[c].goal = "generate" /\ r.post = "call" /\ call[c].post = "call"
             /\ r.attempt = call[c].attempt + 1

\* Every step of a call makes such a record of it.
LEMMA NewRecord ==
    ASSUME IInv, NEW c \in Calls, Progress(c)
    PROVE  \E r \in Call : call' = [call EXCEPT ![c] = r] /\ After(c, r)
  <1> DEFINE k == call[c]
  <1>1. /\ k \in Call /\ (k.result # "none" <=> k.goal = "done") /\ session \in Nat
        /\ k.post \in Posts
    BY DEF IInv, TypeOK, Call
  <1>2. k.post = "check" => k.attempt = 1 /\ k.sent = Unsent
    BY DEF IInv, AttemptsCounted, InFlight
  <1>3. Posting(c) => k.goal \in Goals \ {"fetch"}
    BY DEF Posting, Active
  <1>a. ASSUME NEW goal \in Goals, call' = [call EXCEPT ![c] = Pursued(k, goal)],
               k.goal \in Before \cup Goals, goal \in Before => k.goal \in Before,
               goal = "generate" => k.goal \in Before
        PROVE  Pursued(k, goal) \in Call /\ After(c, Pursued(k, goal))
    <2> DEFINE r == Pursued(k, goal)
    <2>1. r \in Call
      BY <1>1, <1>a, Records
    <2>2. /\ r.goal = goal /\ r.post = "check" /\ r.sent = Unsent
          /\ r.attempt = 1 /\ r.result = k.result
      BY <1>1, RecordFields
    <2> HIDE DEF r
    <2>3. k.goal # "done" /\ goal # "done"
      BY <1>a DEF Goals, Before
    <2>4. After(c, r)
      BY <1>1, <1>a, <2>2, <2>3 DEF After, Goals, Before, Posts
    <2>5. QED
      BY <2>1, <2>4 DEF r
  <1>b. ASSUME NEW goal, call' = [call EXCEPT ![c] = Pursued(k, goal)],
               \/ k.goal = "idle" /\ goal = "tools"
               \/ k.goal \in {"tools", "list"} /\ goal \in {"list", "get", "generate"}
               \/ k.goal = "get" /\ goal = "generate"
               \/ k.goal = "generate" /\ goal \in {"status", "fetch"}
               \/ k.goal \in {"status", "display"} /\ goal \in {"display", "fetch"}
        PROVE  \E r \in Call : call' = [call EXCEPT ![c] = r] /\ After(c, r)
    <2>1. /\ goal \in Goals /\ k.goal \in Before \cup Goals
          /\ goal \in Before => k.goal \in Before
          /\ goal = "generate" => k.goal \in Before
      BY <1>b DEF Goals, Before
    <2>2. QED
      BY <1>a, <1>b, <2>1
  <1>c. ASSUME NEW post \in {"notify", "call"}, Posting(c), UNCHANGED bought,
               call' = [call EXCEPT ![c] = Posted(k, post)],
               k.post \in {"initialize", "notify"}
        PROVE  Posted(k, post) \in Call /\ After(c, Posted(k, post))
    <2> DEFINE r == Posted(k, post)
    <2>1. r \in Call
      BY <1>1, <1>c, Records DEF Posts
    <2>2. /\ r.goal = k.goal /\ r.post = post /\ r.sent = Unsent
          /\ r.attempt = 1 /\ r.result = k.result
      BY <1>1, RecordFields
    <2> HIDE DEF r
    <2>3. post \in Posts /\ k.goal # "done"
      BY <1>3, <1>c DEF Posts, Goals
    <2>4. After(c, r)
      BY <1>1, <1>3, <1>c, <2>2, <2>3 DEF After, Goals, Before, Posts
    <2>5. QED
      BY <2>1, <2>4 DEF r
  <1>d. ASSUME NEW post \in Posts \ {"check"}, Posting(c), UNCHANGED bought,
               call' = [call EXCEPT ![c] = Sent(k, post, session)],
               k.post \in {"check", post}
        PROVE  Sent(k, post, session) \in Call /\ After(c, Sent(k, post, session))
    <2> DEFINE r == Sent(k, post, session)
    <2>1. r \in Call
      BY <1>1, <1>d, Records
    <2>2. /\ r.goal = k.goal /\ r.post = post /\ r.sent = session
          /\ r.attempt = k.attempt /\ r.result = k.result
      BY <1>1, RecordFields
    <2> HIDE DEF r
    <2>3. k.goal # "done"
      BY <1>3, <1>d DEF Goals
    <2>4. After(c, r)
      BY <1>1, <1>2, <1>3, <1>d, <2>2, <2>3 DEF After, Goals, Before, Posts
    <2>5. QED
      BY <2>1, <2>4 DEF r
  <1>e. ASSUME Posting(c), k.attempt < MaxAttempts, InFlight(c),
               call' = [call EXCEPT ![c] = Retried(k)]
        PROVE  Retried(k) \in Call /\ After(c, Retried(k))
    <2>1. k.post # "check"
      BY <1>2, <1>e DEF InFlight
    <2>2. QED
      <3> DEFINE r == Retried(k)
      <3>1. r \in Call
        BY <1>1, <1>e, Records
      <3>2. /\ r.goal = k.goal /\ r.post = k.post /\ r.sent = Unsent
            /\ r.attempt = k.attempt + 1 /\ r.result = k.result
        BY <1>1, RecordFields
      <3>3. k.goal # "done"
        BY <1>3, <1>e DEF Goals
      <3> HIDE DEF r
      <3>4. After(c, r)
        BY <1>1, <1>3, <1>e, <2>1, <3>2, <3>3 DEF After, Goals, Before
      <3>5. QED
        BY <3>1, <3>4 DEF r
  <1>f. ASSUME k.goal = "status", k.polls + 1 < MaxPolls,
               call' = [call EXCEPT ![c] = PolledAgain(k)]
        PROVE  PolledAgain(k) \in Call /\ After(c, PolledAgain(k))
    BY <1>1, <1>f, RecordFields, Records DEF After, Before
  <1>g. ASSUME NEW result \in Results \ {"none"}, k.goal \in Goals,
               call' = [call EXCEPT ![c] = Ended(result)]
        PROVE  Ended(result) \in Call /\ After(c, Ended(result))
    <2>1. k.goal # "done" /\ (k.post = "check" => k.attempt = 1)
      BY <1>2, <1>g DEF Goals
    <2>2. QED
      <3> DEFINE r == Ended(result)
      <3>1. r \in Call
        BY <1>1, <1>g, Records
      <3>2. /\ r.goal = "done" /\ r.post = "check" /\ r.sent = Unsent
            /\ r.attempt = 1 /\ r.result = result
        BY <1>1, RecordFields
      <3> HIDE DEF r
      <3>3. After(c, r)
        BY <1>1, <1>g, <2>1, <3>2 DEF After, Before
      <3>4. QED
        BY <3>1, <3>3 DEF r
  <1>4. QED
    <2>1. "fetch" \in Goals /\ (Posting(c) => k.goal \in Goals)
      BY <1>3 DEF Goals
    <2>2. QED
      BY <1>b, <1>c, <1>d, <1>e, <1>f, <1>g, <2>1, CallStep

-----------------------------------------------------------------------------
\* A step of a call keeps the type.
LEMMA StepType ==
    ASSUME IInv, NEW c \in Calls, Progress(c)
    PROVE  TypeOK'
  <1>1. PICK r \in Call : call' = [call EXCEPT ![c] = r] /\ After(c, r)
    BY NewRecord
  <1>2. r.sent \in {Unsent, session} /\ (r.result # "none" <=> r.goal = "done")
    BY <1>1 DEF After
  <1>3. r.sent <= opened'
    BY <1>2, SharedType DEF IInv, TypeOK, Unsent
  <1>4. TypeOK
    BY DEF IInv
  <1>5. QED
    BY <1>1, <1>2, <1>3, <1>4, SharedType, BoughtStep, MoveType

\* A step of a call keeps the count of its attempts.
LEMMA StepCount ==
    ASSUME IInv, NEW c \in Calls, Progress(c)
    PROVE  AttemptsCounted'
  <1>1. PICK r \in Call : call' = [call EXCEPT ![c] = r] /\ After(c, r)
    BY NewRecord
  <1>2. SUFFICES ASSUME NEW d \in Calls
        PROVE  /\ call'[d].post = "check" => call'[d].attempt = 1
                                             /\ call'[d].sent = Unsent
               /\ call'[d].goal \in Before => bought'[d] = 0
               /\ call'[d].goal = "generate" =>
                     IF call'[d].post = "call" THEN bought'[d] < call'[d].attempt
                     ELSE bought'[d] = 0
    BY DEF AttemptsCounted, Before, InFlight
  <1>3. /\ call[d].post = "check" => call[d].attempt = 1 /\ call[d].sent = Unsent
        /\ call[d].goal \in Before => bought[d] = 0
        /\ call[d].goal = "generate" =>
              IF call[d].post = "call" THEN bought[d] < call[d].attempt
              ELSE bought[d] = 0
        /\ bought[d] \in Nat /\ bought \in [Calls -> 0..MaxAttempts]
        /\ call \in [Calls -> Call] /\ call[d].attempt \in Nat
    BY DEF IInv, AttemptsCounted, Before, InFlight, TypeOK, Call
  <1>4. CASE d # c
    <2>1. call'[d] = call[d] /\ bought'[d] = bought[d]
      BY <1>1, <1>3, <1>4, BoughtStep
    <2>2. QED
      BY <1>3, <2>1
  <1>5. CASE d = c
    <2>1. call'[d] = r
      BY <1>1, <1>3, <1>5
    <2>2. \/ bought'[d] = bought[d]
          \/ /\ call[d].goal = "generate" /\ call[d].post = "call"
             /\ bought'[d] = bought[d] + 1
      BY <1>3, <1>5, BoughtStep
    <2>3. /\ r.goal = "generate" => r.goal \notin Before
          /\ call[d].goal = "generate" => call[d].goal \notin Before
      BY DEF Before
    <2>4. UNCHANGED bought => bought'[d] = bought[d]
      OBVIOUS
    <2>5. QED
      BY <1>1, <1>3, <1>5, <2>1, <2>2, <2>3, <2>4 DEF After
  <1>6. QED
    BY <1>4, <1>5

-----------------------------------------------------------------------------
(***************************************************************************)
(* The session.                                                            *)
(***************************************************************************)

\* Only Send leaves its call with a POST in flight.
LEMMA SentBySend ==
    ASSUME IInv, NEW c \in Calls, Progress(c), ~Send(c)
    PROVE  call'[c].sent = Unsent
  <1> USE DEF Pursue, NextPost, Ended
  <1>0. /\ call \in [Calls -> Call]
        /\ \A result : Ended(result).sent = Unsent
        /\ \A result : End(c, result) => call'[c] = Ended(result)
    <2>1. call \in [Calls -> Call]
      BY DEF IInv, TypeOK
    <2>2. \A result : Ended(result).sent = Unsent
      BY DEF NewCall
    <2>3. QED
      BY <2>1, <2>2 DEF End
  <1> HIDE DEF Ended
  <1>1. CASE Begin(c) \/ KnowsTools(c) \/ Fetch(c) \/ InitializeDone(c) \/ NotifyDone(c)
    BY <1>0, <1>1 DEF Begin, KnowsTools, Fetch, InitializeDone, NotifyDone, Call
  <1>2. CASE Faulty(c) \/ Expired(c) \/ NoSession(c)
    BY <1>0, <1>2 DEF Faulty, Expired, NoSession, Fails, Raise, Call
  <1>3. CASE ToolsListed(c) \/ CatalogListed(c) \/ ConstraintsGot(c) \/ Displayed(c)
    BY <1>0, <1>3 DEF ToolsListed, CatalogListed, ConstraintsGot, Displayed, Call
  <1>4. CASE Submitted(c) \/ Polled(c)
    BY <1>0, <1>4 DEF Submitted, Polled, Call
  <1>5. QED
    BY <1>1, <1>2, <1>3, <1>4 DEF Progress, Step, Receive

\* While calls do not overlap a step is one of the only active call, so that
\* what it posts under is what the client holds.
LEMMA StepOneAtATime ==
    ASSUME IInv, NEW c \in Calls, Progress(c)
    PROVE  OneAtATime'
  <1>1. PICK r \in Call : call' = [call EXCEPT ![c] = r] /\ After(c, r)
    BY NewRecord
  <1>2. SUFFICES ASSUME ~overlapped'
        PROVE  \A d, e \in Calls :
                  /\ Active(d)' /\ Active(e)' => d = e
                  /\ Active(d)' /\ InFlight(d)' /\ call'[d].sent > 0 =>
                        session' = call'[d].sent
    BY DEF OneAtATime
  <1>3. \/ ~Begin(c) /\ overlapped' = overlapped /\ Active(c)
        \/ Begin(c) /\ overlapped' = (overlapped \/ \E d \in Calls : Active(d))
    BY DEF Progress, Step, Receive, Begin, Faulty, KnowsTools, Send, Fetch, Expired,
           NoSession, InitializeDone, NotifyDone, ToolsListed, CatalogListed,
           ConstraintsGot, Submitted, Polled, Displayed, Answered, Accepted, Posting,
           Active, Goals
  <1>4. \A d \in Calls : d # c => ~Active(d)
    <2>1. \A d, e \in Calls : ~overlapped /\ Active(d) /\ Active(e) => d = e
      BY DEF IInv, OneAtATime
    <2>2. CASE ~Begin(c) /\ overlapped' = overlapped /\ Active(c)
      BY <1>2, <2>1, <2>2
    <2>3. CASE Begin(c) /\ overlapped' = (overlapped \/ \E d \in Calls : Active(d))
      <3>1. ~(overlapped \/ \E d \in Calls : Active(d))
        BY <1>2, <2>3
      <3>2. QED
        BY <3>1
    <2>4. QED
      BY <1>3, <2>2, <2>3
  <1>5. call'[c] = r /\ \A d \in Calls : d # c => call'[d] = call[d]
    BY <1>1 DEF IInv, TypeOK
  <1>6. \A d \in Calls : Active(d)' => d = c
    BY <1>4, <1>5 DEF Active
  <1>7. InFlight(c)' => session' = call'[c].sent
    <2>1. CASE Send(c)
      BY <1>1, <1>5, <2>1 DEF Send, InFlight, After, clientVars
    <2>2. CASE ~Send(c)
      BY <2>2, SentBySend DEF InFlight
    <2>3. QED
      BY <2>1, <2>2
  <1>8. QED
    BY <1>6, <1>7

\* An accepted request names a live session, unless it opens one.
LEMMA AcceptedSession ==
    ASSUME IInv, NEW c \in Calls, Accepted(c), call[c].post # "initialize",
           server # "none"
    PROVE  call[c].sent \in Nat /\ call[c].sent > 0
  <1>1. call[c].sent \in live
    BY DEF Accepted, Known
  <1>2. live \subseteq 1..opened /\ opened \in Nat
    BY DEF IInv, TypeOK
  <1>3. call[c].sent \in 1..opened
    BY <1>1, <1>2
  <1>4. QED
    BY <1>2, <1>3

\* Each answer to a call leaves an initialized client with its session.
LEMMA StepSession ==
    ASSUME IInv, NEW c \in Calls, Progress(c)
    PROVE  SessionKept'
  <1>1. SUFFICES ASSUME initialized', session' = 0, server # "none"
        PROVE  server = "initialize" /\ overlapped'
    BY SharedType DEF SessionKept
  <1>2. overlapped => overlapped'
    BY DEF Progress, Step, Receive, Begin, Faulty, KnowsTools, Send, Fetch, Expired,
           NoSession, InitializeDone, NotifyDone, ToolsListed, CatalogListed,
           ConstraintsGot, Submitted, Polled, Displayed, Answered
  <1>3. CASE UNCHANGED <<session, initialized>>
    BY <1>1, <1>2, <1>3 DEF IInv, SessionKept
  <1>4. CASE InitializeDone(c)
    <2>1. session' = opened + 1 /\ opened \in Nat
      BY <1>1, <1>4 DEF InitializeDone, Opens, IInv, TypeOK
    <2>2. QED
      BY <1>1, <2>1
  <1>5. CASE NotifyDone(c)
    <2>1. /\ Accepted(c) /\ call[c].post # "initialize" /\ Named(c)
          /\ overlapped' = overlapped /\ Active(c) /\ InFlight(c)
      BY <1>5 DEF NotifyDone, Accepted, Posting
    <2>2. call[c].sent > 0 /\ call[c].sent # 0
      BY <1>1, <2>1, AcceptedSession
    <2>3. server # "every"
      BY <1>1, <2>1, <2>2 DEF Named
    <2>4. server = "initialize" /\ session = 0
      BY <1>1, <2>1, <2>3 DEF Named, IInv, TypeOK
    <2>5. ~overlapped => session = call[c].sent
      BY <2>1, <2>2 DEF IInv, OneAtATime
    <2>6. QED
      BY <2>1, <2>2, <2>4, <2>5
  <1>6. CASE Expired(c)
    BY <1>1, <1>2, <1>6 DEF Expired, IInv, SessionKept
  <1>7. CASE \E goal \in Goals : Answered(c, goal)
    <2>1. /\ Accepted(c) /\ call[c].post # "initialize" /\ Named(c)
          /\ UNCHANGED initialized
      BY <1>7 DEF Answered
    <2>2. call[c].sent # 0
      BY <1>1, <2>1, AcceptedSession
    <2>3. UNCHANGED session
      BY <1>1, <2>1, <2>2 DEF Named
    <2>4. QED
      BY <1>3, <2>1, <2>3
  <1>8. CASE Begin(c) \/ KnowsTools(c) \/ Send(c) \/ Fetch(c) \/ NoSession(c)
    BY <1>3, <1>8 DEF Begin, KnowsTools, Send, Fetch, NoSession, clientVars
  <1>9. CASE Faulty(c)
    <2>1. live \subseteq 1..opened /\ opened \in Nat
      BY DEF IInv, TypeOK
    <2>2. UNCHANGED session
      BY <1>1, <1>9, <2>1 DEF Faulty, NamedAllTheSame, Opens
    <2>3. QED
      BY <1>3, <1>9, <2>2 DEF Faulty
  <1>10. QED
    BY <1>4, <1>5, <1>6, <1>7, <1>8, <1>9
       DEF Progress, Step, Receive, ToolsListed, CatalogListed, ConstraintsGot,
           Submitted, Polled, Displayed, Goals

\* A session that expires is known to the server alone.
LEMMA ExpireInv ==
    ASSUME IInv, NEW s \in live, Expire(s)
    PROVE  IInv'
  <1>1. /\ UNCHANGED <<server, opened, session, initialized, tools, call, bought,
                       overlapped, faults>>
        /\ live' \subseteq live /\ expiries < MaxExpiries /\ expiries' = expiries + 1
    BY DEF Expire, clientVars
  <1>2. expiries' \in 0..MaxExpiries /\ live' \subseteq 1..opened
    BY <1>1 DEF IInv, TypeOK
  <1>3. QED
    BY <1>1, <1>2 DEF IInv, TypeOK, AttemptsCounted, OneAtATime, SessionKept, Active,
                      InFlight

\* The invariant is inductive.
LEMMA NextInv == IInv /\ [Next]_vars => IInv'
  <1> SUFFICES ASSUME IInv, [Next]_vars PROVE IInv'
    OBVIOUS
  <1>1. ASSUME NEW c \in Calls, Progress(c) PROVE IInv'
    BY <1>1, StepType, StepCount, StepOneAtATime, StepSession DEF IInv
  <1>2. ASSUME NEW s \in live, Expire(s) PROVE IInv'
    BY <1>2, ExpireInv
  <1>3. CASE UNCHANGED vars
    BY <1>3 DEF vars, IInv, TypeOK, AttemptsCounted, OneAtATime, SessionKept, Active,
                InFlight
  <1>4. QED
    BY <1>1, <1>2, <1>3 DEF Next, Progress

LEMMA Invariance == Spec => []IInv
  BY InitInv, NextInv, PTL DEF Spec

-----------------------------------------------------------------------------
(***************************************************************************)
(* The purchase.                                                           *)
(***************************************************************************)

\* Order of a call with record k.
OrderOf(k) ==
    CASE k.result = "clip" -> "clip"
      [] k.goal = "done" /\ k.result # "clip" -> "failed"
      [] k.goal \in {"status", "display", "fetch"} -> "placed"
      [] OTHER -> "open"

\* Orders change where the record does.
LEMMA OrderMoves ==
    ASSUME TypeOK, NEW c \in Calls, NEW r, call' = [call EXCEPT ![c] = r]
    PROVE  [d \in Calls |-> Order(d)]'
              = [[d \in Calls |-> Order(d)] EXCEPT ![c] = OrderOf(r)]
  <1>1. \A d \in Calls : d # c => call'[d] = call[d]
    BY DEF TypeOK
  <1>2. call'[c] = r
    BY DEF TypeOK
  <1>3. \A d \in Calls : Order(d) = OrderOf(call[d]) /\ Order(d)' = OrderOf(call'[d])
    BY DEF Order, OrderOf
  <1>4. QED
    BY <1>1, <1>2, <1>3

\* Bought and order move as ClipPurchase has it.
LEMMA OrderStep ==
    ASSUME IInv, NEW c \in Calls, Progress(c)
    PROVE  \E r : /\ call' = [call EXCEPT ![c] = r]
                  /\ \/ /\ UNCHANGED bought
                        /\ \/ OrderOf(r) = Order(c)
                           \/ Order(c) \in {"open", "placed"} /\ OrderOf(r) = "failed"
                           \/ Order(c) = "placed" /\ OrderOf(r) = "clip"
                     \/ /\ bought[c] < MaxAttempts
                        /\ bought' = [bought EXCEPT ![c] = bought[c] + 1]
                        /\ Order(c) = "open"
                        /\ OrderOf(r) \in {"open", "placed", "failed"}
  <1> DEFINE k == call[c]
  <1>1. k \in Call /\ (k.result # "none" <=> k.goal = "done")
    BY DEF IInv, TypeOK
  <1>2. /\ k.goal \in {"status", "display", "fetch"} => Order(c) = "placed"
        /\ k.goal \in {"idle", "tools", "list", "get", "generate"} => Order(c) = "open"
    BY <1>1 DEF Order
  <1>3. Posting(c) => /\ k.goal \in {"tools", "list", "get", "generate", "status", "display"}
                      /\ k.result = "none"
    BY <1>1 DEF Posting, Active, Goals
  <1>4. ASSUME call[c].goal = "generate", call[c].post = "call"
        PROVE  bought[c] < MaxAttempts
    <2>1. bought[c] \in Nat /\ bought[c] < k.attempt /\ k.attempt \in 1..MaxAttempts
      BY <1>4 DEF IInv, TypeOK, AttemptsCounted, Call
    <2>2. QED
      BY <2>1
  <1>5. ASSUME NEW goal PROVE /\ Pursued(k, goal).goal = goal
                              /\ Pursued(k, goal).result = k.result
    BY <1>1, RecordFields
  <1>6. ASSUME NEW goal \in {"status", "display", "fetch"}, k.result = "none"
        PROVE  OrderOf(Pursued(k, goal)) = "placed"
    BY <1>5, <1>6 DEF OrderOf
  <1>7. ASSUME NEW goal \in {"tools", "list", "get", "generate"}, k.result = "none"
        PROVE  OrderOf(Pursued(k, goal)) = "open"
    BY <1>5, <1>7 DEF OrderOf
  <1>8. ASSUME NEW result \in Results
        PROVE  OrderOf(Ended(result)) = IF result = "clip" THEN "clip" ELSE "failed"
    <2>1. Ended(result).goal = "done" /\ Ended(result).result = result
      BY <1>1, RecordFields
    <2>2. QED
      BY <2>1 DEF OrderOf
  <1>9. ASSUME NEW r, r.goal = k.goal, r.result = k.result
        PROVE  OrderOf(r) = Order(c)
    BY <1>9 DEF OrderOf, Order
  <1>10. /\ OrderOf(Retried(k)) = Order(c) /\ OrderOf(PolledAgain(k)) = Order(c)
         /\ \A post : OrderOf(Posted(k, post)) = Order(c)
         /\ \A post, s : OrderOf(Sent(k, post, s)) = Order(c)
    BY <1>1, <1>9, RecordFields
  <1>11. \/ UNCHANGED bought
         \/ /\ k.goal = "generate" /\ k.post = "call"
            /\ bought' = [bought EXCEPT ![c] = bought[c] + 1]
    BY BoughtStep
  <1>12. k.goal # "done" => k.result = "none"
    BY <1>1
  <1>a. CASE \E goal : call' = [call EXCEPT ![c] = Pursued(k, goal)] /\ UNCHANGED bought
                       /\ \/ k.goal \in {"idle", "tools", "list", "get"}
                             /\ goal \in {"tools", "list", "get", "generate"}
                          \/ k.goal \in {"status", "display"}
                             /\ goal \in {"display", "fetch"}
    BY <1>a, <1>2, <1>6, <1>7, <1>12
  <1>b. CASE /\ k.goal = "generate" /\ k.post = "call"
             /\ bought' = [bought EXCEPT ![c] = bought[c] + 1]
             /\ \E goal \in {"status", "fetch"} :
                   call' = [call EXCEPT ![c] = Pursued(k, goal)]
    BY <1>b, <1>2, <1>4, <1>6, <1>12
  <1>c. CASE UNCHANGED bought /\ \E post \in Posts :
                \/ call' = [call EXCEPT ![c] = Posted(k, post)]
                \/ call' = [call EXCEPT ![c] = Sent(k, post, session)]
    BY <1>c, <1>10
  <1>d. CASE Posting(c) /\ call' = [call EXCEPT ![c] = Retried(k)]
    BY <1>d, <1>2, <1>4, <1>10, <1>11
  <1>e. CASE UNCHANGED bought /\ call' = [call EXCEPT ![c] = PolledAgain(k)]
    BY <1>e, <1>10
  <1>f. CASE Posting(c) /\ \E result \in Results \ {"none", "clip"} :
                call' = [call EXCEPT ![c] = Ended(result)]
    BY <1>f, <1>2, <1>3, <1>4, <1>8, <1>11
  <1>g. CASE /\ k.goal = "fetch" /\ UNCHANGED bought
             /\ \E result \in Results \ {"none"} :
                   call' = [call EXCEPT ![c] = Ended(result)]
    BY <1>g, <1>2, <1>8
  <1>13. k.goal = "idle" => UNCHANGED bought
    BY <1>11
  <1>14. QED
    BY <1>a, <1>b, <1>c, <1>d, <1>e, <1>f, <1>g, <1>13, CallStep DEF Posts

\* A step of the client maps to a purchase, a failure, a delivery or nothing.
LEMMA PurchaseStep ==
    ASSUME IInv, [Next]_vars
    PROVE  [Purchase!Next]_<<bought, [c \in Calls |-> Order(c)]>>
  <1> DEFINE orders == [c \in Calls |-> Order(c)]
  <1>1. ASSUME NEW c \in Calls, Progress(c)
        PROVE  Purchase!Next \/ UNCHANGED <<bought, orders>>
    <2>1. PICK r : /\ call' = [call EXCEPT ![c] = r]
                   /\ \/ /\ UNCHANGED bought
                         /\ \/ OrderOf(r) = Order(c)
                            \/ Order(c) \in {"open", "placed"} /\ OrderOf(r) = "failed"
                            \/ Order(c) = "placed" /\ OrderOf(r) = "clip"
                      \/ /\ bought[c] < MaxAttempts
                         /\ bought' = [bought EXCEPT ![c] = bought[c] + 1]
                         /\ Order(c) = "open"
                         /\ OrderOf(r) \in {"open", "placed", "failed"}
      BY <1>1, OrderStep
    <2>2. orders' = [orders EXCEPT ![c] = OrderOf(r)] /\ orders[c] = Order(c)
      BY <2>1, OrderMoves DEF IInv
    <2> HIDE DEF orders
    <2>3. CASE UNCHANGED bought /\ OrderOf(r) = Order(c)
      <3>1. orders' = orders
        BY <2>2, <2>3 DEF orders
      <3>2. QED
        BY <2>3, <3>1
    <2>4. CASE UNCHANGED bought /\ OrderOf(r) # Order(c)
      <3>1. Purchase!Fail(c) \/ Purchase!Deliver(c)
        <4>1. CASE OrderOf(r) = "failed"
          <5>1. Order(c) \in {"open", "placed"}
            BY <2>1, <2>4, <4>1
          <5>2. QED
            BY <2>2, <2>4, <4>1, <5>1 DEF Purchase!Fail, Purchase!Turn, orders
        <4>2. CASE OrderOf(r) # "failed"
          <5>1. bought' # [bought EXCEPT ![c] = bought[c] + 1]
            BY <2>4 DEF IInv, TypeOK
          <5>2. Order(c) = "placed" /\ OrderOf(r) = "clip"
            BY <2>1, <2>4, <4>2, <5>1
          <5>3. QED
            BY <2>2, <2>4, <5>2 DEF Purchase!Deliver, Purchase!Turn, orders
        <4>3. QED
          BY <4>1, <4>2
      <3>2. QED
        BY <3>1 DEF Purchase!Next
    <2>5. CASE ~UNCHANGED bought
      <3>1. Purchase!Buy(c)
        BY <2>1, <2>2, <2>5 DEF Purchase!Buy, Purchase!Turn, orders
      <3>2. QED
        BY <3>1 DEF Purchase!Next
    <2>6. QED
      BY <2>3, <2>4, <2>5
  <1>2. ASSUME NEW s \in live, Expire(s)
        PROVE  UNCHANGED <<bought, orders>>
    BY <1>2 DEF Expire, Order
  <1>3. CASE UNCHANGED vars
    BY <1>3 DEF vars, Order
  <1>4. QED
    BY <1>1, <1>2, <1>3 DEF Next, Progress

-----------------------------------------------------------------------------
(***************************************************************************)
(* Every step of a call is a step forward.                                 *)
(***************************************************************************)

\* The measures of a record.
TurnsOf(k) ==
    CASE k.goal = "tools"    -> MaxPolls + 6
      [] k.goal = "list"     -> MaxPolls + 5
      [] k.goal = "get"      -> MaxPolls + 4
      [] k.goal = "generate" -> MaxPolls + 3
      [] k.goal = "status"   -> MaxPolls + 2 - k.polls
      [] k.goal = "display"  -> 2
      [] k.goal = "fetch"    -> 1
      [] k.goal = "done"     -> 0
      [] k.goal = "idle"     -> MaxPolls + 7

StepsOf(k) ==
    LET later == CASE k.post \in {"check", "initialize"} -> 2
                   [] k.post = "notify"                  -> 1
                   [] k.post = "call"                    -> 0
    IN  2 * later * MaxAttempts
        + 2 * (MaxAttempts - k.attempt) + (IF k.sent # Unsent THEN 1 ELSE 2)

Further(k, r) ==
    \/ TurnsOf(r) < TurnsOf(k)
    \/ TurnsOf(r) = TurnsOf(k) /\ StepsOf(r) < StepsOf(k)

\* The turns of each goal, in numbers: those after it are fewer.
LEMMA TurnsOrder ==
    ASSUME NEW k \in Call
    PROVE  /\ k.polls \in Nat /\ k.polls < MaxPolls
           /\ k.goal = "idle"     => TurnsOf(k) = MaxPolls + 7
           /\ k.goal = "tools"    => TurnsOf(k) = MaxPolls + 6
           /\ k.goal = "list"     => TurnsOf(k) = MaxPolls + 5
           /\ k.goal = "get"      => TurnsOf(k) = MaxPolls + 4
           /\ k.goal = "generate" => TurnsOf(k) = MaxPolls + 3
           /\ k.goal = "status"   => TurnsOf(k) = MaxPolls + 2 - k.polls
           /\ k.goal = "display"  => TurnsOf(k) = 2
           /\ k.goal = "fetch"    => TurnsOf(k) = 1
           /\ k.goal = "done"     => TurnsOf(k) = 0
  BY DEF TurnsOf, Call

\* The steps of each POST, in numbers.
LaterOf(post) == IF post \in {"check", "initialize"} THEN 4 * MaxAttempts
                 ELSE IF post = "notify" THEN 2 * MaxAttempts ELSE 0
LEMMA StepsOrder ==
    ASSUME NEW k \in Call
    PROVE  /\ StepsOf(k) = LaterOf(k.post) + 2 * (MaxAttempts - k.attempt)
                               + (IF k.sent # Unsent THEN 1 ELSE 2)
           /\ k.attempt \in Int /\ 1 <= k.attempt /\ k.attempt <= MaxAttempts
           /\ LaterOf(k.post) \in Int /\ MaxAttempts \in Int /\ k.post \in Posts
  <1>1. k.attempt \in 1..MaxAttempts /\ k.post \in Posts
    BY DEF Call
  <1>2. CASE k.post \in {"check", "initialize"}
    BY <1>1, <1>2 DEF StepsOf, LaterOf
  <1>3. CASE k.post = "notify"
    BY <1>1, <1>3 DEF StepsOf, LaterOf
  <1>4. CASE k.post = "call"
    BY <1>1, <1>4 DEF StepsOf, LaterOf
  <1>5. QED
    BY <1>1, <1>2, <1>3, <1>4 DEF Posts

\* A goal further on.
LEMMA PursuedFurther ==
    ASSUME NEW k \in Call, NEW goal \in Goals,
           \/ k.goal = "idle" /\ goal = "tools"
           \/ k.goal \in {"tools", "list"} /\ goal \in {"list", "get", "generate"}
              /\ (goal = "list" => k.goal = "tools")
           \/ k.goal = "get" /\ goal = "generate"
           \/ k.goal = "generate" /\ goal \in {"status", "fetch"}
           \/ k.goal \in {"status", "display"} /\ goal \in {"display", "fetch"}
              /\ (goal = "display" => k.goal = "status")
    PROVE  Further(k, Pursued(k, goal))
  <1> DEFINE r == Pursued(k, goal)
  <1>1. r \in Call /\ r.goal = goal /\ r.polls = 0
    BY Records DEF Pursued, Call
  <1> HIDE DEF r
  <1>2. TurnsOf(r) < TurnsOf(k)
    BY <1>1, TurnsOrder
  <1>3. QED
    BY <1>2 DEF Further, r

\* The end.
LEMMA EndedFurther ==
    ASSUME NEW k \in Call, NEW result \in Results, k.goal \in Goals
    PROVE  Further(k, Ended(result))
  <1> DEFINE r == Ended(result)
  <1>1. r \in Call /\ r.goal = "done"
    BY Records DEF Ended, NewCall
  <1> HIDE DEF r
  <1>2. TurnsOf(r) = 0 /\ TurnsOf(k) > 0
    BY <1>1, TurnsOrder DEF Goals
  <1>3. QED
    BY <1>2, <1>1, TurnsOrder DEF Further, r

\* The next poll.
LEMMA PolledFurther ==
    ASSUME NEW k \in Call, k.goal = "status", k.polls + 1 < MaxPolls
    PROVE  Further(k, PolledAgain(k))
  <1> DEFINE r == PolledAgain(k)
  <1>1. r \in Call /\ r.goal = "status" /\ r.polls = k.polls + 1
    BY Records DEF PolledAgain, Call
  <1> HIDE DEF r
  <1>2. TurnsOf(r) = MaxPolls + 2 - r.polls /\ TurnsOf(k) = MaxPolls + 2 - k.polls
    BY <1>1, TurnsOrder
  <1>3. k.polls \in Int /\ MaxPolls \in Int
    BY TurnsOrder
  <1>4. TurnsOf(r) < TurnsOf(k)
    BY <1>1, <1>2, <1>3
  <1>5. QED
    BY <1>4 DEF Further, r

\* A record of the same turn has as many turns left.
LEMMA SameTurn ==
    ASSUME NEW k \in Call, NEW r \in Call, r.goal = k.goal, r.polls = k.polls
    PROVE  TurnsOf(r) = TurnsOf(k)
  BY DEF TurnsOf

\* The next POST of the turn.
LEMMA PostedFurther ==
    ASSUME NEW k \in Call, NEW post \in {"notify", "call"},
           k.post = IF post = "notify" THEN "initialize" ELSE "notify"
    PROVE  Further(k, Posted(k, post))
  <1> DEFINE r == Posted(k, post)
  <1>1. /\ r \in Call /\ r.goal = k.goal /\ r.polls = k.polls /\ r.post = post
        /\ r.attempt = 1 /\ r.sent = Unsent
    BY Records DEF Posted, Call, Posts
  <1> HIDE DEF r
  <1>2. TurnsOf(r) = TurnsOf(k)
    BY <1>1, SameTurn
  <1>3. /\ StepsOf(r) = LaterOf(post) + 2 * (MaxAttempts - 1) + 2
        /\ StepsOf(k) >= LaterOf(k.post) + 1
    <2>1. StepsOf(r) = LaterOf(post) + 2 * (MaxAttempts - 1) + 2
      BY <1>1, StepsOrder
    <2>2. StepsOf(k) >= LaterOf(k.post) + 1
      BY StepsOrder
    <2>3. QED
      BY <2>1, <2>2
  <1>4. LaterOf(k.post) = LaterOf(post) + 2 * MaxAttempts /\ LaterOf(post) \in Int
    BY DEF LaterOf
  <1>5. StepsOf(r) < StepsOf(k)
    BY <1>3, <1>4, StepsOrder
  <1>6. QED
    BY <1>2, <1>5 DEF Further, r

\* The request of a POST.
LEMMA SentFurther ==
    ASSUME NEW k \in Call, NEW post \in Posts \ {"check"}, NEW s \in Nat,
           k.post \in {"check", post}, k.sent = Unsent
    PROVE  Further(k, Sent(k, post, s))
  <1> DEFINE r == Sent(k, post, s)
  <1>1. /\ r \in Call /\ r.goal = k.goal /\ r.polls = k.polls /\ r.post = post
        /\ r.attempt = k.attempt /\ r.sent # Unsent
    <2>1. r \in Call
      BY Records
    <2>2. QED
      BY <2>1 DEF Sent, Call, Unsent
  <1> HIDE DEF r
  <1>2. TurnsOf(r) = TurnsOf(k)
    BY <1>1, SameTurn
  <1>3. LaterOf(r.post) <= LaterOf(k.post)
    <2>1. r.post = k.post \/ k.post = "check"
      BY <1>1
    <2>2. CASE r.post = k.post
      BY <2>2, StepsOrder
    <2>3. CASE k.post = "check"
      BY <2>3 DEF LaterOf
    <2>4. QED
      BY <2>1, <2>2, <2>3
  <1>4. /\ StepsOf(r) = LaterOf(r.post) + 2 * (MaxAttempts - k.attempt) + 1
        /\ StepsOf(k) = LaterOf(k.post) + 2 * (MaxAttempts - k.attempt) + 2
        /\ LaterOf(r.post) \in Int
    BY <1>1, StepsOrder
  <1>5. StepsOf(r) < StepsOf(k)
    BY <1>3, <1>4, StepsOrder
  <1>6. QED
    BY <1>2, <1>5 DEF Further, r

\* Another attempt of a POST that got its answer.
LEMMA RetriedFurther ==
    ASSUME NEW k \in Call, k.attempt < MaxAttempts, k.sent # Unsent
    PROVE  Further(k, Retried(k))
  <1> DEFINE r == Retried(k)
  <1>1. /\ r \in Call /\ r.goal = k.goal /\ r.polls = k.polls /\ r.post = k.post
        /\ r.attempt = k.attempt + 1 /\ r.sent = Unsent
    BY Records DEF Retried, Call
  <1> HIDE DEF r
  <1>2. TurnsOf(r) = TurnsOf(k)
    BY <1>1, SameTurn
  <1>3. /\ StepsOf(r) = LaterOf(k.post) + 2 * (MaxAttempts - (k.attempt + 1)) + 2
        /\ StepsOf(k) = LaterOf(k.post) + 2 * (MaxAttempts - k.attempt) + 1
    BY <1>1, StepsOrder
  <1>4. StepsOf(r) < StepsOf(k)
    BY <1>3, StepsOrder
  <1>5. QED
    BY <1>2, <1>4 DEF Further, r

\* Whatever a call does makes a record that is further on.
LEMMA ProgressFurther ==
    ASSUME IInv, NEW c \in Calls, Progress(c)
    PROVE  \E r : call' = [call EXCEPT ![c] = r] /\ Further(call[c], r)
  <1> DEFINE k == call[c]
  <1>1. k \in Call /\ session \in Nat
    BY DEF IInv, TypeOK
  <1>2. (~InFlight(c) => k.sent = Unsent) /\ (InFlight(c) => k.sent # Unsent)
    BY DEF InFlight
  <1>3. Posting(c) => k.goal \in Goals
    BY DEF Posting, Active
  <1>4. /\ {"tools", "list", "get", "generate", "status", "display", "fetch"} = Goals
        /\ {"notify", "call"} \subseteq Posts
    BY DEF Goals, Posts
  <1> HIDE DEF k
  <1>5. QED
    BY <1>1, <1>2, <1>3, <1>4, CallStep, PursuedFurther, EndedFurther, PolledFurther,
       PostedFurther, SentFurther, RetriedFurther DEF k

\* The measures of the model are those of the record.
LEMMA MeasuresOf ==
    ASSUME NEW c \in Calls
    PROVE  /\ TurnsLeft(c) = TurnsOf(call[c]) /\ TurnsLeft(c)' = TurnsOf(call'[c])
           /\ StepsInTurn(c) = StepsOf(call[c])
           /\ StepsInTurn(c)' = StepsOf(call'[c])
  BY DEF TurnsLeft, TurnsOf, StepsInTurn, StepsOf, InFlight

\* No step of the client or the server sends a call back.
LEMMA ForwardStep ==
    ASSUME IInv, [Next]_vars, NEW c \in Calls, call'[c] # call[c]
    PROVE  \/ TurnsLeft(c)' < TurnsLeft(c)
           \/ TurnsLeft(c)' = TurnsLeft(c) /\ StepsInTurn(c)' < StepsInTurn(c)
  <1>1. \E d \in Calls : Progress(d)
    BY DEF Next, Progress, Expire, vars
  <1>2. PICK d \in Calls : Progress(d)
    BY <1>1
  <1>3. PICK r : call' = [call EXCEPT ![d] = r] /\ Further(call[d], r)
    BY <1>2, ProgressFurther
  <1>4. d = c /\ call'[c] = r
    BY <1>3 DEF IInv, TypeOK
  <1>5. QED
    BY <1>3, <1>4, MeasuresOf DEF Further

-----------------------------------------------------------------------------
(***************************************************************************)
(* The results.                                                            *)
(***************************************************************************)

\* The type invariant, with the bounds on attempts, polls and generations that
\* _http_post and _await_job set.
THEOREM TypeCorrect == Spec => []TypeOK
  BY Invariance, PTL DEF IInv

\* An initialized client has its session, unless two calls overlapped at a
\* server that names the session only once.
THEOREM SessionStays == Spec => []SessionKept
  BY Invariance, PTL DEF IInv

\* generate_clip buys as ClipPurchase promises: one generation at a time, none
\* after one was acknowledged, and no clip that was not bought.
THEOREM Refinement == Spec => BuysAsPromised
  <1>1. Init => Purchase!Init
    BY DEF Init, Purchase!Init, Order, NewCall
  <1>2. IInv /\ [Next]_vars => [Purchase!Next]_<<bought, [c \in Calls |-> Order(c)]>>
    BY PurchaseStep
  <1>3. QED
    BY <1>1, <1>2, Invariance, PTL DEF Spec, BuysAsPromised, Purchase!Spec

\* Whatever the server answers and the other calls do to the session, a call only
\* goes forward, through at most MaxPolls + 5 turns of 3 * MaxAttempts POSTs.
THEOREM CallsGoForward == Spec => GoesForward
  <1>1. IInv /\ [Next]_vars =>
            [\A c \in Calls :
                call'[c] # call[c] =>
                  \/ TurnsLeft(c)' < TurnsLeft(c)
                  \/ TurnsLeft(c)' = TurnsLeft(c) /\ StepsInTurn(c)' < StepsInTurn(c)]_vars
    BY ForwardStep
  <1>2. QED
    BY <1>1, Invariance, PTL DEF Spec, GoesForward
=============================================================================
