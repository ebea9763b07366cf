------------------------------ MODULE Gateway ------------------------------
(***************************************************************************)
(* LiteLLMGateway.complete_json of app/gateway/client.py and the circuit   *)
(* breaker of app/gateway/circuit.py: the text and QC nodes of all jobs of *)
(* the process share one breaker per model alias and one cache of answers. *)
(*                                                                         *)
(* A call is one complete_json of one node.  It runs without a break from  *)
(* one await to the next: the HTTP exchange ("post") or the sleep before   *)
(* another attempt ("backoff").  Time is counted in ticks and kept as the  *)
(* age of each time stamp.                                                 *)
(***************************************************************************)
EXTENDS Integers, Functions

CONSTANTS
    Aliases,        \* model aliases
    Fallback,       \* GATEWAY_FALLBACK_ALIASES; an alias without one is its own
    Schemas,        \* schema names, part of the cache key
    Calls,          \* complete_json calls alive at one time
    Threshold,      \* CIRCUIT_FAILURE_THRESHOLD
    Window,         \* CIRCUIT_WINDOW_SECONDS, in ticks
    MaxAttempts,    \* max_attempts
    OtherErrors     \* post_chat may raise something that is not an AppError

ASSUME AliasAssumption ==
    Aliases # {} /\ Schemas # {} /\ Fallback \in [Aliases -> Aliases]
ASSUME BreakerAssumption ==
    Threshold \in Nat \ {0} /\ Window \in Nat /\ MaxAttempts \in Nat \ {0}
ASSUME ErrorAssumption == OtherErrors \in BOOLEAN

VARIABLES
    breaker,    \* the CircuitBreaker of each alias
    cache,      \* (alias, schema) pairs with a cached answer
    call        \* each complete_json call

vars == <<breaker, cache, call>>

-----------------------------------------------------------------------------
Ages == 0..Window

\* _failures: how many of each age, as far as the threshold tells apart; older
\* ones are dropped by record_failure before anything looks at them.
\* _opened_at: its age, which no test tells apart beyond Window.
Breaker ==
    [state: {"closed", "open", "half_open"},
     failures: [Ages -> 0..Threshold],
     opened: Ages,
     probe: BOOLEAN]

\* "fresh", "degraded": the call returned a completion.  The others raised.
Results == {"none", "fresh", "degraded", "GATEWAY_REJECTED",
            "GATEWAY_EXHAUSTED", "GATEWAY_CIRCUIT_OPEN", "other"}

\* probe, a history: the breaker let the call in to probe the dependency.
Call ==
    [at: {"idle", "post", "backoff", "returned"},
     alias: Aliases, schema: Schemas, attempt: 1..MaxAttempts,
     tried_fallback: BOOLEAN, probe: BOOLEAN, result: Results]

NewBreaker ==
    [state |-> "closed", failures |-> [age \in Ages |-> 0], opened |-> 0,
     probe |-> FALSE]

IdleCall ==
    [at |-> "idle", alias |-> CHOOSE a \in Aliases : TRUE,
     schema |-> CHOOSE s \in Schemas : TRUE, attempt |-> 1,
     tried_fallback |-> FALSE, probe |-> FALSE, result |-> "none"]

Init ==
    /\ breaker = [a \in Aliases |-> NewBreaker]
    /\ cache = {}
    /\ call = [c \in Calls |-> IdleCall]

-----------------------------------------------------------------------------
(***************************************************************************)
(* CircuitBreaker.                                                         *)
(***************************************************************************)

\* allow: may a call go through, and what that does to the breaker.
Admits(b) ==
    \/ b.state = "closed"
    \/ b.state = "open" /\ b.opened >= Window
    \/ b.state = "half_open" /\ ~b.probe

Admit(b) ==
    IF b.state = "closed" THEN b
    ELSE [b EXCEPT !.state = "half_open", !.probe = TRUE]

\* record_success
Succeeded(b) == NewBreaker

InWindow(b) == FoldFunction(+, 0, b.failures)

AddFailure(b) ==
    [b.failures EXCEPT ![0] = IF @ < Threshold THEN @ + 1 ELSE @]

\* Mutants: one failure too many is tolerated; only a closed breaker opens.
FailedLate(b) ==
    LET f == [b EXCEPT !.failures = AddFailure(b), !.probe = FALSE]
    IN  IF b.state = "half_open" \/ InWindow(f) > Threshold
        THEN [f EXCEPT !.state = "open", !.opened = 0] ELSE f
FailedOpensOnlyClosed(b) ==
    LET f == [b EXCEPT !.failures = AddFailure(b), !.probe = FALSE]
    IN  IF b.state = "closed" /\ InWindow(f) >= Threshold
        THEN [f EXCEPT !.state = "open", !.opened = 0] ELSE f

\* record_failure
Failed(b) ==
    LET f == [b EXCEPT !.failures = AddFailure(b), !.probe = FALSE]
    IN  IF b.state = "half_open" \/ InWindow(f) >= Threshold
        THEN [f EXCEPT !.state = "open", !.opened = 0] ELSE f

-----------------------------------------------------------------------------
(***************************************************************************)
(* complete_json.                                                          *)
(***************************************************************************)

\* The call ends, with the breakers it leaves behind.
Returns(c, brs, result) ==
    /\ breaker' = brs
    /\ call' = [call EXCEPT ![c].at = "returned", ![c].attempt = 1,
                           ![c].probe = FALSE, ![c].result = result]

\* The last cached answer of the alias for the schema, or an error.
CachedOr(alias, schema, error) ==
    IF <<alias, schema>> \in cache THEN "degraded" ELSE error

\* complete_json is entered for an alias: allow and, if it refuses,
\* _degrade_or_open.
Enter(c, brs, alias, schema, tried) ==
    LET admitted == Admits(brs[alias])
    IN  /\ breaker' = IF admitted THEN [brs EXCEPT ![alias] = Admit(brs[alias])]
                      ELSE brs
        /\ call' = [call EXCEPT ![c] =
             [at |-> IF admitted THEN "post" ELSE "returned",
              alias |-> alias, schema |-> schema, attempt |-> 1,
              tried_fallback |-> tried,
              probe |-> admitted /\ brs[alias].state # "closed",
              result |-> IF admitted THEN "none"
                         ELSE CachedOr(alias, schema, "GATEWAY_CIRCUIT_OPEN")]]

\* A node calls the gateway.
Start(c, alias, schema) ==
    /\ call[c].at = "idle"
    /\ Enter(c, breaker, alias, schema, FALSE)
    /\ UNCHANGED cache

Posting(c) == call[c].at = "post"
AliasOf(c) == call[c].alias
AfterFailure(c) ==
    [breaker EXCEPT ![AliasOf(c)] = Failed(breaker[AliasOf(c)])]

PostSucceeds(c) ==
    /\ Posting(c)
    /\ cache' = cache \cup {<<AliasOf(c), call[c].schema>>}
    /\ Returns(c, [breaker EXCEPT ![AliasOf(c)] = Succeeded(breaker[AliasOf(c)])],
               "fresh")

\* An AppError that is not retryable is raised at once.
PostRejected(c) ==
    /\ Posting(c)
    /\ Returns(c, AfterFailure(c), "GATEWAY_REJECTED")
    /\ UNCHANGED cache

\* An attempt failed and is not the last one.
PostFails(c) ==
    /\ Posting(c) /\ call[c].attempt < MaxAttempts
    /\ breaker' = AfterFailure(c)
    /\ call' = [call EXCEPT ![c].at = "backoff"]
    /\ UNCHANGED cache

\* Mutant: the fallback's own fallback is tried too.
MayFallBackAgain(c) == Fallback[AliasOf(c)] # AliasOf(c)

MayFallBack(c) ==
    Fallback[AliasOf(c)] # AliasOf(c) /\ ~call[c].tried_fallback

\* Mutant: a cached answer is preferred to the fallback alias.
PostExhaustedCacheFirst(c) ==
    /\ Posting(c) /\ call[c].attempt = MaxAttempts
    /\ LET brs == AfterFailure(c)
           alias == AliasOf(c)
           schema == call[c].schema
       IN  IF MayFallBack(c) /\ <<alias, schema>> \notin cache
           THEN Enter(c, brs, Fallback[alias], schema, TRUE)
           ELSE Returns(c, brs, CachedOr(alias, schema, "GATEWAY_EXHAUSTED"))
    /\ UNCHANGED cache

\* The last attempt failed: the fallback alias, else the cache, else an error.
PostExhausted(c) ==
    /\ Posting(c) /\ call[c].attempt = MaxAttempts
    /\ LET brs == AfterFailure(c)
           alias == AliasOf(c)
           schema == call[c].schema
       IN  IF MayFallBack(c)
           THEN Enter(c, brs, Fallback[alias], schema, TRUE)
           ELSE Returns(c, brs, CachedOr(alias, schema, "GATEWAY_EXHAUSTED"))
    /\ UNCHANGED cache

\* post_chat raises something that complete_json does not catch: a protocol
\* error of httpx, or an AttributeError on the payload.
PostRaisesOther(c) ==
    /\ Posting(c) /\ OtherErrors
    /\ Returns(c, breaker, "other")
    /\ UNCHANGED cache

\* After the sleep the next attempt is made; allow is not asked again.
Retry(c) ==
    /\ call[c].at = "backoff"
    /\ call' = [call EXCEPT ![c].at = "post", ![c].attempt = @ + 1]
    /\ UNCHANGED <<breaker, cache>>

\* The node goes on with what the call returned or raised.
Take(c) ==
    /\ call[c].at = "returned"
    /\ call' = [call EXCEPT ![c] = IdleCall]
    /\ UNCHANGED <<breaker, cache>>

\* Time passes: failures leave the window, an open breaker grows older.
Tick ==
    /\ breaker' =
         [a \in Aliases |->
            [breaker[a] EXCEPT
               !.failures = [age \in Ages |->
                               IF age = 0 THEN 0 ELSE breaker[a].failures[age - 1]],
               !.opened = IF breaker[a].state = "open" /\ @ < Window
                          THEN @ + 1 ELSE @]]
    /\ UNCHANGED <<cache, call>>

-----------------------------------------------------------------------------
Progress(c) ==
    \/ PostSucceeds(c) \/ PostRejected(c) \/ PostFails(c) \/ PostExhausted(c)
    \/ PostRaisesOther(c) \/ Retry(c) \/ Take(c)

Next ==
    \/ \E c \in Calls :
          \/ \E alias \in Aliases, schema \in Schemas : Start(c, alias, schema)
          \/ Progress(c)
    \/ Tick

Spec == Init /\ [][Next]_vars

\* Every exchange has a timeout, sleeps end, time passes.
FairSpec == Spec /\ (\A c \in Calls : WF_vars(Progress(c))) /\ WF_vars(Tick)

-----------------------------------------------------------------------------
(***************************************************************************)
(* Properties.                                                             *)
(***************************************************************************)

TypeOK ==
    /\ breaker \in [Aliases -> Breaker]
    /\ cache \subseteq Aliases \X Schemas
    /\ call \in [Calls -> Call]

\* A closed breaker has seen fewer failures in the last window, since the last
\* success, than open it, however the calls that reported them overlapped.
ClosedBelowThreshold ==
    \A a \in Aliases :
        breaker[a].state = "closed" => InWindow(breaker[a]) < Threshold

\* The call admitted as the probe of alias a, before it has reported anything.
Probing(c, a) ==
    Posting(c) /\ AliasOf(c) = a /\ call[c].probe /\ call[c].attempt = 1

\* A half-open breaker waits for a probe that is still in flight: it does not
\* refuse calls with nothing left that could open or close it.
HalfOpenHasProbe ==
    \A a \in Aliases :
        breaker[a].state = "half_open" =>
            breaker[a].probe /\ \E c \in Calls : Probing(c, a)

\* Exchanges a call may still have, the one under way included: the attempts
\* left and, as long as it may fall back, those of the fallback.
PostsLeft(c) ==
    IF call[c].at \notin {"post", "backoff"} THEN 0
    ELSE MaxAttempts - call[c].attempt
         + (IF Posting(c) THEN 1 ELSE 0)
         + (IF MayFallBack(c) THEN MaxAttempts ELSE 0)

\* Every exchange of a call uses up one of the at most 2 * MaxAttempts it starts
\* with, and nothing gives one back: not a sleep, nor another call's report to
\* the breaker, nor the fallback's own fallback.
PostsRunOut ==
    [][\A c \in Calls : call[c].at \in {"post", "backoff"} =>
         /\ PostsLeft(c) \in 0..(2 * MaxAttempts)
         /\ PostsLeft(c)' <= PostsLeft(c)
         /\ Posting(c) /\ call'[c] # call[c] => PostsLeft(c)' < PostsLeft(c)]_vars

\* The ladder's last rungs, a stale answer or an error, are reached in order: when
\* the breaker refuses the call at once, after the last exchange it had, or when
\* only the fallback's were left and its breaker refuses them.  It is an error only
\* if there is no answer to fall back on.
LadderInOrder ==
    [][\A c \in Calls :
         LET answer == call'[c]
             refused == ~Admits(breaker'[answer.alias])
         IN  /\ call[c].at # "returned" /\ answer.at = "returned"
             /\ answer.result \in {"degraded", "GATEWAY_EXHAUSTED", "GATEWAY_CIRCUIT_OPEN"}
             => /\ answer.result = "degraded" <=>
                       <<answer.alias, answer.schema>> \in cache
                /\ \/ call[c].at = "idle" /\ refused
                   \/ Posting(c) /\ PostsLeft(c) = 1 /\ answer.alias = AliasOf(c)
                   \/ /\ Posting(c) /\ PostsLeft(c) = MaxAttempts + 1
                      /\ answer.alias # AliasOf(c) /\ refused]_vars

\* Every call ends, also when the fallbacks of two aliases are each other.
CallEnds ==
    \A c \in Calls :
        call[c].at \in {"post", "backoff"} ~> call[c].at = "returned"

\* Message of GATEWAY_CIRCUIT_OPEN: "Retry the job after the dependency
\* recovers".  A half-open breaker is decided one way or the other.
HalfOpenIsDecided ==
    \A a \in Aliases :
        breaker[a].state = "half_open" ~> breaker[a].state # "half_open"
=============================================================================
