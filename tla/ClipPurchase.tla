---------------------------- MODULE ClipPurchase ----------------------------
(***************************************************************************)
(* What generate_clip of a paid video provider promises its caller: a clip *)
(* of a generation it bought, generations bought one at a time and only    *)
(* until one has been acknowledged, and a bound on how many there are.     *)
(***************************************************************************)
EXTENDS Naturals

CONSTANTS
    Calls,          \* the calls of generate_clip
    MaxAttempts     \* generations one call may buy at most

VARIABLES
    bought,     \* generations paid for by each call
    order       \* "open", "placed" once one is acknowledged, "clip", "failed"

Init ==
    /\ bought = [c \in Calls |-> 0]
    /\ order = [c \in Calls |-> "open"]

Turn(c, from, to) == order[c] \in from /\ order' = [order EXCEPT ![c] = to]

\* Submit and be told so, be refused, or never learn what became of it.
Buy(c) ==
    /\ bought[c] < MaxAttempts
    /\ bought' = [bought EXCEPT ![c] = bought[c] + 1]
    /\ \E to \in {"open", "placed", "failed"} : Turn(c, {"open"}, to)

\* The call fails, with the generation perhaps still running.
Fail(c) == Turn(c, {"open", "placed"}, "failed") /\ UNCHANGED bought

Deliver(c) == Turn(c, {"placed"}, "clip") /\ UNCHANGED bought

Next == \E c \in Calls : Buy(c) \/ Fail(c) \/ Deliver(c)

Spec == Init /\ [][Next]_<<bought, order>>
=============================================================================
