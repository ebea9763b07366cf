----------------------------- MODULE KeyedOnce -----------------------------
(***************************************************************************)
(* What POST /jobs promises about one idempotency key: the first request   *)
(* claims it for its own body, and while the claim stands every request is *)
(* answered with the claimed job or is told that its body differs.         *)
(***************************************************************************)
CONSTANTS
    Requests,   \* each names the job it would create
    Body        \* the body of each request

VARIABLES
    row,        \* the request whose job the key names, or "none"
    claimed,    \* the requests that ever claimed the key
    answer      \* what each request was told: a job or a word

Words == {"none", "mismatch", "not_found", "error"}

Init ==
    /\ row = "none" /\ claimed = {}
    /\ answer = [r \in Requests |-> "none"]

Tell(r, a) == answer[r] = "none" /\ answer' = [answer EXCEPT ![r] = a]

\* The first request, or the first after the job was deleted.  The claim may
\* stand although the request fails.
Claim(r) ==
    /\ row = "none" /\ r \notin claimed
    /\ row' = r /\ claimed' = claimed \cup {r}
    /\ UNCHANGED answer \/ Tell(r, "error")

\* A claiming request is told its own job.
Created(r) == r \in claimed /\ Tell(r, r) /\ UNCHANGED <<row, claimed>>

\* Any other is told the job of the standing claim, if its body is the same.
Replay(r) ==
    /\ row # "none" /\ Body[row] = Body[r]
    /\ Tell(r, row)
    /\ UNCHANGED <<row, claimed>>

\* A body that differs from one claimed, perhaps by a job deleted since.
Mismatch(r) ==
    /\ \E s \in claimed : Body[s] # Body[r]
    /\ Tell(r, "mismatch")
    /\ UNCHANGED <<row, claimed>>

\* A fault, or a job deleted meanwhile.
Refuse(r) ==
    /\ Tell(r, "error") \/ Tell(r, "not_found")
    /\ UNCHANGED <<row, claimed>>

\* The process ends with some requests unanswered.
HangUp ==
    /\ \E lost \in SUBSET {r \in Requests : answer[r] = "none"} :
          answer' = [r \in Requests |-> IF r \in lost THEN "error" ELSE answer[r]]
    /\ UNCHANGED <<row, claimed>>

\* The job is deleted and its key with it.
Forget == row # "none" /\ row' = "none" /\ UNCHANGED <<claimed, answer>>

Next ==
    \/ \E r \in Requests :
          Claim(r) \/ Created(r) \/ Replay(r) \/ Mismatch(r) \/ Refuse(r)
    \/ HangUp \/ Forget

Spec == Init /\ [][Next]_<<row, claimed, answer>>
=============================================================================
