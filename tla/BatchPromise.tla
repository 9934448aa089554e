----------------------------- MODULE BatchPromise -----------------------------
(***************************************************************************)
(* What delivering one batch comes to, for whoever owns its rows: how often *)
(* they are written, and what the owner is told.  Nothing of attempts,     *)
(* timers, answers and pauses.  AppendBatch is shown to keep it.           *)
(***************************************************************************)
EXTENDS Naturals

CONSTANTS MaxAttempts

VARIABLES
    repeats,   \* the owner accepts duplicates: retry.retryAmbiguous
    copies,    \* how often the service has written the batch
    verdict    \* what the owner is told

promiseVars == <<repeats, copies, verdict>>

PromiseInit ==
    /\ repeats \in BOOLEAN
    /\ copies = 0
    /\ verdict = "none"

(* Who does not accept duplicates gets none, however late and whatever the *)
(* verdict was; "failed" is the end of it.                                 *)
Write ==
    /\ verdict # "failed"
    /\ copies < IF repeats THEN MaxAttempts ELSE 1
    /\ copies' = copies + 1
    /\ UNCHANGED <<repeats, verdict>>

(* The batch settles, once. *)
Tell(outcome) ==
    /\ verdict = "none"
    /\ outcome = "success" => copies >= 1
    /\ outcome = "failed" => copies = 0
    /\ verdict' = outcome
    /\ UNCHANGED <<repeats, copies>>

PromiseNext ==
    \/ Write
    \/ \E outcome \in {"success", "failed", "ambiguous"} : Tell(outcome)

PromiseSpec == PromiseInit /\ [][PromiseNext]_promiseVars
==============================================================================
