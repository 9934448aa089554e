---------------------------- MODULE StreamPromise ----------------------------
(***************************************************************************)
(* What an append stream promises a program that delivers rows through it  *)
(* and then calls shutdown(): nothing of how it queues, batches and        *)
(* retries.  AppendStream is shown to keep it; Outbox is built on it.      *)
(***************************************************************************)
CONSTANTS
    Row,
    Stops       \* failurePolicy is "stop": an outcome that is no commit ends it

VARIABLES
    accepted,   \* rows whose send() or trySend() succeeded
    open,       \* rows in requests that have no outcome yet
    fate,       \* row -> its outcome
    closing     \* how far shutdown() is

streamVars == <<accepted, open, fate, closing>>

StreamTypeOK ==
    /\ accepted \subseteq Row
    /\ open \subseteq Row
    /\ fate \in [Row -> {"none", "committed", "failed", "ambiguous"}]
    /\ closing \in {"no", "called", "ok", "failed"}

StreamInit ==
    /\ accepted = {}
    /\ open = {}
    /\ fate = [r \in Row |-> "none"]
    /\ closing = "no"

(* A program builds a stream for itself and drops the one it had. *)
NewStream ==
    /\ accepted' = {}
    /\ open' = {}
    /\ fate' = [r \in Row |-> "none"]
    /\ closing' = "no"

Settled(r) == fate[r] # "none"

(* An outcome other than a commit stops the stream, if it is to stop. *)
Broken == Stops /\ \E r \in Row : fate[r] \in {"failed", "ambiguous"}

Unsent(S) == \A r \in S : ~Settled(r) /\ r \notin open

(* send() resolves.  Its caller may resume late, when the row and even the *)
(* stream have come to their end.                                          *)
Accept(r) ==
    /\ ~Broken
    /\ closing = "ok" => Settled(r)
    /\ accepted' = accepted \cup {r}
    /\ UNCHANGED <<open, fate, closing>>

(* A batch leaves, each row once, and none after a failure or the end. *)
HandOver(S) ==
    /\ S # {}
    /\ Unsent(S)
    /\ ~Broken
    /\ closing \in {"no", "called"}
    /\ open' = open \cup S
    /\ UNCHANGED <<accepted, fate, closing>>

(* A request gets its outcome. *)
Settle(S, outcome) ==
    /\ S # {}
    /\ S \subseteq open
    /\ outcome \in {"committed", "failed", "ambiguous"}
    /\ open' = open \ S
    /\ fate' = [r \in Row |-> IF r \in S THEN outcome ELSE fate[r]]
    /\ UNCHANGED <<accepted, closing>>

(* After a failure the rows that wait fail, too, and are never sent. *)
GiveUp(S) ==
    /\ Broken
    /\ Unsent(S)
    /\ fate' = [r \in Row |-> IF r \in S THEN "failed" ELSE fate[r]]
    /\ UNCHANGED <<accepted, open, closing>>

BeginShutdown ==
    /\ closing = "no"
    /\ closing' = "called"
    /\ UNCHANGED <<accepted, open, fate>>

(* shutdown() of a broken stream waits for ever. *)
SlipFinish ==
    /\ closing = "called"
    /\ open = {}
    /\ ~Broken /\ \A r \in accepted : Settled(r)
    /\ closing' = "ok"
    /\ UNCHANGED <<accepted, open, fate>>

(* shutdown() returns when no request is in flight: it resolves only if    *)
(* every accepted row has its outcome, which is a commit if the stream     *)
(* stops at others, and throws only if it was stopped.                     *)
Finish ==
    /\ closing = "called"
    /\ open = {}
    /\ \/ ~Broken /\ (\A r \in accepted : Settled(r)) /\ closing' = "ok"
       \/ Broken /\ closing' = "failed"
    /\ UNCHANGED <<accepted, open, fate>>

StreamNext ==
    \/ \E r \in Row : Accept(r)
    \/ \E S \in SUBSET Row :
         \/ HandOver(S)
         \/ \E o \in {"committed", "failed", "ambiguous"} : Settle(S, o)
         \/ GiveUp(S)
    \/ BeginShutdown
    \/ Finish

StreamSpec == StreamInit /\ [][StreamNext]_streamVars
==============================================================================
