--------------------------- MODULE StatementHandle ---------------------------
(***************************************************************************)
(* The life of one statement: Statement.submit() and execute(), and the    *)
(* handle through which many callers refresh, wait and cancel at the same  *)
(* time.  Requests overtake each other: the service may read a statement   *)
(* in another order than it was asked, and answers arrive in a third.      *)
(***************************************************************************)
EXTENDS Responses

CONSTANTS
    Calls,            \* calls of the handle's methods, each made at most once
    Method,           \* call -> which method
    MaxNanos,         \* bound of the model: how long a statement is observed
    MaxObservations,  \* bound of the model: no polls beyond it while the
                      \* statement runs,
    MaxPolls,         \* nor beyond this when it has ended; never reached
    NoSnapshot

(* What the service tells, and what a call returns of it. *)
Active == {"pending", "running"}
Ended == {"finished", "failed", "cancelled"}
Snapshot == [status: Active \cup Ended, nanos: Nat]
Returned == [status: Active \cup Ended, nanos: Nat, observation: Nat]

ASSUME StatementAssumption ==
    /\ Method \in [Calls -> {"refresh", "cancel", "wait", "execute"}]
    /\ {MaxNanos, MaxObservations, MaxPolls} \subseteq Nat
    /\ NoSnapshot \notin Snapshot \cup Returned

VARIABLES
    server,            \* the statement at the service
    nanos,             \* its progress.nanos_from_submitted
    cancelRequested,   \* a cancellation was sent
    submission,        \* where submit() is; "handle" is its result, "attached"
                       \* a handle made from the statement's ID
    submitError,       \* the status of the error submit() threw
    currentSnapshot,
    nextObservation,
    appliedObservation,
    pc,                \* call -> where it awaits, or how it ended
    observation,       \* call -> its number
    reply,             \* call -> the answer on its way
    lastReturned,      \* history: the snapshot that a call returned last
    replayInvited      \* history: an execute() threw a temporary error

service == <<server, nanos, cancelRequested>>
submitting == <<submission, submitError>>
handle == <<currentSnapshot, nextObservation, appliedObservation>>
told == <<lastReturned, replayInvited>>
vars == <<service, submitting, handle, pc, observation, reply, told>>

Failure == {"temporary", "persistent", "permanent", "aborted"}

TypeOK ==
    /\ server \in {"absent", "refused"} \cup Active \cup Ended
    /\ nanos \in Nat
    /\ cancelRequested \in BOOLEAN
    /\ submission \in {"idle", "requesting", "failed", "handle", "attached"}
    /\ submitError \in Failure \cup {"none"}
    /\ currentSnapshot \in Snapshot \cup {NoSnapshot}
    /\ nextObservation \in Nat
    /\ appliedObservation \in Nat
    /\ pc \in [Calls -> {"idle", "requesting", "sleeping", "returned", "threw"}]
    /\ observation \in [Calls -> Nat]
    /\ reply \in [Calls -> Snapshot \cup {NoSnapshot}]
    /\ lastReturned \in Returned \cup {NoSnapshot}
    /\ replayInvited \in BOOLEAN
    /\ lastReturned = NoSnapshot => \A c \in Calls : pc[c] # "returned"

(* A snapshot as refresh(), cancel() and wait() return it. *)
AsReturned(s, obs) ==
    [status |-> s.status, nanos |-> s.nanos, observation |-> obs]

Init ==
    /\ server = "absent"
    /\ nanos = 0
    /\ cancelRequested = FALSE
    /\ submission = "idle"
    /\ submitError = "none"
    /\ currentSnapshot = NoSnapshot
    /\ nextObservation = 0
    /\ appliedObservation = 0
    /\ pc = [c \in Calls |-> "idle"]
    /\ observation = [c \in Calls |-> 0]
    /\ reply = [c \in Calls |-> NoSnapshot]
    /\ lastReturned = NoSnapshot
    /\ replayInvited = FALSE

------------------------------------------------------------------------------
(* The service. *)
Accept ==
    /\ server = "absent"
    /\ submission # "idle"
    /\ server' \in {"pending", "running", "refused"}
    /\ UNCHANGED <<nanos, cancelRequested, submitting, handle, pc,
                   observation, reply, told>>

Advance ==
    /\ server \in Active
    /\ nanos < MaxNanos
    /\ nanos' = nanos + 1
    /\ server' \in {server, "running"}
    /\ UNCHANGED <<cancelRequested, submitting, handle, pc,
                   observation, reply, told>>

End ==
    /\ server \in Active
    /\ \/ server' \in {"finished", "failed"}
       \/ cancelRequested /\ server' = "cancelled"
    /\ UNCHANGED <<nanos, cancelRequested, submitting, handle, pc,
                   observation, reply, told>>

Observed == [status |-> server, nanos |-> nanos]
Known == server \in Active \cup Ended

(* The service reads the statement for a call; the answer is on its way. *)
Serve(c) ==
    /\ pc[c] = "requesting"
    /\ reply[c] = NoSnapshot
    /\ Known
    /\ reply' = [reply EXCEPT ![c] = Observed]
    /\ UNCHANGED <<service, submitting, handle, pc, observation, told>>

------------------------------------------------------------------------------
(* Statement.submit(). *)
Submit ==
    /\ submission = "idle"
    /\ submission' = "requesting"
    /\ UNCHANGED <<service, submitError, handle, pc, observation, reply, told>>

(* The new handle remembers the answer as observation 0. *)
Submitted ==
    /\ submission = "requesting"
    /\ Known
    /\ submission' = "handle"
    /\ currentSnapshot' = Observed
    /\ UNCHANGED <<service, submitError, nextObservation, appliedObservation,
                   pc, observation, reply, told>>

(* Errors with a code are the service's word that it refused.  Everybody on *)
(* the way may answer without one.  The code would also take the retry flag *)
(* of such an answer at its word; that only the service sets the flag is an *)
(* assumption about what stands between.                                    *)
CodedErrors == {r \in ErrorResponses : HasCode(r)}
UncodedErrors == {r \in ErrorResponses : ~HasCode(r) /\ r.retryable = "absent"}

(* A gateway's answer is classified like the service's own. *)
SlipSubmitStatus(r) == IF TemporaryError(r) THEN "temporary" ELSE "permanent"

SubmitStatus(r) ==
    IF SubmissionUnknown(r) THEN "persistent"
    ELSE IF TemporaryError(r) THEN "temporary" ELSE "permanent"

SubmitFails ==
    /\ submission = "requesting"
    /\ submission' = "failed"
    /\ \/ \E r \in UncodedErrors : submitError' = SubmitStatus(r)
       \/ server = "refused" /\ \E r \in CodedErrors : submitError' = SubmitStatus(r)
       \/ submitError' = "persistent"   \* no answer: the outcome is unknown
       \/ submitError' = "permanent"    \* an answer that is no snapshot
       \/ submitError' = "aborted"      \* the caller's own reason
    /\ UNCHANGED <<service, handle, pc, observation, reply, told>>

(* Client.statementHandle(id), by a caller who chose the ID and has done *)
(* with the error.                                                       *)
Attach ==
    /\ submission = "failed"
    /\ submission' = "attached"
    /\ submitError' = "none"
    /\ UNCHANGED <<service, handle, pc, observation, reply, told>>

------------------------------------------------------------------------------
(* "cancelled" was forgotten. *)
SlipTerminated(s) == s.status \in {"finished", "failed"}

Terminated(s) == s.status \in {"finished", "failed", "cancelled"}

KnownTerminal == currentSnapshot # NoSnapshot /\ Terminated(currentSnapshot)

(* refresh() or cancel() up to its await, also when wait() calls it. *)
Request(c) ==
    /\ nextObservation' = nextObservation + 1
    /\ observation' = [observation EXCEPT ![c] = nextObservation + 1]
    /\ reply' = [reply EXCEPT ![c] = NoSnapshot]
    /\ pc' = [pc EXCEPT ![c] = "requesting"]
    /\ cancelRequested' = (cancelRequested \/ Method[c] = "cancel")
    /\ UNCHANGED <<server, nanos, submitting, currentSnapshot,
                   appliedObservation, told>>

(* What a call that is over held is of no interest. *)
Forget(c) ==
    /\ observation' = [observation EXCEPT ![c] = 0]
    /\ reply' = [reply EXCEPT ![c] = NoSnapshot]

(* A terminal snapshot is returned without a request. *)
ReturnCached(c) ==
    /\ pc' = [pc EXCEPT ![c] = "returned"]
    /\ lastReturned' = AsReturned(currentSnapshot, appliedObservation)
    /\ Forget(c)
    /\ UNCHANGED <<service, submitting, handle, replayInvited>>

(* execute() has the handle of its own submit(). *)
Call(c) ==
    /\ \/ submission = "handle"
       \/ submission = "attached" /\ Method[c] # "execute"
    /\ pc[c] = "idle"
    /\ IF KnownTerminal THEN ReturnCached(c) ELSE Request(c)

(* The next iteration of wait(), after its delay. *)
Poll(c) ==
    /\ pc[c] = "sleeping"
    /\ \/ KnownTerminal /\ ReturnCached(c)
       \/ /\ ~KnownTerminal
          /\ nextObservation < IF server \in Active THEN MaxObservations ELSE MaxPolls
          /\ Request(c)

(* Whether remember() prefers what it has. *)
RegressesToPending(s) ==
    currentSnapshot.status = "running" /\ s.status = "pending"

(* Answers to the order of requests alone. *)
SlipOlderProgress(s, obs) ==
    /\ currentSnapshot.status = s.status
    /\ obs < appliedObservation

OlderProgress(s, obs) ==
    /\ currentSnapshot.status = s.status
    /\ \/ s.nanos < currentSnapshot.nanos
       \/ s.nanos = currentSnapshot.nanos /\ obs < appliedObservation

PrefersCached(s, obs) ==
    /\ currentSnapshot # NoSnapshot
    /\ \/ Terminated(currentSnapshot)
       \/ ~Terminated(s) /\ (RegressesToPending(s) \/ OlderProgress(s, obs))

Remember(s, obs) ==
    IF PrefersCached(s, obs)
    THEN UNCHANGED <<currentSnapshot, appliedObservation>>
    ELSE currentSnapshot' = s /\ appliedObservation' = obs

Waits(c) == Method[c] \in {"wait", "execute"}

(* An answer arrives; wait() sleeps unless the statement has ended. *)
Receive(c) ==
    /\ pc[c] = "requesting"
    /\ reply[c] # NoSnapshot
    /\ Remember(reply[c], observation[c])
    /\ IF Waits(c) /\ currentSnapshot' # NoSnapshot /\ ~Terminated(currentSnapshot')
       THEN /\ pc' = [pc EXCEPT ![c] = "sleeping"]
            /\ UNCHANGED lastReturned
       ELSE /\ pc' = [pc EXCEPT ![c] = "returned"]
            /\ lastReturned' = IF currentSnapshot' = NoSnapshot THEN NoSnapshot
                               ELSE AsReturned(currentSnapshot', appliedObservation')
    /\ Forget(c)
    /\ UNCHANGED <<service, submitting, nextObservation, replayInvited>>

(* execute() must not invite a second execution. *)
Thrown(c, e) ==
    IF Method[c] = "execute" /\ e = "temporary" THEN "persistent" ELSE e

Throw(c, e) ==
    /\ pc' = [pc EXCEPT ![c] = "threw"]
    /\ replayInvited' = (\/ replayInvited
                         \/ Method[c] = "execute" /\ Thrown(c, e) = "temporary")
    /\ Forget(c)
    /\ UNCHANGED <<service, submitting, handle, lastReturned>>

(* The request or its answer is lost, a gateway answers, the service never *)
(* knew the statement or no longer keeps it, or the answer is about another *)
(* one.  The cache is left alone, so it does not matter how long the error *)
(* was on its way.                                                         *)
Fail(c) ==
    /\ pc[c] = "requesting"
    /\ reply[c] = NoSnapshot
    /\ \E e \in {"temporary", "permanent"} : Throw(c, e)

(* The caller's signal; a late answer is dropped. *)
Abort(c) ==
    /\ pc[c] \in {"requesting", "sleeping"}
    /\ Throw(c, "aborted")

Next ==
    \/ Accept \/ Advance \/ End
    \/ Submit \/ Submitted \/ SubmitFails \/ Attach
    \/ \E c \in Calls :
           \/ Call(c) \/ Poll(c) \/ Serve(c)
           \/ Receive(c) \/ Fail(c) \/ Abort(c)

Spec == Init /\ [][Next]_vars

(***************************************************************************)
(* Timers fire, requests are answered or fail, and the statement ends.     *)
(* The client has no deadline of its own for statements, so the last two   *)
(* are what it relies on the service and the network for.                  *)
(***************************************************************************)
FairSpec ==
    /\ Spec
    /\ WF_vars(End)
    /\ \A c \in Calls : /\ WF_vars(Serve(c) \/ Fail(c))
                        /\ WF_vars(Receive(c))
                        /\ WF_vars(Poll(c))

------------------------------------------------------------------------------
Stage(status) ==
    CASE status = "pending" -> 0 [] status = "running" -> 1 [] OTHER -> 2

(* a is what b is or what became of it: further, or not less progress, or  *)
(* the same progress asked for not earlier; what has ended does not change. *)
AtLeastAsNew(a, b) ==
    \/ Stage(a.status) > Stage(b.status)
    \/ a = b
    \/ /\ a.status = b.status /\ Stage(b.status) < 2
       /\ \/ a.nanos > b.nanos
          \/ a.nanos = b.nanos /\ a.observation >= b.observation

(* No call returns a state older than one that any call returned before,   *)
(* in whatever order answers arrive (remember()).                          *)
NeverRegresses ==
    [][lastReturned # NoSnapshot => AtLeastAsNew(lastReturned', lastReturned)]_lastReturned

(* An error of submit() or execute() is temporary only if the statement    *)
(* was refused: trying again cannot run it twice (submitStatement(),       *)
(* execute()).                                                             *)
RetryIsSafe ==
    /\ submitError = "temporary" => server = "refused"
    /\ ~replayInvited

(* Every call comes back, wait() because the statement ends (wait()). *)
CallsReturn ==
    \A c \in Calls : pc[c] = "requesting" ~> pc[c] \in {"returned", "threw"}
==============================================================================
