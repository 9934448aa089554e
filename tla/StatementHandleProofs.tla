------------------------ MODULE StatementHandleProofs ------------------------
(***************************************************************************)
(* Reads through a handle never go back in time, whatever the order of     *)
(* requests and answers, for any number of calls; and an error that        *)
(* invites another submission means that there was none.                   *)
(***************************************************************************)
EXTENDS StatementHandle, TLAPS

(* The cached snapshot as a call would return it. *)
Cached == AsReturned(currentSnapshot, appliedObservation)

(* What was returned is not newer than what is cached. *)
CacheIsNewest ==
    lastReturned # NoSnapshot =>
        currentSnapshot # NoSnapshot /\ AtLeastAsNew(Cached, lastReturned)

(* Nobody reads through a handle before there is one. *)
NoHandleYet ==
    submission \in {"idle", "requesting", "failed"} =>
        /\ currentSnapshot = NoSnapshot
        /\ lastReturned = NoSnapshot
        /\ \A c \in Calls : pc[c] = "idle"

IInv == TypeOK /\ NoHandleYet /\ CacheIsNewest /\ RetryIsSafe

LEMMA ReturnedType ==
    ASSUME NEW s \in Snapshot, NEW obs \in Nat
    PROVE  /\ AsReturned(s, obs) \in Returned
           /\ AsReturned(s, obs).status = s.status
           /\ AsReturned(s, obs).nanos = s.nanos
           /\ AsReturned(s, obs).observation = obs
  BY DEF AsReturned, Returned, Snapshot

(* Being at least as new is a preorder. *)
LEMMA AtLeastAsNewReflexive ==
    ASSUME NEW a
    PROVE  AtLeastAsNew(a, a)
  BY DEF AtLeastAsNew

LEMMA AtLeastAsNewTransitive ==
    ASSUME NEW a \in Returned, NEW b \in Returned, NEW c \in Returned,
           AtLeastAsNew(a, b), AtLeastAsNew(b, c)
    PROVE  AtLeastAsNew(a, c)
  <1>1. /\ Stage(a.status) \in Nat /\ Stage(b.status) \in Nat /\ Stage(c.status) \in Nat
        /\ a.nanos \in Nat /\ b.nanos \in Nat /\ c.nanos \in Nat
        /\ a.observation \in Nat /\ b.observation \in Nat /\ c.observation \in Nat
    BY DEF Stage, Returned
  <1>2. a.status = b.status => Stage(a.status) = Stage(b.status)
    OBVIOUS
  <1>3. b.status = c.status => Stage(b.status) = Stage(c.status)
    OBVIOUS
  <1>4. CASE a = b \/ b = c
    BY <1>4
  <1>5. CASE a # b /\ b # c
    BY <1>1, <1>2, <1>3, <1>5 DEF AtLeastAsNew
  <1> QED
    BY <1>4, <1>5

(* remember() leaves the cache at least as new as it was. *)
LEMMA RememberAdvances ==
    ASSUME TypeOK, NEW s \in Snapshot, NEW obs \in Nat, Remember(s, obs)
    PROVE  /\ currentSnapshot' \in Snapshot
           /\ appliedObservation' \in Nat
           /\ currentSnapshot # NoSnapshot => AtLeastAsNew(Cached', Cached)
  <1>1. CASE PrefersCached(s, obs)
    <2>1. currentSnapshot' = currentSnapshot /\ appliedObservation' = appliedObservation
          /\ currentSnapshot # NoSnapshot
      BY <1>1 DEF Remember, PrefersCached
    <2>2. Cached' = Cached
      BY <2>1 DEF Cached
    <2> QED
      BY <2>1, <2>2, AtLeastAsNewReflexive DEF TypeOK
  <1>2. CASE ~PrefersCached(s, obs)
    <2>1. currentSnapshot' = s /\ appliedObservation' = obs
      BY <1>2 DEF Remember
    <2>2. ASSUME currentSnapshot # NoSnapshot
          PROVE  AtLeastAsNew(Cached', Cached)
      <3>1. currentSnapshot \in Snapshot /\ appliedObservation \in Nat
        BY <2>2 DEF TypeOK
      <3>2. /\ Cached'.status = s.status /\ Cached'.nanos = s.nanos
            /\ Cached'.observation = obs
        BY <2>1, ReturnedType DEF Cached
      <3>3. /\ Cached.status = currentSnapshot.status
            /\ Cached.nanos = currentSnapshot.nanos
            /\ Cached.observation = appliedObservation
        BY <3>1, ReturnedType DEF Cached
      <3>4. ~Terminated(currentSnapshot)
            /\ (~Terminated(s) => ~RegressesToPending(s) /\ ~OlderProgress(s, obs))
        BY <1>2, <2>2 DEF PrefersCached
      <3>5. currentSnapshot.status \in Active
        BY <3>1, <3>4 DEF Terminated, Snapshot, Active, Ended
      <3>6. CASE Terminated(s)
        <4>1. Stage(s.status) = 2 /\ Stage(currentSnapshot.status) < 2
          BY <3>5, <3>6 DEF Terminated, Stage, Active
        <4> QED
          BY <4>1, <3>2, <3>3 DEF AtLeastAsNew
      <3>7. CASE ~Terminated(s)
        <4>1. s.status \in Active
          BY <3>7 DEF Terminated, Snapshot, Active, Ended
        <4>2. CASE s.status # currentSnapshot.status
          <5>1. s.status = "running" /\ currentSnapshot.status = "pending"
            BY <4>1, <4>2, <3>4, <3>5, <3>7 DEF RegressesToPending, Active
          <5> QED
            BY <5>1, <3>2, <3>3 DEF AtLeastAsNew, Stage
        <4>3. CASE s.status = currentSnapshot.status
          <5>1. ~(s.nanos < currentSnapshot.nanos)
                /\ ~(s.nanos = currentSnapshot.nanos /\ obs < appliedObservation)
            BY <4>3, <3>4, <3>7 DEF OlderProgress
          <5>2. s.nanos \in Nat /\ currentSnapshot.nanos \in Nat
            BY <3>1 DEF Snapshot
          <5>3. \/ s.nanos > currentSnapshot.nanos
                \/ s.nanos = currentSnapshot.nanos /\ obs >= appliedObservation
            BY <5>1, <5>2, <3>1
          <5>4. Stage(currentSnapshot.status) < 2
            BY <3>5 DEF Stage, Active
          <5> QED
            BY <5>3, <5>4, <4>3, <3>2, <3>3 DEF AtLeastAsNew
        <4> QED
          BY <4>2, <4>3
      <3> QED
        BY <3>6, <3>7
    <2> QED
      BY <2>1, <2>2
  <1> QED
    BY <1>1, <1>2

(* An answer without a code, or none, is never taken for a temporary error. *)
LEMMA UncodedIsNotTemporary ==
    ASSUME NEW r \in UncodedErrors
    PROVE  SubmitStatus(r) # "temporary"
  <1>1. ~HasCode(r) /\ r.retryable = "absent"
    BY DEF UncodedErrors
  <1>2. ServerRetryable(r) = "absent"
    BY <1>1 DEF ServerRetryable
  <1> QED
    BY <1>1, <1>2 DEF SubmitStatus, SubmissionUnknown, TemporaryError

LEMMA SubmitStatusType ==
    ASSUME NEW r
    PROVE  SubmitStatus(r) \in Failure
  BY DEF SubmitStatus, Failure

------------------------------------------------------------------------------
(* The invariant holds before submit(). *)
THEOREM InitInvariant == Init => IInv
  <1> SUFFICES ASSUME Init PROVE IInv
    OBVIOUS
  <1> USE DEF Init
  <1>1. TypeOK
    <2>1. cancelRequested \in BOOLEAN /\ replayInvited \in BOOLEAN
      BY Zenon
    <2> QED
      BY <2>1 DEF TypeOK
  <1> QED
    BY <1>1 DEF IInv, NoHandleYet, CacheIsNewest, RetryIsSafe

(* Every step of the service, of submit() and of a call keeps it. *)
LEMMA ServiceKeeps ==
    ASSUME IInv, Accept \/ Advance \/ End
    PROVE  IInv'
  <1>1. UNCHANGED <<submission, submitError, currentSnapshot, nextObservation,
                    appliedObservation, pc, observation, reply, lastReturned, replayInvited,
                    cancelRequested>>
    BY DEF Accept, Advance, End, submitting, handle, told
  <1>2. server' \in {"absent", "refused"} \cup Active \cup Ended /\ nanos' \in Nat
    BY DEF IInv, TypeOK, Accept, Advance, End, Active, Ended
  <1>3. server = "refused" => server' = "refused"
    BY DEF Accept, Advance, End, Active
  <1>4. TypeOK'
    BY <1>1, <1>2 DEF IInv, TypeOK
  <1>5. CacheIsNewest'
    BY <1>1 DEF IInv, CacheIsNewest, Cached
  <1>6. RetryIsSafe'
    BY <1>1, <1>3 DEF IInv, RetryIsSafe
  <1>7. NoHandleYet'
    BY <1>1 DEF IInv, NoHandleYet
  <1> QED
    BY <1>4, <1>5, <1>6, <1>7 DEF IInv

LEMMA SubmissionKeeps ==
    ASSUME IInv, Submit \/ Submitted \/ SubmitFails \/ Attach
    PROVE  IInv'
  <1>0. TypeOK
    BY DEF IInv
  <1>1. UNCHANGED <<server, nanos, cancelRequested, nextObservation, appliedObservation,
                    pc, observation, reply, lastReturned, replayInvited>>
    BY DEF Submit, Submitted, SubmitFails, Attach, service, handle, told
  <1>2. CASE Submitted
    <2>1. Observed \in Snapshot
      BY <1>0, <1>2 DEF Submitted, Observed, Known, Snapshot, TypeOK
    <2>2. submission' = "handle" /\ submitError' = submitError /\ currentSnapshot' = Observed
      BY <1>2 DEF Submitted
    <2>3. TypeOK'
      BY <1>0, <1>1, <2>1, <2>2 DEF TypeOK
    <2>4. submission = "requesting" /\ RetryIsSafe'
      BY <1>1, <1>2, <2>2 DEF Submitted, IInv, RetryIsSafe
    <2>5. CacheIsNewest' /\ NoHandleYet'
      BY <1>1, <2>2, <2>4 DEF IInv, NoHandleYet, CacheIsNewest
    <2> QED
      BY <2>3, <2>4, <2>5 DEF IInv
  <1>3. CASE Submit \/ SubmitFails \/ Attach
    <2>1. currentSnapshot' = currentSnapshot
      BY <1>3 DEF Submit, SubmitFails, Attach, handle
    <2>2. submission' \in {"requesting", "failed", "attached"}
      BY <1>3 DEF Submit, SubmitFails, Attach
    <2>3. submitError' \in Failure \cup {"none"}
          /\ (submitError' = "temporary" => server = "refused")
      <3>1. CASE Submit \/ Attach
        BY <1>0, <3>1 DEF Submit, Attach, IInv, RetryIsSafe, TypeOK
      <3>2. CASE SubmitFails
        BY <3>2, UncodedIsNotTemporary, SubmitStatusType DEF SubmitFails, Failure
      <3> QED
        BY <1>3, <3>1, <3>2
    <2>4. TypeOK'
      BY <1>0, <1>1, <2>1, <2>2, <2>3 DEF TypeOK
    <2>5. CacheIsNewest'
      BY <1>1, <2>1 DEF IInv, CacheIsNewest, Cached
    <2>6. RetryIsSafe'
      BY <1>1, <2>3 DEF IInv, RetryIsSafe
    <2>7. submission \in {"idle", "requesting", "failed"}
      BY <1>3 DEF Submit, SubmitFails, Attach
    <2>8. NoHandleYet'
      BY <1>1, <2>1, <2>7 DEF IInv, NoHandleYet
    <2> QED
      BY <2>4, <2>5, <2>6, <2>8 DEF IInv
  <1> QED
    BY <1>2, <1>3

(***************************************************************************)
(* A call.  The cached snapshot is what refresh() and cancel() return.     *)
(***************************************************************************)
LEMMA ReturnCachedKeeps ==
    ASSUME IInv, NEW c \in Calls, ReturnCached(c), KnownTerminal,
           submission \in {"handle", "attached"}
    PROVE  IInv' /\ lastReturned' = Cached
  <1>0. TypeOK
    BY DEF IInv
  <1>1. /\ UNCHANGED <<server, nanos, cancelRequested, submission, submitError>>
        /\ UNCHANGED <<currentSnapshot, nextObservation, appliedObservation, replayInvited>>
        /\ pc' = [pc EXCEPT ![c] = "returned"]
        /\ observation' = [observation EXCEPT ![c] = 0]
        /\ reply' = [reply EXCEPT ![c] = NoSnapshot]
        /\ lastReturned' = Cached
    BY DEF ReturnCached, Forget, service, submitting, handle, Cached
  <1>2. currentSnapshot \in Snapshot
    BY <1>0 DEF KnownTerminal, TypeOK
  <1>3. Cached \in Returned
    BY <1>0, <1>2, ReturnedType DEF Cached, TypeOK
  <1>4. TypeOK'
    BY <1>0, <1>1, <1>3, StatementAssumption DEF TypeOK
  <1>5. CacheIsNewest'
    <2>1. Cached' = Cached
      BY <1>1 DEF Cached
    <2> QED
      BY <1>1, <2>1, AtLeastAsNewReflexive DEF CacheIsNewest, KnownTerminal
  <1>6. NoHandleYet' /\ RetryIsSafe'
    BY <1>1 DEF IInv, NoHandleYet, RetryIsSafe
  <1> QED
    BY <1>1, <1>4, <1>5, <1>6 DEF IInv

LEMMA RequestKeeps ==
    ASSUME IInv, NEW c \in Calls, Request(c),
           submission \in {"handle", "attached"}
    PROVE  IInv' /\ UNCHANGED lastReturned
  <1>0. TypeOK
    BY DEF IInv
  <1>1. /\ UNCHANGED <<server, nanos, submission, submitError>>
        /\ UNCHANGED <<currentSnapshot, appliedObservation, lastReturned, replayInvited>>
        /\ pc' = [pc EXCEPT ![c] = "requesting"]
        /\ observation' = [observation EXCEPT ![c] = nextObservation + 1]
        /\ nextObservation' = nextObservation + 1
        /\ reply' = [reply EXCEPT ![c] = NoSnapshot]
    BY DEF Request, submitting, told
  <1>2. cancelRequested' \in BOOLEAN
    <2>1. cancelRequested' = (cancelRequested \/ Method[c] = "cancel")
      BY DEF Request
    <2> QED
      BY <1>0, <2>1, Zenon DEF TypeOK
  <1>3. TypeOK'
    BY <1>0, <1>1, <1>2 DEF TypeOK
  <1>4. CacheIsNewest' /\ NoHandleYet' /\ RetryIsSafe'
    BY <1>1 DEF IInv, CacheIsNewest, Cached, NoHandleYet, RetryIsSafe
  <1> QED
    BY <1>1, <1>3, <1>4 DEF IInv

(* Only a handle is called. *)
LEMMA OnlyHandlesAreCalled ==
    ASSUME IInv, NEW c \in Calls, pc[c] # "idle"
    PROVE  submission \in {"handle", "attached"}
  BY DEF IInv, NoHandleYet, TypeOK

LEMMA ReceiveKeeps ==
    ASSUME IInv, NEW c \in Calls, Receive(c)
    PROVE  /\ IInv'
           /\ \/ UNCHANGED lastReturned
              \/ lastReturned' = Cached' /\ Cached' \in Returned
           /\ currentSnapshot # NoSnapshot => AtLeastAsNew(Cached', Cached)
  <1>0. TypeOK
    BY DEF IInv
  <1>1. reply[c] \in Snapshot /\ observation[c] \in Nat /\ Remember(reply[c], observation[c])
    BY <1>0 DEF Receive, TypeOK
  <1>2. /\ currentSnapshot' \in Snapshot
        /\ appliedObservation' \in Nat
        /\ currentSnapshot # NoSnapshot => AtLeastAsNew(Cached', Cached)
    BY <1>0, <1>1, RememberAdvances
  <1>3. currentSnapshot' # NoSnapshot
    BY <1>2, StatementAssumption
  <1>4. Cached' \in Returned
    BY <1>2, ReturnedType DEF Cached
  <1>5. /\ UNCHANGED <<server, nanos, cancelRequested, submission, submitError>>
        /\ UNCHANGED <<nextObservation, replayInvited>>
        /\ observation' = [observation EXCEPT ![c] = 0]
        /\ reply' = [reply EXCEPT ![c] = NoSnapshot]
    BY DEF Receive, Forget, service, submitting
  <1>6. \/ pc' = [pc EXCEPT ![c] = "sleeping"] /\ lastReturned' = lastReturned
        \/ pc' = [pc EXCEPT ![c] = "returned"] /\ lastReturned' = Cached'
    BY <1>3 DEF Receive, Cached
  <1>7. TypeOK'
    <2>1. lastReturned' \in Returned \cup {NoSnapshot}
      BY <1>0, <1>4, <1>6 DEF TypeOK
    <2>2. lastReturned' = NoSnapshot => \A d \in Calls : pc'[d] # "returned"
      BY <1>0, <1>4, <1>6, StatementAssumption DEF TypeOK
    <2>3. pc' \in [Calls -> {"idle", "requesting", "sleeping", "returned", "threw"}]
      BY <1>0, <1>6 DEF TypeOK
    <2> QED
      BY <1>0, <1>2, <1>5, <2>1, <2>2, <2>3 DEF TypeOK
  <1>8. CacheIsNewest'
    <2>1. CASE lastReturned' = Cached'
      BY <1>3, <2>1, AtLeastAsNewReflexive DEF CacheIsNewest
    <2>2. CASE lastReturned' = lastReturned /\ lastReturned # NoSnapshot
      <3>1. lastReturned \in Returned
        BY <1>0, <2>2 DEF TypeOK
      <3>2. currentSnapshot # NoSnapshot /\ AtLeastAsNew(Cached, lastReturned)
        BY <2>2 DEF IInv, CacheIsNewest
      <3>3. Cached \in Returned
        BY <1>0, <3>2, ReturnedType DEF Cached, TypeOK
      <3>4. AtLeastAsNew(Cached', lastReturned)
        BY <1>2, <1>4, <3>1, <3>2, <3>3, AtLeastAsNewTransitive
      <3> QED
        BY <1>3, <2>2, <3>4 DEF CacheIsNewest
    <2>3. CASE lastReturned' = lastReturned /\ lastReturned = NoSnapshot
      BY <2>3 DEF CacheIsNewest
    <2> QED
      BY <1>6, <2>1, <2>2, <2>3
  <1>9. NoHandleYet' /\ RetryIsSafe'
    <2>1. submission \in {"handle", "attached"}
      BY OnlyHandlesAreCalled DEF Receive
    <2> QED
      BY <1>5, <2>1 DEF IInv, NoHandleYet, RetryIsSafe
  <1> QED
    BY <1>2, <1>4, <1>6, <1>7, <1>8, <1>9 DEF IInv

LEMMA ThrowKeeps ==
    ASSUME IInv, NEW c \in Calls, NEW e, Throw(c, e), pc[c] # "idle"
    PROVE  IInv' /\ UNCHANGED lastReturned
  <1>0. TypeOK
    BY DEF IInv
  <1>1. /\ UNCHANGED <<server, nanos, cancelRequested, submission, submitError>>
        /\ UNCHANGED <<currentSnapshot, nextObservation, appliedObservation, lastReturned>>
        /\ pc' = [pc EXCEPT ![c] = "threw"]
        /\ observation' = [observation EXCEPT ![c] = 0]
        /\ reply' = [reply EXCEPT ![c] = NoSnapshot]
    BY DEF Throw, Forget, service, submitting, handle
  <1>2. ~replayInvited'
    BY DEF Throw, Thrown, IInv, RetryIsSafe
  <1>3. replayInvited' \in BOOLEAN
    <2>1. replayInvited' = (\/ replayInvited
                            \/ Method[c] = "execute" /\ Thrown(c, e) = "temporary")
      BY DEF Throw
    <2> QED
      BY <1>0, <2>1, Zenon DEF TypeOK
  <1>4. TypeOK'
    BY <1>0, <1>1, <1>3 DEF TypeOK
  <1>5. CacheIsNewest' /\ RetryIsSafe'
    BY <1>1, <1>2 DEF IInv, CacheIsNewest, Cached, RetryIsSafe
  <1>6. NoHandleYet'
    BY <1>1, OnlyHandlesAreCalled DEF NoHandleYet
  <1> QED
    BY <1>1, <1>4, <1>5, <1>6 DEF IInv

(* What one call does keeps the invariant, and what it returns is what the *)
(* cache holds afterwards, which is at least as new as before.             *)
LEMMA CallKeeps ==
    ASSUME IInv, NEW c \in Calls,
           Call(c) \/ Poll(c) \/ Serve(c) \/ Receive(c) \/ Fail(c) \/ Abort(c)
    PROVE  /\ IInv'
           /\ \/ UNCHANGED lastReturned
              \/ /\ lastReturned' \in Returned
                 /\ currentSnapshot # NoSnapshot =>
                        Cached \in Returned /\ AtLeastAsNew(lastReturned', Cached)
  <1>0. TypeOK
    BY DEF IInv
  <1>1. currentSnapshot # NoSnapshot => Cached \in Returned
    BY <1>0, ReturnedType DEF Cached, TypeOK
  <1>2. CASE Call(c) \/ Poll(c)
    <2>1. submission \in {"handle", "attached"}
      <3>1. CASE Call(c)
        BY <3>1 DEF Call
      <3>2. CASE Poll(c)
        BY <3>2, OnlyHandlesAreCalled DEF Poll
      <3> QED
        BY <1>2, <3>1, <3>2
    <2>2. CASE KnownTerminal /\ ReturnCached(c)
      <3>1. IInv' /\ lastReturned' = Cached
        BY <2>1, <2>2, ReturnCachedKeeps
      <3> QED
        BY <1>1, <2>2, <3>1, AtLeastAsNewReflexive DEF KnownTerminal
    <2>3. CASE Request(c)
      BY <2>1, <2>3, RequestKeeps
    <2> QED
      BY <1>2, <2>2, <2>3 DEF Call, Poll
  <1>3. CASE Serve(c)
    <2>1. /\ UNCHANGED <<server, nanos, cancelRequested, submission, submitError>>
          /\ UNCHANGED <<currentSnapshot, nextObservation, appliedObservation>>
          /\ UNCHANGED <<pc, observation, lastReturned, replayInvited>>
          /\ reply' = [reply EXCEPT ![c] = Observed]
      BY <1>3 DEF Serve, service, submitting, handle, told
    <2>2. Observed \in Snapshot
      BY <1>0, <1>3 DEF Serve, Observed, Known, Snapshot, TypeOK
    <2>3. TypeOK'
      BY <1>0, <2>1, <2>2 DEF TypeOK
    <2>4. CacheIsNewest' /\ NoHandleYet' /\ RetryIsSafe'
      BY <2>1 DEF IInv, CacheIsNewest, Cached, NoHandleYet, RetryIsSafe
    <2> QED
      BY <2>1, <2>3, <2>4 DEF IInv
  <1>4. CASE Receive(c)
    BY <1>1, <1>4, ReceiveKeeps
  <1>5. CASE Fail(c) \/ Abort(c)
    <2>1. pc[c] # "idle" /\ \E e \in Failure : Throw(c, e)
      BY <1>5 DEF Fail, Abort, Failure
    <2> QED
      BY <2>1, ThrowKeeps
  <1> QED
    BY <1>2, <1>3, <1>4, <1>5

(* A step that returns anything returns nothing older than was returned. *)
LEMMA StepKeeps ==
    ASSUME IInv, [Next]_vars
    PROVE  /\ IInv'
           /\ [lastReturned # NoSnapshot => AtLeastAsNew(lastReturned', lastReturned)]_lastReturned
  <1>1. CASE UNCHANGED vars
    <2>1. /\ UNCHANGED <<server, nanos, cancelRequested, submission, submitError>>
          /\ UNCHANGED <<currentSnapshot, nextObservation, appliedObservation>>
          /\ UNCHANGED <<pc, observation, reply, lastReturned, replayInvited>>
      BY <1>1 DEF vars, service, submitting, handle, told
    <2>2. TypeOK'
      BY <2>1 DEF IInv, TypeOK
    <2>3. CacheIsNewest' /\ NoHandleYet' /\ RetryIsSafe'
      BY <2>1 DEF IInv, CacheIsNewest, Cached, NoHandleYet, RetryIsSafe
    <2> QED
      BY <2>1, <2>2, <2>3 DEF IInv
  <1>2. CASE Accept \/ Advance \/ End
    <2>1. UNCHANGED lastReturned
      BY <1>2 DEF Accept, Advance, End, told
    <2> QED
      BY <1>2, <2>1, ServiceKeeps
  <1>3. CASE Submit \/ Submitted \/ SubmitFails \/ Attach
    <2>1. UNCHANGED lastReturned
      BY <1>3 DEF Submit, Submitted, SubmitFails, Attach, told
    <2> QED
      BY <1>3, <2>1, SubmissionKeeps
  <1>4. ASSUME NEW c \in Calls,
               Call(c) \/ Poll(c) \/ Serve(c) \/ Receive(c) \/ Fail(c) \/ Abort(c)
        PROVE  /\ IInv'
               /\ [lastReturned # NoSnapshot =>
                       AtLeastAsNew(lastReturned', lastReturned)]_lastReturned
    <2>1. /\ IInv'
          /\ \/ UNCHANGED lastReturned
             \/ /\ lastReturned' \in Returned
                /\ currentSnapshot # NoSnapshot =>
                       Cached \in Returned /\ AtLeastAsNew(lastReturned', Cached)
      BY <1>4, CallKeeps
    <2>2. ASSUME lastReturned # NoSnapshot, lastReturned' # lastReturned
          PROVE  AtLeastAsNew(lastReturned', lastReturned)
      <3>1. lastReturned \in Returned
        BY <2>2 DEF IInv, TypeOK
      <3>2. currentSnapshot # NoSnapshot /\ AtLeastAsNew(Cached, lastReturned)
        BY <2>2 DEF IInv, CacheIsNewest
      <3> QED
        BY <2>1, <2>2, <3>1, <3>2, AtLeastAsNewTransitive
    <2> QED
      BY <2>1, <2>2
  <1> QED
    BY <1>1, <1>2, <1>3, <1>4 DEF Next

------------------------------------------------------------------------------
(* Every reachable state is typed and its cache is not older than any      *)
(* answer given; an invitation to retry is about a refused statement.      *)
THEOREM Invariance == Spec => []IInv
  BY InitInvariant, StepKeeps, PTL DEF Spec

(* Every variable has its type. *)
THEOREM TypeCorrect == Spec => []TypeOK
  <1>1. IInv => TypeOK
    BY DEF IInv
  <1> QED
    BY <1>1, Invariance, PTL

(* No call returns a state older than one a call returned before, for any  *)
(* number of calls, polls and answers in any order (remember()).           *)
THEOREM ReadsNeverRegress == Spec => NeverRegresses
  <1>1. IInv /\ [Next]_vars =>
          [lastReturned # NoSnapshot => AtLeastAsNew(lastReturned', lastReturned)]_lastReturned
    BY StepKeeps
  <1> QED
    BY <1>1, Invariance, PTL DEF Spec, NeverRegresses

(* An error of submit() is temporary only when the service refused the     *)
(* statement, and no error of execute() is (submit(), execute()).          *)
THEOREM RetriesAreSafe == Spec => []RetryIsSafe
  <1>1. IInv => RetryIsSafe
    BY DEF IInv
  <1> QED
    BY <1>1, Invariance, PTL
==============================================================================
