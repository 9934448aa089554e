-------------------------- MODULE AppendBatchProofs --------------------------
(***************************************************************************)
(* What a batch is told about its delivery is true, however many attempts  *)
(* it takes and whatever the service and the network do.                   *)
(***************************************************************************)
EXTENDS AppendBatch, FiniteSetTheorems, TLAPS

(* An attempt that may be followed by another one. *)
Excused(k) ==
    \/ copy[k] = "refused"
    \/ ambiguous /\ retryAmbiguous /\ k \notin abandoned

FutureUntouched ==
    \A k \in Attempts : k > Current => copy[k] = "unsent" /\ k \notin abandoned

CurrentFits ==
    /\ pc = "compressing" => copy[Current] = "unsent" /\ Current \notin abandoned
    /\ pc = "requesting" => Current \notin abandoned

PastExcused == \A k \in Attempts : k < Current => Excused(k)

PauseJustified ==
    pc = "pausing" =>
        /\ Excused(Current)
        /\ retries < MaxRetries
        /\ lastError \in Error
        /\ lastError.outcome = "failed" => copy[Current] = "refused"
        /\ lastError.outcome = "ambiguous" => ambiguous

NotTooEarly == pc # "done" => verdict = "none"

IInv ==
    /\ TypeOK
    /\ FutureUntouched
    /\ CurrentFits
    /\ PastExcused
    /\ PauseJustified
    /\ NotTooEarly
    /\ HonestVerdict

(* In every reachable state there is a current attempt. *)
LEMMA CurrentIsAttempt ==
    ASSUME TypeOK
    PROVE  Current \in Attempts /\ retries \in Nat /\ Current = retries + 1
  BY RetryAssumption DEF TypeOK, Current, Attempts

(* Only a refused attempt is answered by a confirmed rejection. *)
LEMMA RejectionIsTrue ==
    ASSUME NEW k \in Attempts, TypeOK, NEW r \in MaySay(k),
           AppendOutcome(r) = "failed"
    PROVE  copy[k] = "refused"
  <1>1. r.status >= 400 /\ r.status < 500 /\ r.body \in {"coded", "rejected"}
    BY DEF AppendOutcome, ConfirmsRejection
  <1>2. r \notin Successes /\ r \notin Malformed
    BY <1>1 DEF Successes, Malformed
  <1>3. CASE copy[k] = "refused"
    BY <1>3
  <1>4. CASE copy[k] = "written"
    <2>1. r \in FromAnybody \cup Successes
      BY <1>4 DEF MaySay
    <2> QED
      BY <2>1, <1>1, <1>2 DEF FromAnybody, Rejections
  <1>5. CASE copy[k] \notin {"refused", "written"}
    <2>1. r \in FromAnybody
      BY <1>5 DEF MaySay
    <2> QED
      BY <2>1, <1>1, <1>2 DEF FromAnybody, Rejections
  <1> QED
    BY <1>3, <1>4, <1>5

(* Both kinds of errors are errors. *)
LEMMA ErrorTypes ==
    /\ \A gaveUp \in BOOLEAN : NoResponse(gaveUp) \in Error
    /\ \A r \in Response, after \in RetryAfters : FromResponse(r, after) \in Error
  <1>1. ASSUME NEW gaveUp \in BOOLEAN
        PROVE  NoResponse(gaveUp) \in Error
    BY DEF NoResponse, Error
  <1>2. ASSUME NEW r \in Response, NEW after \in RetryAfters
        PROVE  FromResponse(r, after) \in Error
    <2>1. after \in Nat
      BY RetryAssumption
    <2>2. r.status \in Nat
      BY DEF Response, Successes, Malformed, ErrorResponses, ErrorStatuses
    <2>3. AppendOutcome(r) \in {"failed", "ambiguous"}
      BY DEF AppendOutcome
    <2>4. TemporaryRejection(r) \in BOOLEAN
      BY DEF TemporaryRejection
    <2> QED
      BY <2>1, <2>2, <2>3, <2>4 DEF FromResponse, Error
  <1> QED
    BY <1>1, <1>2

(* Whatever ends an attempt, the invariant holds after its catch block. *)
LEMMA AttemptFailsKeeps ==
    ASSUME IInv, pc \in {"compressing", "requesting"}, NEW e \in Error,
           e.outcome = "failed" => copy[Current] = "refused",
           AttemptFails(e),
           elapsed' \in BOOLEAN,
           UNCHANGED <<now, sentAt, fatal, retryAmbiguous, copy>>
    PROVE  IInv'
  <1> USE CurrentIsAttempt
  <1>0. TypeOK /\ verdict = "none" /\ Current \notin abandoned
    BY DEF IInv, NotTooEarly, CurrentFits
  <1>1. /\ ambiguous' = (ambiguous \/ e.outcome = "ambiguous")
        /\ ambiguous' \in BOOLEAN
        /\ lastError' = e
        /\ abandoned' = IF e.abandoned THEN abandoned \cup {Current} ELSE abandoned
    BY <1>0 DEF AttemptFails, TypeOK
  <1>2. CASE GiveUp(e, ambiguous')
    <2>1. pc' = "done" /\ verdict' = Told(e, ambiguous') /\ retries' = retries
          /\ backoff' = backoff /\ wakeAt' = wakeAt /\ notBefore' = notBefore
      BY <1>2 DEF GiveUp, loop
    <2>2. TypeOK'
      BY <2>1, <1>0, <1>1 DEF TypeOK, Told, Error
    <2>3. FutureUntouched' /\ PastExcused'
      <3>1. Current' = Current
        BY <2>1 DEF Current
      <3>2. \A k \in Attempts : k # Current => (k \in abandoned' <=> k \in abandoned)
        BY <1>1
      <3>3. \A k \in Attempts : k < Current \/ k > Current => k # Current
        BY <1>0 DEF Attempts
      <3>4. ambiguous => ambiguous'
        BY <1>1
      <3>5. FutureUntouched'
        BY <3>1, <3>2, <3>3 DEF IInv, FutureUntouched
      <3>6. ASSUME NEW k \in Attempts, k < Current
            PROVE  Excused(k)'
        <4>1. Excused(k) /\ k # Current
          BY <3>3, <3>6 DEF IInv, PastExcused
        <4> QED
          BY <4>1, <3>2, <3>4 DEF Excused
      <3> QED
        BY <3>1, <3>5, <3>6 DEF PastExcused
    <2>4. HonestVerdict'
      <3>1. SUFFICES ASSUME verdict' = "failed", NEW k \in Attempts
                     PROVE  copy[k] \in {"unsent", "refused"}
        BY <2>1, <1>1 DEF HonestVerdict, Told, Error
      <3>2. ~ambiguous /\ e.outcome = "failed"
        BY <3>1, <2>1, <1>1 DEF Told, Error
      <3>3. k < Current \/ k = Current \/ k > Current
        BY <1>0 DEF Attempts
      <3> QED
        BY <3>2, <3>3 DEF IInv, FutureUntouched, PastExcused, Excused
    <2> QED
      BY <2>1, <2>2, <2>3, <2>4
      DEF IInv, CurrentFits, PauseJustified, NotTooEarly
  <1>3. CASE ~GiveUp(e, ambiguous')
    <2>1. Pause(e) /\ IsRetryable(e) /\ ~OutOfRetries
      BY <1>3 DEF AttemptFails
    <2>2. PICK jitter \in Jitters(backoff) :
              /\ pc' = "pausing"
              /\ wakeAt' = Earlier(now + Delay(jitter, e), MaxElapsed)
              /\ notBefore' = now + Later((backoff + 1) \div 2, e.retryAfter)
              /\ UNCHANGED <<verdict, retries, backoff>>
      BY <2>1 DEF Pause
    <2>3. retries < MaxRetries
      BY <2>1, <1>0, RetryAssumption DEF OutOfRetries
    <2>4. e.abandoned = FALSE /\ abandoned' = abandoned
      BY <2>1, <1>1 DEF IsRetryable, Error
    <2>5. wakeAt' \in Nat /\ notBefore' \in Nat
      <3>1. /\ (backoff + 1) \div 2 \in Nat /\ backoff \in Nat
            /\ e.retryAfter \in Nat /\ now \in Nat
        BY <1>0 DEF TypeOK, Error
      <3>2. jitter \in Nat
        BY <3>1 DEF Jitters
      <3> QED
        BY <2>2, <3>1, <3>2, RetryAssumption DEF Earlier, Later, Delay
    <2>6. TypeOK'
      BY <2>2, <2>4, <2>5, <1>0, <1>1 DEF TypeOK
    <2>7. Excused(Current)'
      <3>1. e.outcome = "ambiguous" => retryAmbiguous
        BY <2>1 DEF IsRetryable, MayRepeat, Error
      <3> QED
        BY <3>1, <2>2, <2>4, <1>0, <1>1 DEF Excused, Current, Error
    <2>8. PauseJustified'
      BY <2>2, <2>3, <2>7, <1>1 DEF PauseJustified, Current
    <2>9. FutureUntouched' /\ PastExcused'
      BY <2>2, <2>4, <1>1 DEF IInv, FutureUntouched, PastExcused, Excused, Current
    <2> QED
      BY <2>2, <2>6, <2>8, <2>9, <1>0
      DEF IInv, CurrentFits, NotTooEarly, HonestVerdict
  <1> QED
    BY <1>2, <1>3

(* The invariant holds when a batch is handed over. *)
THEOREM InitInvariant == Init => IInv
  <1> SUFFICES ASSUME Init PROVE IInv
    OBVIOUS
  <1> USE RetryAssumption DEF Init
  <1>1. TypeOK
    <2>1. backoff \in Nat /\ now \in Nat /\ wakeAt \in Nat /\ sentAt \in Nat /\ notBefore \in Nat
      BY DEF Earlier
    <2>2. ambiguous \in BOOLEAN /\ elapsed \in BOOLEAN /\ fatal \in BOOLEAN
          /\ retryAmbiguous \in BOOLEAN
      BY Zenon
    <2>3. retries \in 0..MaxRetries
      OBVIOUS
    <2>4. /\ copy \in [Attempts -> {"unsent", "sent", "written", "refused"}]
          /\ lastError \in Error \cup {NoError}
          /\ pc \in {"compressing", "requesting", "pausing", "done"}
          /\ verdict \in {"none", "success", "failed", "ambiguous"}
          /\ abandoned \subseteq Attempts
      OBVIOUS
    <2> QED
      BY <2>1, <2>2, <2>3, <2>4 DEF TypeOK
  <1>2. Current = 1
    BY DEF Current
  <1>3. \A k \in Attempts : ~(k < 1)
    BY DEF Attempts
  <1>4. Current \in Attempts
    BY <1>1, CurrentIsAttempt
  <1>5. copy = [k \in Attempts |-> "unsent"] /\ abandoned = {} /\ pc = "compressing"
    OBVIOUS
  <1>6. FutureUntouched /\ CurrentFits
    BY <1>4, <1>5 DEF FutureUntouched, CurrentFits
  <1> QED
    BY <1>1, <1>2, <1>3, <1>5, <1>6 DEF IInv, FutureUntouched, CurrentFits, PastExcused, PauseJustified,
       NotTooEarly, HonestVerdict

(* Every step of the batch, of its timers and of the service keeps it. *)
THEOREM Invariance == IInv /\ [Next]_vars => IInv'
  <1> SUFFICES ASSUME IInv, [Next]_vars PROVE IInv'
    OBVIOUS
  <1> USE CurrentIsAttempt
  <1>0. TypeOK
    BY DEF IInv
  <1>1. CASE Compressed
    <2>1. TypeOK'
      BY <1>0, <1>1 DEF Compressed, TypeOK, loop
    <2> QED
      BY <1>0, <1>1, <2>1
      DEF Compressed, IInv, TypeOK, FutureUntouched, CurrentFits, PastExcused, Excused,
          PauseJustified, NotTooEarly, HonestVerdict, Current, loop
  <1>2. CASE NeverSent
    <2>1. NoResponse(FALSE) \in Error /\ NoResponse(FALSE).outcome = "ambiguous"
      BY ErrorTypes DEF NoResponse
    <2> QED
      BY <1>0, <1>2, <2>1, AttemptFailsKeeps DEF NeverSent, TypeOK
  <1>3. CASE Succeeds
    <2>1. copy[Current] = "written"
      <3>1. FromAnybody \cap Successes = {} /\ Rejections \cap Successes = {}
        BY DEF FromAnybody, Rejections, Successes, Malformed, ErrorResponses, ErrorBodies,
               ReadableBodies, CodedBodies
      <3> QED
        BY <1>3, <3>1 DEF Succeeds, MaySay
    <2>2. TypeOK'
      BY <1>0, <1>3 DEF Succeeds, TypeOK, loop
    <2> QED
      BY <1>0, <1>3, <2>1, <2>2
      DEF Succeeds, IInv, FutureUntouched, CurrentFits, PastExcused, Excused,
          PauseJustified, NotTooEarly, HonestVerdict, Current, loop
  <1>4. CASE Answered
    <2>1. PICK r \in MaySay(Current) \ Successes, after \in RetryAfters :
              AttemptFails(FromResponse(r, after))
      BY <1>4 DEF Answered
    <2>2. r \in Response
      BY DEF MaySay, FromAnybody, Rejections, Response
    <2>3. FromResponse(r, after) \in Error
          /\ FromResponse(r, after).outcome = AppendOutcome(r)
      BY <2>2, ErrorTypes DEF FromResponse
    <2>4. AppendOutcome(r) = "failed" => copy[Current] = "refused"
      BY <1>0, RejectionIsTrue
    <2> QED
      BY <1>0, <1>4, <2>1, <2>3, <2>4, AttemptFailsKeeps DEF Answered, TypeOK
  <1>5. CASE Disconnected
    <2>1. PICK stalled \in BOOLEAN : AttemptFails(NoResponse(stalled))
      BY <1>5 DEF Disconnected
    <2>2. NoResponse(stalled) \in Error /\ NoResponse(stalled).outcome = "ambiguous"
      BY ErrorTypes DEF NoResponse
    <2> QED
      BY <1>0, <1>5, <2>1, <2>2, AttemptFailsKeeps DEF Disconnected, TypeOK
  <1>6. NoResponse(TRUE) \in Error /\ NoResponse(TRUE).outcome = "ambiguous"
    BY ErrorTypes DEF NoResponse
  <1>7. CASE AttemptTimesOut
    BY <1>0, <1>6, <1>7, AttemptFailsKeeps DEF AttemptTimesOut, TypeOK
  <1>8. CASE ElapsedFires
    <2>1. CASE pc = "requesting"
      BY <1>0, <1>6, <1>8, <2>1, AttemptFailsKeeps DEF ElapsedFires
    <2>2. CASE pc # "requesting"
      <3>1. TypeOK'
        BY <1>0, <1>8, <2>2 DEF ElapsedFires, TypeOK, loop
      <3> QED
        BY <1>8, <2>2, <3>1
        DEF ElapsedFires, IInv, FutureUntouched, CurrentFits, PastExcused, Excused,
            PauseJustified, NotTooEarly, HonestVerdict, Current, loop
    <2> QED
      BY <2>1, <2>2
  <1>9. CASE PauseEnds
    <2>0. /\ pc = "pausing" /\ verdict = "none" /\ Excused(Current)
          /\ retries < MaxRetries /\ lastError \in Error
          /\ lastError.outcome = "failed" => copy[Current] = "refused"
          /\ lastError.outcome = "ambiguous" => ambiguous
      BY <1>9 DEF PauseEnds, IInv, PauseJustified, NotTooEarly
    <2>1. UNCHANGED <<now, ambiguous, lastError, sentAt, elapsed, fatal,
                      retryAmbiguous, copy, abandoned>>
      BY <1>9 DEF PauseEnds
    <2>2. CASE GiveUp(lastError, ambiguous)
      <3>1. pc' = "done" /\ verdict' = Told(lastError, ambiguous) /\ retries' = retries
            /\ backoff' = backoff /\ wakeAt' = wakeAt /\ notBefore' = notBefore
        BY <2>2 DEF GiveUp, loop
      <3>2. TypeOK'
        BY <1>0, <2>0, <2>1, <3>1 DEF TypeOK, Told, Error
      <3>3. HonestVerdict'
        <4>1. SUFFICES ASSUME verdict' = "failed", NEW k \in Attempts
                       PROVE  copy[k] \in {"unsent", "refused"}
          BY <3>1, <2>0, <2>1 DEF HonestVerdict, Told, Error
        <4>2. ~ambiguous /\ lastError.outcome = "failed"
          BY <4>1, <3>1, <2>0 DEF Told, Error
        <4>3. k < Current \/ k = Current \/ k > Current
          BY <1>0 DEF Attempts
        <4> QED
          BY <4>2, <4>3, <2>0 DEF IInv, FutureUntouched, PastExcused, Excused
      <3> QED
        BY <1>0, <2>1, <3>1, <3>2, <3>3
        DEF IInv, FutureUntouched, CurrentFits, PastExcused, Excused,
            PauseJustified, NotTooEarly, Current
    <2>3. CASE ~GiveUp(lastError, ambiguous)
      <3>1. /\ pc' = "compressing" /\ retries' = retries + 1
            /\ backoff' = Earlier(2 * backoff, MaxBackoff)
            /\ UNCHANGED <<verdict, wakeAt, notBefore>>
        BY <1>9, <2>3 DEF PauseEnds, NextBackoff
      <3>2. TypeOK'
        BY <1>0, <2>0, <2>1, <3>1, RetryAssumption DEF TypeOK, Earlier
      <3>3. Current' = Current + 1 /\ Current' \in Attempts
        BY <1>0, <2>0, <3>1, RetryAssumption DEF Current, Attempts
      <3>4. \A k \in Attempts : (k < Current' => k < Current \/ k = Current)
                             /\ (k > Current' => k > Current)
        BY <1>0, <3>3 DEF Attempts
      <3>5. FutureUntouched' /\ PastExcused' /\ CurrentFits'
        BY <1>0, <2>0, <2>1, <3>1, <3>3, <3>4
        DEF IInv, FutureUntouched, PastExcused, CurrentFits, Excused
      <3> QED
        BY <2>0, <2>1, <3>1, <3>2, <3>5
        DEF IInv, PauseJustified, NotTooEarly, HonestVerdict
    <2> QED
      BY <2>2, <2>3
  <1>10. CASE \E k \in Attempts : Decide(k)
    <2>1. PICK k \in Attempts : Decide(k)
      BY <1>10
    <2>2. TypeOK'
      BY <1>0, <2>1 DEF Decide, TypeOK, loop
    <2>3. \A j \in Attempts : copy[j] # "sent" => copy'[j] = copy[j]
      BY <1>0, <2>1 DEF Decide, TypeOK
    <2>4. UNCHANGED <<pc, ambiguous, lastError, retryAmbiguous, verdict, abandoned, retries>>
      BY <2>1 DEF Decide, loop
    <2> QED
      BY <1>0, <2>2, <2>3, <2>4
      DEF IInv, FutureUntouched, CurrentFits, PastExcused, Excused,
          PauseJustified, NotTooEarly, HonestVerdict, Current
  <1>11. CASE StreamFails \/ Tick \/ UNCHANGED vars
    <2>0. UNCHANGED <<pc, ambiguous, lastError, sentAt, elapsed, retryAmbiguous,
                      verdict, copy, abandoned, retries, backoff, wakeAt, notBefore>>
          /\ fatal' \in {fatal, TRUE} /\ now' \in {now, now + 1}
      <3>1. CASE StreamFails
        BY <3>1 DEF StreamFails, loop
      <3>2. CASE Tick
        BY <3>2 DEF Tick, loop
      <3>3. CASE UNCHANGED vars
        BY <3>3 DEF vars, loop
      <3> QED
        BY <1>11, <3>1, <3>2, <3>3
    <2>1. TypeOK'
      <3>1. fatal \in BOOLEAN /\ now \in Nat
        BY <1>0 DEF TypeOK
      <3>2. now' \in Nat
        BY <2>0, <3>1
      <3>3. fatal' \in BOOLEAN
        BY <2>0, <3>1, Zenon
      <3> QED
        BY <1>0, <2>0, <3>2, <3>3 DEF TypeOK
    <2>2. UNCHANGED <<pc, ambiguous, lastError, retryAmbiguous, verdict, copy, abandoned, retries>>
      BY <2>0
    <2> QED
      BY <2>1, <2>2
      DEF IInv, FutureUntouched, CurrentFits, PastExcused, Excused,
          PauseJustified, NotTooEarly, HonestVerdict, Current
  <1> QED
    BY <1>1, <1>2, <1>3, <1>4, <1>5, <1>7, <1>8, <1>9, <1>10, <1>11 DEF Next

(* The variables of a batch keep their types; in particular the attempts    *)
(* never exceed the configured retries (appendBatch()).                    *)
THEOREM TypeCorrect == Spec => []TypeOK
  <1>1. IInv => TypeOK
    BY DEF IInv
  <1> QED
    BY <1>1, InitInvariant, Invariance, PTL DEF Spec

(* A batch is told "failed" only if none of its attempts was written or    *)
(* still can be, and success only if its last one was.                     *)
THEOREM VerdictIsHonest == Spec => []HonestVerdict
  <1>1. IInv => HonestVerdict
    BY DEF IInv
  <1> QED
    BY <1>1, InitInvariant, Invariance, PTL DEF Spec

(* Nothing is sent again after an attempt that may have been written,      *)
(* unless the caller allows it and the client did not itself give up on it. *)
THEOREM ReplaysAreAllowed == Spec => []ReplayOnlyIfAllowed
  <1>1. IInv => ReplayOnlyIfAllowed
    <2> SUFFICES ASSUME IInv, NEW k \in 1..retries
                 PROVE  copy[k] = "refused" \/ (retryAmbiguous /\ k \notin abandoned)
      BY DEF ReplayOnlyIfAllowed
    <2>1. k \in Attempts /\ k < Current
      BY CurrentIsAttempt, RetryAssumption, SMTT(20) DEF IInv, TypeOK, Attempts
    <2> QED
      BY <2>1 DEF IInv, PastExcused, Excused
  <1> QED
    BY <1>1, InitInvariant, Invariance, PTL DEF Spec

------------------------------------------------------------------------------
(* A pause lasts until another attempt is due, or takes the whole budget. *)
PauseLongEnough ==
    pc = "pausing" => wakeAt >= notBefore \/ wakeAt = MaxElapsed

(* The catch block of an attempt begins a pause that is long enough. *)
LEMMA PauseIsLongEnough ==
    ASSUME TypeOK, NEW e \in Error, AttemptFails(e)
    PROVE  PauseLongEnough'
  <1>1. CASE GiveUp(e, ambiguous')
    BY <1>1 DEF GiveUp, PauseLongEnough
  <1>2. CASE Pause(e)
    <2>1. PICK jitter \in Jitters(backoff) :
              /\ wakeAt' = Earlier(now + Delay(jitter, e), MaxElapsed)
              /\ notBefore' = now + Later((backoff + 1) \div 2, e.retryAfter)
      BY <1>2 DEF Pause
    <2>2. /\ (backoff + 1) \div 2 \in Nat /\ backoff \in Nat
          /\ e.retryAfter \in Nat /\ now \in Nat
      BY DEF TypeOK, Error
    <2>3. jitter \in Nat /\ jitter >= (backoff + 1) \div 2
      BY <2>2 DEF Jitters
    <2>4. Delay(jitter, e) >= Later((backoff + 1) \div 2, e.retryAfter)
      BY <2>2, <2>3 DEF Delay, Later
    <2>5. Delay(jitter, e) \in Nat /\ Later((backoff + 1) \div 2, e.retryAfter) \in Nat
      BY <2>2, <2>3 DEF Delay, Later
    <2> QED
      BY <2>1, <2>2, <2>4, <2>5, RetryAssumption DEF PauseLongEnough, Earlier
  <1> QED
    BY <1>1, <1>2 DEF AttemptFails

(* Every step keeps a pause long enough. *)
LEMMA PauseStaysLongEnough ==
    ASSUME IInv, PauseLongEnough, [Next]_vars
    PROVE  PauseLongEnough'
  <1>0. TypeOK
    BY DEF IInv
  <1>1. ASSUME NEW e \in Error, AttemptFails(e) PROVE PauseLongEnough'
    BY <1>0, <1>1, PauseIsLongEnough
  <1>2. \A gaveUp \in BOOLEAN : NoResponse(gaveUp) \in Error
    BY ErrorTypes
  <1>3. CASE NeverSent \/ Disconnected \/ AttemptTimesOut
    BY <1>1, <1>2, <1>3 DEF NeverSent, Disconnected, AttemptTimesOut
  <1>4. CASE Answered
    <2>1. PICK r \in MaySay(Current) \ Successes, after \in RetryAfters :
              AttemptFails(FromResponse(r, after))
      BY <1>4 DEF Answered
    <2>2. r \in Response
      BY DEF MaySay, FromAnybody, Rejections, Response
    <2> QED
      BY <1>1, <2>1, <2>2, ErrorTypes
  <1>5. CASE ElapsedFires
    <2>1. CASE pc = "requesting"
      BY <1>1, <1>2, <1>5, <2>1 DEF ElapsedFires
    <2>2. CASE pc # "requesting"
      BY <1>5, <2>2 DEF ElapsedFires, PauseLongEnough, loop
    <2> QED
      BY <2>1, <2>2
  <1>6. CASE PauseEnds
    BY <1>6 DEF PauseEnds, GiveUp, PauseLongEnough
  <1>7. CASE Compressed \/ Succeeds
    BY <1>7 DEF Compressed, Succeeds, PauseLongEnough
  <1>8. CASE \E k \in Attempts : Decide(k)
    BY <1>8 DEF Decide, PauseLongEnough, loop
  <1>9. CASE StreamFails
    BY <1>9 DEF StreamFails, PauseLongEnough, loop
  <1>10. CASE Tick
    BY <1>10 DEF Tick, PauseLongEnough, loop
  <1>11. CASE UNCHANGED vars
    BY <1>11 DEF vars, PauseLongEnough, loop
  <1> QED
    BY <1>3, <1>4, <1>5, <1>6, <1>7, <1>8, <1>9, <1>10, <1>11 DEF Next

(* Only the end of a pause begins another attempt. *)
LEMMA OnlyPausesRetry ==
    ASSUME IInv, [Next]_vars, retries' # retries
    PROVE  PauseEnds
  <1>1. ASSUME NEW e, AttemptFails(e) PROVE FALSE
    BY <1>1 DEF AttemptFails, GiveUp, Pause, loop
  <1>2. ~NeverSent /\ ~Disconnected /\ ~AttemptTimesOut /\ ~Answered
    BY <1>1 DEF NeverSent, Disconnected, AttemptTimesOut, Answered
  <1>3. ~ElapsedFires
    BY <1>1 DEF ElapsedFires, loop
  <1>4. ~Compressed /\ ~Succeeds /\ ~StreamFails /\ ~Tick /\ ~UNCHANGED vars
    BY DEF Compressed, Succeeds, StreamFails, Tick, vars, loop
  <1>5. ~\E k \in Attempts : Decide(k)
    BY DEF Decide, loop
  <1> QED
    BY <1>2, <1>3, <1>4, <1>5 DEF Next

(* Another attempt is begun only after the pause that the service asked for *)
(* and at least half the backoff, within the budget, in a healthy stream.  *)
THEOREM RetriesAreApart == Spec => RetriesKeepTheirDistance
  <1>1. Init => PauseLongEnough
    BY DEF Init, PauseLongEnough
  <1>2. IInv /\ PauseLongEnough /\ [Next]_vars => PauseLongEnough'
    BY PauseStaysLongEnough
  <1>3. IInv /\ PauseLongEnough /\ [Next]_vars
            => [retries' # retries => now >= notBefore /\ now < MaxElapsed /\ ~fatal]_vars
    <2> SUFFICES ASSUME IInv, PauseLongEnough, [Next]_vars, retries' # retries
                 PROVE  now >= notBefore /\ now < MaxElapsed /\ ~fatal
      OBVIOUS
    <2>1. PauseEnds
      BY OnlyPausesRetry
    <2>2. ~BudgetSpent /\ ~fatal
      BY <2>1 DEF PauseEnds, GiveUp, loop
    <2>3. now >= wakeAt /\ (wakeAt >= notBefore \/ wakeAt = MaxElapsed)
      BY <2>1, <2>2 DEF PauseEnds, PauseLongEnough
    <2>4. now \in Nat /\ wakeAt \in Nat /\ notBefore \in Nat /\ MaxElapsed \in Nat
      BY RetryAssumption DEF IInv, TypeOK
    <2> QED
      BY <2>2, <2>3, <2>4 DEF BudgetSpent
  <1> QED
    BY <1>1, <1>2, <1>3, InitInvariant, Invariance, PTL DEF Spec, RetriesKeepTheirDistance

------------------------------------------------------------------------------
(* The promise.  Only the service writes, and who accepts no duplicates    *)
(* has one attempt that could be written: those before it were refused.    *)
Written == {k \in Attempts : copy[k] = "written"}

LEMMA NextIsAttempt ==
    ASSUME NEW n \in 0..MaxRetries
    PROVE  n + 1 \in Attempts
  BY RetryAssumption DEF Attempts

LEMMA WrittenCount ==
    ASSUME NEW S \in SUBSET Attempts
    PROVE  /\ Cardinality(S) \in Nat /\ Cardinality(S) <= MaxRetries + 1
           /\ S = {} <=> Cardinality(S) = 0
           /\ \A k \in Attempts \ S : Cardinality(S \cup {k}) = Cardinality(S) + 1
  <1>1. /\ IsFiniteSet(Attempts) /\ MaxRetries + 1 \in Nat
        /\ Cardinality(Attempts) = MaxRetries + 1
    <2>1. MaxRetries \in Nat
      BY RetryAssumption
    <2>2. 1 \in Int /\ MaxRetries + 1 \in Int
      BY <2>1
    <2>3. /\ IsFiniteSet(1..(MaxRetries + 1))
          /\ Cardinality(1..(MaxRetries + 1)) = IF 1 > MaxRetries + 1 THEN 0
                                                ELSE (MaxRetries + 1) - 1 + 1
      BY <2>2, FS_Interval
    <2> QED
      BY <2>1, <2>3 DEF Attempts
  <1>2. IsFiniteSet(S) /\ Cardinality(S) <= Cardinality(Attempts)
    BY <1>1, FS_Subset
  <1> QED
    BY <1>1, <1>2, FS_CardinalityType, FS_EmptySet, FS_AddElement

(* A batch that settled is told nothing more. *)
LEMMA ToldOnce ==
    ASSUME IInv, [Next]_vars, verdict' # verdict
    PROVE  verdict = "none" /\ copy' = copy
  <1>1. verdict # "none" => pc = "done"
    BY DEF IInv, NotTooEarly
  <1>2. pc # "done" /\ copy' = copy
    BY DEF Next, Compressed, NeverSent, Decide, Succeeds, Answered, Disconnected,
       AttemptTimesOut, ElapsedFires, PauseEnds, StreamFails, Tick, vars
  <1> QED
    BY <1>1, <1>2

(* The service writes an attempt that waits for it. *)
LEMMA DecideKeepsPromise ==
    ASSUME IInv, IInv', NEW k \in Attempts, Decide(k)
    PROVE  [Batch!PromiseNext]_Batch!promiseVars
  <1>1. /\ copy \in [Attempts -> {"unsent", "sent", "written", "refused"}]
        /\ copy[k] = "sent" /\ verdict' = verdict /\ retryAmbiguous' = retryAmbiguous
        /\ retryAmbiguous \in BOOLEAN
    BY DEF Decide, IInv, TypeOK
  <1>2. PICK outcome \in {"written", "refused"} : copy' = [copy EXCEPT ![k] = outcome]
    BY DEF Decide
  <1>3. CASE outcome = "refused"
    <2>1. Written' = Written
      BY <1>1, <1>2, <1>3 DEF Written
    <2> QED
      BY <1>1, <2>1 DEF Written, Batch!promiseVars
  <1>4. CASE outcome = "written"
    <2>1. Written' = Written \cup {k} /\ k \notin Written /\ Written \in SUBSET Attempts
      BY <1>1, <1>2, <1>4 DEF Written
    <2>2. verdict # "failed"
      BY <1>1 DEF IInv, HonestVerdict
    <2>3. ASSUME ~retryAmbiguous PROVE Written = {}
      <3>1. k = Current
        <4>1. ~(k < Current) /\ ~(k > Current)
          BY <1>1, <2>3 DEF IInv, PastExcused, FutureUntouched, Excused
        <4>2. k \in Nat /\ Current \in Nat
          BY CurrentIsAttempt DEF IInv, Attempts
        <4> QED
          BY <4>1, <4>2
      <3>2. ASSUME NEW j \in Written PROVE FALSE
        <4>1. j \in Attempts /\ copy[j] = "written"
          BY DEF Written
        <4>2. ~(j < Current) /\ ~(j > Current)
          BY <2>3, <4>1 DEF IInv, PastExcused, FutureUntouched, Excused
        <4>3. j \in Nat /\ Current \in Nat
          BY <4>1, CurrentIsAttempt DEF IInv, Attempts
        <4> QED
          BY <1>1, <3>1, <4>1, <4>2, <4>3
      <3> QED
        BY <3>2
    <2>4. Cardinality(Written') = Cardinality(Written) + 1
      BY <2>1, WrittenCount
    <2>5. Cardinality(Written') <= MaxRetries + 1 /\ Cardinality(Written) \in Nat
      BY <2>1, WrittenCount
    <2>6. ~retryAmbiguous => Cardinality(Written) = 0
      BY <2>3, FS_EmptySet
    <2>7. Cardinality(Written) < IF retryAmbiguous THEN MaxRetries + 1 ELSE 1
      BY <2>4, <2>5, <2>6, RetryAssumption
    <2>8. Batch!Write
      BY <1>1, <2>2, <2>4, <2>7 DEF Batch!Write, Written
    <2> QED
      BY <2>8 DEF Batch!PromiseNext
  <1> QED
    BY <1>2, <1>3, <1>4

(* All other steps write nothing, and settle the batch at most. *)
LEMMA OthersKeepBatchPromise ==
    ASSUME IInv, IInv', [Next]_vars, ~\E k \in Attempts : Decide(k)
    PROVE  [Batch!PromiseNext]_Batch!promiseVars
  <1>1. retryAmbiguous' = retryAmbiguous
    BY DEF Next, Compressed, NeverSent, Succeeds, Answered, Disconnected,
       AttemptTimesOut, ElapsedFires, PauseEnds, StreamFails, Tick, vars
  <1>2. copy' = copy \/ Compressed
    BY DEF Next, NeverSent, Succeeds, Answered, Disconnected,
       AttemptTimesOut, ElapsedFires, PauseEnds, StreamFails, Tick, vars
  <1>3. Written' = Written
    <2>1. CASE Compressed
      <3>1. /\ copy \in [Attempts -> {"unsent", "sent", "written", "refused"}]
            /\ copy[Current] = "unsent" /\ Current \in Attempts
            /\ copy' = [copy EXCEPT ![Current] = "sent"]
        BY <2>1, CurrentIsAttempt DEF Compressed, IInv, TypeOK, CurrentFits
      <3> QED
        BY <3>1 DEF Written
    <2> QED
      BY <1>2, <2>1 DEF Written
  <1>4. CASE verdict' = verdict
    BY <1>1, <1>3, <1>4 DEF Batch!promiseVars, Written
  <1>5. CASE verdict' # verdict
    <2>1. verdict = "none" /\ verdict' \in {"success", "failed", "ambiguous"} /\ copy' = copy
      BY <1>5, ToldOnce DEF IInv, TypeOK
    <2>2. ASSUME verdict' = "success" PROVE Cardinality(Written) >= 1
      <3>1. Current' \in Attempts /\ copy'[Current'] = "written"
        <4>1. (Current \in Attempts)'
          <5>1. retries' \in 0..MaxRetries
            BY DEF IInv, TypeOK
          <5> QED
            BY <5>1, NextIsAttempt DEF Current
        <4> QED
          BY <2>2, <4>1 DEF IInv, HonestVerdict
      <3>2. Written # {} /\ Written \in SUBSET Attempts
        BY <2>1, <3>1 DEF Written
      <3> QED
        BY <3>2, WrittenCount
    <2>3. ASSUME verdict' = "failed" PROVE Cardinality(Written) = 0
      <3>1. \A k \in Attempts : copy[k] \in {"unsent", "refused"}
        BY <2>1, <2>3 DEF IInv, HonestVerdict
      <3>2. Written = {}
        BY <3>1 DEF Written
      <3> QED
        BY <3>2, FS_EmptySet
    <2>4. Batch!Tell(verdict')
      BY <1>1, <1>3, <2>1, <2>2, <2>3 DEF Batch!Tell, Written
    <2> QED
      BY <2>1, <2>4 DEF Batch!PromiseNext
  <1> QED
    BY <1>4, <1>5

(* A batch keeps its promise, for any number of attempts, whatever happens  *)
(* to requests and answers: it is told once, truthfully, and its rows are   *)
(* written twice only if the owner of the stream accepts duplicates.        *)
THEOREM BatchPromiseIsKept == Spec => KeepsBatchPromise
  <1>1. Init => Batch!PromiseInit
    <2> SUFFICES ASSUME Init PROVE Batch!PromiseInit
      OBVIOUS
    <2>1. Written = {}
      BY DEF Init, Written
    <2> QED
      BY <2>1, FS_EmptySet DEF Init, Written, Batch!PromiseInit
  <1>2. IInv /\ IInv' /\ [Next]_vars => [Batch!PromiseNext]_Batch!promiseVars
    BY DecideKeepsPromise, OthersKeepBatchPromise
  <1> QED
    BY <1>1, <1>2, InitInvariant, Invariance, PTL DEF Spec, KeepsBatchPromise, Batch!PromiseSpec
==============================================================================
