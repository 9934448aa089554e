----------------------------- MODULE AppendBatch -----------------------------
(***************************************************************************)
(* The delivery of one batch: AppendStream.appendBatch() with its attempts *)
(* and pauses, Client.appendRows() and appendRequest() with their timers,  *)
(* and the service, which may write a batch and not get to say so, or      *)
(* write it long after the client stopped waiting.                         *)
(*                                                                         *)
(* Time is a clock that ticks between steps.  A timer may fire at any time *)
(* after it is due, so the clock can pass the deadline before the deadline *)
(* timer runs (elapsed).                                                   *)
(***************************************************************************)
EXTENDS Responses, FiniteSets

CONSTANTS
    MaxRetries,      \* retry.maxRetries
    InitialBackoff,  \* retry.initialBackoffMs
    MaxBackoff,      \* retry.maxBackoffMs
    MaxElapsed,      \* retry.maxElapsedTimeMs
    AttemptTimeout,  \* attemptTimeoutMs; beyond Horizon it never comes (null)
    RetryAfters,     \* the values of Retry-After, 0 for none
    Horizon,         \* the clock stops here: a bound of the model
    NoError

ASSUME RetryAssumption ==
    /\ {MaxRetries, InitialBackoff, MaxBackoff, Horizon} \subseteq Nat
    /\ {MaxElapsed, AttemptTimeout} \subseteq Nat \ {0}
    /\ RetryAfters \subseteq Nat
    /\ NoError \notin [outcome: {"failed", "ambiguous"}, temporary: BOOLEAN,
                       status: Nat, refused: BOOLEAN, abandoned: BOOLEAN,
                       retryAfter: Nat]

VARIABLES
    now,
    pc,              \* where appendBatch() awaits
    retries,
    backoff,         \* backoffMs
    ambiguous,
    lastError,
    wakeAt,
    sentAt,          \* when the current request was sent
    elapsed,         \* elapsed.signal.aborted
    fatal,           \* fatalController.signal.aborted
    retryAmbiguous,  \* retry.retryAmbiguous, fixed from the start
    verdict,         \* how the promise of appendBatch() settles
    copy,            \* attempt -> what the service did with it
    abandoned,       \* history: attempts the client stopped waiting for
    notBefore        \* history: the earliest time for the next attempt

loop == <<retries, backoff, wakeAt, notBefore>>
vars == <<now, pc, ambiguous, lastError, sentAt, elapsed, fatal,
          retryAmbiguous, verdict, copy, abandoned, loop>>

Attempts == 1..(MaxRetries + 1)
Current == retries + 1

Earlier(a, b) == IF a <= b THEN a ELSE b
Later(a, b) == IF a <= b THEN b ELSE a

Error == [outcome: {"failed", "ambiguous"}, temporary: BOOLEAN, status: Nat,
          refused: BOOLEAN, abandoned: BOOLEAN, retryAfter: Nat]

TypeOK ==
    /\ now \in Nat
    /\ pc \in {"compressing", "requesting", "pausing", "done"}
    /\ retries \in 0..MaxRetries
    /\ {backoff, wakeAt, sentAt, notBefore} \subseteq Nat
    /\ ambiguous \in BOOLEAN /\ elapsed \in BOOLEAN
    /\ fatal \in BOOLEAN /\ retryAmbiguous \in BOOLEAN
    /\ lastError \in Error \cup {NoError}
    /\ verdict \in {"none", "success", "failed", "ambiguous"}
    /\ copy \in [Attempts -> {"unsent", "sent", "written", "refused"}]
    /\ abandoned \subseteq Attempts

Init ==
    /\ now = 0
    /\ pc = "compressing"
    /\ retries = 0
    /\ backoff = Earlier(InitialBackoff, MaxBackoff)
    /\ ambiguous = FALSE
    /\ lastError = NoError
    /\ wakeAt = 0
    /\ sentAt = 0
    /\ elapsed = FALSE
    /\ fatal = FALSE
    /\ retryAmbiguous \in BOOLEAN
    /\ verdict = "none"
    /\ copy = [k \in Attempts |-> "unsent"]
    /\ abandoned = {}
    /\ notBefore = 0

------------------------------------------------------------------------------
(* Errors, as appendRequest() and the catch block of appendBatch() make them. *)
NoResponse(gaveUp) ==
    [outcome |-> "ambiguous", temporary |-> FALSE, status |-> 0,
     refused |-> FALSE, abandoned |-> gaveUp, retryAfter |-> 0]

FromResponse(r, after) ==
    [outcome |-> AppendOutcome(r),
     temporary |-> TemporaryRejection(r),
     status |-> r.status,
     refused |-> ServerRetryable(r) = "no",
     abandoned |-> r.body = "stalled",
     retryAfter |-> after]

Transient(e) == e.status \in {0, 200, 408, 429} \/ e.status >= 500

MayRepeat(e) == retryAmbiguous /\ Transient(e)

(* The details of a timeout or cancellation are not looked at. *)
SlipIsRetryable(e) ==
    /\ ~e.refused
    /\ IF e.outcome = "failed" THEN e.temporary ELSE MayRepeat(e)

IsRetryable(e) ==
    /\ ~e.abandoned
    /\ ~e.refused
    /\ IF e.outcome = "failed" THEN e.temporary ELSE MayRepeat(e)

BudgetSpent == elapsed \/ now >= MaxElapsed

OutOfRetries == retries >= MaxRetries

(* The last error speaks for all attempts. *)
SlipTold(e, anyAmbiguous) == e.outcome

(* What the batch is told: an ambiguous attempt is never forgotten. *)
Told(e, anyAmbiguous) == IF anyAmbiguous THEN "ambiguous" ELSE e.outcome

GiveUp(e, anyAmbiguous) ==
    /\ pc' = "done"
    /\ verdict' = Told(e, anyAmbiguous)
    /\ UNCHANGED loop

(* Equal jitter. *)
Jitters(b) == ((b + 1) \div 2)..b

(* Retry-After is cut to the longest backoff. *)
SlipDelay(jitter, e) == Earlier(Later(jitter, e.retryAfter), MaxBackoff)

Delay(jitter, e) == Later(jitter, e.retryAfter)

Pause(e) ==
    \E jitter \in Jitters(backoff) :
        /\ pc' = "pausing"
        /\ wakeAt' = Earlier(now + Delay(jitter, e), MaxElapsed)
        /\ notBefore' = now + Later((backoff + 1) \div 2, e.retryAfter)
        /\ UNCHANGED <<verdict, retries, backoff>>

NextBackoff == Earlier(2 * backoff, MaxBackoff)

(* The catch block of an attempt. *)
AttemptFails(e) ==
    /\ lastError' = e
    /\ ambiguous' = (ambiguous \/ e.outcome = "ambiguous")
    /\ abandoned' = IF e.abandoned THEN abandoned \cup {Current} ELSE abandoned
    /\ IF BudgetSpent \/ ~IsRetryable(e) \/ OutOfRetries
       THEN GiveUp(e, ambiguous')
       ELSE Pause(e)

------------------------------------------------------------------------------
(* gzipJsonRequestBody() resumes; appendRequest() sends, unless cancelled. *)
Compressed ==
    /\ pc = "compressing"
    /\ ~elapsed
    /\ pc' = "requesting"
    /\ sentAt' = now
    /\ copy' = [copy EXCEPT ![Current] = "sent"]
    /\ UNCHANGED <<now, ambiguous, lastError, elapsed, fatal, retryAmbiguous,
                   verdict, abandoned, loop>>

(* Cancelled before sending, or not compressible. *)
NeverSent ==
    /\ pc = "compressing"
    /\ AttemptFails(NoResponse(FALSE))
    /\ UNCHANGED <<now, sentAt, elapsed, fatal, retryAmbiguous, copy>>

(***************************************************************************)
(* The service, and whoever answers in its place.  Only an attempt that is *)
(* refused for good is answered by a rejection, and only a written one by  *)
(* its result.  Anybody on the way may answer anything else at any time.   *)
(***************************************************************************)
Rejections ==
    {r \in ErrorResponses : r.body \in {"coded", "rejected"} /\ r.status < 500}

FromAnybody == Malformed \cup (ErrorResponses \ Rejections)

MaySay(k) ==
    FromAnybody \cup CASE copy[k] = "written" -> Successes
                       [] copy[k] = "refused" -> Rejections
                       [] OTHER -> {}

Decide(k) ==
    /\ copy[k] = "sent"
    /\ \E fate \in {"written", "refused"} : copy' = [copy EXCEPT ![k] = fate]
    /\ UNCHANGED <<now, pc, ambiguous, lastError, sentAt, elapsed, fatal,
                   retryAmbiguous, verdict, abandoned, loop>>

Succeeds ==
    /\ pc = "requesting"
    /\ MaySay(Current) \cap Successes # {}
    /\ pc' = "done"
    /\ verdict' = "success"
    /\ UNCHANGED <<now, ambiguous, lastError, sentAt, elapsed, fatal,
                   retryAmbiguous, copy, abandoned, loop>>

Answered ==
    /\ pc = "requesting"
    /\ \E r \in MaySay(Current) \ Successes, after \in RetryAfters :
           AttemptFails(FromResponse(r, after))
    /\ UNCHANGED <<now, sentAt, elapsed, fatal, retryAmbiguous, copy>>

(* No answer: the connection broke, or timed out in the HTTP library. *)
Disconnected ==
    /\ pc = "requesting"
    /\ \E stalled \in BOOLEAN : AttemptFails(NoResponse(stalled))
    /\ UNCHANGED <<now, sentAt, elapsed, fatal, retryAmbiguous, copy>>

------------------------------------------------------------------------------
(* The timer of the attempt wins the race against the response. *)
AttemptTimesOut ==
    /\ pc = "requesting"
    /\ now >= sentAt + AttemptTimeout
    /\ AttemptFails(NoResponse(TRUE))
    /\ UNCHANGED <<now, sentAt, elapsed, fatal, retryAmbiguous, copy>>

(* The signal reaches the next attempt, but not the one that is in flight. *)
SlipElapsedFires ==
    /\ pc # "done"
    /\ ~elapsed
    /\ now >= MaxElapsed
    /\ elapsed' = TRUE
    /\ UNCHANGED <<now, pc, ambiguous, lastError, sentAt, fatal,
                   retryAmbiguous, verdict, copy, abandoned, loop>>

(* The timer of the batch; it ends a request, but not a pause. *)
ElapsedFires ==
    /\ pc # "done"
    /\ ~elapsed
    /\ now >= MaxElapsed
    /\ elapsed' = TRUE
    /\ IF pc = "requesting"
       THEN AttemptFails(NoResponse(TRUE))
       ELSE UNCHANGED <<pc, ambiguous, lastError, verdict, abandoned, loop>>
    /\ UNCHANGED <<now, sentAt, fatal, retryAmbiguous, copy>>

(* The pause is over, or another batch failed the stream. *)
PauseEnds ==
    /\ pc = "pausing"
    /\ fatal \/ now >= wakeAt
    /\ IF BudgetSpent \/ fatal
       THEN GiveUp(lastError, ambiguous)
       ELSE /\ pc' = "compressing"
            /\ retries' = retries + 1
            /\ backoff' = NextBackoff
            /\ UNCHANGED <<verdict, wakeAt, notBefore>>
    /\ UNCHANGED <<now, ambiguous, lastError, sentAt, elapsed, fatal,
                   retryAmbiguous, copy, abandoned>>

(* Another batch of the stream fails for good. *)
StreamFails ==
    /\ pc # "done"
    /\ ~fatal
    /\ fatal' = TRUE
    /\ UNCHANGED <<now, pc, ambiguous, lastError, sentAt, elapsed,
                   retryAmbiguous, verdict, copy, abandoned, loop>>

Tick ==
    /\ pc # "done"
    /\ now < Horizon
    /\ now' = now + 1
    /\ UNCHANGED <<pc, ambiguous, lastError, sentAt, elapsed, fatal,
                   retryAmbiguous, verdict, copy, abandoned, loop>>

Next ==
    \/ Compressed \/ NeverSent
    \/ Succeeds \/ Answered \/ Disconnected
    \/ AttemptTimesOut \/ ElapsedFires \/ PauseEnds
    \/ StreamFails \/ Tick
    \/ \E k \in Attempts : Decide(k)

Spec == Init /\ [][Next]_vars

(***************************************************************************)
(* Time passes, and what is due happens.  Nothing is assumed of the        *)
(* service and of the network, nor of the timer of an attempt, which may   *)
(* be switched off.                                                        *)
(***************************************************************************)
FairSpec ==
    /\ Spec
    /\ WF_vars(Tick)
    /\ WF_vars(Compressed \/ NeverSent)
    /\ WF_vars(ElapsedFires)
    /\ WF_vars(PauseEnds)

------------------------------------------------------------------------------
(* A batch is told "failed" only if no attempt was written or still can be *)
(* (docs/usage.md: "failed" confirms that no rows were committed), and     *)
(* success only if its last attempt was written.                           *)
HonestVerdict ==
    /\ verdict = "failed" => \A k \in Attempts : copy[k] \in {"unsent", "refused"}
    /\ verdict = "success" => copy[Current] = "written"

(* Another attempt is made only after the service refused all before it,   *)
(* or, if the caller accepts duplicates, after one of unknown outcome the  *)
(* client did not itself stop waiting for (isRetryable()).                 *)
ReplayOnlyIfAllowed ==
    \A k \in 1..retries :
        copy[k] = "refused" \/ (retryAmbiguous /\ k \notin abandoned)

(* An attempt is begun after the pause the service asked for and at least  *)
(* half the backoff, within the budget of the batch, and not in a stream   *)
(* that failed (the pause of appendBatch()).                               *)
RetriesKeepTheirDistance ==
    [][retries' # retries => /\ now >= notBefore
                             /\ now < MaxElapsed
                             /\ ~fatal]_vars

(* Attempts, timers and answers come to what BatchPromise states: without  *)
(* retryAmbiguous a batch is written at most once, however late; "failed"  *)
(* is told of a batch that is not and never will be written, "success" of  *)
(* one that is; and it is told once (docs/usage.md on duplicates).         *)
Batch == INSTANCE BatchPromise WITH
    MaxAttempts <- MaxRetries + 1,
    repeats <- retryAmbiguous,
    copies <- Cardinality({k \in Attempts : copy[k] = "written"})

KeepsBatchPromise == Batch!PromiseSpec

(* Whatever the service and the network do, appendBatch() settles: this is *)
(* what AppendStream assumes of its requests.                              *)
Settles == <>(verdict # "none")

(* "ambiguous" means that the request reached the transport (errors.ts).   *)
AmbiguousMeansSent ==
    verdict = "ambiguous" => \E k \in Attempts : copy[k] # "unsent"
==============================================================================
