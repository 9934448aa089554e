---------------------------- MODULE AppendStream ----------------------------
(***************************************************************************)
(* The append stream of src/append-stream.ts: callers admit rows, one      *)
(* worker batches them, several append requests are in flight at a time,   *)
(* and flush() and shutdown() are barriers that wait for every outcome.    *)
(*                                                                         *)
(* It composes the command queue (Q, AsyncBoundedQueue) and the byte       *)
(* budget (B, PendingBytesBudget), whose actions its own actions conjoin.  *)
(* An action is what runs between two awaits: JavaScript runs it without   *)
(* interruption, and anything may happen before the next one.              *)
(*                                                                         *)
(* One append request with its retries (appendBatch) is one step with an   *)
(* arbitrary outcome.  Rows are told apart only by identity and size: any  *)
(* may turn out to be one that prepareRecord() refuses.                    *)
(***************************************************************************)
EXTENDS Integers, Sequences, FiniteSets, SequencesExt, FiniteSetsExt

CONSTANTS
    Rows,               \* rows callers may offer, each once
    Flushes,            \* calls of flush()
    Shutdown,           \* the shutdown operation
    RowBytes,           \* RowBytes[r]: serialized size of r
    BatchBytes,         \* targetBatchBytes
    BatchRows,          \* maxBatchRows
    MaxInFlight,        \* maxConcurrentBatches
    ChannelCapacity,    \* channelCapacity
    MaxPendingBytes,    \* maxBufferedBytes
    FailurePolicy,      \* "stop" or "continue"
    FailureThreshold,   \* circuitBreaker.failureThreshold, 0 when it is disabled
    NONE, TIMEOUT, CLOSED

Barriers == Flushes \cup {Shutdown}
Commands == Rows \cup Barriers

ASSUME StreamAssumption ==
    /\ IsFiniteSet(Rows)
    /\ Rows \cap Barriers = {} /\ Shutdown \notin Flushes
    /\ {NONE, TIMEOUT, CLOSED} \cap Commands = {}
    /\ NONE # TIMEOUT /\ NONE # CLOSED /\ TIMEOUT # CLOSED
    /\ RowBytes \in [Rows -> Nat]
    /\ {BatchBytes, BatchRows, MaxInFlight, ChannelCapacity, MaxPendingBytes}
         \subseteq Nat \ {0}
    /\ FailurePolicy \in {"stop", "continue"}
    /\ FailureThreshold \in Nat

VARIABLES
    \* the command queue and the byte budget
    items, sendWaiters, recvWaiter, delivered, queueClosed, ack,
    available, reserved, byteWaiters, budgetClosed,
    \* the stream's life
    accepting,          \* no shutdown or failure yet
    fatal,              \* "none", or the outcome of the error that stopped it
    \* the worker: where it is, where it continues once it has dispatched,
    \* the command it is processing, and whether it dispatches the probe
    pc, after, cmd, probe,
    \* the batch being filled and the requests in flight
    rows,               \* rows in the buffer
    deadline,           \* batchDeadlineMs: "none", "armed", or "due" (passed)
    inFlight,
    \* what stats() and the delivery reports count
    lifetime, interval, pendingRowCount,
    counted,            \* rows with countedAsAccepted
    reportedDropped,    \* reportedDroppedRows
    unobserved,         \* the sum of unobservedBarriers
    \* the circuit breaker
    circuitState,
    cooled,             \* circuitOpenedUntil has passed
    failures,           \* consecutiveFailures
    probePending,       \* circuitProbeDone is set and not resolved
    probeClaimed,       \* circuitProbeAdmissionClaimed
    \* the callers
    call,               \* call[r]: how far send() or trySend() of r is
    barrier,            \* barrier[b]: how far the barrier is, and its snapshot
    \* history, read by no action
    fate,               \* fate[r]: the outcome counted for r
    covers,             \* covers[b]: rows offered to the queue before b
    reported            \* the sum of the outputs callers received

Q == INSTANCE AsyncBoundedQueue WITH
        Command <- Commands, Capacity <- ChannelCapacity, closed <- queueClosed

(* A row reserves its bytes and its newline. *)
RowPermits == [r \in Rows |-> RowBytes[r] + 1]

B == INSTANCE PendingBytesBudget WITH
        Holder <- Rows, Permits <- RowPermits, MaxPermits <- MaxPendingBytes

queueVars   == <<items, sendWaiters, recvWaiter, delivered, queueClosed, ack>>
budgetVars  == <<available, reserved, byteWaiters, budgetClosed>>
lifeVars    == <<accepting, fatal>>
workerVars  == <<pc, after, cmd, probe>>
bufferVars  == <<rows, deadline>>
countVars   == <<lifetime, interval, pendingRowCount, counted, fate>>
reportVars  == <<reportedDropped, unobserved, reported>>
circuitVars == <<circuitState, cooled, failures, probePending, probeClaimed>>
callerVars  == <<call, barrier, covers>>

vars == <<queueVars, budgetVars, lifeVars, workerVars, bufferVars, inFlight,
          countVars, reportVars, circuitVars, callerVars>>

-----------------------------------------------------------------------------
(* Counts of rows: the lifetime and interval counters and the reports. *)
Fields == {"accepted", "committed", "failed", "ambiguous", "dropped"}
Counts == [Fields -> Nat]
Zero   == [f \in Fields |-> 0]

Plus(a, b) == [f \in Fields |-> a[f] + b[f]]
Count(f, n) == [g \in Fields |-> IF g = f THEN n ELSE 0]

AtLeastZero(n) == IF n < 0 THEN 0 ELSE n

(* Bytes of a batch: its rows and the newlines between them. *)
BodyBytes(S) == MapThenSumSet(LAMBDA r : RowBytes[r], S) + Cardinality(S) - 1

Outcomes == {"committed", "failed", "ambiguous"}

(* A dispatched batch: its promise stays in inFlight until its rows are *)
(* released, which is after its outcome was counted (settled).          *)
Batches == [rows : SUBSET Rows, probe : BOOLEAN, settled : BOOLEAN]

workerDone == pc = "done"

WorkerTypeOK ==
    /\ accepting \in BOOLEAN
    /\ fatal \in {"none", "failed", "ambiguous"}
    /\ pc \in {"top", "received", "capacity", "circuit", "send", "settle",
               "unwind", "done"}
    /\ after \in {"top", "push", "barrier"}
    /\ cmd \in Commands \cup {NONE}
    /\ after = "push" => cmd \in Rows
    /\ after = "barrier" => cmd \in Barriers
    /\ pc = "settle" => cmd \in Barriers
    /\ probe \in BOOLEAN
    /\ rows \subseteq Rows
    /\ deadline \in {"none", "armed", "due"}
    /\ inFlight \subseteq Batches

CountTypeOK ==
    /\ lifetime \in Counts
    /\ interval \in Counts
    /\ pendingRowCount \in Nat
    /\ counted \subseteq Rows
    /\ fate \in [Rows -> Outcomes \cup {"none"}]
    /\ reportedDropped \in Nat
    /\ unobserved \in Counts
    /\ reported \in Counts

CircuitTypeOK ==
    /\ circuitState \in {"closed", "open", "half-open"}
    /\ cooled \in BOOLEAN
    /\ failures \in Nat
    /\ probePending \in BOOLEAN
    /\ probeClaimed \in BOOLEAN

CallerTypeOK ==
    /\ call \in [Rows -> {"new", "acquiring", "queueing", "ok", "threw",
                          "accepted", "dropped"}]
    /\ barrier \in [Barriers ->
          [pc : {"new", "called", "aborted", "resolved", "task", "ok",
                 "failed", "closed"},
           droppedAt : Nat]]
    /\ covers \in [Barriers -> SUBSET Rows]

TypeOK ==
    /\ Q!TypeOK /\ B!TypeOK
    /\ WorkerTypeOK /\ CountTypeOK /\ CircuitTypeOK /\ CallerTypeOK

Init ==
    /\ Q!Init
    /\ B!Init
    /\ accepting = TRUE
    /\ fatal = "none"
    /\ pc = "top" /\ after = "top" /\ cmd = NONE /\ probe = FALSE
    /\ rows = {}
    /\ deadline = "none"
    /\ inFlight = {}
    /\ lifetime = Zero
    /\ interval = Zero
    /\ pendingRowCount = 0
    /\ counted = {}
    /\ reportedDropped = 0
    /\ unobserved = Zero
    /\ circuitState = "closed"
    /\ cooled = FALSE
    /\ failures = 0
    /\ probePending = FALSE
    /\ probeClaimed = FALSE
    /\ call = [r \in Rows |-> "new"]
    /\ barrier = [b \in Barriers |-> [pc |-> "new", droppedAt |-> 0]]
    /\ fate = [r \in Rows |-> "none"]
    /\ covers = [b \in Barriers |-> {}]
    /\ reported = Zero

-----------------------------------------------------------------------------
(* Bookkeeping shared by the actions. *)

(* A definition named Slip... is a mistake the next one could plausibly *)
(* contain; nothing uses it.  See README, "Slips".                      *)

(* ensureAccepted() counts a row of S unless it was counted before. *)
SlipNewlyCounted(S) == Cardinality(S)

NewlyCounted(S) == Cardinality(S \ counted)

(* Rows of S reach the worker: ensureAccepted(), and perhaps more counts. *)
CountAccepted(S) ==
    /\ counted' = counted \cup S
    /\ lifetime' = Plus(lifetime, Count("accepted", NewlyCounted(S)))
    /\ pendingRowCount' = pendingRowCount + NewlyCounted(S)

(* recordBatchCommitted(), or the row counts of recordBatchFailure(). *)
CountOutcome(S, outcome) ==
    LET n == Cardinality(S)
    IN  /\ lifetime' = Plus(lifetime, Count(outcome, n))
        /\ interval' = Plus(interval, Count(outcome, n))
        /\ pendingRowCount' = AtLeastZero(pendingRowCount - n)
        /\ fate' = [r \in Rows |-> IF r \in S THEN outcome ELSE fate[r]]
        /\ UNCHANGED counted

(* markLocalRowsFailed(), but for releasing the reservations. *)
CountLocalFailure(S) ==
    LET n == Cardinality(S)
    IN  /\ counted' = counted \cup S
        /\ lifetime' = Plus(Plus(lifetime, Count("accepted", NewlyCounted(S))),
                            Count("failed", n))
        /\ interval' = Plus(interval, Count("failed", n))
        /\ pendingRowCount' = AtLeastZero(pendingRowCount + NewlyCounted(S) - n)
        /\ fate' = [r \in Rows |-> IF r \in S THEN "failed" ELSE fate[r]]

SetCall(r, where) == call' = [call EXCEPT ![r] = where]
SetBarrier(b, where) == barrier' = [barrier EXCEPT ![b].pc = where]

(* A rejected barrier: its caller, if still there, awaits the worker's task *)
(* when the stream failed, and throws at once when it merely closed.        *)
RejectedAs(b) ==
    IF barrier[b].pc # "called" THEN barrier[b].pc
    ELSE IF fatal # "none" \/ b = Shutdown THEN "task" ELSE "closed"

SlipRejectBarriers(S) == UNCHANGED barrier

RejectBarriers(S) ==
    barrier' = [b \in Barriers |->
                  IF b \in S THEN [barrier[b] EXCEPT !.pc = RejectedAs(b)]
                  ELSE barrier[b]]

(* An ambiguous error replaces one that says nothing was written. *)
SlipPromoted(outcome) == fatal

Promoted(outcome) == IF outcome = "ambiguous" THEN "ambiguous" ELSE fatal

(* setFatal(): the first error stops admission and closes queue and budget. *)
(* The probe it also resolves exists only where errors do not stop it.      *)
SetFatal(outcome) ==
    IF fatal = "none"
    THEN /\ fatal' = outcome
         /\ accepting' = FALSE
         /\ Q!Close
         /\ B!Close
    ELSE /\ fatal' = Promoted(outcome)
         /\ UNCHANGED <<accepting, queueVars, budgetVars>>

(* Every request in flight has settled: waitForInFlight() has returned. *)
SlipAllSettled == TRUE

AllSettled == inFlight = {}

-----------------------------------------------------------------------------
(* send(): up to the first await it checks the stream and the row and asks *)
(* the budget.  It throws for any of these conditions, for a row that      *)
(* prepareRecord() refuses, and for a signal that has aborted.             *)
SendCall(r) ==
    /\ call[r] = "new"
    /\ \/ /\ fatal = "none" /\ accepting /\ ~budgetClosed
          /\ RowPermits[r] <= MaxPendingBytes
          /\ SetCall(r, "acquiring") /\ B!Acquire(r)
       \/ SetCall(r, "threw") /\ UNCHANGED budgetVars
    /\ UNCHANGED <<queueVars, lifeVars, workerVars, bufferVars, inFlight,
                   countVars, reportVars, circuitVars, barrier, covers>>

(* What send() checks again after it waited for the budget. *)
SlipStillOpen == fatal = "none"

StillOpen == accepting /\ fatal = "none"

(* A reservation that will not be used is released. *)
SlipGiveBack(r) == UNCHANGED budgetVars

GiveBack(r) == B!ReleaseAll({r})

(* Resumed with a reservation: meanwhile the stream may have closed, or   *)
(* the signal may have aborted, which the queue's send() finds at once.    *)
SendGranted(r) ==
    /\ call[r] = "acquiring"
    /\ r \in reserved
    /\ \/ /\ StillOpen
          /\ SetCall(r, "queueing") /\ Q!Send(r) /\ UNCHANGED budgetVars
       \/ SetCall(r, "threw") /\ GiveBack(r) /\ UNCHANGED queueVars
    /\ UNCHANGED <<lifeVars, workerVars, bufferVars, inFlight, countVars,
                   reportVars, circuitVars, barrier, covers>>

(* Resumed without one: aborted, or the budget closed. *)
SendRefused(r) ==
    /\ call[r] = "acquiring"
    /\ B!Idle(r)
    /\ SetCall(r, "threw")
    /\ UNCHANGED <<queueVars, budgetVars, lifeVars, workerVars, bufferVars,
                   inFlight, countVars, reportVars, circuitVars, barrier, covers>>

(* Resumed after the queue took the row: it counts as accepted, even when *)
(* the final checkFatal() makes the call throw.                           *)
SendReturns(r) ==
    /\ call[r] = "queueing"
    /\ ack[r] = "sent"
    /\ CountAccepted({r})
    /\ SetCall(r, IF fatal = "none" THEN "ok" ELSE "threw")
    /\ UNCHANGED <<queueVars, budgetVars, lifeVars, workerVars, bufferVars,
                   inFlight, interval, fate, reportVars, circuitVars,
                   barrier, covers>>

(* Resumed after the queue refused the row: aborted or closed. *)
SendBounced(r) ==
    /\ call[r] = "queueing"
    /\ ack[r] = "refused"
    /\ SetCall(r, "threw")
    /\ GiveBack(r)
    /\ UNCHANGED <<queueVars, lifeVars, workerVars, bufferVars, inFlight,
                   countVars, reportVars, circuitVars, barrier, covers>>

(* The caller's signal aborts send() while it waits for the budget or for *)
(* the queue.  Between the two it does not listen: what it then finds is  *)
(* in SendGranted; later the call no longer asks.                         *)
SendAbort(r) ==
    /\ \/ call[r] = "acquiring" /\ B!Abort(r) /\ UNCHANGED queueVars
       \/ call[r] = "queueing" /\ Q!Abort(r) /\ UNCHANGED budgetVars
    /\ UNCHANGED <<lifeVars, workerVars, bufferVars, inFlight, countVars,
                   reportVars, circuitVars, callerVars>>

(* trySend() may claim the one admission that will probe a cooled circuit. *)
ClaimsProbe ==
    FailurePolicy = "continue" /\ circuitState = "open" /\ cooled /\ ~probeClaimed

CircuitBlocks ==
    FailurePolicy = "continue" /\ circuitState # "closed" /\ ~ClaimsProbe

Admits(r) ==
    /\ accepting /\ fatal = "none"
    /\ ~CircuitBlocks
    /\ B!CanTryAcquire(r)
    /\ Q!CanTrySend

TrySendAccepted(r) ==
    /\ call[r] = "new"
    /\ Admits(r)
    /\ B!TryAcquire(r)
    /\ Q!TrySend(r)
    /\ CountAccepted({r})
    /\ probeClaimed' = (probeClaimed \/ ClaimsProbe)
    /\ SetCall(r, "accepted")
    /\ UNCHANGED <<lifeVars, workerVars, bufferVars, inFlight, interval, fate,
                   reportVars, circuitState, cooled, failures, probePending,
                   barrier, covers>>

(* A drop, because the row is not admitted or prepareRecord() refuses it,   *)
(* which leaves the probe's admission unclaimed.  A reservation taken       *)
(* before the queue was found full is returned at once, and nobody was      *)
(* waiting for it.                                                          *)
TrySendDropped(r) ==
    /\ call[r] = "new"
    /\ lifetime' = Plus(lifetime, Count("dropped", 1))
    /\ SetCall(r, "dropped")
    /\ UNCHANGED <<queueVars, budgetVars, lifeVars, workerVars, bufferVars,
                   inFlight, interval, pendingRowCount, counted, fate,
                   reportVars, circuitVars, barrier, covers>>

-----------------------------------------------------------------------------
(* Rows offered to the queue so far and not turned away. *)
Offered == {r \in Rows : call[r] \in {"queueing", "ok", "accepted"}}

EnterBarrier(b) ==
    /\ barrier' = [barrier EXCEPT ![b] =
                     [pc |-> "called", droppedAt |-> lifetime["dropped"]]]
    /\ covers' = [covers EXCEPT ![b] = Offered]
    /\ Q!Send(b)

(* flush(): snapshots the drops and queues a barrier. *)
FlushCall(f) ==
    /\ barrier[f].pc = "new"
    /\ IF fatal # "none" \/ ~accepting
       THEN /\ SetBarrier(f, IF fatal # "none" THEN "task" ELSE "closed")
            /\ UNCHANGED <<queueVars, covers>>
       ELSE EnterBarrier(f)
    /\ UNCHANGED <<budgetVars, lifeVars, workerVars, bufferVars, inFlight,
                   countVars, reportVars, circuitVars, call>>

(* Only the first call of shutdown() starts the operation. *)
SlipShutdownUnstarted == barrier[Shutdown].pc \in {"new", "called"}

ShutdownUnstarted == barrier[Shutdown].pc = "new"

(* shutdown(): admission ends with the same step that queues the barrier.  *)
(* A signal ends only the wait of the call that passed it: the operation   *)
(* goes on, and further calls await it.                                    *)
ShutdownCall ==
    /\ ShutdownUnstarted
    /\ accepting' = FALSE
    /\ IF fatal # "none"
       THEN SetBarrier(Shutdown, "task") /\ UNCHANGED <<queueVars, covers>>
       ELSE EnterBarrier(Shutdown)
    /\ UNCHANGED <<budgetVars, fatal, workerVars, bufferVars, inFlight,
                   countVars, reportVars, circuitVars, call>>

(* The queue refused the barrier: it closed before there was room. *)
BarrierRefused(b) ==
    /\ barrier[b].pc = "called"
    /\ ack[b] = "refused"
    /\ RejectBarriers({b})
    /\ UNCHANGED <<queueVars, budgetVars, lifeVars, workerVars, bufferVars,
                   inFlight, countVars, reportVars, circuitVars, call, covers>>

(* The caller's signal aborts flush().  A barrier still parked is removed; *)
(* one the queue has taken stays and settles unobserved.                   *)
FlushAbort(f) ==
    /\ barrier[f].pc \in {"called", "task"}
    /\ SetBarrier(f, "aborted")
    /\ IF ack[f] = "waiting" THEN Q!Abort(f) ELSE UNCHANGED queueVars
    /\ UNCHANGED <<budgetVars, lifeVars, workerVars, bufferVars, inFlight,
                   countVars, reportVars, circuitVars, call, covers>>

(* Whoever awaits the worker's task resumes when the worker is done. *)
TaskAwaited(b) ==
    /\ workerDone
    /\ barrier[b].pc \in {"task", "resolved"}
    /\ SetBarrier(b, IF barrier[b].pc = "task" THEN "failed" ELSE "ok")
    /\ UNCHANGED <<queueVars, budgetVars, lifeVars, workerVars, bufferVars,
                   inFlight, countVars, reportVars, circuitVars, call, covers>>

-----------------------------------------------------------------------------
StartDispatch(next, c) ==
    /\ after' = next
    /\ cmd' = c
    /\ UNCHANGED probe

(* receive() has a timeout while a batch waits for its deadline. *)
SlipTimed == FALSE

Timed == deadline = "armed"

(* The head of the loop: checkFatal(), then an expired batch or receive(). *)
WorkerTop ==
    /\ pc = "top"
    /\ IF fatal # "none"
       THEN pc' = "unwind" /\ UNCHANGED <<queueVars, after, cmd, probe>>
       ELSE IF deadline = "due"
       THEN /\ pc' = IF rows = {} THEN "top" ELSE "capacity"
            /\ StartDispatch("top", NONE)
            /\ UNCHANGED queueVars
       ELSE /\ pc' = "received"
            /\ Q!Receive(Timed)
            /\ UNCHANGED <<after, cmd, probe>>
    /\ UNCHANGED <<budgetVars, lifeVars, bufferVars, inFlight, countVars,
                   reportVars, circuitVars, callerVars>>

(* A command received after the stream failed is disposed of. *)
DisposeDelivered ==
    /\ pc' = "unwind"
    /\ IF delivered \in Rows
       THEN CountLocalFailure({delivered}) /\ B!ReleaseAll({delivered})
       ELSE UNCHANGED <<countVars, budgetVars>>
    /\ RejectBarriers({delivered})
    /\ UNCHANGED <<after, cmd, probe, bufferVars>>

(* The timer of receive() fired, or the queue closed. *)
NothingDelivered ==
    /\ IF delivered = CLOSED
       THEN pc' = "unwind" /\ UNCHANGED <<after, cmd, probe>>
       ELSE /\ pc' = IF rows = {} THEN "top" ELSE "capacity"
            /\ StartDispatch("top", NONE)
    /\ UNCHANGED <<budgetVars, bufferVars, countVars, barrier>>

(* The end of bufferRecord(): add the row to the given buffer, arm the *)
(* deadline of a new batch, and dispatch a full one.                   *)
Push(r, buffer) ==
    LET filled == buffer \cup {r}
    IN  /\ rows' = filled
        /\ deadline' = IF buffer = {} THEN "armed" ELSE deadline
        /\ pc' = IF \/ BodyBytes(filled) >= BatchBytes
                    \/ Cardinality(filled) >= BatchRows
                 THEN "capacity" ELSE "top"
        /\ after' = "top"
        /\ cmd' = NONE

(* The start of bufferRecord(): a row that would overfill the batch waits *)
(* until the batch is dispatched.                                         *)
RowDelivered(r) ==
    /\ CountAccepted({r})
    /\ interval' = Plus(interval, Count("accepted", 1))
    /\ IF rows # {} /\ BodyBytes(rows \cup {r}) > BatchBytes
       THEN /\ pc' = "capacity"
            /\ StartDispatch("push", r)
            /\ UNCHANGED bufferVars
       ELSE Push(r, rows) /\ UNCHANGED probe
    /\ UNCHANGED <<fate, budgetVars, barrier>>

(* The start of completeBarrier(). *)
SlipBarrierDelivered(b) ==
    /\ pc' = "settle"
    /\ StartDispatch("barrier", b)
    /\ UNCHANGED <<budgetVars, bufferVars, countVars, barrier>>

BarrierDelivered(b) ==
    /\ pc' = IF rows = {} THEN "settle" ELSE "capacity"
    /\ StartDispatch("barrier", b)
    /\ UNCHANGED <<budgetVars, bufferVars, countVars, barrier>>

WorkerReceived ==
    /\ pc = "received"
    /\ Q!Consume
    /\ CASE fatal # "none" -> DisposeDelivered
         [] fatal = "none" /\ delivered \in Rows -> RowDelivered(delivered)
         [] fatal = "none" /\ delivered \in Barriers -> BarrierDelivered(delivered)
         [] OTHER -> NothingDelivered
    /\ UNCHANGED <<lifeVars, inFlight, reportVars, circuitVars, call, covers>>

HasCapacity == Cardinality(inFlight) < MaxInFlight

WorkerCapacity ==
    /\ pc = "capacity"
    /\ HasCapacity
    /\ pc' = "circuit"
    /\ UNCHANGED <<queueVars, budgetVars, lifeVars, after, cmd, probe, bufferVars,
                   inFlight, countVars, reportVars, circuitVars, callerVars>>

(* waitForCircuit(): a closed or absent breaker lets the batch pass. *)
PassCircuit ==
    /\ pc = "circuit"
    /\ circuitState = "closed"
    /\ pc' = "send"
    /\ probe' = FALSE
    /\ UNCHANGED <<queueVars, budgetVars, lifeVars, after, cmd, bufferVars,
                   inFlight, countVars, reportVars, circuitVars, callerVars>>

(* No request dispatched before the circuit opened is still in flight. *)
SlipOlderSettled == TRUE

OlderSettled == inFlight = {}

(* After the cooldown, and once no older request is in flight, the batch  *)
(* becomes the probe.  In every other case the worker waits: for the      *)
(* cooldown, for the requests in flight, or for another probe.            *)
StartProbe ==
    /\ pc = "circuit"
    /\ circuitState = "open"
    /\ cooled
    /\ OlderSettled
    /\ pc' = "send"
    /\ probe' = TRUE
    /\ circuitState' = "half-open"
    /\ cooled' = FALSE
    /\ probePending' = TRUE
    /\ UNCHANGED <<queueVars, budgetVars, lifeVars, after, cmd, bufferVars,
                   inFlight, countVars, reportVars, failures, probeClaimed,
                   callerVars>>

(* The last checkFatal() before a batch leaves. *)
SlipDispatchForbidden == FALSE

DispatchForbidden == fatal # "none"

(* Nobody catches the error for the row in hand. *)
SlipDispatchThrows ==
    /\ pc' = "unwind"
    /\ RejectBarriers({cmd})
    /\ UNCHANGED <<countVars, budgetVars, bufferVars, inFlight, after, cmd, probe>>

(* dispatchBuffered() finds the stream failed: the row that was waiting to *)
(* enter the buffer fails, the barrier is rejected, the buffer stays.      *)
DispatchThrows ==
    /\ pc' = "unwind"
    /\ IF after = "push"
       THEN CountLocalFailure({cmd}) /\ B!ReleaseAll({cmd})
       ELSE UNCHANGED <<countVars, budgetVars>>
    /\ RejectBarriers({cmd})
    /\ UNCHANGED <<bufferVars, inFlight, after, cmd, probe>>

EmptyBuffer ==
    rows' = {} /\ deadline' = "none"

(* The batch leaves; then the worker continues where dispatch was called. *)
Dispatch ==
    /\ inFlight' = inFlight \cup
         {[rows |-> rows, probe |-> probe, settled |-> FALSE]}
    /\ probe' = FALSE
    /\ IF after = "push" THEN Push(cmd, {})
       ELSE /\ EmptyBuffer
            /\ pc' = IF after = "barrier" THEN "settle" ELSE "top"
            /\ UNCHANGED <<after, cmd>>
    /\ UNCHANGED <<countVars, budgetVars, barrier>>

WorkerSend ==
    /\ pc = "send"
    /\ IF DispatchForbidden THEN DispatchThrows ELSE Dispatch
    /\ UNCHANGED <<queueVars, lifeVars, reportVars, circuitVars, call, covers>>

(* What cancelled flushes left for this barrier. *)
SlipCarried == Zero

Carried == unobserved

(* takeBarrierOutput(): the output of a barrier that found `drops' dropped *)
(* rows, with what cancelled flushes before it left unobserved.            *)
Output(drops) ==
    IF FailurePolicy = "stop"
    THEN Count("committed", interval["committed"] + Carried["committed"])
    ELSE Plus(Plus(interval, Carried),
              Count("dropped", AtLeastZero(drops - reportedDropped)))

(* A cancelled flush leaves its output for the next barrier. *)
ResolveBarrier(b) ==
    LET out == Output(barrier[b].droppedAt)
    IN  /\ IF barrier[b].pc = "aborted"
           THEN unobserved' = out /\ UNCHANGED reported
           ELSE unobserved' = Zero /\ reported' = Plus(reported, out)
        /\ interval' = Zero
        /\ reportedDropped' =
             IF FailurePolicy = "continue" /\ barrier[b].droppedAt > reportedDropped
             THEN barrier[b].droppedAt ELSE reportedDropped
        /\ SetBarrier(b, IF barrier[b].pc = "aborted" THEN "aborted"
                         ELSE IF b = Shutdown THEN "resolved" ELSE "ok")

(* The end of completeBarrier(), once every request has settled. *)
WorkerSettle ==
    /\ pc = "settle"
    /\ AllSettled
    /\ IF fatal # "none"
       THEN /\ pc' = "unwind"
            /\ RejectBarriers({cmd})
            /\ UNCHANGED <<interval, reportVars>>
       ELSE /\ pc' = IF cmd = Shutdown THEN "unwind" ELSE "top"
            /\ ResolveBarrier(cmd)
    /\ after' = "top" /\ cmd' = NONE
    /\ UNCHANGED <<queueVars, budgetVars, lifeVars, probe, bufferVars, inFlight,
                   lifetime, pendingRowCount, counted, fate, circuitVars, call,
                   covers>>

(* Rows the worker will never send. *)
SlipLost == rows

Lost == rows \cup (ToSet(items) \cap Rows)

(* The finally block: what is buffered or queued fails, and all is closed. *)
WorkerUnwind ==
    /\ pc = "unwind"
    /\ AllSettled
    /\ pc' = "done"
    /\ CountLocalFailure(Lost)
    /\ B!ReleaseAndClose(Lost)
    /\ Q!CloseAndDrain
    /\ RejectBarriers(ToSet(items))
    /\ EmptyBuffer
    /\ accepting' = FALSE
    /\ UNCHANGED <<fatal, after, cmd, probe, inFlight, reportVars, circuitVars,
                   call, covers>>

(* addCommittedContextToFatal(): the counts the final error carries. *)
ErrorContext == interval

-----------------------------------------------------------------------------
(* Requests in flight. *)
Settled(t) == (inFlight \ {t}) \cup {[t EXCEPT !.settled = TRUE]}

(* closeCircuit() *)
CloseCircuit ==
    /\ circuitState' = "closed"
    /\ cooled' = FALSE
    /\ failures' = 0
    /\ probeClaimed' = FALSE
    /\ probePending' = FALSE

(* recordCircuitSuccess() *)
CircuitSuccess(isProbe) ==
    IF FailurePolicy # "continue" THEN UNCHANGED circuitVars
    ELSE IF isProbe THEN CloseCircuit
    ELSE /\ failures' = 0
         /\ UNCHANGED <<circuitState, cooled, probePending, probeClaimed>>

(* The circuit opens, also one that was open already: the cooldown starts *)
(* again and the claimed admission is given back.                         *)
SlipOpenCircuit ==
    /\ circuitState' = "open"
    /\ cooled' = FALSE
    /\ probePending' = FALSE
    /\ UNCHANGED probeClaimed

OpenCircuit ==
    /\ circuitState' = "open"
    /\ cooled' = FALSE
    /\ probeClaimed' = FALSE
    /\ probePending' = FALSE

(* A definite refusal of the batch shows that the service is available. *)
SlipServiceAnswered(isProbe) == UNCHANGED circuitVars

ServiceAnswered(isProbe) ==
    IF isProbe THEN CloseCircuit ELSE UNCHANGED circuitVars

(* recordCircuitFailure(): only failures of availability count; a probe or *)
(* the threshold opens the circuit.                                        *)
CircuitFailure(isProbe, availability) ==
    IF FailurePolicy # "continue" \/ FailureThreshold = 0
    THEN UNCHANGED circuitVars
    ELSE IF ~availability THEN ServiceAnswered(isProbe)
    ELSE /\ failures' = failures + 1
         /\ IF isProbe \/ failures + 1 >= FailureThreshold THEN OpenCircuit
            ELSE UNCHANGED <<circuitState, cooled, probeClaimed, probePending>>

BatchCommits(t) ==
    /\ ~t.settled
    /\ inFlight' = Settled(t)
    /\ CountOutcome(t.rows, "committed")
    /\ CircuitSuccess(t.probe)
    /\ UNCHANGED <<queueVars, budgetVars, lifeVars, workerVars, bufferVars,
                   reportVars, callerVars>>

(* An ambiguous outcome is a failure of availability; a definite one may be. *)
BatchFails(t, outcome, availability) ==
    /\ ~t.settled
    /\ outcome = "ambiguous" => availability
    /\ inFlight' = Settled(t)
    /\ CircuitFailure(t.probe, availability)
    /\ CountOutcome(t.rows, outcome)
    /\ IF FailurePolicy = "stop" THEN SetFatal(outcome)
       ELSE UNCHANGED <<lifeVars, queueVars, budgetVars>>
    /\ UNCHANGED <<workerVars, bufferVars, reportVars, callerVars>>

(* The finally() of the batch's promise. *)
BatchFinally(t) ==
    /\ t.settled
    /\ inFlight' = inFlight \ {t}
    /\ B!ReleaseAll(t.rows)
    /\ UNCHANGED <<queueVars, lifeVars, workerVars, bufferVars, countVars,
                   reportVars, circuitVars, callerVars>>

(* The batch's deadline passes. *)
DeadlinePasses ==
    /\ deadline = "armed"
    /\ deadline' = "due"
    /\ UNCHANGED <<queueVars, budgetVars, lifeVars, workerVars, rows, inFlight,
                   countVars, reportVars, circuitVars, callerVars>>

(* receive() waits no longer than that deadline. *)
ReceiveTimeout ==
    /\ deadline = "due"
    /\ Q!Timeout
    /\ UNCHANGED <<budgetVars, lifeVars, workerVars, bufferVars, inFlight,
                   countVars, reportVars, circuitVars, callerVars>>

(* cooldownMs after the circuit opened. *)
CooldownElapses ==
    /\ circuitState = "open"
    /\ ~cooled
    /\ cooled' = TRUE
    /\ UNCHANGED <<queueVars, budgetVars, lifeVars, workerVars, bufferVars,
                   inFlight, countVars, reportVars, circuitState, failures,
                   probePending, probeClaimed, callerVars>>

-----------------------------------------------------------------------------
(* What callers may do, in any order, at any time, or never. *)
User ==
    \/ \E r \in Rows : SendCall(r) \/ TrySendAccepted(r) \/ TrySendDropped(r)
    \/ \E r \in Rows : SendAbort(r)
    \/ \E f \in Flushes : FlushCall(f) \/ FlushAbort(f)
    \/ ShutdownCall

(* A pending call resumes. *)
Resume(r) == SendGranted(r) \/ SendRefused(r) \/ SendReturns(r) \/ SendBounced(r)
ResumeBarrier(b) == BarrierRefused(b) \/ TaskAwaited(b)

Worker ==
    \/ WorkerTop \/ WorkerReceived \/ WorkerCapacity \/ PassCircuit \/ StartProbe
    \/ WorkerSend \/ WorkerSettle \/ WorkerUnwind

Settle(t) ==
    \/ BatchCommits(t)
    \/ \E outcome \in {"failed", "ambiguous"}, availability \in BOOLEAN :
         BatchFails(t, outcome, availability)

Requests == \E t \in inFlight : Settle(t) \/ BatchFinally(t)

Timers == DeadlinePasses \/ ReceiveTimeout \/ CooldownElapses

Next ==
    \/ User
    \/ \E r \in Rows : Resume(r)
    \/ \E b \in Barriers : ResumeBarrier(b)
    \/ Worker
    \/ Requests
    \/ Timers

Spec == Init /\ [][Next]_vars

(* The event loop resumes whatever is ready, timers fire, and a request    *)
(* settles: maxElapsedTimeMs bounds it with its retries.  Callers owe      *)
(* nothing.                                                                *)
Fairness ==
    /\ WF_vars(Worker)
    /\ WF_vars(Requests)
    /\ WF_vars(DeadlinePasses) /\ WF_vars(ReceiveTimeout) /\ WF_vars(CooldownElapses)
    /\ \A r \in Rows : WF_vars(Resume(r))
    /\ \A b \in Barriers : WF_vars(ResumeBarrier(b))

FairSpec == Spec /\ Fairness

-----------------------------------------------------------------------------
(* What must hold. *)

(* Every accepted row is counted once, as pending or with one outcome: the *)
(* counters agree with each other and with what happened to each row,      *)
(* whether the caller, the worker or the failure path counted it first.    *)
WithFate(o) == {r \in Rows : fate[r] = o}

RowsConserved ==
    /\ lifetime["accepted"] = Cardinality(counted)
    /\ \A o \in Outcomes : lifetime[o] = Cardinality(WithFate(o))
    /\ \A r \in Rows : fate[r] # "none" => r \in counted
    /\ pendingRowCount + lifetime["committed"] + lifetime["failed"]
         + lifetime["ambiguous"] = lifetime["accepted"]

(* Reports lose nothing and repeat nothing: what callers received, what    *)
(* cancelled flushes left and what is still being counted add up to the    *)
(* lifetime totals.  In stop mode outputs carry committed rows only.       *)
ReportsAddUp ==
    LET told(f) == reported[f] + unobserved[f] + interval[f]
    IN  /\ told("committed") = lifetime["committed"]
        /\ FailurePolicy = "continue" =>
             /\ told("failed") = lifetime["failed"]
             /\ told("ambiguous") = lifetime["ambiguous"]
             /\ told("dropped") = reportedDropped
             /\ reportedDropped <= lifetime["dropped"]

(* A delivery report is complete: every row it says was accepted has its   *)
(* outcome in the same report.  Sums of reports balance when each does.    *)
Balanced(out) ==
    out["accepted"] = out["committed"] + out["failed"] + out["ambiguous"]

ReportsBalanced ==
    FailurePolicy = "continue" => Balanced(reported) /\ Balanced(unobserved)

(* A barrier that resolved has covered every row offered to the queue       *)
(* before it was called: the row has its outcome, unless it was turned away. *)
BarrierCovers ==
    \A b \in Barriers : barrier[b].pc \in {"resolved", "ok"} =>
        \A r \in covers[b] :
            fate[r] # "none" \/ (r \notin counted /\ ack[r] = "refused")

(* Nothing is queued behind the shutdown command: the report of shutdown() *)
(* is the last one and covers every row ever accepted.                     *)
ShutdownIsLast ==
    /\ Shutdown \in ToSet(Q!Pending) => Last(Q!Pending) = Shutdown
    /\ barrier[Shutdown].pc \in {"resolved", "ok"} =>
         /\ \A r \in counted : fate[r] # "none"
         /\ Q!Pending = <<>> \/ workerDone

(* Once shutdown() resolved, the reports that callers were given are all   *)
(* there is to tell: each row that was counted, and each drop before       *)
(* shutdown() was called, is in exactly one of them, with its outcome, and *)
(* a stream that stops at failures has committed all it accepted.          *)
ShutdownTellsAll ==
    barrier[Shutdown].pc \in {"resolved", "ok"} =>
        IF FailurePolicy = "stop"
        THEN /\ reported["committed"] = Cardinality(counted)
             /\ \A r \in counted : fate[r] = "committed"
        ELSE /\ reported["accepted"] = Cardinality(counted)
             /\ \A o \in Outcomes : reported[o] = Cardinality(WithFate(o))
             /\ reported["dropped"] = barrier[Shutdown].droppedAt

(* Half-open means one probe, alone: it is about to be sent or the only     *)
(* request in flight, and the worker waits on a promise it will resolve.    *)
SingleProbe ==
    /\ probePending <=> circuitState = "half-open"
    /\ circuitState = "half-open" =>
         \/ pc = "send" /\ probe /\ inFlight = {}
         \/ \E t \in inFlight : inFlight = {t} /\ t.probe /\ ~t.settled
    /\ \A t \in inFlight : t.probe /\ ~t.settled => circuitState = "half-open"

(* Who claims the probe admission is on its way to be the probe, or lets    *)
(* another row be it: trySend() never drops rows for a probe that ended.    *)
ClaimHasProbe ==
    probeClaimed =>
        /\ circuitState # "closed"
        /\ \E r \in counted : fate[r] = "none"

(* A row never waits in the buffer without a deadline, and the worker never *)
(* spins on the deadline of an empty buffer.                                *)
BufferHasDeadline == deadline = "none" <=> rows = {}

(* A barrier that reports a failure speaks last: by then every row is       *)
(* settled, and an error that says nothing was written is right for all.    *)
HonestFailure ==
    \A b \in Barriers : barrier[b].pc = "failed" =>
        /\ fatal # "none"
        /\ inFlight = {}
        /\ \A r \in counted : fate[r] # "none"
        /\ fatal = "failed" => WithFate("ambiguous") = {}

(* Each reservation belongs to a row still on its way: held by a call that *)
(* will resume, queued, with the worker, buffered or in flight.            *)
OnTheWay(r) ==
    \/ call[r] = "acquiring" /\ r \notin ToSet(byteWaiters)
    \/ call[r] = "queueing" /\ ack[r] # "sent"
    \/ r \in ToSet(Q!Pending)
    \/ after = "push" /\ cmd = r /\ pc \in {"capacity", "circuit", "send"}
    \/ r \in rows
    \/ \E t \in inFlight : r \in t.rows

BytesHeldForRowsOnTheWay ==
    /\ available + B!Total(reserved) = MaxPendingBytes
    /\ available >= 0
    /\ \A r \in reserved : OnTheWay(r)
    /\ \A r \in counted : fate[r] = "none" => r \in reserved

(* When the worker is done nothing is left behind and nothing gets in. *)
Quiescent ==
    workerDone =>
        /\ rows = {} /\ inFlight = {} /\ Q!Pending \in {<<>>, <<CLOSED>>}
        /\ ~accepting /\ queueClosed /\ budgetClosed /\ byteWaiters = <<>>
        /\ \A r \in reserved : call[r] \in {"acquiring", "queueing"}
        /\ pendingRowCount = 0

(* After the stream failed no further row is handed to the service, and    *)
(* the failure is never forgotten or made to look more definite.           *)
InFlightRows == UNION {t.rows : t \in inFlight}

NothingSentAfterFailure ==
    [][fatal # "none" =>
         /\ InFlightRows' \subseteq InFlightRows
         /\ fatal' \in {fatal, "ambiguous"}]_vars

(* What cancelled flushes left is part of what a failed barrier tells, too: *)
(* docs/usage.md says that their delivery outcomes are not lost.            *)
CancelledFlushNotLost ==
    \A b \in Barriers : barrier[b].pc = "failed" =>
        reported["committed"] + ErrorContext["committed"] = lifetime["committed"]

(* The stream uses its queue and its budget as their modules specify, so   *)
(* what is shown of them holds here: no command is offered twice, one      *)
(* receive() is awaited at a time, no row asks for bytes twice.            *)
UsesComponents == Q!Spec /\ B!Spec

(* The stream keeps what StreamPromise states, which is all a program that *)
(* delivers rows and then calls shutdown() has to know: when shutdown()    *)
(* resolves every accepted row has its outcome, a commit in stop mode; when *)
(* it throws, which it does in stop mode only, no request is left in       *)
(* flight; and after a failure or the end nothing more is sent.            *)
Accepted == {r \in Rows : call[r] \in {"ok", "accepted"}}

OpenRows == {r \in Rows : \E t \in inFlight : ~t.settled /\ r \in t.rows}

Closing ==
    CASE barrier[Shutdown].pc = "new" -> "no"
      [] barrier[Shutdown].pc \in {"ok", "failed"} -> barrier[Shutdown].pc
      [] OTHER -> "called"

Promise == INSTANCE StreamPromise WITH
    Row <- Rows, Stops <- FailurePolicy = "stop",
    accepted <- Accepted, open <- OpenRows, closing <- Closing

KeepsPromise == Promise!StreamSpec

(* Every barrier returns to its caller. *)
BarriersReturn ==
    \A b \in Barriers :
        barrier[b].pc \in {"called", "task", "resolved"}
          ~> barrier[b].pc \in {"ok", "failed", "closed", "aborted"}

(* Every send() returns: backpressure ends. *)
SendsReturn ==
    \A r \in Rows : call[r] \in {"acquiring", "queueing"} ~> call[r] \in {"ok", "threw"}

(* Every accepted row gets an outcome without anyone calling flush(). *)
AcceptedRowsSettle ==
    \A r \in Rows : r \in counted ~> fate[r] # "none"
=============================================================================
