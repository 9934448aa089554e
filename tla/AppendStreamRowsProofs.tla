------------------------ MODULE AppendStreamRowsProofs ------------------------
(***************************************************************************)
(* More proofs about AppendStream: where every row is, from the call that  *)
(* offers it to its outcome, and what the barriers may therefore say.      *)
(*                                                                         *)
(* The invariants are layers again, each resting on those before it: where *)
(* the worker may be, that nothing follows the shutdown command, where the *)
(* rows are, how the stream ends, and then the counts, the bytes, the      *)
(* barriers, the reports, the breaker's claim and the stream's promise.    *)
(***************************************************************************)
EXTENDS AppendStreamProofs

-----------------------------------------------------------------------------
(* Which call of the queue a step makes. *)
LEMMA SameReceiver ==
    /\ \A timed : Q!Receive(timed) => QP!Receive(timed)
    /\ Q!Consume => QP!Consume
<1>1. \A timed : Q!Receive(timed) => QP!Receive(timed)
  BY Zenon DEF Q!Receive, Q!ReceiveBuffered, Q!ReceiveParked, Q!ReceiveClosed,
         Q!ReceiveWaits, Q!Room, Q!ToSet, QP!Receive, QP!ReceiveBuffered,
         QP!ReceiveParked, QP!ReceiveClosed, QP!ReceiveWaits, QP!Room, QP!ToSet
<1>2. Q!Consume => QP!Consume
  BY Zenon DEF Q!Consume, QP!Consume
<1> QED
  BY <1>1, <1>2

LEMMA SameSets ==
    /\ \A s : ToSet(s) = QP!ToSet(s)
    /\ Q!Pending = QP!Pending
<1>1. \A s : ToSet(s) = QP!ToSet(s)
  BY Zenon DEF ToSet, QP!ToSet
<1>2. Q!Pending = QP!Pending
  BY Zenon DEF Q!Pending, QP!Pending
<1> QED
  BY <1>1, <1>2

(* Nobody offers anything once shutdown() was called. *)
Inviting == accepting \/ barrier[Shutdown].pc = "new"

LEMMA CallerQueue ==
    ASSUME Base, Callers
    PROVE  \/ \E c \in Commands : QP!Offering(c) /\ Inviting
           \/ \E c \in Commands \ {Shutdown} : QP!Abort(c)
           \/ UNCHANGED queueVars
<1> DEFINE Goal == \/ \E c \in Commands : QP!Offering(c) /\ Inviting
                   \/ \E c \in Commands \ {Shutdown} : QP!Abort(c)
                   \/ UNCHANGED queueVars
<1>1. ASSUME NEW c \in Commands, Q!New(c), Q!Send(c) \/ Q!TrySend(c), Inviting PROVE Goal
  BY <1>1, SameQueue DEF QP!Offering
<1>2. ASSUME NEW c \in Commands \ {Shutdown}, Q!Abort(c) PROVE Goal
  BY <1>2, SameQueue
<1>3. ASSUME UNCHANGED queueVars PROVE Goal
  BY <1>3
<1> HIDE DEF Goal
<1>4. ASSUME NEW r \in Rows PROVE r \in Commands \ {Shutdown}
  BY Names
<1>5. ASSUME NEW r \in Rows, TrySendAccepted(r) PROVE Goal
  <2>1. Q!New(r) /\ Q!TrySend(r) /\ Inviting
    BY <1>5 DEF TrySendAccepted, Admits, Inviting, Base, Untouched, Q!New
  <2> QED
    BY <1>1, <1>4, <2>1
<1>6. ASSUME NEW r \in Rows, SendGranted(r) PROVE Goal
  <2>1. CASE StillOpen /\ Q!Send(r)
    <3>1. Q!New(r) /\ Q!Send(r) /\ Inviting
      BY <1>6, <2>1 DEF SendGranted, StillOpen, Inviting, Base, Untouched, Q!New
    <3> QED
      BY <1>1, <1>4, <3>1
  <2>2. CASE UNCHANGED queueVars
    BY <1>3, <2>2
  <2> QED
    BY <1>6, <2>1, <2>2 DEF SendGranted
<1>7. ASSUME NEW r \in Rows, SendAbort(r) PROVE Goal
  BY <1>2, <1>3, <1>4, <1>7 DEF SendAbort
<1>8. ASSUME NEW b \in Barriers, barrier[b].pc = "new", EnterBarrier(b), Inviting PROVE Goal
  <2>1. Q!New(b) /\ Q!Send(b) /\ b \in Commands
    BY <1>8, Names DEF EnterBarrier, Base, Untouched, Q!New
  <2> QED
    BY <1>1, <1>8, <2>1
<1>9. ASSUME NEW f \in Flushes, FlushCall(f) PROVE Goal
  BY <1>3, <1>8, <1>9, Names DEF FlushCall, Inviting
<1>10. ASSUME ShutdownCall PROVE Goal
  <2>1. Shutdown \in Barriers /\ barrier[Shutdown].pc = "new" /\ Inviting
    BY <1>10, Names DEF ShutdownCall, ShutdownUnstarted, Inviting
  <2>2. EnterBarrier(Shutdown) \/ UNCHANGED queueVars
    BY <1>10 DEF ShutdownCall
  <2> QED
    BY <1>3, <1>8, <2>1, <2>2
<1>11. ASSUME NEW f \in Flushes, FlushAbort(f) PROVE Goal
  BY <1>2, <1>3, <1>11, Names DEF FlushAbort
<1>12. ASSUME NEW r \in Rows,
              SendCall(r) \/ TrySendDropped(r) \/ SendRefused(r) \/ SendReturns(r) \/ SendBounced(r)
       PROVE  Goal
  BY <1>3, <1>12 DEF SendCall, TrySendDropped, SendRefused, SendReturns, SendBounced
<1>13. ASSUME NEW b \in Barriers, ResumeBarrier(b) PROVE Goal
  BY <1>3, <1>13 DEF ResumeBarrier, BarrierRefused, TaskAwaited
<1> QED
  BY <1>5, <1>6, <1>7, <1>9, <1>10, <1>11, <1>12, <1>13 DEF Callers, User, Resume, Goal

LEMMA WorkerQueue ==
    /\ WorkerTop => (\E timed \in BOOLEAN : QP!Receive(timed)) \/ UNCHANGED queueVars
    /\ WorkerReceived => QP!Consume
    /\ WorkerUnwind => QP!CloseAndDrain
    /\ WorkerCapacity \/ PassCircuit \/ StartProbe \/ WorkerSend \/ WorkerSettle
         => UNCHANGED queueVars
    /\ Requests \/ Timers \/ UNCHANGED vars
         => QP!Timeout \/ QP!Close \/ UNCHANGED queueVars
<1>1. WorkerTop => (\E timed \in BOOLEAN : QP!Receive(timed)) \/ UNCHANGED queueVars
  BY SameReceiver DEF WorkerTop, Timed
<1>2. WorkerReceived => QP!Consume
  BY SameReceiver DEF WorkerReceived
<1>3. WorkerUnwind => QP!CloseAndDrain
  BY SameQueue DEF WorkerUnwind
<1>4. WorkerCapacity \/ PassCircuit \/ StartProbe \/ WorkerSend \/ WorkerSettle
        => UNCHANGED queueVars
  BY DEF WorkerCapacity, PassCircuit, StartProbe, WorkerSend, WorkerSettle
<1>5. Requests => QP!Close \/ UNCHANGED queueVars
  BY SameQueue DEF Requests, Settle, BatchCommits, BatchFails, BatchFinally, SetFatal
<1>6. Timers => QP!Timeout \/ UNCHANGED queueVars
  BY SameQueue DEF Timers, DeadlinePasses, ReceiveTimeout, CooldownElapses
<1>7. UNCHANGED vars => UNCHANGED queueVars
  BY DEF vars
<1> QED
  BY <1>1, <1>2, <1>3, <1>4, <1>5, <1>6, <1>7

LEMMA QueueNext ==
    ASSUME QueueStep
    PROVE  QP!Next \/ UNCHANGED QP!queueVars
<1>1. \/ \E c \in Commands : QP!New(c) /\ (QP!Send(c) \/ QP!TrySend(c))
      \/ \E c \in Commands : QP!Abort(c)
      \/ QP!Worker \/ QP!Timeout \/ QP!Close \/ QP!CloseAndDrain
      \/ UNCHANGED queueVars
  BY SameQueue DEF QueueStep
<1> QED
  BY <1>1 DEF QP!Next, queueVars, QP!queueVars

LEMMA QueueMoves ==
    ASSUME Base, [Next]_vars
    PROVE  \/ Callers /\ \E c \in Commands : QP!Offering(c) /\ Inviting
           \/ Callers /\ \E c \in Commands \ {Shutdown} : QP!Abort(c)
           \/ WorkerTop /\ \E timed \in BOOLEAN : QP!Receive(timed)
           \/ WorkerReceived /\ QP!Consume
           \/ WorkerUnwind /\ QP!CloseAndDrain
           \/ ~WorkerReceived /\ ~WorkerUnwind
                /\ (QP!Timeout \/ QP!Close \/ UNCHANGED QP!queueVars)
<1>1. UNCHANGED queueVars => UNCHANGED QP!queueVars
  BY DEF queueVars, QP!queueVars
<1> QED
  BY <1>1, CallerQueue, WorkerQueue DEF Next, Callers, Worker

(* The steps between which the worker sleeps, and the requests in flight. *)
Aside == Callers \/ Requests \/ Timers \/ UNCHANGED vars

LEMMA AsideFrame ==
    ASSUME Aside
    PROVE  UNCHANGED <<pc, after, cmd, probe, rows>>
<1>1. CASE Callers
  BY <1>1, CallersFrame DEF workerVars, bufferVars
<1>2. CASE Requests
  BY <1>2 DEF Requests, Settle, BatchCommits, BatchFails, BatchFinally, workerVars, bufferVars
<1>3. CASE Timers \/ UNCHANGED vars
  BY <1>3 DEF Timers, DeadlinePasses, ReceiveTimeout, CooldownElapses, vars, workerVars,
       bufferVars
<1> QED
  BY <1>1, <1>2, <1>3 DEF Aside

NewBatch == [rows |-> rows, probe |-> probe, settled |-> FALSE]

LEMMA InFlightMoves ==
    ASSUME Base, [Next]_vars
    PROVE  \/ WorkerSend /\ fatal = "none" /\ Dispatch /\ inFlight' = inFlight \cup {NewBatch}
           \/ \E t \in inFlight : /\ Settle(t) /\ ~t.settled
                                 /\ [t EXCEPT !.settled = TRUE] \in Batches
                                 /\ [t EXCEPT !.settled = TRUE].rows = t.rows
                                 /\ [t EXCEPT !.settled = TRUE].probe = t.probe
                                 /\ [t EXCEPT !.settled = TRUE].settled
                                 /\ inFlight' = Settled(t)
           \/ \E t \in inFlight : BatchFinally(t) /\ t.settled /\ inFlight' = inFlight \ {t}
           \/ UNCHANGED inFlight
<1>1. CASE Callers
  BY <1>1, CallersFrame
<1>2. CASE WorkerSend
  BY <1>2 DEF WorkerSend, DispatchForbidden, DispatchThrows, Dispatch, NewBatch
<1>3. ASSUME NEW t \in inFlight, Settle(t)
      PROVE  /\ ~t.settled /\ inFlight' = Settled(t)
             /\ [t EXCEPT !.settled = TRUE] \in Batches
             /\ [t EXCEPT !.settled = TRUE].rows = t.rows
             /\ [t EXCEPT !.settled = TRUE].probe = t.probe
             /\ [t EXCEPT !.settled = TRUE].settled
  <2>1. t \in Batches
    BY DEF Base, Types, WorkerTypeOK
  <2>2. ~t.settled /\ inFlight' = Settled(t)
    BY <1>3 DEF Settle, BatchCommits, BatchFails
  <2>3. /\ [t EXCEPT !.settled = TRUE] \in Batches
        /\ [t EXCEPT !.settled = TRUE].rows = t.rows
        /\ [t EXCEPT !.settled = TRUE].probe = t.probe
        /\ [t EXCEPT !.settled = TRUE].settled
    BY <2>1 DEF Batches
  <2> QED
    BY <2>2, <2>3
<1>4. ASSUME NEW t \in inFlight, BatchFinally(t)
      PROVE  t.settled /\ inFlight' = inFlight \ {t}
  BY <1>4 DEF BatchFinally
<1>5. CASE WorkerTop \/ WorkerReceived \/ WorkerCapacity \/ PassCircuit \/ StartProbe
             \/ WorkerSettle \/ WorkerUnwind \/ Timers \/ UNCHANGED vars
  BY <1>5 DEF WorkerTop, WorkerReceived, WorkerCapacity, PassCircuit, StartProbe,
       WorkerSettle, WorkerUnwind, Timers, DeadlinePasses, ReceiveTimeout,
       CooldownElapses, vars
<1> QED
  BY <1>1, <1>2, <1>3, <1>4, <1>5 DEF Next, Callers, Worker, Requests

(* Admission ends for good, and so does the budget. *)
LEMMA ClosesForGood ==
    ASSUME Base, [Next]_vars
    PROVE  /\ accepting' => accepting
           /\ budgetClosed => budgetClosed'
           /\ queueClosed => queueClosed' /\ (items = <<>> => items' = <<>>)
<1>1. accepting' => accepting
  <2>1. CASE Callers
    BY <2>1, CallersFrame, Zenon
  <2>2. CASE Worker
    BY <2>2 DEF Worker, WorkerTop, WorkerReceived, WorkerCapacity, PassCircuit, StartProbe,
         WorkerSend, WorkerSettle, WorkerUnwind, lifeVars
  <2>3. CASE Requests \/ Timers \/ UNCHANGED vars
    BY <2>3 DEF Requests, Settle, BatchCommits, BatchFails, SetFatal, BatchFinally, Timers,
         DeadlinePasses, ReceiveTimeout, CooldownElapses, vars, lifeVars
  <2> QED
    BY <2>1, <2>2, <2>3 DEF Next, Callers
<1>2. budgetClosed => budgetClosed'
  <2>1. BudgetStep
    BY StreamSteps
  <2>2. ASSUME NEW r \in Rows, BP!Acquire(r) \/ BP!TryAcquire(r) \/ BP!Abort(r)
        PROVE  budgetClosed' = budgetClosed
    BY <2>2, BudgetConstants, BP!AskEffect, BP!AbortEffect DEF Base
  <2>3. ASSUME NEW S, BP!ReleaseAll(S) \/ BP!ReleaseAndClose(S)
        PROVE  budgetClosed' \/ budgetClosed' = budgetClosed
    BY <2>3, BudgetConstants, BP!ReleaseEffect DEF Base
  <2>4. BP!Close => budgetClosed'
    BY BudgetConstants, BP!CloseEffect DEF Base
  <2> QED
    BY <2>1, <2>2, <2>3, <2>4, SameBudget DEF BudgetStep, budgetVars
<1>3. queueClosed => queueClosed' /\ (items = <<>> => items' = <<>>)
  <2>1. QP!Next \/ UNCHANGED QP!queueVars
    BY StreamSteps, QueueNext
  <2> QED
    BY <2>1, QueueConstants, QP!ClosedStays DEF Base
<1> QED
  BY <1>1, <1>2, <1>3

-----------------------------------------------------------------------------
(* Where the worker is.  It listens only in "received", it dispatches only *)
(* what the buffer holds, and when it is done nothing is left with it.     *)
Dispatching == pc \in {"capacity", "circuit", "send"}

AtRest ==
    /\ rows = {} /\ inFlight = {} /\ items = <<>>
    /\ ~accepting /\ queueClosed /\ budgetClosed

WorkerPlace ==
    /\ pc # "received" => QP!Ready
    /\ QP!ToldClosed
    /\ pc = "settle" => rows = {}
    /\ Dispatching => rows # {}
    /\ \A t \in inFlight : t.rows # {}
    /\ workerDone => AtRest

LEMMA ReadyUnlessReceiving ==
    ASSUME Base, WorkerPlace, [Next]_vars, pc' # "received"
    PROVE  QP!Ready'
<1>1. CASE WorkerReceived
  <2>1. QP!Consume
    BY <1>1, WorkerQueue
  <2> QED
    BY <2>1, QueueConstants, QP!ConsumeEffect DEF Base, QP!Ready
<1>2. CASE ~WorkerReceived
  <2>1. pc # "received"
    <3>1. Aside => pc' = pc
      BY AsideFrame
    <3> QED
      BY <1>2, <3>1 DEF Next, Aside, Callers, Worker, WorkerTop, WorkerCapacity, PassCircuit,
           StartProbe, WorkerSend, WorkerSettle, WorkerUnwind
  <2>2. ~(WorkerTop /\ \E timed \in BOOLEAN : QP!Receive(timed)) \/ UNCHANGED queueVars
    BY DEF WorkerTop
  <2>3. QP!Others
    BY <1>2, <2>2, QueueMoves DEF QP!Others, queueVars, QP!queueVars
  <2> QED
    BY <2>1, <2>3, QueueConstants, QP!ReadyKept DEF Base, WorkerPlace
<1> QED
  BY <1>1, <1>2

LEMMA BufferPlace ==
    ASSUME Base, WorkerPlace, [Next]_vars
    PROVE  /\ pc' = "settle" => rows' = {}
           /\ Dispatching' => rows' # {}
<1> DEFINE Goal == (pc' = "settle" => rows' = {}) /\ (Dispatching' => rows' # {})
<1> USE DEF WorkerPlace, Dispatching
<1>1. CASE Aside
  BY <1>1, AsideFrame
<1>2. CASE WorkerTop
  BY <1>2 DEF WorkerTop, bufferVars
<1>3. CASE WorkerReceived
  <2>1. ASSUME NEW r, NEW buffer, Push(r, buffer) PROVE Goal
    BY <2>1 DEF Push
  <2>2. CASE DisposeDelivered \/ NothingDelivered
    BY <2>2 DEF DisposeDelivered, NothingDelivered, bufferVars
  <2>3. CASE RowDelivered(delivered)
    BY <2>1, <2>3 DEF RowDelivered, bufferVars
  <2>4. CASE BarrierDelivered(delivered)
    BY <2>4 DEF BarrierDelivered, bufferVars
  <2> QED
    BY <1>3, <2>2, <2>3, <2>4 DEF WorkerReceived
<1>4. CASE WorkerCapacity \/ PassCircuit \/ StartProbe
  BY <1>4 DEF WorkerCapacity, PassCircuit, StartProbe, bufferVars
<1>5. CASE WorkerSend
  BY <1>5 DEF WorkerSend, DispatchThrows, Dispatch, Push, EmptyBuffer, bufferVars
<1>6. CASE WorkerSettle \/ WorkerUnwind
  BY <1>6 DEF WorkerSettle, WorkerUnwind
<1> QED
  BY <1>1, <1>2, <1>3, <1>4, <1>5, <1>6 DEF Next, Aside, Callers, Worker

LEMMA AtRestWhenDone ==
    ASSUME Base, WorkerPlace, [Next]_vars, pc' = "done"
    PROVE  AtRest'
<1>1. CASE WorkerUnwind
  <2>1. rows' = {} /\ inFlight' = {} /\ ~accepting'
    BY <1>1 DEF WorkerUnwind, AllSettled, EmptyBuffer
  <2>2. items' = <<>> /\ queueClosed'
    BY <1>1, QueueConstants, WorkerQueue, QP!DrainOrder, QP!CloseAnswers DEF Base
  <2>3. budgetClosed'
    BY <1>1, SameBudget, BudgetConstants, BP!ReleaseEffect DEF WorkerUnwind, Base
  <2> QED
    BY <2>1, <2>2, <2>3 DEF AtRest
<1>2. CASE ~WorkerUnwind
  <2>1. pc = "done"
    <3>1. Aside => pc' = pc
      BY AsideFrame
    <3> QED
      BY <1>2, <3>1 DEF Next, Aside, Callers, Worker, WorkerTop, WorkerReceived,
           DisposeDelivered, RowDelivered, Push, BarrierDelivered, NothingDelivered,
           WorkerCapacity, PassCircuit, StartProbe, WorkerSend, DispatchThrows, Dispatch,
           WorkerSettle
  <2>2. AtRest
    BY <2>1 DEF WorkerPlace, workerDone
  <2>3. rows' = rows
    <3>1. ~Worker
      BY <1>2, <2>1 DEF Worker, WorkerTop, WorkerReceived, WorkerCapacity, PassCircuit,
           StartProbe, WorkerSend, WorkerSettle
    <3> QED
      BY <3>1, AsideFrame DEF Next, Aside, Callers
  <2>4. inFlight' = inFlight
    BY <2>1, <2>2, InFlightMoves DEF AtRest, WorkerSend
  <2> QED
    BY <2>2, <2>3, <2>4, ClosesForGood DEF AtRest
<1> QED
  BY <1>1, <1>2

LEMMA WorkerPlaceKept ==
    ASSUME Base, WorkerPlace, [Next]_vars
    PROVE  WorkerPlace'
<1>1. (pc # "received" => QP!Ready)'
  BY ReadyUnlessReceiving
<1>2. QP!ToldClosed'
  BY StreamSteps, QueueNext, QueueConstants, QP!ToldClosedKept DEF Base, WorkerPlace
<1>3. \A t \in inFlight' : t.rows # {}
  <2>1. WorkerSend => NewBatch.rows # {}
    BY DEF WorkerSend, NewBatch, WorkerPlace, Dispatching
  <2> HIDE DEF NewBatch
  <2> QED
    BY <2>1, InFlightMoves DEF WorkerPlace, Settled
<1> QED
  BY <1>1, <1>2, <1>3, BufferPlace, AtRestWhenDone DEF WorkerPlace, workerDone

LEMMA WorkerPlaceAlways == Spec => []WorkerPlace
<1>1. Init => WorkerPlace
  <2> SUFFICES ASSUME Init PROVE WorkerPlace
    OBVIOUS
  <2>1. recvWaiter = "idle" /\ delivered = NONE
    BY DEF Init, Q!Init
  <2> QED
    BY <2>1, StreamAssumption DEF Init, WorkerPlace, Dispatching, workerDone, QP!Ready, QP!ToldClosed
<1> QED
  BY <1>1, BaseAlways, WorkerPlaceKept, PTL DEF Spec

-----------------------------------------------------------------------------
(* The barriers' places.  A barrier is rejected because the queue refused  *)
(* it, because the stream failed, or at the very end because it is queued. *)
RejectCause(b) ==
    \/ ack[b] = "refused"
    \/ fatal # "none"
    \/ WorkerUnwind /\ b \in ToSet(items)

BarrierMove(b) ==
    \/ barrier'[b].pc = barrier[b].pc
    \/ b \in Flushes /\ FlushCall(b) /\ barrier[b].pc = "new"
         /\ IF fatal = "none" THEN barrier'[b].pc \in {"called", "closed"}
            ELSE barrier'[b].pc = "task"
    \/ b = Shutdown /\ ShutdownCall /\ barrier[b].pc = "new"
         /\ barrier'[b].pc = IF fatal = "none" THEN "called" ELSE "task"
    \/ b \in Flushes /\ barrier'[b].pc = "aborted"
    \/ barrier[b].pc = "called" /\ barrier'[b].pc = RejectedAs(b) /\ RejectCause(b)
    \/ /\ WorkerSettle /\ fatal = "none" /\ b = cmd /\ barrier[b].pc # "aborted"
       /\ barrier'[b].pc = IF b = Shutdown THEN "resolved" ELSE "ok"
    \/ workerDone /\ TaskAwaited(b) /\ barrier[b].pc = "task" /\ barrier'[b].pc = "failed"
    \/ workerDone /\ TaskAwaited(b) /\ barrier[b].pc = "resolved" /\ barrier'[b].pc = "ok"

LEMMA BarrierMoves ==
    ASSUME Base, [Next]_vars, NEW b \in Barriers
    PROVE  BarrierMove(b)
<1> USE Names
<1> DEFINE Places == {"new", "called", "aborted", "resolved", "task", "ok",
                      "failed", "closed"}
<1>1. barrier \in [Barriers -> [pc : Places, droppedAt : Nat]]
  BY DEF Base, Types, CallerTypeOK
<1>2. ASSUME NEW c \in Barriers, NEW where, SetBarrier(c, where)
      PROVE  barrier'[b].pc = IF b = c THEN where ELSE barrier[b].pc
  BY <1>1, <1>2 DEF SetBarrier
<1>3. ASSUME NEW S, RejectBarriers(S)
      PROVE  barrier'[b].pc = IF b \in S THEN RejectedAs(b) ELSE barrier[b].pc
  BY <1>1, <1>3 DEF RejectBarriers
<1>4. barrier[b].pc # "called" => RejectedAs(b) = barrier[b].pc
  BY DEF RejectedAs
<1>5. ASSUME NEW c \in Barriers, EnterBarrier(c)
      PROVE  barrier'[b].pc = IF b = c THEN "called" ELSE barrier[b].pc
  BY <1>1, <1>5 DEF EnterBarrier
<1> HIDE DEF Places
<1>6. ASSUME NEW S, RejectBarriers(S), b \in S => RejectCause(b) PROVE BarrierMove(b)
  <2>1. CASE b \in S /\ barrier[b].pc = "called"
    BY <1>3, <1>6, <2>1 DEF BarrierMove
  <2>2. CASE ~(b \in S /\ barrier[b].pc = "called")
    BY <1>3, <1>4, <1>6, <2>2 DEF BarrierMove
  <2> QED
    BY <2>1, <2>2
<1>7. ASSUME UNCHANGED barrier PROVE BarrierMove(b)
  BY <1>7 DEF BarrierMove
<1>8. CASE Callers
  <2>1. ASSUME NEW r \in Rows, SendCall(r) \/ TrySendAccepted(r) \/ TrySendDropped(r)
                               \/ SendAbort(r) \/ Resume(r)
        PROVE  BarrierMove(b)
    BY <1>7, <2>1 DEF SendCall, TrySendAccepted, TrySendDropped, SendAbort, Resume,
         SendGranted, SendRefused, SendReturns, SendBounced, callerVars
  <2>2. ASSUME NEW f \in Flushes, FlushCall(f) PROVE BarrierMove(b)
    <3>1. /\ barrier[f].pc = "new"
          /\ barrier'[b].pc = IF b = f
               THEN IF fatal # "none" THEN "task" ELSE IF ~accepting THEN "closed" ELSE "called"
               ELSE barrier[b].pc
      BY <1>2, <1>5, <2>2 DEF FlushCall
    <3> QED
      BY <2>2, <3>1 DEF BarrierMove
  <2>3. ASSUME NEW f \in Flushes, FlushAbort(f) PROVE BarrierMove(b)
    BY <1>2, <2>3 DEF FlushAbort, BarrierMove
  <2>4. ASSUME ShutdownCall PROVE BarrierMove(b)
    <3>1. /\ barrier[Shutdown].pc = "new"
          /\ barrier'[b].pc = IF b = Shutdown
               THEN IF fatal # "none" THEN "task" ELSE "called" ELSE barrier[b].pc
      BY <1>2, <1>5, <2>4 DEF ShutdownCall, ShutdownUnstarted
    <3> QED
      BY <2>4, <3>1 DEF BarrierMove
  <2>5. ASSUME NEW c \in Barriers, BarrierRefused(c) PROVE BarrierMove(b)
    BY <1>6, <2>5 DEF BarrierRefused, RejectCause
  <2>6. ASSUME NEW c \in Barriers, TaskAwaited(c) PROVE BarrierMove(b)
    BY <1>2, <2>6 DEF TaskAwaited, BarrierMove
  <2> QED
    BY <1>8, <2>1, <2>2, <2>3, <2>4, <2>5, <2>6 DEF Callers, User, ResumeBarrier
<1>9. CASE WorkerReceived \/ WorkerSend
  <2>1. CASE \E S : fatal # "none" /\ RejectBarriers(S)
    BY <1>6, <2>1 DEF RejectCause
  <2>2. CASE UNCHANGED barrier
    BY <1>7, <2>2
  <2> QED
    BY <1>9, <2>1, <2>2 DEF WorkerReceived, DisposeDelivered, RowDelivered,
         BarrierDelivered, NothingDelivered, WorkerSend, DispatchForbidden,
         DispatchThrows, Dispatch
<1>10. CASE WorkerSettle
  <2>1. CASE fatal # "none"
    BY <1>6, <1>10, <2>1 DEF WorkerSettle, RejectCause
  <2>2. CASE fatal = "none"
    <3>1. cmd \in Barriers
      BY <1>10 DEF WorkerSettle, Base, Types, WorkerTypeOK
    <3>2. SetBarrier(cmd, IF barrier[cmd].pc = "aborted" THEN "aborted"
                          ELSE IF cmd = Shutdown THEN "resolved" ELSE "ok")
      BY <1>10, <2>2 DEF WorkerSettle, ResolveBarrier
    <3>3. barrier'[b].pc = IF b = cmd
            THEN IF barrier[cmd].pc = "aborted" THEN "aborted"
                 ELSE IF cmd = Shutdown THEN "resolved" ELSE "ok"
            ELSE barrier[b].pc
      BY <1>2, <3>1, <3>2
    <3> QED
      BY <1>10, <2>2, <3>3 DEF BarrierMove
  <2> QED
    BY <2>1, <2>2
<1>11. CASE WorkerUnwind
  BY <1>6, <1>11 DEF WorkerUnwind, RejectCause
<1>12. CASE WorkerTop \/ WorkerCapacity \/ PassCircuit \/ StartProbe \/ Requests \/ Timers
              \/ UNCHANGED vars
  BY <1>7, <1>12 DEF WorkerTop, WorkerCapacity, PassCircuit, StartProbe, Requests, Settle,
       BatchCommits, BatchFails, BatchFinally, Timers, DeadlinePasses, ReceiveTimeout,
       CooldownElapses, vars, callerVars
<1> QED
  BY <1>8, <1>9, <1>10, <1>11, <1>12 DEF Next, Callers, Worker

-----------------------------------------------------------------------------
(* Nothing follows the shutdown command.  It is the last one invited, so   *)
(* nothing is behind it in the queue, and nothing is queued any more while *)
(* the worker completes it.                                                *)
Finishing == IF pc = "settle" \/ (after = "barrier" /\ Dispatching) THEN {cmd} ELSE {}

LastInvited ==
    /\ barrier[Shutdown].pc # "new" => ~accepting
    /\ barrier[Shutdown].pc # "aborted"
    /\ \A b \in Finishing : ack[b] = "sent"
    /\ \A c \in Commands : ~QP!Ahead(QP!Pending, Shutdown, c)
    /\ Shutdown \in Finishing => QP!Pending = <<>>

(* The barrier the worker completes is the one it received. *)
LEMMA FinishingMoves ==
    ASSUME Base, [Next]_vars
    PROVE  /\ Finishing \subseteq Barriers
           /\ \A b \in Finishing' :
                \/ b \in Finishing /\ ~WorkerReceived
                \/ /\ WorkerReceived /\ fatal = "none"
                   /\ b = delivered /\ delivered \in Barriers
<1> USE DEF Finishing, Dispatching
<1> DEFINE Same == \A b \in Finishing' : b \in Finishing
<1>1. Finishing \subseteq Barriers
  BY DEF Base, Types, WorkerTypeOK
<1>2. UNCHANGED <<pc, after, cmd>> => Same
  OBVIOUS
<1>3. Aside => Same
  BY <1>2, AsideFrame
<1>4. WorkerTop => Same
  BY DEF WorkerTop, StartDispatch
<1>5. ASSUME WorkerReceived
      PROVE  \A b \in Finishing' : fatal = "none" /\ b = delivered /\ delivered \in Barriers
  BY <1>5 DEF WorkerReceived, DisposeDelivered, RowDelivered, Push, BarrierDelivered,
       NothingDelivered, StartDispatch
<1>6. WorkerCapacity \/ PassCircuit \/ StartProbe => Same
  BY DEF WorkerCapacity, PassCircuit, StartProbe
<1>7. WorkerSend => Same
  BY DEF WorkerSend, DispatchThrows, Dispatch, Push
<1>8. WorkerSettle \/ WorkerUnwind => Same
  BY DEF WorkerSettle, WorkerUnwind
<1> HIDE DEF Same
<1>9. Same \/ WorkerReceived
  BY <1>3, <1>4, <1>6, <1>7, <1>8 DEF Next, Aside, Callers, Worker
<1> QED
  BY <1>1, <1>5, <1>9 DEF Same

(* What the queue has answered stays answered. *)
LEMMA AnswersStay ==
    ASSUME Base, [Next]_vars, NEW c \in Commands
    PROVE  /\ ack[c] = "sent" => ack'[c] = "sent"
           /\ ack[c] = "refused" => ack'[c] = "refused"
           /\ ack[c] # "none" => ack'[c] # "none"
<1>1. \/ ack'[c] = ack[c]
      \/ ack[c] = "none"
      \/ ack[c] = "waiting" /\ ack'[c] \in {"sent", "refused"}
  BY StreamSteps, QueueNext, QueueConstants, QP!AckMoves DEF Base
<1> QED
  BY <1>1

LEMMA PendingAcked ==
    ASSUME Base, NEW c \in Commands, c \in QP!ToSet(QP!Pending)
    PROVE  ack[c] \in {"waiting", "sent"} /\ c \notin QP!Gone
BY QueueConstants, QP!PendingParts DEF Base, QP!Gone

(* What is ahead of what, after a step. *)
LEMMA AheadMoves ==
    ASSUME Base, [Next]_vars
    PROVE  \/ QP!OnlyLeaves
           \/ \E c \in Commands : Callers /\ Inviting /\ QP!Offering(c)
<1>1. \/ QP!OnlyLeaves
      \/ \E c \in Commands : Callers /\ Inviting /\ QP!Offering(c)
      \/ \E c \in Commands : QP!Abort(c)
      \/ QP!Worker \/ QP!Timeout \/ QP!Close \/ QP!CloseAndDrain
      \/ UNCHANGED QP!queueVars
  BY QueueMoves DEF QP!Worker
<1> QED
  BY <1>1, QueueConstants, QP!LeavesOnly DEF Base

LEMMA NothingBehindShutdown ==
    ASSUME Base, LastInvited, [Next]_vars
    PROVE  \A c \in Commands : ~QP!Ahead(QP!Pending, Shutdown, c)'
<1>1. CASE QP!OnlyLeaves
  BY <1>1, Names DEF QP!OnlyLeaves, LastInvited
<1>2. ASSUME NEW d \in Commands, Inviting, QP!Offering(d)
      PROVE  \A c \in Commands : ~QP!Ahead(QP!Pending, Shutdown, c)'
  <2>1. Shutdown \notin QP!ToSet(QP!Pending)
    BY <1>2, Names, PendingAcked DEF Inviting, LastInvited, Base, Untouched
  <2>2. \A c, e \in Commands :
          QP!Ahead(QP!Pending, c, e)' =>
            QP!Ahead(QP!Pending, c, e) \/ (e = d /\ c \in QP!ToSet(QP!Pending))
    BY <1>2, QueueConstants, QP!JoinsBehind DEF Base
  <2> QED
    BY <2>1, <2>2, Names DEF LastInvited
<1> QED
  BY <1>1, <1>2, AheadMoves

LEMMA PendingType == QP!IInv => QP!Pending \in Seq(Commands)
BY QueueConstants, QP!PendingParts

LEMMA ShutdownAlone ==
    ASSUME Base, LastInvited, [Next]_vars, Shutdown \in Finishing'
    PROVE  QP!Pending' = <<>>
<1>1. QP!Pending' \in Seq(Commands) /\ QP!Pending \in Seq(Commands)
  <2>1. QP!IInv /\ QP!IInv'
    BY BaseKept DEF Base
  <2>2. (QP!Pending \in Seq(Commands))'
    BY <2>1, PendingType, PTL
  <2> QED
    BY <2>1, <2>2, PendingType
<1>2. CASE Shutdown \in Finishing
  <2>1. QP!Pending = <<>> /\ ack[Shutdown] = "sent"
    BY <1>2 DEF LastInvited
  <2>2. ~Inviting
    BY <2>1, Names DEF Inviting, LastInvited, Base, Untouched
  <2>3. QP!ToSet(QP!Pending') \subseteq QP!ToSet(QP!Pending)
    BY <2>2, AheadMoves DEF QP!OnlyLeaves
  <2>4. QP!ToSet(QP!Pending') = {}
    BY <2>1, <2>3 DEF QP!ToSet
  <2> QED
    BY <1>1, <2>4, EmptySeq DEF QP!ToSet
<1>3. CASE WorkerReceived /\ Shutdown = delivered
  <2>1. QP!Consume /\ delivered \in Commands
    BY <1>3, WorkerQueue, Names
  <2>2. \A d \in QP!ToSet(QP!Pending') : QP!Ahead(QP!Pending, Shutdown, d)
    BY <1>3, <2>1, QueueConstants, QP!TakesFirst DEF Base
  <2>3. QP!ToSet(QP!Pending') \subseteq Commands
    BY <1>1 DEF QP!ToSet
  <2>4. QP!ToSet(QP!Pending') = {}
    BY <2>2, <2>3 DEF LastInvited
  <2> QED
    BY <1>1, <2>4, EmptySeq DEF QP!ToSet
<1> QED
  BY <1>2, <1>3, FinishingMoves

LEMMA LastInvitedKept ==
    ASSUME Base, LastInvited, [Next]_vars
    PROVE  LastInvited'
<1>1. \A b \in Finishing' : ack'[b] = "sent"
  <2>1. ASSUME NEW b \in Finishing PROVE ack'[b] = "sent"
    BY FinishingMoves, AnswersStay, Names DEF LastInvited
  <2>2. ASSUME WorkerReceived, delivered \in Barriers PROVE ack'[delivered] = "sent"
    BY <2>2, WorkerQueue, QueueConstants, QP!ConsumeEffect, Names DEF Base, QP!Sent
  <2> QED
    BY <2>1, <2>2, FinishingMoves
<1>2. barrier'[Shutdown].pc # "new" => ~accepting'
  <2>1. CASE barrier[Shutdown].pc # "new"
    BY <2>1, ClosesForGood DEF LastInvited
  <2>2. CASE barrier[Shutdown].pc = "new" /\ barrier'[Shutdown].pc # "new"
    <3>1. ShutdownCall \/ (WorkerSettle /\ cmd = Shutdown)
      BY <2>2, BarrierMoves, Names DEF BarrierMove
    <3>2. ~(WorkerSettle /\ cmd = Shutdown)
      BY <2>2, Names DEF WorkerSettle, LastInvited, Finishing, Base, Untouched
    <3> QED
      BY <3>1, <3>2 DEF ShutdownCall
  <2> QED
    BY <2>1, <2>2
<1>3. barrier'[Shutdown].pc # "aborted"
  BY BarrierMoves, Names DEF BarrierMove, LastInvited, RejectedAs
<1>4. \A c \in Commands : ~QP!Ahead(QP!Pending, Shutdown, c)'
  BY NothingBehindShutdown
<1> QED
  BY <1>1, <1>2, <1>3, <1>4, ShutdownAlone DEF LastInvited

LEMMA LastInvitedInit == Init => LastInvited
<1> SUFFICES ASSUME Init PROVE LastInvited
  OBVIOUS
<1>1. QP!Pending = <<>>
  <2>1. QP!Ready /\ items = <<>> /\ sendWaiters = <<>>
    BY DEF Init, Q!Init, QP!Ready
  <2>2. delivered \notin Commands
    BY <2>1, Names DEF QP!Ready
  <2>3. (<<>> \o <<>>) \o <<>> = <<>>
    BY EmptySeq, ConcatEmptySeq
  <2> QED
    BY <2>1, <2>2, <2>3 DEF QP!Pending
<1>2. \A c : ~QP!Ahead(QP!Pending, Shutdown, c)
  BY <1>1 DEF QP!Ahead
<1>3. Finishing = {}
  BY DEF Init, Finishing, Dispatching
<1>4. barrier[Shutdown].pc = "new"
  BY Names DEF Init
<1> QED
  BY <1>2, <1>3, <1>4 DEF LastInvited

-----------------------------------------------------------------------------
(* Where the rows are.  What the worker took from the queue it holds, has  *)
(* buffered or has in flight, each row in one place, until the row has its *)
(* outcome.                                                                *)
Held == IF after = "push" /\ Dispatching THEN {cmd} ELSE {}
AtWorker == Held \cup rows \cup OpenRows
Fated == {r \in Rows : fate[r] # "none"}
Taken == QP!Gone \cap Rows

RowsPlaced ==
    /\ Taken = AtWorker \cup Fated
    /\ AtWorker \cap Fated = {}
    /\ Held \cap rows = {} /\ (Held \cup rows) \cap OpenRows = {}
    /\ \A t, u \in inFlight : t # u => t.rows \cap u.rows = {}
    /\ \A t \in inFlight : t.settled => t.rows \subseteq Fated
    /\ Taken \subseteq counted
    /\ \A r \in counted : ack[r] = "sent"

(* What callers count: drops, or a row that was accepted. *)
CallersTally ==
    \/ UNCHANGED <<counted, pendingRowCount>>
         /\ \A f \in Fields \ {"dropped"} : lifetime'[f] = lifetime[f]
    \/ \E r \in Rows : CountAccepted({r})

(* The five things that can happen to rows. *)
Stay ==
    /\ UNCHANGED <<Taken, Held, rows, fate>>
    /\ \/ UNCHANGED inFlight
       \/ \E t \in inFlight : BatchFinally(t) /\ t.settled /\ inFlight' = inFlight \ {t}
    /\ counted \subseteq counted' /\ \A r \in counted' \ counted : ack'[r] = "sent"
    /\ CallersTally
    /\ UNCHANGED interval \/ WorkerSettle

Take ==
    /\ delivered \in Rows \ Taken
    /\ Taken' = Taken \cup {delivered}
    /\ Held = {}
    /\ \/ Held' = {delivered} /\ rows' = rows
       \/ Held' = {} /\ rows' = rows \cup {delivered}
    /\ CountAccepted({delivered}) /\ ack'[delivered] = "sent"
    /\ interval' = Plus(interval, Count("accepted", 1))
    /\ UNCHANGED <<inFlight, fate>>

Leave ==
    /\ WorkerSend /\ fatal = "none" /\ rows # {}
    /\ inFlight' = inFlight \cup {NewBatch}
    /\ rows' = Held /\ Held' = {}
    /\ UNCHANGED <<Taken, countVars>>

Fail(S) ==
    /\ fatal # "none" \/ WorkerUnwind
    /\ S \cap Taken \subseteq Held \cup rows
    /\ Taken' = Taken \cup S
    /\ Held \subseteq S /\ Held' = {}
    /\ rows' = rows \ S
    /\ CountLocalFailure(S) /\ \A r \in S : ack'[r] = "sent"
    /\ B!ReleaseAll(S) \/ B!ReleaseAndClose(S)
    /\ UNCHANGED inFlight

SettleRows(t, outcome) ==
    /\ ~t.settled
    /\ IF outcome = "committed" THEN BatchCommits(t)
       ELSE \E availability \in BOOLEAN : BatchFails(t, outcome, availability)
    /\ inFlight' = Settled(t)
    /\ CountOutcome(t.rows, outcome)
    /\ UNCHANGED <<Taken, Held, rows>>

RowMove ==
    \/ Stay \/ Take \/ Leave
    \/ \E S \in SUBSET Rows : Fail(S)
    \/ \E t \in inFlight, outcome \in Outcomes : SettleRows(t, outcome)

LEMMA TakenMoves ==
    ASSUME Base, [Next]_vars
    PROVE  /\ ~WorkerReceived /\ ~WorkerUnwind => Taken' = Taken
           /\ WorkerReceived =>
                /\ Taken' = Taken \cup ({delivered} \cap Rows)
                /\ delivered \in Rows => delivered \notin Taken /\ ack'[delivered] = "sent"
           /\ WorkerUnwind =>
                /\ Taken' = Taken \cup (ToSet(items) \cap Rows)
                /\ \A r \in ToSet(items) : r \notin Taken /\ ack'[r] = "sent"
<1> USE DEF Base, Taken
<1>1. ASSUME ~WorkerReceived, ~WorkerUnwind PROVE QP!Gone' = QP!Gone
  <2>1. \/ \E c \in Commands : QP!Offering(c) \/ QP!Abort(c)
        \/ \E timed \in BOOLEAN : QP!Receive(timed)
        \/ QP!Timeout \/ QP!Close \/ UNCHANGED QP!queueVars
    BY <1>1, QueueMoves
  <2> QED
    BY <2>1, QueueConstants, QP!GoneStays
<1>2. ASSUME WorkerReceived
      PROVE  /\ Taken' = Taken \cup ({delivered} \cap Rows)
             /\ delivered \in Rows => delivered \notin Taken /\ ack'[delivered] = "sent"
  <2>1. /\ QP!Gone' = QP!Gone \cup ({delivered} \cap Commands) /\ ack' = ack
        /\ delivered \in Commands => delivered \in QP!Sent /\ delivered \notin QP!Gone
    BY <1>2, WorkerQueue, QueueConstants, QP!ConsumeEffect
  <2> QED
    BY <2>1, Names DEF QP!Sent
<1>3. ASSUME WorkerUnwind
      PROVE  /\ Taken' = Taken \cup (ToSet(items) \cap Rows)
             /\ \A r \in ToSet(items) : r \notin Taken /\ ack'[r] = "sent"
  <2>1. QP!Gone' = QP!Gone \cup QP!ToSet(items)
    BY <1>3, WorkerQueue, QueueConstants, QP!DrainOrder
  <2>2. \A r \in ToSet(items) : r \notin QP!Gone /\ ack[r] = "sent" /\ r \in Commands
    BY QueueTypes, SameSets DEF QP!Gone, QP!IInv, QP!Place
  <2> QED
    BY <2>1, <2>2, SameSets, AnswersStay
<1> QED
  BY <1>1, <1>2, <1>3

(* Whoever a caller counts has been taken by the queue. *)
LEMMA CallersCount ==
    ASSUME Base, Callers
    PROVE  /\ counted \subseteq counted' /\ \A r \in counted' \ counted : ack'[r] = "sent"
           /\ CallersTally
<1>1. ASSUME NEW r \in Rows, SendReturns(r)
      PROVE  counted' = counted \cup {r} /\ ack'[r] = "sent" /\ CountAccepted({r})
  BY <1>1 DEF SendReturns, CountAccepted, queueVars
<1>2. ASSUME NEW r \in Rows, TrySendAccepted(r)
      PROVE  counted' = counted \cup {r} /\ ack'[r] = "sent" /\ CountAccepted({r})
  <2>1. counted' = counted \cup {r} /\ Q!TrySend(r) /\ CountAccepted({r})
    BY <1>2 DEF TrySendAccepted, CountAccepted
  <2> QED
    BY <2>1, SameQueue, QueueConstants, Names, QP!TrySendSent DEF Base
<1>3. ASSUME NEW r \in Rows,
             SendCall(r) \/ SendAbort(r) \/ SendGranted(r) \/ SendRefused(r) \/ SendBounced(r)
      PROVE  UNCHANGED countVars
  BY <1>3 DEF SendCall, SendAbort, SendGranted, SendRefused, SendBounced
<1>5. ASSUME NEW r \in Rows, TrySendDropped(r)
      PROVE  UNCHANGED <<counted, pendingRowCount>>
               /\ \A f \in Fields \ {"dropped"} : lifetime'[f] = lifetime[f]
  <2>1. /\ UNCHANGED <<counted, pendingRowCount>>
        /\ lifetime' = Plus(lifetime, Count("dropped", 1))
    BY <1>5 DEF TrySendDropped
  <2>2. \A f \in Fields : lifetime[f] \in Nat
    BY CountsApplied DEF Base, Types, CountTypeOK
  <2> QED
    BY <2>1, <2>2, CountsApplied
<1>4. ASSUME (\E f \in Flushes : FlushCall(f) \/ FlushAbort(f)) \/ ShutdownCall
               \/ \E b \in Barriers : ResumeBarrier(b)
      PROVE  UNCHANGED countVars
  BY <1>4 DEF FlushCall, FlushAbort, ShutdownCall, ResumeBarrier, BarrierRefused,
       TaskAwaited
<1>6. UNCHANGED countVars => UNCHANGED counted /\ CallersTally
  BY DEF countVars, CallersTally
<1> QED
  BY <1>1, <1>2, <1>3, <1>4, <1>5, <1>6 DEF Callers, User, Resume, CallersTally

LEMMA HeldPlaces ==
    /\ ~Dispatching => Held = {}
    /\ after # "push" => Held = {}
    /\ ~Dispatching' => Held' = {}
    /\ after' # "push" => Held' = {}
    /\ UNCHANGED <<pc, after, cmd>> => Held' = Held
BY DEF Held, Dispatching

LEMMA AsideMoves ==
    ASSUME Base, [Next]_vars, Aside
    PROVE  Stay \/ \E t \in inFlight, outcome \in Outcomes : SettleRows(t, outcome)
<1>1. UNCHANGED <<Held, rows>>
  BY AsideFrame, HeldPlaces
<1>2. ~WorkerReceived /\ ~WorkerUnwind
  <2>1. pc' = pc
    BY AsideFrame
  <2>2. WorkerUnwind => pc' # pc
    BY DEF WorkerUnwind
  <2>3. WorkerReceived => pc' # pc
    BY DEF WorkerReceived, DisposeDelivered, RowDelivered, Push, BarrierDelivered, NothingDelivered
  <2> QED
    BY <2>1, <2>2, <2>3
<1>3. Taken' = Taken
  BY <1>2, TakenMoves
<1>4. CASE Callers
  <2>1. UNCHANGED <<inFlight, fate>>
    BY <1>4, CallersFrame DEF Callers, User, Resume, ResumeBarrier, SendCall, TrySendAccepted,
         TrySendDropped, SendAbort, FlushCall, FlushAbort, ShutdownCall, SendGranted,
         SendRefused, SendReturns, SendBounced, BarrierRefused, TaskAwaited, countVars
  <2>2. UNCHANGED interval
    BY <1>4, CallersFrame
  <2> QED
    BY <1>1, <1>3, <1>4, <2>1, <2>2, CallersCount DEF Stay
<1>5. ASSUME NEW t \in inFlight, Settle(t)
      PROVE  \E outcome \in Outcomes : SettleRows(t, outcome)
  BY <1>1, <1>3, <1>5 DEF Settle, BatchCommits, BatchFails, SettleRows, Outcomes
<1>6. ASSUME NEW t \in inFlight, BatchFinally(t) PROVE Stay
  BY <1>1, <1>3, <1>6 DEF BatchFinally, countVars, CallersTally, Stay
<1>7. CASE Timers \/ UNCHANGED vars
  BY <1>1, <1>3, <1>7 DEF Timers, DeadlinePasses, ReceiveTimeout, CooldownElapses, vars,
       countVars, CallersTally, Stay
<1> QED
  BY <1>4, <1>5, <1>6, <1>7 DEF Aside, Requests

LEMMA DisposeFails ==
    ASSUME Base, RowsPlaced, [Next]_vars, WorkerReceived, DisposeDelivered,
           delivered \in Rows, fatal # "none"
    PROVE  Fail({delivered})
<1>1. /\ Taken' = Taken \cup ({delivered} \cap Rows)
      /\ delivered \in Rows => delivered \notin Taken /\ ack'[delivered] = "sent"
  BY TakenMoves
<1>2. Held = {} /\ inFlight' = inFlight
  BY HeldPlaces DEF WorkerReceived, Dispatching
<1>3. Held' = {} /\ rows' = rows
  BY HeldPlaces DEF DisposeDelivered, Dispatching, bufferVars
<1>4. delivered \notin rows
  BY <1>1 DEF RowsPlaced, AtWorker
<1> QED
  BY <1>1, <1>2, <1>3, <1>4 DEF DisposeDelivered, Fail

LEMMA ReceivedMoves ==
    ASSUME Base, RowsPlaced, [Next]_vars, WorkerReceived
    PROVE  RowMove
<1>1. /\ Taken' = Taken \cup ({delivered} \cap Rows)
      /\ delivered \in Rows => delivered \notin Taken /\ ack'[delivered] = "sent"
  BY TakenMoves
<1>2. Held = {} /\ inFlight' = inFlight
  BY HeldPlaces DEF WorkerReceived, Dispatching
<1>3. CASE DisposeDelivered /\ delivered \in Rows /\ fatal # "none"
  BY <1>3, DisposeFails DEF RowMove
<1>4. CASE (DisposeDelivered \/ BarrierDelivered(delivered) \/ NothingDelivered)
             /\ delivered \notin Rows
  <2>1. UNCHANGED <<rows, countVars>>
    BY <1>4 DEF DisposeDelivered, BarrierDelivered, NothingDelivered, bufferVars
  <2>2. Held' = {}
    BY <1>4, HeldPlaces DEF DisposeDelivered, BarrierDelivered, NothingDelivered,
         StartDispatch, Dispatching
  <2> QED
    BY <1>1, <1>2, <1>4, <2>1, <2>2 DEF Stay, CallersTally, countVars, RowMove
<1>5. CASE RowDelivered(delivered) /\ delivered \in Rows
  <2>1. /\ CountAccepted({delivered}) /\ fate' = fate
        /\ interval' = Plus(interval, Count("accepted", 1))
    BY <1>5 DEF RowDelivered
  <2>2. \/ Held' = {delivered} /\ rows' = rows
        \/ Held' = {} /\ rows' = rows \cup {delivered}
    BY <1>5, HeldPlaces DEF RowDelivered, StartDispatch, bufferVars, Push, Held, Dispatching
  <2> QED
    BY <1>1, <1>2, <1>5, <2>1, <2>2 DEF Take, RowMove
<1> QED
  BY <1>3, <1>4, <1>5, Names DEF WorkerReceived

LEMMA DispatchFails ==
    ASSUME Base, RowsPlaced, [Next]_vars, WorkerSend, DispatchThrows,
           after = "push", fatal # "none"
    PROVE  cmd \in Rows /\ Fail({cmd})
<1>1. Taken' = Taken
  BY TakenMoves DEF WorkerSend, WorkerReceived, WorkerUnwind
<1>2. Held = {cmd} /\ cmd \in Rows
  BY DEF WorkerSend, Held, Dispatching, Base, Types, WorkerTypeOK
<1>3. cmd \in Taken /\ cmd \notin rows /\ ack[cmd] = "sent"
  BY <1>2 DEF RowsPlaced, AtWorker
<1>4. Held' = {} /\ rows' = rows
  BY HeldPlaces DEF DispatchThrows, Dispatching, bufferVars
<1>5. ack'[cmd] = "sent"
  BY <1>2, <1>3, AnswersStay, Names
<1> QED
  BY <1>1, <1>2, <1>3, <1>4, <1>5 DEF DispatchThrows, Fail

LEMMA SendMoves ==
    ASSUME Base, WorkerPlace, RowsPlaced, [Next]_vars, WorkerSend
    PROVE  RowMove
<1>1. Taken' = Taken
  BY TakenMoves DEF WorkerSend, WorkerReceived, WorkerUnwind
<1>2. Held = IF after = "push" THEN {cmd} ELSE {}
  BY DEF WorkerSend, Held, Dispatching
<1>3. CASE DispatchThrows /\ after = "push" /\ fatal # "none"
  BY <1>3, DispatchFails DEF RowMove
<1>4. CASE DispatchThrows /\ after # "push"
  <2>1. Held' = {} /\ UNCHANGED <<rows, inFlight, countVars>>
    BY <1>4, HeldPlaces DEF DispatchThrows, Dispatching, bufferVars
  <2> QED
    BY <1>1, <1>2, <1>4, <2>1 DEF Stay, CallersTally, countVars, RowMove
<1>5. CASE Dispatch /\ fatal = "none"
  <2>1. rows' = Held /\ Held' = {}
    BY <1>2, <1>5, HeldPlaces DEF Dispatch, Push, EmptyBuffer
  <2>2. inFlight' = inFlight \cup {NewBatch} /\ UNCHANGED countVars
    BY <1>5 DEF Dispatch, NewBatch
  <2>3. rows # {}
    BY DEF WorkerPlace, WorkerSend, Dispatching
  <2> QED
    BY <1>1, <1>5, <2>1, <2>2, <2>3 DEF Leave, RowMove
<1> QED
  BY <1>3, <1>4, <1>5 DEF WorkerSend, DispatchForbidden

LEMMA UnwindMoves ==
    ASSUME Base, RowsPlaced, [Next]_vars, WorkerUnwind
    PROVE  Lost \in SUBSET Rows /\ Fail(Lost)
<1>1. /\ Taken' = Taken \cup (ToSet(items) \cap Rows)
      /\ \A r \in ToSet(items) : r \notin Taken /\ ack'[r] = "sent"
  BY TakenMoves
<1>2. Held = {} /\ Held' = {}
  BY HeldPlaces DEF WorkerUnwind, Dispatching
<1>3. rows \subseteq Rows /\ Lost \in SUBSET Rows
  BY DEF Base, Types, WorkerTypeOK, Lost
<1>4. rows \subseteq Taken
  BY DEF RowsPlaced, AtWorker
<1>5. \A r \in rows : ack'[r] = "sent"
  BY <1>3, <1>4, AnswersStay, Names DEF RowsPlaced
<1>6. /\ rows' = {} /\ CountLocalFailure(Lost) /\ UNCHANGED inFlight
      /\ B!ReleaseAndClose(Lost)
  BY DEF WorkerUnwind, EmptyBuffer
<1>7. Fail(Lost)
  BY <1>1, <1>2, <1>4, <1>5, <1>6 DEF Fail, Lost
<1> QED
  BY <1>3, <1>7

LEMMA RowMoves ==
    ASSUME Base, WorkerPlace, RowsPlaced, [Next]_vars
    PROVE  RowMove
<1>1. CASE Aside
  BY <1>1, AsideMoves DEF RowMove
<1>2. CASE WorkerTop \/ WorkerCapacity \/ PassCircuit \/ StartProbe \/ WorkerSettle
  <2>1. Taken' = Taken
    BY <1>2, TakenMoves DEF WorkerTop, WorkerCapacity, PassCircuit, StartProbe, WorkerSettle,
         WorkerReceived, WorkerUnwind
  <2>2. Held' = Held
    BY <1>2, HeldPlaces DEF WorkerTop, StartDispatch, WorkerCapacity, PassCircuit, StartProbe,
         WorkerSettle, Held, Dispatching
  <2>3. /\ UNCHANGED <<rows, fate, counted, inFlight, lifetime, pendingRowCount>>
        /\ UNCHANGED interval \/ WorkerSettle
    BY <1>2 DEF WorkerTop, WorkerCapacity, PassCircuit, StartProbe, WorkerSettle, bufferVars,
         countVars
  <2> QED
    BY <2>1, <2>2, <2>3 DEF Stay, CallersTally, RowMove
<1> QED
  BY <1>1, <1>2, ReceivedMoves, SendMoves, UnwindMoves DEF Next, Aside, Callers, Worker, RowMove

(* What the requests in flight hold, after each change of them. *)
LEMMA BatchesApart ==
    ASSUME Base, RowsPlaced
    PROVE  /\ \A t \in inFlight : t.rows \subseteq Rows
           /\ \A t \in inFlight : ~t.settled => t.rows \subseteq OpenRows
           /\ NewBatch.rows = rows /\ ~NewBatch.settled
BY DEF Base, Types, WorkerTypeOK, Batches, OpenRows, NewBatch

LEMMA OpenRowsMove ==
    ASSUME Base, RowsPlaced
    PROVE  /\ UNCHANGED inFlight => OpenRows' = OpenRows
           /\ \A t \in inFlight : t.settled /\ inFlight' = inFlight \ {t} => OpenRows' = OpenRows
           /\ inFlight' = inFlight \cup {NewBatch} => OpenRows' = OpenRows \cup rows
           /\ \A t \in inFlight : ~t.settled /\ inFlight' = Settled(t)
                => /\ OpenRows' = OpenRows \ t.rows
                   /\ [t EXCEPT !.settled = TRUE].rows = t.rows
                   /\ [t EXCEPT !.settled = TRUE].settled
<1> USE DEF OpenRows
<1>1. UNCHANGED inFlight => OpenRows' = OpenRows
  OBVIOUS
<1>2. ASSUME NEW t \in inFlight, t.settled, inFlight' = inFlight \ {t} PROVE OpenRows' = OpenRows
  BY <1>2
<1>3. ASSUME inFlight' = inFlight \cup {NewBatch} PROVE OpenRows' = OpenRows \cup rows
  <2>1. rows \subseteq Rows
    BY DEF Base, Types, WorkerTypeOK
  <2>2. NewBatch.rows = rows /\ ~NewBatch.settled
    BY BatchesApart
  <2> HIDE DEF NewBatch
  <2> QED
    BY <1>3, <2>1, <2>2
<1>4. ASSUME NEW t \in inFlight, ~t.settled, inFlight' = Settled(t)
      PROVE  /\ OpenRows' = OpenRows \ t.rows
             /\ [t EXCEPT !.settled = TRUE].rows = t.rows
             /\ [t EXCEPT !.settled = TRUE].settled
  <2> DEFINE s == [t EXCEPT !.settled = TRUE]
  <2>1. s.rows = t.rows /\ s.settled
    BY DEF Base, Types, WorkerTypeOK, Batches
  <2>2. inFlight' = (inFlight \ {t}) \cup {s}
    BY <1>4 DEF Settled
  <2> HIDE DEF s
  <2>3. OpenRows' = {r \in Rows : \E u \in inFlight \ {t} : ~u.settled /\ r \in u.rows}
    BY <2>1, <2>2
  <2>4. \A u \in inFlight \ {t} : t.rows \cap u.rows = {}
    BY DEF RowsPlaced
  <2>5. OpenRows' = OpenRows \ t.rows
    BY <1>4, <2>3, <2>4
  <2> QED
    BY <2>1, <2>5 DEF s
<1> QED
  BY <1>1, <1>2, <1>3, <1>4

LEMMA CountsFate ==
    ASSUME fate \in [Rows -> Outcomes \cup {"none"}], NEW S \in SUBSET Rows
    PROVE  /\ \A o \in Outcomes : CountOutcome(S, o) =>
                /\ Fated' = Fated \cup S /\ counted' = counted
                /\ \A r \in Rows : fate'[r] = IF r \in S THEN o ELSE fate[r]
           /\ CountLocalFailure(S) =>
                /\ Fated' = Fated \cup S /\ counted' = counted \cup S
                /\ \A r \in Rows : fate'[r] = IF r \in S THEN "failed" ELSE fate[r]
           /\ UNCHANGED fate => Fated' = Fated
BY DEF CountOutcome, CountLocalFailure, Fated, Outcomes

LEMMA RowsPlacedKept ==
    ASSUME Base, WorkerPlace, RowsPlaced, [Next]_vars
    PROVE  RowsPlaced'
<1>1. fate \in [Rows -> Outcomes \cup {"none"}] /\ rows \subseteq Rows /\ counted \subseteq Rows
  BY DEF Base, Types, WorkerTypeOK, CountTypeOK
<1>2. Held \subseteq Rows
  BY DEF Held, Base, Types, WorkerTypeOK
<1>3. \A t \in inFlight : t.rows \subseteq Rows
  BY BatchesApart
<1>4. \A r \in counted : ack'[r] = "sent"
  BY <1>1, AnswersStay, Names DEF RowsPlaced
<1>5. CASE Stay
  <2>1. OpenRows' = OpenRows /\ Fated' = Fated
    BY <1>1, <1>5, OpenRowsMove, CountsFate DEF Stay
  <2>2. inFlight' \subseteq inFlight
    BY <1>5 DEF Stay
  <2> QED
    BY <1>4, <1>5, <2>1, <2>2 DEF Stay, RowsPlaced, AtWorker
<1>6. CASE Take
  <2>1. OpenRows' = OpenRows /\ Fated' = Fated
    BY <1>1, <1>6, OpenRowsMove, CountsFate DEF Take
  <2>2. counted' = counted \cup {delivered} /\ inFlight' = inFlight
    BY <1>6 DEF Take, CountAccepted
  <2> QED
    BY <1>4, <1>6, <2>1, <2>2 DEF Take, RowsPlaced, AtWorker
<1>7. CASE Leave
  <2>1. OpenRows' = OpenRows \cup rows /\ Fated' = Fated
    BY <1>1, <1>7, OpenRowsMove, CountsFate DEF Leave, countVars
  <2>2. NewBatch.rows = rows /\ ~NewBatch.settled
    BY BatchesApart
  <2>3. \A t \in inFlight : t.rows \cap rows = {}
    BY BatchesApart DEF RowsPlaced, AtWorker
  <2> HIDE DEF NewBatch
  <2> QED
    BY <1>4, <1>7, <2>1, <2>2, <2>3 DEF Leave, RowsPlaced, AtWorker, countVars
<1>8. ASSUME NEW S \in SUBSET Rows, Fail(S) PROVE RowsPlaced'
  <2>1. Fated' = Fated \cup S /\ counted' = counted \cup S /\ inFlight' = inFlight
    BY <1>1, <1>8, CountsFate DEF Fail
  <2>2. OpenRows' = OpenRows
    BY <2>1, OpenRowsMove
  <2>3. S \cap OpenRows = {}
    BY <1>8 DEF Fail, RowsPlaced, AtWorker
  <2> QED
    BY <1>4, <1>8, <2>1, <2>2, <2>3 DEF Fail, RowsPlaced, AtWorker
<1>9. ASSUME NEW t \in inFlight, NEW o \in Outcomes, SettleRows(t, o) PROVE RowsPlaced'
  <2> DEFINE s == [t EXCEPT !.settled = TRUE]
  <2>1. Fated' = Fated \cup t.rows /\ counted' = counted
    BY <1>1, <1>3, <1>9, CountsFate DEF SettleRows
  <2>2. OpenRows' = OpenRows \ t.rows /\ s.rows = t.rows /\ s.settled
    BY <1>9, OpenRowsMove DEF SettleRows
  <2>3. inFlight' = (inFlight \ {t}) \cup {s}
    BY <1>9 DEF SettleRows, Settled
  <2>4. t.rows \subseteq OpenRows
    BY <1>9, BatchesApart DEF SettleRows
  <2> HIDE DEF s
  <2>5. \A u, v \in inFlight' : u # v => u.rows \cap v.rows = {}
    BY <2>2, <2>3 DEF RowsPlaced
  <2>6. \A u \in inFlight' : u.settled => u.rows \subseteq Fated'
    BY <2>1, <2>2, <2>3 DEF RowsPlaced
  <2> QED
    BY <1>4, <1>9, <2>1, <2>2, <2>4, <2>5, <2>6 DEF SettleRows, RowsPlaced, AtWorker
<1> QED
  BY <1>5, <1>6, <1>7, <1>8, <1>9, RowMoves DEF RowMove

LEMMA RowsPlacedAlways == Spec => [](Base /\ WorkerPlace /\ RowsPlaced)
<1>1. Init => RowsPlaced
  <2> SUFFICES ASSUME Init PROVE RowsPlaced
    OBVIOUS
  <2>1. \A c \in Commands : ack[c] = "none"
    BY DEF Init, Q!Init
  <2>2. Taken = {} /\ Fated = {}
    BY <2>1, Names DEF Init, Taken, QP!Gone, Fated
  <2> QED
    BY <2>2 DEF Init, RowsPlaced, AtWorker, Held, Dispatching, OpenRows
<1> QED
  BY <1>1, BaseAlways, WorkerPlaceAlways, RowsPlacedKept, PTL DEF Spec

-----------------------------------------------------------------------------
(* How far the calls are, and what the queue answered them. *)
Answered(c) == ack'[c] = ack[c] \/ (ack[c] = "waiting" /\ ack'[c] \in {"sent", "refused"})

LEMMA QueueAnswers ==
    ASSUME Base, NEW c \in Commands,
           \/ \E d \in Commands : QP!Offering(d) /\ d # c
           \/ \E d \in Commands : QP!Abort(d)
           \/ \E timed \in BOOLEAN : QP!Receive(timed)
           \/ QP!Consume \/ QP!Timeout \/ QP!Close \/ QP!CloseAndDrain
           \/ UNCHANGED queueVars
    PROVE  Answered(c)
<1> USE DEF Base, Answered
<1>1. ASSUME NEW d \in Commands, QP!Offering(d), d # c PROVE ack'[c] = ack[c]
  BY <1>1, QueueConstants, QP!OfferEffect DEF QP!Offering
<1>2. ASSUME NEW d \in Commands, QP!Abort(d) PROVE Answered(c)
  <2>1. ack[d] = "waiting" /\ ack' = [ack EXCEPT ![d] = "refused"]
    BY <1>2, QueueConstants, QP!AbortEffect
  <2>2. ack \in [Commands -> {"none", "waiting", "sent", "refused"}]
    BY DEF QP!IInv, QP!Shape, QP!TypeOK
  <2> QED
    BY <2>1, <2>2
<1>3. ASSUME NEW timed \in BOOLEAN, QP!Receive(timed) PROVE Answered(c)
  BY <1>3, QueueConstants, QP!ReceiveEffect
<1>4. QP!Consume => ack'[c] = ack[c]
  BY QueueConstants, QP!ConsumeEffect
<1>5. QP!Timeout => ack'[c] = ack[c]
  BY QueueConstants, QP!TimeoutEffect
<1>6. QP!Close \/ QP!CloseAndDrain => Answered(c)
  BY QueueConstants, QP!CloseAnswers
<1>7. UNCHANGED queueVars => ack'[c] = ack[c]
  BY DEF queueVars
<1> QED
  BY <1>1, <1>2, <1>3, <1>4, <1>5, <1>6, <1>7

CallMove(r) ==
    \/ call'[r] = call[r] /\ Answered(r)
    \/ SendCall(r) /\ call'[r] \in {"acquiring", "threw"} /\ ack' = ack
    \/ SendGranted(r) /\ StillOpen /\ call'[r] = "queueing" /\ QP!Offering(r)
    \/ SendGranted(r) /\ call'[r] = "threw" /\ ack' = ack
    \/ SendRefused(r) /\ call'[r] = "threw" /\ ack' = ack
    \/ SendReturns(r) /\ call'[r] \in {"ok", "threw"} /\ ack' = ack
    \/ SendBounced(r) /\ call'[r] = "threw" /\ ack' = ack
    \/ TrySendAccepted(r) /\ call'[r] = "accepted" /\ QP!Offering(r) /\ ack'[r] = "sent"
    \/ TrySendDropped(r) /\ call'[r] = "dropped" /\ ack' = ack

LEMMA CallMoves ==
    ASSUME Base, [Next]_vars, NEW r \in Rows
    PROVE  CallMove(r)
<1> USE Names
<1>1. call \in [Rows -> {"new", "acquiring", "queueing", "ok", "threw", "accepted", "dropped"}]
  BY DEF Base, Types, CallerTypeOK
<1>2. ASSUME NEW d \in Rows, NEW where, SetCall(d, where)
      PROVE  call'[r] = IF r = d THEN where ELSE call[r]
  BY <1>1, <1>2 DEF SetCall
<1>3. ASSUME NEW d \in Commands, QP!Offering(d), d # r PROVE Answered(r)
  BY <1>3, QueueAnswers
<1>4. ASSUME UNCHANGED queueVars PROVE Answered(r) /\ ack' = ack
  BY <1>4, QueueAnswers DEF queueVars
<1>5. ASSUME NEW d \in Rows, TrySendAccepted(d) PROVE CallMove(r)
  <2>1. QP!Offering(d) /\ ack'[d] = "sent"
    <3>1. Q!New(d) /\ Q!TrySend(d)
      BY <1>5 DEF TrySendAccepted, Base, Untouched, Q!New
    <3>2. QP!New(d) /\ QP!TrySend(d)
      BY <3>1, SameQueue
    <3> QED
      BY <3>2, QueueConstants, QP!TrySendSent DEF QP!Offering, Base
  <2>2. SetCall(d, "accepted")
    BY <1>5 DEF TrySendAccepted
  <2>3. CASE r = d
    BY <1>2, <1>5, <2>1, <2>2, <2>3 DEF CallMove
  <2>4. CASE r # d
    BY <1>2, <1>3, <2>1, <2>2, <2>4 DEF CallMove
  <2> QED
    BY <2>3, <2>4
<1>6. ASSUME NEW d \in Rows, SendGranted(d) PROVE CallMove(r)
  <2>1. CASE StillOpen /\ SetCall(d, "queueing") /\ Q!Send(d)
    <3>1. Q!New(d) /\ Q!Send(d) /\ SetCall(d, "queueing")
      BY <1>6, <2>1 DEF SendGranted, Base, Untouched, Q!New
    <3>2. QP!Offering(d)
      BY <3>1, SameQueue DEF QP!Offering
    <3>3. CASE r = d
      BY <1>2, <1>6, <2>1, <3>1, <3>2, <3>3 DEF CallMove
    <3>4. CASE r # d
      BY <1>2, <1>3, <3>1, <3>2, <3>4 DEF CallMove
    <3> QED
      BY <3>3, <3>4
  <2>2. CASE SetCall(d, "threw") /\ UNCHANGED queueVars
    BY <1>2, <1>4, <1>6, <2>2 DEF CallMove
  <2> QED
    BY <1>6, <2>1, <2>2 DEF SendGranted
<1>7. ASSUME NEW d \in Rows, SendCall(d) PROVE CallMove(r)
  <2>1. UNCHANGED queueVars /\ (SetCall(d, "threw") \/ SetCall(d, "acquiring"))
    BY <1>7 DEF SendCall
  <2> QED
    BY <1>2, <1>4, <1>7, <2>1 DEF CallMove
<1>8. ASSUME NEW d \in Rows, SendRefused(d) \/ SendBounced(d) PROVE CallMove(r)
  <2>1. UNCHANGED queueVars /\ SetCall(d, "threw")
    BY <1>8 DEF SendRefused, SendBounced
  <2> QED
    BY <1>2, <1>4, <1>8, <2>1 DEF CallMove
<1>9. ASSUME NEW d \in Rows, SendReturns(d) PROVE CallMove(r)
  <2>1. UNCHANGED queueVars /\ (SetCall(d, "threw") \/ SetCall(d, "ok"))
    BY <1>9 DEF SendReturns
  <2> QED
    BY <1>2, <1>4, <1>9, <2>1 DEF CallMove
<1>10. ASSUME NEW d \in Rows, TrySendDropped(d) PROVE CallMove(r)
  <2>1. UNCHANGED queueVars /\ SetCall(d, "dropped")
    BY <1>10 DEF TrySendDropped
  <2> QED
    BY <1>2, <1>4, <1>10, <2>1 DEF CallMove
<1>11. ASSUME NEW d \in Rows, SendAbort(d) PROVE CallMove(r)
  <2>1. UNCHANGED call /\ (UNCHANGED queueVars \/ QP!Abort(d))
    BY <1>11, SameQueue DEF SendAbort, callerVars
  <2> QED
    BY <2>1, QueueAnswers DEF CallMove
<1>12. ASSUME NEW b \in Barriers, barrier[b].pc = "new", EnterBarrier(b) PROVE Answered(r)
  <2>1. Q!New(b) /\ Q!Send(b)
    BY <1>12 DEF EnterBarrier, Base, Untouched, Q!New
  <2>2. QP!Offering(b) /\ b # r
    BY <2>1, SameQueue DEF QP!Offering
  <2> QED
    BY <1>3, <2>2
<1>13. ASSUME (\E f \in Flushes : FlushCall(f) \/ FlushAbort(f)) \/ ShutdownCall
                \/ \E b \in Barriers : ResumeBarrier(b)
       PROVE  CallMove(r)
  <2>1. UNCHANGED call
    BY <1>13 DEF FlushCall, FlushAbort, ShutdownCall, ResumeBarrier, BarrierRefused, TaskAwaited
  <2>2. \/ \E b \in Barriers : barrier[b].pc = "new" /\ EnterBarrier(b)
        \/ \E f \in Flushes : Q!Abort(f)
        \/ UNCHANGED queueVars
    BY <1>13 DEF FlushCall, FlushAbort, ShutdownCall, ShutdownUnstarted, ResumeBarrier,
         BarrierRefused, TaskAwaited
  <2>3. (\E f \in Flushes : Q!Abort(f)) => Answered(r)
    BY SameQueue, QueueAnswers
  <2> QED
    BY <1>4, <1>12, <2>1, <2>2, <2>3 DEF CallMove
<1>14. CASE ~Callers
  <2>1. UNCHANGED call
    BY <1>14 DEF Next, Callers, Worker, WorkerTop, WorkerReceived, WorkerCapacity, PassCircuit,
         StartProbe, WorkerSend, WorkerSettle, WorkerUnwind, Requests, Settle, BatchCommits,
         BatchFails, BatchFinally, Timers, DeadlinePasses, ReceiveTimeout, CooldownElapses,
         callerVars, vars
  <2>2. UNCHANGED QP!queueVars => UNCHANGED queueVars
    BY DEF QP!queueVars, queueVars
  <2>3. Answered(r)
    BY <1>14, <2>2, QueueMoves, QueueAnswers
  <2> QED
    BY <2>1, <2>3 DEF CallMove
<1> QED
  BY <1>5, <1>6, <1>7, <1>8, <1>9, <1>10, <1>11, <1>13, <1>14 DEF Callers, User, Resume

(* A call waits for the queue exactly while its row is parked or its answer *)
(* not yet seen, and an accepted row has been counted.                      *)
CallsPlaced ==
    \A r \in Rows :
        /\ call[r] = "queueing" => ack[r] # "none"
        /\ call[r] \in {"ok", "accepted"} => r \in counted
        /\ ack[r] = "waiting" => call[r] = "queueing"
        /\ call[r] = "dropped" => ack[r] = "none"

LEMMA CountedStays ==
    ASSUME Base, WorkerPlace, RowsPlaced, [Next]_vars
    PROVE  counted \subseteq counted'
<1>1. RowMove
  BY RowMoves
<1> QED
  BY <1>1 DEF RowMove, Stay, Take, Leave, Fail, SettleRows, CountAccepted, CountLocalFailure,
       CountOutcome, countVars

LEMMA CallsPlacedKept ==
    ASSUME Base, WorkerPlace, RowsPlaced, CallsPlaced, [Next]_vars
    PROVE  CallsPlaced'
<1> SUFFICES ASSUME NEW r \in Rows
             PROVE  /\ call'[r] = "queueing" => ack'[r] # "none"
                    /\ call'[r] \in {"ok", "accepted"} => r \in counted'
                    /\ ack'[r] = "waiting" => call'[r] = "queueing"
                    /\ call'[r] = "dropped" => ack'[r] = "none"
  BY DEF CallsPlaced
<1> USE DEF CallsPlaced
<1>1. CASE call'[r] = call[r] /\ Answered(r)
  BY <1>1, CountedStays DEF Answered
<1>2. CASE SendGranted(r) /\ StillOpen /\ call'[r] = "queueing" /\ QP!Offering(r)
  BY <1>2, QueueConstants, Names, QP!OfferEffect DEF QP!Offering, Base
<1>3. CASE SendReturns(r) /\ call'[r] \in {"ok", "threw"} /\ ack' = ack
  BY <1>3 DEF SendReturns, CountAccepted
<1>4. CASE TrySendAccepted(r) /\ call'[r] = "accepted" /\ ack'[r] = "sent"
  BY <1>4 DEF TrySendAccepted, CountAccepted
<1>5. CASE SendCall(r) /\ call'[r] \in {"acquiring", "threw"} /\ ack' = ack
  BY <1>5 DEF SendCall, Base, Untouched
<1>6. CASE (SendGranted(r) \/ SendRefused(r)) /\ call'[r] = "threw" /\ ack' = ack
  BY <1>6 DEF SendGranted, SendRefused, Base, Untouched
<1>7. CASE SendBounced(r) /\ call'[r] = "threw" /\ ack' = ack
  BY <1>7 DEF SendBounced
<1>8. CASE TrySendDropped(r) /\ call'[r] = "dropped" /\ ack' = ack
  BY <1>8 DEF TrySendDropped, Base, Untouched
<1> QED
  BY <1>1, <1>2, <1>3, <1>4, <1>5, <1>6, <1>7, <1>8, CallMoves DEF CallMove

(* The layers so far. *)
Placed == Base /\ WorkerPlace /\ LastInvited /\ RowsPlaced /\ CallsPlaced

LEMMA PlacedKept ==
    ASSUME Placed, [Next]_vars
    PROVE  Placed'
BY BaseKept, WorkerPlaceKept, LastInvitedKept, RowsPlacedKept, CallsPlacedKept DEF Placed

LEMMA PlacedAlways == Spec => []Placed
<1>1. Init => CallsPlaced
  BY DEF Init, Q!Init, CallsPlaced, Commands
<1>2. Init => Base /\ LastInvited
  BY BaseInit, LastInvitedInit
<1>3. Spec => [](Base /\ LastInvited)
  BY <1>2, BaseKept, LastInvitedKept, PTL DEF Spec
<1>4. Base /\ WorkerPlace /\ RowsPlaced /\ CallsPlaced /\ [Next]_vars => CallsPlaced'
  BY CallsPlacedKept
<1> QED
  BY <1>1, <1>3, <1>4, RowsPlacedAlways, PTL DEF Spec, Placed

(* A row has one outcome for good, and says why. *)
LEMMA FateMoves ==
    ASSUME Placed, [Next]_vars, NEW r \in Rows
    PROVE  \/ fate'[r] = fate[r]
           \/ /\ fate[r] = "none"
              /\ \/ fate'[r] = "committed"
                 \/ fate'[r] = "failed" /\ fatal # "none"
                 \/ fate'[r] = "failed" /\ WorkerUnwind /\ r \in Lost
                 \/ /\ fate'[r] \in {"failed", "ambiguous"}
                    /\ \E t \in inFlight, availability \in BOOLEAN :
                          r \in t.rows /\ BatchFails(t, fate'[r], availability)
<1> USE DEF Placed
<1>1. fate \in [Rows -> Outcomes \cup {"none"}]
  BY DEF Base, Types, CountTypeOK
<1>2. CASE Stay \/ Take \/ Leave
  BY <1>2 DEF Stay, Take, Leave, countVars
<1>3. ASSUME NEW S \in SUBSET Rows, Fail(S), r \in S
      PROVE  fate[r] = "none" /\ fate'[r] = "failed"
  <2>1. r \notin Fated
    BY <1>3 DEF Fail, RowsPlaced, AtWorker
  <2> QED
    BY <1>1, <1>3, <2>1, CountsFate DEF Fail, Fated
<1>4. ASSUME NEW S \in SUBSET Rows, Fail(S), r \notin S PROVE fate'[r] = fate[r]
  BY <1>1, <1>4, CountsFate DEF Fail
<1>5. ASSUME NEW t \in inFlight, NEW o \in Outcomes, SettleRows(t, o)
      PROVE  IF r \in t.rows THEN fate[r] = "none" /\ fate'[r] = o ELSE fate'[r] = fate[r]
  <2>1. t.rows \subseteq OpenRows /\ t.rows \in SUBSET Rows
    BY <1>5, BatchesApart DEF SettleRows
  <2>2. \A q \in t.rows : q \notin Fated
    BY <2>1 DEF RowsPlaced, AtWorker
  <2> QED
    BY <1>1, <1>5, <2>1, <2>2, CountsFate DEF SettleRows, Fated
<1>6. CASE WorkerUnwind
  <2>1. Lost \in SUBSET Rows /\ Fail(Lost)
    BY <1>6, UnwindMoves
  <2> QED
    BY <1>3, <1>4, <1>6, <2>1
<1>7. CASE ~WorkerUnwind
  <2>1. ASSUME NEW t \in inFlight, NEW o \in Outcomes, SettleRows(t, o), r \in t.rows
        PROVE  \/ fate[r] = "none" /\ fate'[r] = "committed"
               \/ /\ fate[r] = "none" /\ fate'[r] \in {"failed", "ambiguous"}
                  /\ \E availability \in BOOLEAN : BatchFails(t, fate'[r], availability)
    BY <1>5, <2>1 DEF SettleRows, Outcomes
  <2>2. \A S \in SUBSET Rows : Fail(S) => fatal # "none"
    BY <1>7 DEF Fail
  <2> QED
    BY <1>2, <1>3, <1>4, <1>5, <2>1, <2>2, RowMoves DEF RowMove
<1> QED
  BY <1>6, <1>7

(* A row never loses its outcome, and those that fail have one. *)
LEMMA FatedStays ==
    ASSUME Placed, [Next]_vars
    PROVE  /\ Fated \subseteq Fated'
           /\ \A S \in SUBSET Rows : Fail(S) => S \subseteq Fated'
<1>1. \A r \in Rows : fate[r] # "none" => fate'[r] = fate[r]
  BY FateMoves
<1>2. \A S \in SUBSET Rows : Fail(S) => S \subseteq Fated'
  BY CountsFate DEF Fail, Placed, Base, Types, CountTypeOK
<1> QED
  BY <1>1, <1>2 DEF Fated

(* Which call of the budget a step makes. *)
BudgetMove ==
    \/ \E r \in Rows : SendCall(r) /\ call'[r] = "acquiring" /\ BP!Acquire(r)
    \/ \E r \in Rows : TrySendAccepted(r) /\ BP!TryAcquire(r)
    \/ \E r \in Rows : SendAbort(r) /\ BP!Abort(r) /\ UNCHANGED call
    \/ \E r \in Rows : /\ BP!ReleaseAll({r}) /\ UNCHANGED inFlight
                       /\ SendGranted(r) \/ SendBounced(r)
    \/ \E S \in SUBSET Rows : BP!ReleaseAll(S) /\ Fail(S) /\ UNCHANGED call
    \/ \E t \in inFlight : BP!ReleaseAll(t.rows) /\ BatchFinally(t)
    \/ WorkerUnwind /\ BP!ReleaseAndClose(Lost)
    \/ BP!Close /\ fatal' # "none" /\ UNCHANGED call
    \/ UNCHANGED BP!budgetVars

LEMMA BudgetMoves ==
    ASSUME Placed, [Next]_vars
    PROVE  BudgetMove
<1>1. UNCHANGED budgetVars => UNCHANGED BP!budgetVars
  BY DEF budgetVars, BP!budgetVars
<1>2. ASSUME NEW r \in Rows, SendCall(r) PROVE BudgetMove
  <2>1. CASE SetCall(r, "acquiring") /\ B!Acquire(r)
    <3>1. call'[r] = "acquiring"
      BY <2>1 DEF SetCall, Placed, Base, Types, CallerTypeOK
    <3>2. BP!Acquire(r)
      BY <2>1, SameBudget
    <3> QED
      BY <1>2, <3>1, <3>2 DEF BudgetMove
  <2> QED
    BY <1>1, <1>2, <2>1 DEF SendCall, BudgetMove
<1>3. ASSUME NEW r \in Rows, TrySendAccepted(r) PROVE BudgetMove
  <2>1. BP!TryAcquire(r)
    BY <1>3, SameBudget DEF TrySendAccepted
  <2> QED
    BY <1>3, <2>1 DEF BudgetMove
<1>4. ASSUME NEW r \in Rows, SendAbort(r) PROVE BudgetMove
  <2>1. UNCHANGED call /\ (BP!Abort(r) \/ UNCHANGED BP!budgetVars)
    BY <1>1, <1>4, SameBudget DEF SendAbort, callerVars
  <2> QED
    BY <1>4, <2>1 DEF BudgetMove
<1>5. ASSUME NEW r \in Rows, SendGranted(r) \/ SendBounced(r) PROVE BudgetMove
  <2>1. UNCHANGED inFlight
    BY <1>5 DEF SendGranted, SendBounced
  <2>2. \/ UNCHANGED BP!budgetVars
        \/ BP!ReleaseAll({r})
    BY <1>1, <1>5, SameBudget DEF SendGranted, SendBounced, GiveBack
  <2> QED
    BY <1>5, <2>1, <2>2 DEF BudgetMove
<1>6. ASSUME NEW r \in Rows, TrySendDropped(r) \/ SendRefused(r) \/ SendReturns(r)
      PROVE  BudgetMove
  BY <1>1, <1>6 DEF TrySendDropped, SendRefused, SendReturns, BudgetMove
<1>7. ASSUME (\E f \in Flushes : FlushCall(f) \/ FlushAbort(f)) \/ ShutdownCall
                \/ \E b \in Barriers : ResumeBarrier(b)
      PROVE  BudgetMove
  BY <1>1, <1>7 DEF FlushCall, FlushAbort, ShutdownCall, ResumeBarrier, BarrierRefused,
       TaskAwaited, BudgetMove
<1>8. ASSUME NEW r \in Rows, Fail({r}), B!ReleaseAll({r}), UNCHANGED call
      PROVE  BudgetMove
  <2>1. {r} \in SUBSET Rows
    OBVIOUS
  <2>2. BP!ReleaseAll({r})
    BY <1>8, SameBudget
  <2> QED
    BY <1>8, <2>1, <2>2 DEF BudgetMove
<1>9. CASE WorkerReceived
  <2>1. CASE DisposeDelivered /\ delivered \in Rows /\ fatal # "none"
    <3>1. Fail({delivered})
      BY <1>9, <2>1, DisposeFails DEF Placed
    <3> QED
      BY <1>8, <1>9, <2>1, <3>1 DEF WorkerReceived, DisposeDelivered
  <2>2. CASE UNCHANGED budgetVars
    BY <1>1, <2>2 DEF BudgetMove
  <2> QED
    BY <1>9, <2>1, <2>2 DEF WorkerReceived, DisposeDelivered, RowDelivered, BarrierDelivered,
         NothingDelivered
<1>10. CASE WorkerSend
  <2>1. CASE DispatchThrows /\ after = "push" /\ fatal # "none"
    <3>1. cmd \in Rows /\ Fail({cmd})
      BY <1>10, <2>1, DispatchFails DEF Placed
    <3>2. B!ReleaseAll({cmd}) /\ UNCHANGED call
      BY <1>10, <2>1 DEF WorkerSend, DispatchThrows
    <3> QED
      BY <1>8, <3>1, <3>2
  <2>2. CASE UNCHANGED budgetVars
    BY <1>1, <2>2 DEF BudgetMove
  <2> QED
    BY <1>10, <2>1, <2>2 DEF WorkerSend, DispatchForbidden, DispatchThrows, Dispatch
<1>11. CASE WorkerUnwind
  BY <1>11, SameBudget DEF WorkerUnwind, BudgetMove
<1>12. CASE WorkerTop \/ WorkerCapacity \/ PassCircuit \/ StartProbe \/ WorkerSettle \/ Timers
              \/ UNCHANGED vars
  <2>1. UNCHANGED budgetVars
    BY <1>12 DEF WorkerTop, WorkerCapacity, PassCircuit, StartProbe, WorkerSettle,
         Timers, DeadlinePasses, ReceiveTimeout, CooldownElapses, vars
  <2> QED
    BY <1>1, <2>1 DEF BudgetMove
<1>13. ASSUME NEW t \in inFlight, BatchFinally(t) PROVE BudgetMove
  BY <1>13, SameBudget DEF BatchFinally, BudgetMove
<1>14. ASSUME NEW t \in inFlight, Settle(t) PROVE BudgetMove
  <2>1. UNCHANGED call
    BY <1>14 DEF Settle, BatchCommits, BatchFails, callerVars
  <2>2. UNCHANGED budgetVars \/ (B!Close /\ fatal' # "none")
    BY <1>14 DEF Settle, BatchCommits, BatchFails, SetFatal
  <2> QED
    BY <1>1, <2>1, <2>2, SameBudget DEF BudgetMove
<1> QED
  BY <1>2, <1>3, <1>4, <1>5, <1>6, <1>7, <1>9, <1>10, <1>11, <1>12, <1>13, <1>14
     DEF Next, User, Resume, Worker, Requests

-----------------------------------------------------------------------------
(* How the stream ends: it fails, or it completes the shutdown command.    *)
(* Nothing closes otherwise, and the worker unwinds for no other reason.   *)
ShutdownResolved == barrier[Shutdown].pc \in {"resolved", "ok"}

Ending ==
    /\ fatal # "none" => queueClosed /\ budgetClosed /\ ~accepting
    /\ queueClosed \/ budgetClosed => fatal # "none" \/ workerDone
    /\ pc \in {"unwind", "done"} => fatal # "none" \/ ShutdownResolved
    /\ ShutdownResolved =>
         /\ fatal = "none" /\ pc \in {"unwind", "done"}
         /\ rows = {} /\ inFlight = {} /\ QP!Pending = <<>>
    /\ \A b \in Barriers : barrier[b].pc \in {"task", "failed"} => fatal # "none"
    /\ \A b \in Barriers : barrier[b].pc = "failed" => workerDone
    /\ ack[Shutdown] = "refused" => queueClosed

(* An error stops the stream, if the policy says so. *)
LEMMA ErrorStops ==
    ASSUME Base, NEW t, NEW o \in {"failed", "ambiguous"}, NEW availability,
           BatchFails(t, o, availability)
    PROVE  IF FailurePolicy = "stop"
           THEN /\ fatal' = IF fatal = "none" \/ o = "ambiguous" THEN o ELSE fatal
                /\ fatal = "none" => ~accepting' /\ queueClosed' /\ budgetClosed'
           ELSE UNCHANGED <<fatal, queueClosed, budgetClosed>>
<1>1. FailurePolicy = "stop" => SetFatal(o)
  BY DEF BatchFails
<1>2. SetFatal(o) => fatal' = IF fatal = "none" \/ o = "ambiguous" THEN o ELSE fatal
  BY DEF SetFatal, Promoted
<1>3. ASSUME SetFatal(o), fatal = "none" PROVE ~accepting' /\ queueClosed' /\ budgetClosed'
  <2>1. ~accepting' /\ QP!Close /\ BP!Close
    BY <1>3, SameQueue, SameBudget DEF SetFatal
  <2> QED
    BY <2>1, QueueConstants, BudgetConstants, QP!CloseAnswers, BP!CloseEffect DEF Base
<1>4. FailurePolicy # "stop" => UNCHANGED <<fatal, queueClosed, budgetClosed>>
  BY DEF BatchFails, lifeVars, queueVars, budgetVars
<1> QED
  BY <1>1, <1>2, <1>3, <1>4

LEMMA FatalMoves ==
    ASSUME Base, [Next]_vars
    PROVE  \/ fatal' = fatal
           \/ /\ inFlight # {} /\ fatal' \in {"failed", "ambiguous"}
              /\ fatal = "none" => ~accepting' /\ queueClosed' /\ budgetClosed'
              /\ FailurePolicy = "stop"
              /\ \E t \in inFlight, o \in {"failed", "ambiguous"}, a \in BOOLEAN :
                   BatchFails(t, o, a) /\ fatal' = IF fatal = "none" \/ o = "ambiguous"
                                                  THEN o ELSE fatal
<1>1. CASE Callers
  BY <1>1, CallersFrame
<1>2. CASE Worker
  BY <1>2 DEF Worker, WorkerTop, WorkerReceived, WorkerCapacity, PassCircuit, StartProbe,
       WorkerSend, WorkerSettle, WorkerUnwind, lifeVars
<1>3. ASSUME NEW t \in inFlight, BatchCommits(t) \/ BatchFinally(t) PROVE fatal' = fatal
  BY <1>3 DEF BatchCommits, BatchFinally, lifeVars
<1>4. ASSUME NEW t \in inFlight, NEW o \in {"failed", "ambiguous"}, NEW a \in BOOLEAN,
             BatchFails(t, o, a)
      PROVE  \/ fatal' = fatal
             \/ /\ fatal' \in {"failed", "ambiguous"}
                /\ fatal = "none" => ~accepting' /\ queueClosed' /\ budgetClosed'
                /\ FailurePolicy = "stop"
                /\ fatal' = IF fatal = "none" \/ o = "ambiguous" THEN o ELSE fatal
  BY <1>4, ErrorStops DEF Base, Types, WorkerTypeOK
<1>5. CASE Timers \/ UNCHANGED vars
  BY <1>5 DEF Timers, DeadlinePasses, ReceiveTimeout, CooldownElapses, vars, lifeVars
<1> QED
  BY <1>1, <1>2, <1>3, <1>4, <1>5 DEF Next, Callers, Requests, Settle

(* Queue and budget close with the first error, or when the worker is done. *)
LEMMA StreamCloses ==
    ASSUME Placed, [Next]_vars
    PROVE  \/ UNCHANGED <<queueClosed, budgetClosed>>
           \/ fatal' # "none"
           \/ WorkerUnwind
<1> USE DEF Placed
<1>1. UNCHANGED budgetClosed \/ fatal' # "none" \/ WorkerUnwind
  <2>1. ASSUME NEW r \in Rows, BP!Acquire(r) \/ BP!TryAcquire(r) \/ BP!Abort(r)
        PROVE  UNCHANGED budgetClosed
    BY <2>1, BudgetConstants, BP!AskEffect, BP!AbortEffect DEF Base
  <2>2. ASSUME NEW S, BP!ReleaseAll(S) PROVE UNCHANGED budgetClosed
    BY <2>2, BudgetConstants, BP!ReleaseEffect DEF Base
  <2>3. UNCHANGED BP!budgetVars => UNCHANGED budgetClosed
    BY DEF BP!budgetVars
  <2> QED
    BY <2>1, <2>2, <2>3, BudgetMoves DEF BudgetMove
<1>2. UNCHANGED queueClosed \/ fatal' # "none" \/ WorkerUnwind
  <2>1. ASSUME NEW c \in Commands, QP!Offering(c) PROVE UNCHANGED queueClosed
    BY <2>1, QueueConstants, QP!OfferEffect DEF QP!Offering, Base
  <2>2. ASSUME NEW c \in Commands, QP!Abort(c) PROVE UNCHANGED queueClosed
    BY <2>2, QueueConstants, QP!AbortEffect DEF Base
  <2>3. Callers => UNCHANGED queueClosed
    BY <2>1, <2>2, CallerQueue DEF queueVars
  <2>4. ASSUME NEW timed \in BOOLEAN, QP!Receive(timed) PROVE UNCHANGED queueClosed
    BY <2>4, QueueConstants, QP!ReceiveEffect DEF Base
  <2>5. WorkerTop => UNCHANGED queueClosed
    BY <2>4, WorkerQueue DEF queueVars
  <2>6. WorkerReceived => UNCHANGED queueClosed
    BY WorkerQueue, QueueConstants, QP!ConsumeEffect DEF Base
  <2>7. WorkerCapacity \/ PassCircuit \/ StartProbe \/ WorkerSend \/ WorkerSettle
          => UNCHANGED queueClosed
    BY WorkerQueue DEF queueVars
  <2>8. ASSUME NEW t \in inFlight, BatchCommits(t) \/ BatchFinally(t)
        PROVE  UNCHANGED queueClosed
    BY <2>8 DEF BatchCommits, BatchFinally, queueVars
  <2>9. ASSUME NEW t \in inFlight, NEW o \in {"failed", "ambiguous"}, NEW a \in BOOLEAN,
               BatchFails(t, o, a)
        PROVE  UNCHANGED queueClosed \/ fatal' # "none"
    BY <2>9, ErrorStops
  <2>10. Timers \/ UNCHANGED vars => UNCHANGED queueClosed
    <3>1. Timers => QP!Timeout \/ UNCHANGED queueVars
      BY SameQueue DEF Timers, DeadlinePasses, ReceiveTimeout, CooldownElapses
    <3>2. UNCHANGED vars => UNCHANGED queueClosed
      BY DEF vars, queueVars
    <3>3. UNCHANGED queueVars => UNCHANGED queueClosed
      BY DEF queueVars
    <3>4. QP!Timeout => UNCHANGED queueClosed
      BY QueueConstants, QP!TimeoutEffect DEF Base
    <3> QED
      BY <3>1, <3>2, <3>3, <3>4
  <2> QED
    BY <2>3, <2>5, <2>6, <2>7, <2>8, <2>9, <2>10 DEF Next, Callers, Worker, Requests, Settle
<1> QED
  BY <1>1, <1>2

LEMMA DoneStays ==
    ASSUME [Next]_vars, workerDone
    PROVE  workerDone'
<1>1. ~Worker
  BY DEF workerDone, Worker, WorkerTop, WorkerReceived, WorkerCapacity, PassCircuit,
       StartProbe, WorkerSend, WorkerSettle, WorkerUnwind
<1>2. pc' = pc
  BY <1>1, AsideFrame DEF Next, Aside, Callers
<1> QED
  BY <1>2 DEF workerDone

(* Once the shutdown command is completed nothing happens any more. *)
LEMMA ResolvedStays ==
    ASSUME Placed, Ending, [Next]_vars, ShutdownResolved
    PROVE  /\ fatal' = "none" /\ pc' \in {"unwind", "done"}
           /\ rows' = {} /\ inFlight' = {} /\ QP!Pending' = <<>>
<1> USE DEF Placed
<1>1. /\ fatal = "none" /\ pc \in {"unwind", "done"}
      /\ rows = {} /\ inFlight = {} /\ QP!Pending = <<>>
  BY DEF Ending
<1>2. fatal' = "none"
  BY <1>1, FatalMoves
<1>3. inFlight' = {}
  BY <1>1, InFlightMoves DEF WorkerSend
<1>4. pc' \in {"unwind", "done"} /\ rows' = {}
  <2>1. CASE Aside
    BY <1>1, <2>1, AsideFrame
  <2>2. CASE WorkerUnwind
    BY <2>2 DEF WorkerUnwind, EmptyBuffer
  <2> QED
    BY <1>1, <2>1, <2>2 DEF Next, Aside, Callers, Worker, WorkerTop, WorkerReceived,
         WorkerCapacity, PassCircuit, StartProbe, WorkerSend, WorkerSettle
<1>5. QP!Pending' = <<>>
  <2>1. ~Inviting
    BY DEF ShutdownResolved, Inviting, LastInvited
  <2>2. QP!ToSet(QP!Pending') \subseteq QP!ToSet(QP!Pending)
    BY <2>1, AheadMoves DEF QP!OnlyLeaves
  <2>3. QP!ToSet(QP!Pending') = {}
    BY <1>1, <2>2 DEF QP!ToSet
  <2>4. (QP!Pending \in Seq(Commands))'
    <3>1. QP!IInv'
      BY BaseKept DEF Base
    <3> QED
      BY <3>1, PendingType, PTL
  <2> QED
    BY <2>3, <2>4, EmptySeq DEF QP!ToSet
<1> QED
  BY <1>2, <1>3, <1>4, <1>5

(* How the shutdown command comes to be completed. *)
LEMMA Resolving ==
    ASSUME Placed, Ending, [Next]_vars, ShutdownResolved', ~ShutdownResolved
    PROVE  /\ WorkerSettle /\ cmd = Shutdown /\ fatal' = "none" /\ pc' = "unwind"
           /\ rows' = {} /\ inFlight' = {} /\ QP!Pending' = <<>>
<1> USE DEF Placed, ShutdownResolved
<1>1. WorkerSettle /\ cmd = Shutdown /\ fatal = "none"
  BY BarrierMoves, Names DEF BarrierMove, RejectedAs
<1>2. pc = "settle" /\ rows = {} /\ inFlight = {} /\ QP!Pending = <<>>
  BY <1>1 DEF WorkerSettle, AllSettled, WorkerPlace, LastInvited, Finishing
<1>3. pc' = "unwind" /\ fatal' = fatal /\ rows' = rows /\ inFlight' = inFlight
  BY <1>1 DEF WorkerSettle, lifeVars, bufferVars
<1>4. QP!Pending' = QP!Pending
  BY <1>1 DEF WorkerSettle, queueVars, QP!Pending
<1> QED
  BY <1>1, <1>2, <1>3, <1>4

(* Why the worker unwinds. *)
LEMMA Unwinding ==
    ASSUME Placed, Ending, [Next]_vars, pc' \in {"unwind", "done"}
    PROVE  fatal' # "none" \/ ShutdownResolved'
<1> USE DEF Placed
<1>1. fatal # "none" => fatal' # "none"
  BY FatalMoves
<1>2. ShutdownResolved => ShutdownResolved'
  BY BarrierMoves, Names DEF BarrierMove, ShutdownResolved
<1>3. CASE Aside \/ WorkerUnwind
  <2>1. pc \in {"unwind", "done"}
    BY <1>3, AsideFrame DEF WorkerUnwind
  <2> QED
    BY <1>1, <1>2, <2>1 DEF Ending
<1>4. CASE WorkerTop
  BY <1>1, <1>4 DEF WorkerTop
<1>5. CASE WorkerReceived
  <2>1. CASE fatal = "none" /\ delivered = CLOSED
    <3>1. queueClosed
      BY <2>1 DEF WorkerPlace, QP!ToldClosed
    <3> QED
      BY <1>1, <1>5, <3>1 DEF Ending, WorkerReceived, workerDone
  <2>2. CASE fatal = "none" /\ delivered # CLOSED
    BY <1>5, <2>2 DEF WorkerReceived, RowDelivered, Push, BarrierDelivered, NothingDelivered
  <2> QED
    BY <1>1, <2>1, <2>2
<1>6. CASE WorkerSend
  BY <1>1, <1>6 DEF WorkerSend, DispatchForbidden, Dispatch, Push
<1>7. CASE WorkerSettle
  <2>1. CASE fatal = "none"
    <3>1. cmd = Shutdown /\ ResolveBarrier(cmd)
      BY <1>7, <2>1 DEF WorkerSettle
    <3>2. barrier[Shutdown].pc # "aborted"
      BY DEF LastInvited
    <3>3. SetBarrier(Shutdown, "resolved")
      BY <3>1, <3>2 DEF ResolveBarrier
    <3> QED
      BY <3>3, Names DEF SetBarrier, ShutdownResolved, Base, Types, CallerTypeOK
  <2> QED
    BY <1>1, <2>1
<1>8. CASE WorkerCapacity \/ PassCircuit \/ StartProbe
  BY <1>8 DEF WorkerCapacity, PassCircuit, StartProbe
<1> QED
  BY <1>3, <1>4, <1>5, <1>6, <1>7, <1>8 DEF Next, Aside, Callers, Worker

(* A barrier that was rejected will fail, unless it is a flush of a stream *)
(* that is closed.                                                         *)
LEMMA RejectionsFail ==
    ASSUME Placed, Ending, [Next]_vars, NEW b \in Barriers
    PROVE  /\ barrier'[b].pc \in {"task", "failed"} => fatal' # "none"
           /\ barrier'[b].pc = "failed" => workerDone'
<1> USE DEF Placed
<1>1. fatal # "none" => fatal' # "none"
  BY FatalMoves
<1>2. BarrierMove(b)
  BY BarrierMoves
<1>3. barrier'[b].pc = "failed" => barrier[b].pc \in {"task", "failed"} /\ workerDone
  BY <1>2, Names DEF BarrierMove, RejectedAs, Ending
<1>4. ASSUME barrier'[b].pc = "task", barrier[b].pc # "task" PROVE fatal # "none"
  <2>1. CASE b \in Flushes
    BY <1>2, <1>4, <2>1, Names DEF BarrierMove, RejectedAs
  <2>2. CASE b = Shutdown
    <3>1. fatal # "none" \/ (barrier[b].pc = "called" /\ RejectCause(b))
      BY <1>2, <1>4, <2>2, Names DEF BarrierMove
    <3>2. ASSUME barrier[b].pc = "called" PROVE ~ShutdownResolved
      BY <2>2, <3>2 DEF ShutdownResolved
    <3>3. ASSUME ack[Shutdown] = "refused", ~ShutdownResolved PROVE fatal # "none"
      BY <3>3 DEF Ending, workerDone
    <3>4. ASSUME WorkerUnwind, ~ShutdownResolved PROVE fatal # "none"
      BY <3>4 DEF Ending, WorkerUnwind
    <3> QED
      BY <2>2, <3>1, <3>2, <3>3, <3>4 DEF RejectCause
  <2> QED
    BY <2>1, <2>2 DEF Barriers
<1> QED
  BY <1>1, <1>3, <1>4, DoneStays DEF Ending

LEMMA ShutdownRefused ==
    ASSUME Placed, Ending, [Next]_vars, ack'[Shutdown] = "refused"
    PROVE  queueClosed'
<1> USE DEF Placed
<1>1. Shutdown \in Commands
  BY Names
<1>2. CASE ack[Shutdown] = "refused"
  BY <1>2, ClosesForGood DEF Ending
<1>3. ASSUME NEW c \in Commands, QP!Offering(c), ack[Shutdown] # "refused" PROVE queueClosed'
  BY <1>1, <1>3, QueueConstants, QP!OfferEffect DEF QP!Offering, Base, QP!IInv, QP!Shape, QP!TypeOK
<1>4. ASSUME NEW c \in Commands \ {Shutdown}, QP!Abort(c) PROVE ack'[Shutdown] = ack[Shutdown]
  <2>1. ack' = [ack EXCEPT ![c] = "refused"]
    BY <1>4, QueueConstants, QP!AbortEffect DEF Base
  <2>2. ack \in [Commands -> {"none", "waiting", "sent", "refused"}]
    BY DEF Base, QP!IInv, QP!Shape, QP!TypeOK
  <2> QED
    BY <1>1, <2>1, <2>2
<1>5. ASSUME NEW timed \in BOOLEAN, QP!Receive(timed)
      PROVE  ack'[Shutdown] = ack[Shutdown] \/ ack'[Shutdown] = "sent"
  BY <1>1, <1>5, QueueConstants, QP!ReceiveEffect DEF Base
<1>6. QP!Consume \/ QP!Timeout \/ UNCHANGED QP!queueVars => ack'[Shutdown] = ack[Shutdown]
  BY QueueConstants, QP!ConsumeEffect, QP!TimeoutEffect DEF Base, QP!queueVars
<1>7. QP!Close \/ QP!CloseAndDrain => queueClosed'
  BY QueueConstants, QP!CloseAnswers DEF Base
<1> QED
  BY <1>2, <1>3, <1>4, <1>5, <1>6, <1>7, QueueMoves

LEMMA EndingKept ==
    ASSUME Placed, Ending, [Next]_vars
    PROVE  Ending'
<1> USE DEF Placed
<1>1. (fatal # "none" => queueClosed /\ budgetClosed /\ ~accepting)'
  BY FatalMoves, ClosesForGood DEF Ending
<1>2. (queueClosed \/ budgetClosed => fatal # "none" \/ workerDone)'
  <2>1. WorkerUnwind => workerDone'
    BY DEF WorkerUnwind, workerDone
  <2>2. fatal # "none" => fatal' # "none"
    BY FatalMoves
  <2> QED
    BY <2>1, <2>2, StreamCloses, DoneStays DEF Ending
<1>3. (pc \in {"unwind", "done"} => fatal # "none" \/ ShutdownResolved)'
  BY Unwinding
<1>4. (ShutdownResolved =>
         /\ fatal = "none" /\ pc \in {"unwind", "done"}
         /\ rows = {} /\ inFlight = {} /\ QP!Pending = <<>>)'
  BY ResolvedStays, Resolving
<1>5. (\A b \in Barriers : barrier[b].pc \in {"task", "failed"} => fatal # "none")'
  BY RejectionsFail
<1>6. (\A b \in Barriers : barrier[b].pc = "failed" => workerDone)'
  BY RejectionsFail
<1>7. (ack[Shutdown] = "refused" => queueClosed)'
  BY ShutdownRefused
<1> QED
  BY <1>1, <1>2, <1>3, <1>4, <1>5, <1>6, <1>7 DEF Ending

LEMMA EndingAlways == Spec => [](Placed /\ Ending)
<1>1. Init => Ending
  <2> SUFFICES ASSUME Init PROVE Ending
    OBVIOUS
  <2>1. ~queueClosed /\ ~budgetClosed /\ \A c \in Commands : ack[c] = "none"
    BY DEF Init, Q!Init, B!Init
  <2> QED
    BY <2>1, Names DEF Init, Ending, ShutdownResolved, workerDone
<1> QED
  BY <1>1, PlacedAlways, EndingKept, PTL DEF Spec

(* Where no row is pending and none is with the worker, each has its outcome. *)
LEMMA AllFated ==
    ASSUME Placed, QP!Pending = <<>>, rows = {}, inFlight = {}, pc \in {"unwind", "done"}
    PROVE  /\ \A r \in counted : fate[r] # "none"
           /\ \A r \in Rows : ack[r] = "sent" => fate[r] # "none"
<1> USE DEF Placed
<1>1. AtWorker = {}
  BY DEF AtWorker, Held, Dispatching, OpenRows
<1>2. ASSUME NEW r \in Rows, ack[r] = "sent" PROVE r \in Fated
  <2>1. r \notin QP!ToSet(QP!Pending)
    BY DEF QP!ToSet
  <2>2. r \in QP!Gone
    BY <1>2, <2>1, QueueConstants, Names, QP!PendingParts DEF Base
  <2> QED
    BY <1>1, <2>2 DEF RowsPlaced, Taken
<1>3. \A r \in counted : r \in Rows /\ ack[r] = "sent"
  BY DEF RowsPlaced, Base, Types, CountTypeOK
<1> QED
  BY <1>2, <1>3 DEF Fated

LEMMA NothingLeft ==
    ASSUME Placed, workerDone
    PROVE  /\ rows = {} /\ inFlight = {} /\ QP!Pending = <<>>
           /\ ~accepting /\ queueClosed /\ budgetClosed
<1>1. AtRest /\ QP!Ready
  BY DEF Placed, WorkerPlace, workerDone
<1>2. QP!Pending = <<>>
  BY <1>1, QueueConstants, QP!NothingPending DEF Placed, Base, AtRest
<1> QED
  BY <1>1, <1>2 DEF AtRest

(* shutdown() comes last: nothing can be queued behind its command, and    *)
(* when it has resolved every row ever accepted has its outcome.           *)
THEOREM ShutdownComesLast == Spec => []ShutdownIsLast
<1>1. ASSUME Placed, Ending PROVE ShutdownIsLast
  <2>1. ASSUME Shutdown \in ToSet(Q!Pending) PROVE Last(Q!Pending) = Shutdown
    <3>1. Shutdown \in QP!ToSet(QP!Pending) /\ Q!Pending = QP!Pending
      BY <2>1, SameSets
    <3>2. QP!Pending \in Seq(Commands) /\ \A c \in Commands : ~QP!Ahead(QP!Pending, Shutdown, c)
      BY <1>1, PendingType DEF Placed, Base, LastInvited
    <3>3. QP!Last(QP!Pending) = Shutdown
      BY <3>1, <3>2, QP!LastOfAll, QueueConstants
    <3> QED
      BY <3>1, <3>3 DEF Last, QP!Last
  <2>2. ASSUME ShutdownResolved
        PROVE  (\A r \in counted : fate[r] # "none") /\ Q!Pending = <<>>
    <3>1. /\ rows = {} /\ inFlight = {} /\ QP!Pending = <<>>
          /\ pc \in {"unwind", "done"}
      BY <1>1, <2>2 DEF Ending
    <3> QED
      BY <1>1, <3>1, AllFated, SameSets
  <2> QED
    BY <2>1, <2>2 DEF ShutdownIsLast, ShutdownResolved
<1> QED
  BY <1>1, EndingAlways, PTL

-----------------------------------------------------------------------------
(* What the error says of the rows.  A stream that fails has lost or may   *)
(* have lost a row, and an error that calls it definite is right for all.  *)
Errors ==
    /\ FailurePolicy = "continue" => fatal = "none"
    /\ FailurePolicy = "stop" =>
         \A r \in Rows : /\ fate[r] = "ambiguous" => fatal = "ambiguous"
                         /\ fate[r] = "failed" => fatal # "none"
    /\ fatal # "none" => \E r \in Rows : fate[r] \in {"failed", "ambiguous"}

(* An unwinding stream that did not fail has nothing left to lose. *)
LEMMA NothingToLose ==
    ASSUME Placed, Ending, WorkerUnwind, fatal = "none"
    PROVE  Lost = {}
<1>1. rows = {} /\ QP!Pending = <<>>
  BY DEF Ending, WorkerUnwind
<1>2. items = <<>>
  <2>1. /\ QP!Handed \in Seq(Commands) /\ items \in Seq(Commands)
        /\ sendWaiters \in Seq(Commands)
        /\ QP!Pending = (QP!Handed \o items) \o sendWaiters
    BY QueueConstants, QP!PendingParts DEF Placed, Base
  <2>2. Len(QP!Pending) = Len(QP!Handed) + Len(items) + Len(sendWaiters)
    BY <2>1, ConcatProperties
  <2>3. Len(items) = 0
    BY <1>1, <2>1, <2>2, LenProperties
  <2> QED
    BY <2>1, <2>3, EmptySeq
<1>3. ToSet(items) = {}
  BY <1>2 DEF ToSet
<1> QED
  BY <1>1, <1>3 DEF Lost

LEMMA ErrorsKept ==
    ASSUME Placed, Ending, Errors, [Next]_vars
    PROVE  Errors'

<1> USE DEF Placed
<1>1. fatal # "none" => fatal' # "none"
  BY FatalMoves
<1>2. FailurePolicy \in {"stop", "continue"}
  BY StreamAssumption
<1>3. FailurePolicy = "continue" => fatal' = "none"
  BY FatalMoves DEF Errors
<1>4. fatal = "ambiguous" => fatal' = "ambiguous"
  BY FatalMoves
<1>5. ASSUME NEW r \in Rows, FailurePolicy = "stop", fate'[r] # fate[r]
      PROVE  /\ fate'[r] = "ambiguous" => fatal' = "ambiguous"
             /\ fate'[r] = "failed" => fatal' # "none"
  <2>1. ASSUME NEW t \in inFlight, NEW o \in {"failed", "ambiguous"}, NEW a \in BOOLEAN,
               BatchFails(t, o, a)
        PROVE  fatal' # "none" /\ (o = "ambiguous" => fatal' = "ambiguous")
    BY <1>5, <2>1, ErrorStops DEF Base, Types, WorkerTypeOK
  <2>2. WorkerUnwind /\ r \in Lost => fatal # "none"
    BY NothingToLose
  <2> QED
    BY <1>1, <1>5, <2>1, <2>2, FateMoves
<1>6. FailurePolicy = "stop" =>
        \A r \in Rows : /\ fate'[r] = "ambiguous" => fatal' = "ambiguous"
                        /\ fate'[r] = "failed" => fatal' # "none"
  BY <1>1, <1>4, <1>5 DEF Errors
<1>7. ASSUME fatal' # "none" PROVE \E r \in Rows : fate'[r] \in {"failed", "ambiguous"}
  <2>1. CASE fatal # "none"
    <3>1. PICK r \in Rows : fate[r] \in {"failed", "ambiguous"}
      BY <2>1 DEF Errors
    <3> QED
      BY <3>1, FateMoves
  <2>2. CASE fatal = "none"
    <3>1. PICK t \in inFlight, o \in {"failed", "ambiguous"}, a \in BOOLEAN : BatchFails(t, o, a)
      BY <1>7, <2>2, FatalMoves
    <3>2. t.rows # {} /\ t.rows \in SUBSET Rows
      BY BatchesApart DEF WorkerPlace
    <3>3. CountOutcome(t.rows, o)
      BY <3>1 DEF BatchFails
    <3>4. \A r \in t.rows : fate'[r] = o
      BY <3>2, <3>3, CountsFate DEF Base, Types, CountTypeOK, Outcomes
    <3> QED
      BY <3>2, <3>4
  <2> QED
    BY <2>1, <2>2
<1> QED
  BY <1>3, <1>6, <1>7 DEF Errors

LEMMA ErrorsAlways == Spec => [](Placed /\ Ending /\ Errors)
<1>1. Init => Errors
  BY DEF Init, Errors
<1> QED
  BY <1>1, EndingAlways, ErrorsKept, PTL DEF Spec

(* A barrier that reports a failure reports it when everything is over:    *)
(* no request is left in flight, every accepted row has its outcome, and   *)
(* an error that says nothing was written is right for every row.          *)
THEOREM FailureIsHonest == Spec => []HonestFailure
<1>1. ASSUME Placed, Ending, Errors PROVE HonestFailure
  <2> SUFFICES ASSUME NEW b \in Barriers, barrier[b].pc = "failed"
               PROVE  /\ fatal # "none" /\ inFlight = {}
                      /\ \A r \in counted : fate[r] # "none"
                      /\ fatal = "failed" => WithFate("ambiguous") = {}
    BY DEF HonestFailure
  <2>1. fatal # "none" /\ workerDone
    BY <1>1 DEF Ending
  <2>2. inFlight = {} /\ rows = {} /\ QP!Pending = <<>>
    BY <1>1, <2>1, NothingLeft
  <2>3. \A r \in counted : fate[r] # "none"
    BY <1>1, <2>1, <2>2, AllFated DEF workerDone
  <2>4. fatal = "failed" => WithFate("ambiguous") = {}
    BY <1>1, <2>1, StreamAssumption DEF Errors, WithFate
  <2> QED
    BY <2>1, <2>2, <2>3, <2>4
<1> QED
  BY <1>1, ErrorsAlways, PTL

-----------------------------------------------------------------------------
(* The counters.  Each equals the number of rows it stands for: those      *)
(* counted, those with an outcome, and those still without one.            *)
Tallied ==
    /\ lifetime["accepted"] = Cardinality(counted)
    /\ \A o \in Outcomes : lifetime[o] = Cardinality(WithFate(o))
    /\ pendingRowCount = Cardinality(counted \ Fated)

LEMMA CardSplit ==
    ASSUME NEW A \in SUBSET Rows, NEW C \in SUBSET Rows
    PROVE  /\ Cardinality(A) \in Nat
           /\ Cardinality(A \cup C) = Cardinality(A) + Cardinality(C \ A)
           /\ A \cap C = {} => Cardinality(A \cup C) = Cardinality(A) + Cardinality(C)
           /\ C \subseteq A => Cardinality(A \ C) = Cardinality(A) - Cardinality(C)
<1>1. IsFiniteSet(A) /\ IsFiniteSet(C) /\ IsFiniteSet(C \ A)
  BY BudgetConstants, FS_Subset
<1>2. /\ Cardinality(A) \in Nat /\ Cardinality(C) \in Nat /\ Cardinality(C \ A) \in Nat
      /\ Cardinality({}) = 0
  BY <1>1, FS_CardinalityType, FS_EmptySet
<1>3. Cardinality(A \cup (C \ A)) = Cardinality(A) + Cardinality(C \ A)
  <2>1. A \cap (C \ A) = {}
    OBVIOUS
  <2>2. Cardinality(A \cup (C \ A))
          = Cardinality(A) + Cardinality(C \ A) - Cardinality(A \cap (C \ A))
    BY <1>1, FS_Union
  <2>3. Cardinality(A \cap (C \ A)) = 0
    BY <1>2, <2>1
  <2> QED
    BY <1>2, <2>2, <2>3
<1>4. A \cup C = A \cup (C \ A)
  OBVIOUS
<1>5. A \cap C = {} => C \ A = C
  OBVIOUS
<1>6. Cardinality(A \ C) = Cardinality(A) - Cardinality(A \cap C)
  BY <1>1, FS_Difference
<1>7. C \subseteq A => A \cap C = C
  OBVIOUS
<1> QED
  BY <1>2, <1>3, <1>4, <1>5, <1>6, <1>7

LEMMA AcceptedTally ==
    ASSUME Counters, Tallied, Fated \subseteq counted, NEW S \in SUBSET Rows,
           CountAccepted(S), UNCHANGED fate
    PROVE  Tallied'
<1> DEFINE n == Cardinality(S \ counted)
<1>1. /\ counted' = counted \cup S /\ pendingRowCount' = pendingRowCount + n
      /\ lifetime' = Plus(lifetime, Count("accepted", n))
  BY DEF CountAccepted, NewlyCounted
<1>2. n \in Nat /\ Cardinality(counted \cup S) = Cardinality(counted) + n
  BY CardSplit DEF Counters
<1>3. Cardinality((counted \ Fated) \cup (S \ counted)) = Cardinality(counted \ Fated) + n
  <2>1. (counted \ Fated) \cap (S \ counted) = {}
    OBVIOUS
  <2> QED
    <3> DEFINE A == counted \ Fated
               C == S \ counted
    <3>1. A \in SUBSET Rows /\ C \in SUBSET Rows /\ A \cap C = {}
      BY <2>1 DEF Counters
    <3> HIDE DEF A, C
    <3>2. Cardinality(A \cup C) = Cardinality(A) + Cardinality(C)
      BY <3>1, CardSplit
    <3> QED
      BY <3>2 DEF A, C
<1>4. (counted \cup S) \ Fated = (counted \ Fated) \cup (S \ counted)
  OBVIOUS
<1>5. Fated' = Fated /\ \A o : WithFate(o)' = WithFate(o)
  BY DEF Fated, WithFate
<1> HIDE DEF n
<1>6. /\ lifetime'["accepted"] = lifetime["accepted"] + n
      /\ \A o \in Outcomes : lifetime'[o] = lifetime[o]
  BY <1>1, <1>2, CountsApplied DEF Counters
<1> QED
  BY <1>1, <1>2, <1>3, <1>4, <1>5, <1>6 DEF Tallied

(* Rows that get an outcome join those that have it. *)
LEMMA FateTally ==
    ASSUME Counters, NEW S \in SUBSET Rows, S \cap Fated = {}, NEW o \in Outcomes,
           \A r \in Rows : fate'[r] = IF r \in S THEN o ELSE fate[r]
    PROVE  /\ Fated' = Fated \cup S
           /\ Cardinality(WithFate(o))' = Cardinality(WithFate(o)) + Cardinality(S)
           /\ \A p \in Outcomes \ {o} : Cardinality(WithFate(p))' = Cardinality(WithFate(p))
<1>1. o # "none"
  BY DEF Outcomes
<1>2. WithFate(o)' = WithFate(o) \cup S /\ WithFate(o) \cap S = {}
  BY <1>1 DEF WithFate, Fated
<1>3. \A p \in Outcomes \ {o} : WithFate(p)' = WithFate(p)
  <2> SUFFICES ASSUME NEW p \in Outcomes \ {o} PROVE WithFate(p)' = WithFate(p)
    OBVIOUS
  <2>1. p # "none"
    BY DEF Outcomes
  <2>2. \A r \in Rows : fate'[r] = p <=> fate[r] = p
    BY <2>1 DEF Fated
  <2> QED
    BY <2>2 DEF WithFate
<1>4. Fated' = Fated \cup S
  BY <1>1 DEF Fated
<1>5. WithFate(o) \in SUBSET Rows
  BY DEF WithFate
<1> HIDE DEF WithFate
<1> QED
  BY <1>2, <1>3, <1>4, <1>5, CardSplit

LEMMA OutcomeTally ==
    ASSUME Counters, Tallied, NEW S \in SUBSET (counted \ Fated), NEW o \in Outcomes,
           CountOutcome(S, o)
    PROVE  Tallied'
<1> DEFINE n == Cardinality(S)
<1>1. /\ counted' = counted /\ pendingRowCount' = AtLeastZero(pendingRowCount - n)
      /\ lifetime' = Plus(lifetime, Count(o, n))
      /\ \A r \in Rows : fate'[r] = IF r \in S THEN o ELSE fate[r]
  BY DEF CountOutcome
<1>2. S \in SUBSET Rows /\ S \cap Fated = {} /\ n \in Nat
  BY CardSplit DEF Counters
<1>3. /\ Fated' = Fated \cup S
      /\ Cardinality(WithFate(o))' = Cardinality(WithFate(o)) + n
      /\ \A p \in Outcomes \ {o} : Cardinality(WithFate(p))' = Cardinality(WithFate(p))
  BY <1>1, <1>2, FateTally
<1>4. /\ Cardinality((counted \ Fated) \ S) = Cardinality(counted \ Fated) - n
      /\ Cardinality((counted \ Fated) \ S) \in Nat /\ Cardinality(counted \ Fated) \in Nat
  BY CardSplit DEF Counters
<1>5. counted' \ Fated' = (counted \ Fated) \ S
  BY <1>1, <1>3
<1> HIDE DEF n
<1>6. /\ \A f \in Fields : lifetime'[f] = lifetime[f] + (IF f = o THEN n ELSE 0)
      /\ \A f \in Fields : lifetime[f] \in Nat
  BY <1>1, <1>2, CountsApplied DEF Counters
<1>7. lifetime'["accepted"] = lifetime["accepted"]
  BY <1>2, <1>6, CountsApplied
<1>8. \A p \in Outcomes : lifetime'[p] = Cardinality(WithFate(p))'
  BY <1>2, <1>3, <1>6, CountsApplied DEF Tallied
<1>9. pendingRowCount' = Cardinality(counted' \ Fated')
  BY <1>1, <1>2, <1>4, <1>5 DEF Tallied, AtLeastZero
<1> QED
  BY <1>1, <1>7, <1>8, <1>9 DEF Tallied

LEMMA LocalFailureTally ==
    ASSUME Counters, Tallied, Fated \subseteq counted, NEW S \in SUBSET Rows,
           S \cap Fated = {}, CountLocalFailure(S)
    PROVE  Tallied'
<1> DEFINE n == Cardinality(S)
           m == Cardinality(S \ counted)
           left == Cardinality(counted \ Fated)
<1>1. /\ counted' = counted \cup S /\ pendingRowCount' = AtLeastZero(pendingRowCount + m - n)
      /\ lifetime' = Plus(Plus(lifetime, Count("accepted", m)), Count("failed", n))
      /\ \A r \in Rows : fate'[r] = IF r \in S THEN "failed" ELSE fate[r]
  BY DEF CountLocalFailure, NewlyCounted
<1>2. n \in Nat /\ m \in Nat /\ left \in Nat /\ "failed" \in Outcomes
  BY CardSplit DEF Counters, Outcomes
<1>3. /\ Fated' = Fated \cup S
      /\ Cardinality(WithFate("failed"))' = Cardinality(WithFate("failed")) + n
      /\ \A p \in Outcomes \ {"failed"} : Cardinality(WithFate(p))' = Cardinality(WithFate(p))
  BY <1>1, <1>2, FateTally
<1>4. Cardinality(counted \cup S) = Cardinality(counted) + m
  BY CardSplit DEF Counters
<1>5. Cardinality(counted' \ Fated') = left + m - n /\ left + m - n \in Nat
  <2> DEFINE all == (counted \ Fated) \cup (S \ counted)
  <2>1. Cardinality(all) = left + m
    <3>1. (counted \ Fated) \cap (S \ counted) = {}
      OBVIOUS
    <3> QED
      BY <3>1, CardSplit DEF Counters
  <2>2. S \subseteq all /\ all \in SUBSET Rows /\ counted' \ Fated' = all \ S
    BY <1>1, <1>3 DEF Counters
  <2> HIDE DEF all, left, m, n
  <2>3. Cardinality(all \ S) = Cardinality(all) - Cardinality(S) /\ Cardinality(all \ S) \in Nat
    BY <2>2, CardSplit
  <2>4. Cardinality(S) = n
    BY DEF n
  <2>5. Cardinality(all \ S) = left + m - n
    BY <1>2, <2>1, <2>3, <2>4
  <2> QED
    BY <2>2, <2>3, <2>5
<1>6. pendingRowCount = left
  BY DEF Tallied
<1> HIDE DEF n, m, left
<1>7. /\ \A f \in Fields :
           lifetime'[f] = lifetime[f] + (IF f = "accepted" THEN m ELSE 0) + (IF f = "failed" THEN n ELSE 0)
      /\ \A f \in Fields : lifetime[f] \in Nat
  BY <1>1, <1>2, CountsApplied DEF Counters
<1>8. lifetime'["accepted"] = Cardinality(counted')
  BY <1>1, <1>2, <1>4, <1>7, CountsApplied DEF Tallied
<1>9. \A p \in Outcomes : lifetime'[p] = Cardinality(WithFate(p))'
  BY <1>2, <1>3, <1>7, CountsApplied DEF Tallied
<1>10. pendingRowCount' = Cardinality(counted' \ Fated')
  BY <1>1, <1>2, <1>5, <1>6 DEF AtLeastZero
<1> QED
  BY <1>8, <1>9, <1>10 DEF Tallied

LEMMA TallyKept ==
    ASSUME Placed, Tallied, [Next]_vars
    PROVE  Tallied'
<1> USE DEF Placed
<1>1. Counters /\ Fated \subseteq counted
  BY DEF Counters, Base, Types, CountTypeOK, RowsPlaced
<1>2. CASE Stay
  <2>1. UNCHANGED fate
    BY <1>2 DEF Stay
  <2>2. ASSUME UNCHANGED <<counted, pendingRowCount>>,
               \A f \in Fields \ {"dropped"} : lifetime'[f] = lifetime[f]
        PROVE  Tallied'
    <3>1. Fated' = Fated /\ \A o : WithFate(o)' = WithFate(o)
      BY <2>1 DEF Fated, WithFate
    <3>2. \A o \in Outcomes \cup {"accepted"} : lifetime'[o] = lifetime[o]
      BY <2>2, CountsApplied
    <3> QED
      BY <2>2, <3>1, <3>2 DEF Tallied
  <2>3. ASSUME NEW r \in Rows, CountAccepted({r}) PROVE Tallied'
    BY <1>1, <2>1, <2>3, AcceptedTally
  <2> QED
    BY <1>2, <2>2, <2>3 DEF Stay, CallersTally
<1>3. CASE Take
  <2>1. CountAccepted({delivered}) /\ UNCHANGED fate /\ {delivered} \in SUBSET Rows
    BY <1>3 DEF Take
  <2> QED
    BY <1>1, <2>1, AcceptedTally
<1>4. CASE Leave
  BY <1>4 DEF Leave, countVars, Tallied, Fated, WithFate
<1>5. ASSUME NEW S \in SUBSET Rows, Fail(S) PROVE Tallied'
  <2>1. S \cap Fated = {} /\ CountLocalFailure(S)
    BY <1>5 DEF Fail, RowsPlaced, AtWorker
  <2> QED
    BY <1>1, <2>1, LocalFailureTally
<1>6. ASSUME NEW t \in inFlight, NEW o \in Outcomes, SettleRows(t, o) PROVE Tallied'
  <2>1. t.rows \in SUBSET (counted \ Fated)
    BY <1>6, BatchesApart DEF SettleRows, RowsPlaced, AtWorker
  <2> QED
    BY <1>1, <1>6, <2>1, OutcomeTally DEF SettleRows
<1> QED
  BY <1>2, <1>3, <1>4, <1>5, <1>6, RowMoves DEF RowMove

LEMMA TallyAlways == Spec => [](Placed /\ Tallied)
<1>1. Init => Tallied
  <2> SUFFICES ASSUME Init PROVE Tallied
    OBVIOUS
  <2>1. counted = {} /\ \A o \in Outcomes : WithFate(o) = {}
    BY DEF Init, WithFate, Outcomes
  <2>2. Cardinality({}) = 0
    BY FS_EmptySet
  <2>3. lifetime = Zero /\ pendingRowCount = 0 /\ counted \ Fated = {}
    BY <2>1 DEF Init
  <2> QED
    BY <2>1, <2>2, <2>3, CountsApplied DEF Tallied
<1> QED
  BY <1>1, PlacedAlways, TallyKept, PTL DEF Spec

(* Every accepted row is counted once, as pending or with one outcome: the *)
(* counters agree with what happened to the rows, whether the caller, the  *)
(* worker or the failure path counted a row first.                         *)
THEOREM EveryRowCounted == Spec => []RowsConserved
<1>1. ASSUME Placed, Tallied PROVE RowsConserved
  <2> DEFINE com == Cardinality(WithFate("committed"))
             fai == Cardinality(WithFate("failed"))
             amb == Cardinality(WithFate("ambiguous"))
  <2>1. /\ lifetime["committed"] = com /\ lifetime["failed"] = fai
        /\ lifetime["ambiguous"] = amb
        /\ \A o \in Outcomes : lifetime[o] = Cardinality(WithFate(o))
    BY <1>1 DEF Tallied, Outcomes
  <2>2. Fated \in SUBSET counted /\ counted \in SUBSET Rows
    BY <1>1 DEF Placed, RowsPlaced, Base, Types, CountTypeOK
  <2>3. Cardinality(counted \ Fated) = Cardinality(counted) - Cardinality(Fated)
    BY <2>2, CardSplit
  <2>4. Cardinality(Fated) = com + fai + amb
    <3> DEFINE some == WithFate("committed") \cup WithFate("failed")
    <3>1. Cardinality(some) = com + fai
      BY CardSplit DEF WithFate
    <3>2. /\ some \cap WithFate("ambiguous") = {} /\ some \in SUBSET Rows
          /\ WithFate("ambiguous") \in SUBSET Rows
      BY DEF WithFate
    <3>3. Fated = some \cup WithFate("ambiguous")
      BY <1>1 DEF Fated, WithFate, Placed, Base, Types, CountTypeOK, Outcomes
    <3> HIDE DEF some
    <3>4. Cardinality(Fated) = Cardinality(some) + amb
      BY <3>2, <3>3, CardSplit
    <3> QED
      BY <3>1, <3>4
  <2>5. com \in Nat /\ fai \in Nat /\ amb \in Nat /\ Cardinality(counted) \in Nat
    BY <2>2, CardSplit DEF WithFate
  <2>6. /\ pendingRowCount = Cardinality(counted \ Fated)
        /\ lifetime["accepted"] = Cardinality(counted)
    BY <1>1 DEF Tallied
  <2>7. \A r \in Rows : fate[r] # "none" => r \in counted
    BY <2>2 DEF Fated
  <2> HIDE DEF com, fai, amb
  <2>8. pendingRowCount + lifetime["committed"] + lifetime["failed"] + lifetime["ambiguous"]
          = lifetime["accepted"]
    BY <2>1, <2>3, <2>4, <2>5, <2>6
  <2> QED
    BY <2>1, <2>6, <2>7, <2>8 DEF RowsConserved
<1> QED
  BY <1>1, TallyAlways, PTL

-----------------------------------------------------------------------------
(* The bytes.  A row holds its reservation from the moment the budget      *)
(* grants it until the call gives it back, or its outcome is counted and   *)
(* its batch, if it had one, is over.                                      *)
InHand == Held \cup rows \cup InFlightRows

Holding(r) ==
    \/ call[r] = "acquiring"
    \/ call[r] = "queueing" /\ ack[r] # "sent"
    \/ ack[r] = "sent" /\ r \notin Taken
    \/ r \in InHand

Owing(r) == ack[r] = "waiting" \/ (ack[r] = "sent" /\ r \notin Fated)

BytesPlaced ==
    /\ \A r \in BP!ToSet(byteWaiters) : call[r] = "acquiring"
    /\ \A r \in reserved : Holding(r)
    /\ \A r \in Rows : Owing(r) => r \in reserved
    /\ InFlightRows \subseteq reserved

LEMMA InHandMoves ==
    ASSUME Placed, [Next]_vars
    PROVE  /\ \A r \in InHand \ InHand' :
                \/ \E S \in SUBSET Rows : Fail(S) /\ r \in S
                \/ \E t \in inFlight : BatchFinally(t) /\ r \in t.rows
           /\ InFlightRows' \subseteq InFlightRows \cup rows
           /\ \A r \in InFlightRows' :
                /\ \A S \in SUBSET Rows : Fail(S) => r \notin S
                /\ \A t \in inFlight : BatchFinally(t) => r \notin t.rows
<1> USE DEF Placed
<1> DEFINE Lost1(r) == \/ \E S \in SUBSET Rows : Fail(S) /\ r \in S
                       \/ \E t \in inFlight : BatchFinally(t) /\ r \in t.rows
           In(r, ts) == \E t \in ts : r \in t.rows
<1>1. /\ \A r : r \in InFlightRows <=> In(r, inFlight)
      /\ \A r : r \in InFlightRows' <=> In(r, inFlight')
  BY DEF InFlightRows
<1>2. /\ \A r \in InHand \ InHand' : Lost1(r)
      /\ InFlightRows' \subseteq InFlightRows \cup rows
  <2>1. CASE UNCHANGED inFlight /\ ((Stay \/ Take) \/ \E S \in SUBSET Rows : Fail(S))
    <3>1. InFlightRows' = InFlightRows
      BY <2>1 DEF InFlightRows
    <3> QED
      BY <2>1, <3>1 DEF Stay, Take, Fail, InHand
  <2>2. ASSUME NEW t \in inFlight, BatchFinally(t), inFlight' = inFlight \ {t}, Stay
        PROVE  /\ \A r \in InHand \ InHand' : Lost1(r)
               /\ InFlightRows' \subseteq InFlightRows \cup rows
    <3>1. \A r : In(r, inFlight') => In(r, inFlight)
      BY <2>2
    <3>2. \A r : In(r, inFlight) => In(r, inFlight') \/ r \in t.rows
      BY <2>2
    <3> QED
      BY <1>1, <2>2, <3>1, <3>2 DEF Stay, InHand
  <2>3. CASE Leave
    <3>1. NewBatch.rows = rows
      BY BatchesApart
    <3> HIDE DEF NewBatch
    <3>2. \A r : In(r, inFlight') <=> In(r, inFlight) \/ r \in rows
      BY <2>3, <3>1 DEF Leave
    <3> QED
      BY <1>1, <2>3, <3>2 DEF Leave, InHand
  <2>4. ASSUME NEW t \in inFlight, NEW o \in Outcomes, SettleRows(t, o)
        PROVE  /\ \A r \in InHand \ InHand' : Lost1(r)
               /\ InFlightRows' \subseteq InFlightRows \cup rows
    <3> DEFINE s == [t EXCEPT !.settled = TRUE]
    <3>1. s.rows = t.rows
      BY <2>4, OpenRowsMove DEF SettleRows
    <3>2. inFlight' = (inFlight \ {t}) \cup {s}
      BY <2>4 DEF SettleRows, Settled
    <3> HIDE DEF s
    <3>3. \A r : In(r, inFlight') <=> In(r, inFlight)
      BY <3>1, <3>2
    <3> QED
      BY <1>1, <2>4, <3>3 DEF SettleRows, InHand
  <2> QED
    BY <2>1, <2>2, <2>3, <2>4, RowMoves DEF RowMove, Stay, Take, Fail
<1>3. ASSUME NEW r \in InFlightRows', NEW S \in SUBSET Rows, Fail(S) PROVE r \notin S
  <2>1. PICK t \in inFlight : r \in t.rows
    BY <1>1, <1>3 DEF Fail
  <2>2. r \in OpenRows \/ r \in Fated
    BY <2>1, BatchesApart DEF RowsPlaced
  <2> QED
    BY <1>3, <2>2 DEF Fail, RowsPlaced, AtWorker
<1>4. ASSUME NEW r \in InFlightRows', NEW t \in inFlight, BatchFinally(t) PROVE r \notin t.rows
  <2>1. PICK u \in inFlight \ {t} : r \in u.rows
    BY <1>1, <1>4 DEF BatchFinally
  <2> QED
    BY <2>1 DEF RowsPlaced
<1> QED
  BY <1>2, <1>3, <1>4

LEMMA BudgetPlaces ==
    ASSUME BP!IInv
    PROVE  /\ BP!ToSet(byteWaiters) \subseteq Rows /\ reserved \subseteq Rows
           /\ BP!ToSet(byteWaiters) \cap reserved = {}
           /\ \A r : BP!Idle(r) <=> r \notin reserved /\ r \notin BP!ToSet(byteWaiters)
BY DEF BP!IInv, BP!TypeOK, BP!OnePlaceEach, BP!ToSet, BP!Idle

(* What a release does to one that is released. *)
LEMMA GivenBack ==
    ASSUME Placed, NEW S, NEW r \in S, r \in reserved, BP!ReleaseAll(S) \/ BP!ReleaseAndClose(S)
    PROVE  r \notin reserved'
BY BudgetConstants, BudgetPlaces, BP!ReleaseEffect DEF Placed, Base

(* A call that was granted its bytes takes them to the queue or gives them back. *)
LEMMA GrantedThrows ==
    ASSUME Placed, NEW r \in Rows, SendGranted(r)
    PROVE  /\ call'[r] = "threw" => BP!ReleaseAll({r})
           /\ call'[r] = "queueing" => r \in reserved'
<1>1. \A where : SetCall(r, where) => call'[r] = where
  BY DEF SetCall, Placed, Base, Types, CallerTypeOK
<1>2. r \in reserved
  BY DEF SendGranted
<1>3. CASE SetCall(r, "queueing") /\ UNCHANGED budgetVars
  BY <1>1, <1>2, <1>3 DEF budgetVars
<1>4. CASE SetCall(r, "threw") /\ GiveBack(r)
  BY <1>1, <1>4, SameBudget DEF GiveBack
<1> QED
  BY <1>3, <1>4 DEF SendGranted

(* Who comes to wait for bytes or to hold them. *)
LEMMA AskedFor ==
    ASSUME Placed, [Next]_vars
    PROVE  /\ \A r \in BP!ToSet(byteWaiters') :
                r \in BP!ToSet(byteWaiters) \/ call'[r] = "acquiring"
           /\ \A r \in reserved' :
                \/ r \in reserved \/ r \in BP!ToSet(byteWaiters)
                \/ call'[r] = "acquiring" \/ TrySendAccepted(r)
<1> USE DEF Placed, Base
<1> DEFINE Goal ==
           /\ \A r \in BP!ToSet(byteWaiters') :
                r \in BP!ToSet(byteWaiters) \/ call'[r] = "acquiring"
           /\ \A r \in reserved' :
                \/ r \in reserved \/ r \in BP!ToSet(byteWaiters)
                \/ call'[r] = "acquiring" \/ TrySendAccepted(r)
<1>1. ASSUME NEW r \in Rows, call'[r] = "acquiring", BP!Acquire(r) PROVE Goal
  BY <1>1, BudgetConstants, BP!AskEffect
<1>2. ASSUME NEW r \in Rows, TrySendAccepted(r), BP!TryAcquire(r) PROVE Goal
  <2>1. byteWaiters' = byteWaiters
    BY <1>2 DEF BP!TryAcquire, BP!Grant
  <2>2. reserved' \subseteq reserved \cup {r}
    BY <1>2, BudgetConstants, BP!AskEffect
  <2> QED
    BY <1>2, <2>1, <2>2
<1>3. ASSUME NEW r \in Rows, BP!Abort(r) PROVE Goal
  BY <1>3, BudgetConstants, BP!AbortEffect
<1>4. ASSUME NEW S, BP!ReleaseAll(S) \/ BP!ReleaseAndClose(S) PROVE Goal
  BY <1>4, BudgetConstants, BP!ReleaseEffect
<1>5. BP!Close => Goal
  BY BudgetConstants, BP!CloseEffect
<1>6. UNCHANGED BP!budgetVars => Goal
  BY DEF BP!budgetVars
<1> HIDE DEF Goal
<1>7. Goal
  BY <1>1, <1>2, <1>3, <1>4, <1>5, <1>6, BudgetMoves DEF BudgetMove
<1> QED
  BY <1>7 DEF Goal

(* Who ceases to hold bytes. *)
LEMMA Released ==
    ASSUME Placed, [Next]_vars, NEW r \in reserved, r \notin reserved'
    PROVE  \/ call[r] = "acquiring"
           \/ ack[r] = "refused"
           \/ \E S \in SUBSET Rows : Fail(S) /\ r \in S
           \/ \E t \in inFlight : BatchFinally(t) /\ r \in t.rows
<1> USE DEF Placed, Base
<1>1. ASSUME NEW q \in Rows, BP!Acquire(q) \/ BP!TryAcquire(q) \/ BP!Abort(q) PROVE FALSE
  BY <1>1, BudgetConstants, BP!AskEffect, BP!AbortEffect
<1>2. ASSUME NEW S, BP!ReleaseAll(S) \/ BP!ReleaseAndClose(S) PROVE r \in S
  BY <1>2, BudgetConstants, BP!ReleaseEffect
<1>3. ~BP!Close /\ ~UNCHANGED BP!budgetVars
  BY BudgetConstants, BP!CloseEffect DEF BP!budgetVars
<1>4. SendGranted(r) => call[r] = "acquiring"
  BY DEF SendGranted
<1>5. SendBounced(r) => ack[r] = "refused"
  BY DEF SendBounced
<1>6. WorkerUnwind => Lost \in SUBSET Rows /\ Fail(Lost)
  BY UnwindMoves
<1>7. \/ \E q \in Rows : BP!ReleaseAll({q}) /\ (SendGranted(q) \/ SendBounced(q))
      \/ \E S \in SUBSET Rows : BP!ReleaseAll(S) /\ Fail(S)
      \/ \E t \in inFlight : BP!ReleaseAll(t.rows) /\ BatchFinally(t)
      \/ WorkerUnwind /\ BP!ReleaseAndClose(Lost)
  BY <1>1, <1>3, BudgetMoves DEF BudgetMove
<1>8. ASSUME NEW q \in Rows, BP!ReleaseAll({q}) PROVE q = r
  BY <1>2, <1>8
<1> QED
  BY <1>2, <1>4, <1>5, <1>6, <1>7, <1>8

(* A call that waits for bytes goes on waiting until it has them. *)
LEMMA WaitersWait ==
    ASSUME Placed, [Next]_vars, NEW r \in BP!ToSet(byteWaiters), call[r] = "acquiring"
    PROVE  call'[r] = "acquiring"
<1>1. r \in Rows /\ r \notin reserved /\ ~BP!Idle(r)
  BY BudgetPlaces DEF Placed, Base
<1>2. ~SendGranted(r) /\ ~SendRefused(r)
  BY <1>1, SameBudget DEF SendGranted, SendRefused
<1>3. CallMove(r)
  BY <1>1, CallMoves DEF Placed
<1> QED
  BY <1>2, <1>3 DEF CallMove, SendCall, SendReturns, SendBounced, TrySendAccepted, TrySendDropped

(* Rows the worker has taken were sent. *)
LEMMA SentFirst ==
    ASSUME Placed, [Next]_vars
    PROVE  \A r \in Taken' \ Taken : ack[r] = "sent"
<1> USE DEF Placed, Base
<1>1. CASE WorkerReceived
  <2>1. delivered \in Commands => delivered \in QP!Sent
    BY <1>1, WorkerQueue, QueueConstants, QP!ConsumeEffect
  <2> QED
    BY <1>1, <2>1, TakenMoves, Names DEF QP!Sent
<1>2. CASE WorkerUnwind
  <2>1. \A r \in ToSet(items) : ack[r] = "sent" /\ r \in Commands
    BY QueueTypes, SameSets DEF QP!IInv, QP!Place
  <2> QED
    BY <1>2, <2>1, TakenMoves
<1> QED
  BY <1>1, <1>2, TakenMoves

LEMMA HoldingKept ==
    ASSUME Placed, BytesPlaced, [Next]_vars, NEW r \in reserved'
    PROVE  Holding(r)'
<1> USE DEF Placed
<1>1. r \in Rows
  <2>1. (BP!IInv => reserved \subseteq Rows)'
    BY BudgetPlaces, PTL
  <2> QED
    BY <2>1, BaseKept DEF Base
<1>2. CallMove(r)
  BY <1>1, CallMoves
<1>3. ack[r] = "sent" => ack'[r] = "sent"
  BY <1>1, AnswersStay, Names
<1>4. CASE r \in BP!ToSet(byteWaiters) \/ call'[r] = "acquiring"
  BY <1>4, WaitersWait DEF BytesPlaced, Holding
<1>5. ASSUME TrySendAccepted(r) PROVE ack'[r] = "sent" /\ r \notin Taken'
  <2>1. ack[r] = "none" /\ Q!TrySend(r)
    BY <1>1, <1>5 DEF TrySendAccepted, Base, Untouched
  <2>2. ack'[r] = "sent"
    BY <1>1, <2>1, SameQueue, QueueConstants, Names, QP!TrySendSent DEF Base
  <2> QED
    BY <1>1, <2>1, <2>2, SentFirst, Names DEF Taken, QP!Gone
<1>6. CASE r \in reserved
  <2>1. r \notin BP!ToSet(byteWaiters)
    BY <1>6, BudgetPlaces DEF Base
  <2>2. /\ ~(SendGranted(r) /\ call'[r] = "threw") /\ ~SendBounced(r)
        /\ \A S \in SUBSET Rows : Fail(S) => r \notin S
        /\ \A t \in inFlight : BatchFinally(t) => r \notin t.rows
    BY <1>1, <1>6, GivenBack, GrantedThrows, SameBudget
    DEF SendBounced, GiveBack, Fail, BatchFinally
  <2>3. CASE call[r] = "acquiring"
    <3>1. ack[r] = "none" /\ r \notin Taken'
      BY <1>1, <2>3, SentFirst, Names DEF Base, Untouched, Taken, QP!Gone
    <3>2. ~SendRefused(r)
      BY <1>6, SameBudget, BudgetPlaces DEF SendRefused, Base
    <3>3. call'[r] = "acquiring" \/ (call'[r] = "queueing" /\ SendGranted(r))
      BY <1>2, <2>2, <2>3, <3>2 DEF CallMove, SendCall, SendReturns, SendBounced,
           TrySendAccepted, TrySendDropped
    <3> QED
      BY <3>1, <3>3 DEF Holding
  <2>4. CASE call[r] = "queueing" /\ ack[r] # "sent"
    <3>1. call'[r] = "queueing"
      BY <1>2, <2>2, <2>4 DEF CallMove, SendCall, SendGranted, SendRefused, SendReturns,
           TrySendAccepted, TrySendDropped
    <3>2. r \notin Taken'
      BY <1>1, <2>4, SentFirst, Names DEF Taken, QP!Gone
    <3> QED
      BY <3>1, <3>2 DEF Holding
  <2>5. CASE r \in InHand
    BY <2>2, <2>5, InHandMoves DEF Holding
  <2>6. CASE ack[r] = "sent" /\ r \notin Taken
    <3>1. CASE r \notin Taken'
      BY <1>3, <2>6, <3>1 DEF Holding
    <3>2. CASE r \in Taken'
      <4>1. r \notin Fated
        BY <2>6 DEF RowsPlaced
      <4>2. r \notin Fated'
        <5>1. RowMove /\ fate \in [Rows -> Outcomes \cup {"none"}]
          BY RowMoves DEF Base, Types, CountTypeOK
        <5>2. ASSUME NEW t \in inFlight, NEW o \in Outcomes, SettleRows(t, o) PROVE FALSE
          BY <2>6, <3>2, <5>2 DEF SettleRows
        <5>3. ASSUME NEW S \in SUBSET Rows, Fail(S) PROVE FALSE
          BY <2>2, <2>6, <3>2, <5>3 DEF Fail
        <5> QED
          BY <4>1, <5>1, <5>2, <5>3, CountsFate DEF RowMove, Stay, Take, Leave, countVars
      <4>3. r \in AtWorker'
        BY <3>2, <4>2, RowsPlacedKept DEF RowsPlaced
      <4>4. AtWorker' \subseteq InHand'
        BY DEF AtWorker, InHand, OpenRows, InFlightRows
      <4> QED
        BY <4>3, <4>4 DEF Holding
    <3> QED
      BY <3>1, <3>2
  <2> QED
    BY <1>6, <2>3, <2>4, <2>5, <2>6 DEF BytesPlaced, Holding
<1> QED
  BY <1>4, <1>5, <1>6, AskedFor DEF Holding

LEMMA OwingKept ==
    ASSUME Placed, BytesPlaced, [Next]_vars, NEW r \in Rows, Owing(r)'
    PROVE  r \in reserved'
<1> USE DEF Placed
<1>1. CallMove(r)
  BY CallMoves
<1>2. r \notin Fated'
  <2>1. r \in Fated' => ack'[r] = "sent"
    BY RowsPlacedKept DEF RowsPlaced, Taken, QP!Gone
  <2> QED
    BY <2>1 DEF Owing
<1>3. CASE Owing(r)
  <2>1. r \in reserved /\ ack[r] \in {"waiting", "sent"}
    BY <1>3 DEF Owing, BytesPlaced
  <2>2. call[r] # "acquiring" /\ ack[r] # "refused"
    BY <2>1 DEF Base, Untouched
  <2>3. \A S \in SUBSET Rows : Fail(S) => r \notin S
    BY <1>2, FatedStays
  <2>4. \A t \in inFlight : BatchFinally(t) => r \notin t.rows
    BY <1>2, FatedStays DEF BatchFinally, RowsPlaced
  <2> QED
    BY <2>1, <2>2, <2>3, <2>4, Released
<1>4. CASE ~Owing(r)
  <2>1. ack'[r] # ack[r]
    BY <1>2, <1>4, FatedStays DEF Owing
  <2>2. \/ SendGranted(r) /\ call'[r] = "queueing"
        \/ TrySendAccepted(r)
    BY <1>1, <1>4, <2>1 DEF CallMove, Answered, Owing
  <2>3. CASE SendGranted(r) /\ call'[r] = "queueing"
    BY <1>1, <2>3, GrantedThrows
  <2>4. CASE TrySendAccepted(r)
    BY <2>4, SameBudget, BudgetConstants, BP!AskEffect DEF TrySendAccepted, Base
  <2> QED
    BY <2>2, <2>3, <2>4
<1> QED
  BY <1>3, <1>4

LEMMA BytesPlacedKept ==
    ASSUME Placed, BytesPlaced, [Next]_vars
    PROVE  BytesPlaced'
<1> USE DEF Placed
<1>1. \A r \in BP!ToSet(byteWaiters') : call'[r] = "acquiring"
  BY AskedFor, WaitersWait DEF BytesPlaced
<1>2. \A r \in reserved' : Holding(r)'
  BY HoldingKept
<1>3. \A r \in Rows : Owing(r)' => r \in reserved'
  BY OwingKept
<1>4. ASSUME NEW r \in InFlightRows' PROVE r \in reserved'
  <2>1. r \in InFlightRows \cup rows
    BY <1>4, InHandMoves
  <2>2. r \in Rows
    BY <2>1, BatchesApart DEF InFlightRows, Base, Types, WorkerTypeOK
  <2>3. ack[r] = "sent" /\ r \in Taken
    <3>1. r \in Taken
      BY <2>1, <2>2 DEF InFlightRows, RowsPlaced, AtWorker, OpenRows
    <3> QED
      BY <3>1 DEF Taken, QP!Gone
  <2>4. r \in reserved
    <3>1. r \in rows => r \notin Fated
      BY DEF RowsPlaced, AtWorker
    <3> QED
      BY <2>1, <2>2, <2>3, <3>1 DEF BytesPlaced, Owing
  <2>5. call[r] # "acquiring" /\ ack[r] # "refused"
    BY <2>2, <2>3 DEF Base, Untouched
  <2> QED
    BY <1>4, <2>4, <2>5, InHandMoves, Released
<1> QED
  BY <1>1, <1>2, <1>3, <1>4 DEF BytesPlaced

LEMMA BytesAlways == Spec => [](Placed /\ BytesPlaced)
<1>1. Init => BytesPlaced
  <2> SUFFICES ASSUME Init PROVE BytesPlaced
    OBVIOUS
  <2>1. /\ reserved = {} /\ byteWaiters = <<>> /\ inFlight = {}
        /\ \A c \in Commands : ack[c] = "none"
    BY DEF Init, Q!Init, B!Init
  <2>2. BP!ToSet(byteWaiters) = {} /\ InFlightRows = {}
    BY <2>1 DEF BP!ToSet, InFlightRows
  <2> QED
    BY <2>1, <2>2, Names DEF BytesPlaced, Owing
<1> QED
  BY <1>1, PlacedAlways, BytesPlacedKept, PTL DEF Spec

(* Each reservation belongs to a row still on its way and every row        *)
(* without an outcome has its own: no byte is returned twice and none is   *)
(* kept for a row that was lost.                                           *)
THEOREM BytesFollowRows == Spec => []BytesHeldForRowsOnTheWay
<1>1. ASSUME Placed, BytesPlaced PROVE BytesHeldForRowsOnTheWay
  <2> USE <1>1 DEF Placed
  <2>1. available + B!Total(reserved) = MaxPendingBytes /\ available >= 0
    <3>1. B!Total(reserved) = BP!Total(reserved)
      BY Zenon DEF B!Total, B!PermitsOf, B!Cardinality, BP!Total, BP!PermitsOf, BP!Cardinality
    <3>2. available + BP!Total(reserved) = MaxPendingBytes /\ available >= 0
      BY DEF Base, BP!IInv, BP!PermitsConserved
    <3> QED
      BY <3>1, <3>2, Zenon
  <2>2. ASSUME NEW r \in reserved PROVE OnTheWay(r)
    <3>1. r \in Rows /\ r \notin BP!ToSet(byteWaiters)
      BY BudgetPlaces DEF Base
    <3>2. r \notin ToSet(byteWaiters)
      BY <3>1, Zenon DEF ToSet, BP!ToSet
    <3>3. ASSUME ack[r] = "sent", r \notin Taken PROVE r \in ToSet(Q!Pending)
      <4>1. r \in QP!ToSet(QP!Pending)
        BY <3>1, <3>3, QueueConstants, Names, QP!PendingParts DEF Base, Taken
      <4> QED
        BY <4>1, SameSets
    <3>4. r \in InHand => OnTheWay(r)
      BY DEF InHand, InFlightRows, Held, Dispatching, OnTheWay
    <3>5. Holding(r)
      BY DEF BytesPlaced
    <3> QED
      BY <3>2, <3>3, <3>4, <3>5 DEF Holding, OnTheWay
  <2>3. ASSUME NEW r \in counted, fate[r] = "none" PROVE r \in reserved
    <3>1. r \in Rows /\ ack[r] = "sent"
      BY DEF RowsPlaced, Base, Types, CountTypeOK
    <3> QED
      BY <2>3, <3>1 DEF BytesPlaced, Owing, Fated
  <2> QED
    BY <2>1, <2>2, <2>3 DEF BytesHeldForRowsOnTheWay
<1> QED
  BY <1>1, BytesAlways, PTL

(* When the worker is done nothing is left behind and nothing gets in:     *)
(* every row has its outcome, nothing is queued, and the only bytes still  *)
(* held are those of calls about to return them.                           *)
THEOREM NothingIsLeft == Spec => []Quiescent
<1>1. ASSUME Placed, BytesPlaced, Ending, Tallied PROVE Quiescent
  <2> USE <1>1 DEF Placed
  <2> SUFFICES ASSUME workerDone
               PROVE  /\ rows = {} /\ inFlight = {} /\ Q!Pending = <<>>
                      /\ ~accepting /\ queueClosed /\ budgetClosed /\ byteWaiters = <<>>
                      /\ \A r \in reserved : call[r] \in {"acquiring", "queueing"}
                      /\ pendingRowCount = 0
    BY DEF Quiescent
  <2>1. /\ rows = {} /\ inFlight = {} /\ QP!Pending = <<>>
        /\ ~accepting /\ queueClosed /\ budgetClosed
    BY NothingLeft
  <2>2. byteWaiters = <<>>
    BY <2>1 DEF Base, BP!IInv, BP!HeadDoesNotFit
  <2>3. \A r \in reserved : call[r] \in {"acquiring", "queueing"}
    <3> SUFFICES ASSUME NEW r \in reserved PROVE call[r] \in {"acquiring", "queueing"}
      OBVIOUS
    <3>1. r \in Rows
      BY BudgetPlaces DEF Base
    <3>2. ~(ack[r] = "sent" /\ r \notin Taken)
      BY <2>1, <3>1, QueueConstants, Names, QP!PendingParts DEF Base, Taken, QP!ToSet
    <3>3. InHand = {}
      BY <2>1 DEF InHand, Held, Dispatching, InFlightRows, workerDone
    <3> QED
      BY <3>2, <3>3 DEF BytesPlaced, Holding
  <2>4. pendingRowCount = 0
    <3>1. counted \ Fated = {}
      BY <2>1, AllFated DEF workerDone, Fated, Base, Types, CountTypeOK
    <3> QED
      BY <3>1, FS_EmptySet DEF Tallied
  <2> QED
    BY <2>1, <2>2, <2>3, <2>4, SameSets
<1> QED
  BY <1>1, BytesAlways, EndingAlways, TallyAlways, PTL

-----------------------------------------------------------------------------
(* What a barrier covers.  A row offered before it is ahead of it in the   *)
(* queue, so it is no longer queued when the worker completes the barrier, *)
(* and settled when every request is.                                      *)
Covered(b) == \A r \in covers[b] : r \in Fated \/ ack[r] = "refused"

Covering ==
    /\ \A b \in Barriers, r \in Rows :
         r \in covers[b] => ack[r] # "none" /\ ~QP!Ahead(QP!Pending, b, r)
    /\ \A b \in Finishing : covers[b] \cap QP!ToSet(QP!Pending) = {}
    /\ \A b \in Barriers : ack[b] = "none" => covers[b] = {}
    /\ \A b \in Barriers : barrier[b].pc \in {"resolved", "ok"} => Covered(b)

LEMMA CoversMoves ==
    ASSUME Base, [Next]_vars, NEW b \in Barriers
    PROVE  \/ covers'[b] = covers[b]
           \/ /\ Callers /\ barrier[b].pc = "new" /\ barrier'[b].pc = "called"
              /\ covers'[b] = Offered /\ QP!Offering(b)
<1> USE Names
<1>1. covers \in [Barriers -> SUBSET Rows]
  BY DEF Base, Types, CallerTypeOK
<1>2. ASSUME NEW c \in Barriers, barrier[c].pc = "new", EnterBarrier(c), Callers
      PROVE  \/ covers'[b] = covers[b]
             \/ /\ barrier[b].pc = "new" /\ barrier'[b].pc = "called"
                /\ covers'[b] = Offered /\ QP!Offering(b)
  <2>1. Q!New(c) /\ Q!Send(c)
    BY <1>2 DEF EnterBarrier, Base, Untouched, Q!New
  <2>2. QP!Offering(c)
    BY <2>1, SameQueue DEF QP!Offering
  <2>3. barrier'[c].pc = "called"
    BY <1>2 DEF EnterBarrier, Base, Types, CallerTypeOK
  <2>4. covers'[b] = IF b = c THEN Offered ELSE covers[b]
    BY <1>1, <1>2 DEF EnterBarrier
  <2> QED
    BY <1>2, <2>2, <2>3, <2>4
<1>3. CASE Callers
  <2>1. \/ UNCHANGED covers
        \/ \E c \in Barriers : barrier[c].pc = "new" /\ EnterBarrier(c)
    BY <1>3 DEF Callers, User, Resume, ResumeBarrier, SendCall, TrySendAccepted,
         TrySendDropped, SendAbort, FlushCall, FlushAbort, ShutdownCall, ShutdownUnstarted,
         SendGranted, SendRefused, SendReturns, SendBounced, BarrierRefused, TaskAwaited,
         callerVars
  <2> QED
    BY <1>2, <1>3, <2>1
<1>4. CASE ~Callers
  BY <1>4 DEF Next, Callers, Worker, WorkerTop, WorkerReceived, WorkerCapacity, PassCircuit,
       StartProbe, WorkerSend, WorkerSettle, WorkerUnwind, Requests, Settle, BatchCommits,
       BatchFails, BatchFinally, Timers, DeadlinePasses, ReceiveTimeout, CooldownElapses,
       callerVars, vars
<1> QED
  BY <1>3, <1>4

LEMMA AheadIsPending ==
    \A s, c, d : QP!Ahead(s, c, d) => c \in QP!ToSet(s) /\ d \in QP!ToSet(s)
BY DEF QP!Ahead, QP!ToSet

(* A barrier just called: what was offered is ahead of it. *)
LEMMA CoversStart ==
    ASSUME Placed, [Next]_vars, NEW b \in Barriers, NEW r \in Offered, Callers,
           barrier[b].pc = "new", QP!Offering(b)
    PROVE  ack'[r] # "none" /\ ~QP!Ahead(QP!Pending', b, r)
<1> USE Names DEF Placed, Base
<1>1. r \in Rows /\ ack[r] # "none" /\ ack[b] = "none"
  BY DEF Offered, CallsPlaced, RowsPlaced, Untouched
<1>2. ack'[r] # "none"
  BY <1>1, AnswersStay
<1>3. b \notin QP!ToSet(QP!Pending)
  BY <1>1, PendingAcked
<1>4. QP!Ahead(QP!Pending', b, r) => QP!Ahead(QP!Pending, b, r) \/ r = b
  BY <1>1, QueueConstants, QP!JoinsBehind
<1> QED
  BY <1>1, <1>2, <1>3, <1>4, AheadIsPending

(* Rows a barrier covers never come behind it, nor back into the queue. *)
LEMMA CoversStay ==
    ASSUME Placed, [Next]_vars, NEW r \in Rows, ack[r] # "none"
    PROVE  /\ \A b \in Barriers : QP!Ahead(QP!Pending', b, r) => QP!Ahead(QP!Pending, b, r)
           /\ r \in QP!ToSet(QP!Pending') => r \in QP!ToSet(QP!Pending)
<1> USE Names DEF Placed, Base
<1>1. CASE QP!OnlyLeaves
  BY <1>1 DEF QP!OnlyLeaves
<1>2. ASSUME NEW c \in Commands, QP!Offering(c)
      PROVE  /\ \A b \in Barriers : QP!Ahead(QP!Pending', b, r) => QP!Ahead(QP!Pending, b, r)
             /\ r \in QP!ToSet(QP!Pending') => r \in QP!ToSet(QP!Pending)
  <2>1. r # c
    BY <1>2 DEF QP!Offering, QP!New
  <2> QED
    BY <1>2, <2>1, QueueConstants, QP!JoinsBehind
<1> QED
  BY <1>1, <1>2, AheadMoves

(* The barrier that is completed covers rows with an outcome. *)
LEMMA CoveredAtEnd ==
    ASSUME Placed, Covering, WorkerSettle, cmd \in Barriers
    PROVE  Covered(cmd)
<1> USE DEF Placed
<1>1. cmd \in Finishing /\ AtWorker = {}
  BY DEF WorkerSettle, AllSettled, Finishing, WorkerPlace, AtWorker, Held, Dispatching, OpenRows
<1>2. ASSUME NEW r \in covers[cmd] PROVE r \in Fated \/ ack[r] = "refused"
  <2>1. r \in Rows /\ ack[r] # "none" /\ r \notin QP!ToSet(QP!Pending)
    BY <1>1 DEF Covering, Base, Types, CallerTypeOK
  <2>2. ack[r] \in {"none", "waiting", "sent", "refused"}
    BY <2>1, Names DEF Base, QP!IInv, QP!Shape, QP!TypeOK
  <2>3. ack[r] = "sent" => r \in Taken
    BY <2>1, QueueConstants, Names, QP!PendingParts DEF Base, Taken
  <2>4. ack[r] # "waiting"
    BY <2>1, QueueConstants, Names, QP!PendingParts DEF Base
  <2> QED
    BY <1>1, <2>1, <2>2, <2>3, <2>4 DEF RowsPlaced
<1> QED
  BY <1>2 DEF Covered

LEMMA CoveringKept ==
    ASSUME Placed, Covering, [Next]_vars
    PROVE  Covering'
<1> USE Names DEF Placed
<1>1. covers \in [Barriers -> SUBSET Rows]
  BY DEF Base, Types, CallerTypeOK
<1>2. ASSUME NEW b \in Barriers, NEW r \in Rows, r \in covers'[b]
      PROVE  ack'[r] # "none" /\ ~QP!Ahead(QP!Pending', b, r)
  <2>1. CASE covers'[b] = covers[b]
    BY <1>2, <2>1, CoversStay, AnswersStay DEF Covering
  <2>2. CASE Callers /\ barrier[b].pc = "new" /\ covers'[b] = Offered /\ QP!Offering(b)
    BY <1>2, <2>2, CoversStart
  <2> QED
    BY <2>1, <2>2, CoversMoves
<1>3. ASSUME NEW b \in Finishing' PROVE covers'[b] \cap QP!ToSet(QP!Pending') = {}
  <2>1. b \in Barriers
    BY FinishingMoves
  <2>2. CASE b \in Finishing
    <3>1. ack[b] = "sent"
      BY <2>2 DEF LastInvited
    <3>2. covers'[b] = covers[b]
      BY <2>1, <3>1, CoversMoves DEF Base, Untouched
    <3>3. \A r \in covers[b] : r \in Rows /\ ack[r] # "none" /\ r \notin QP!ToSet(QP!Pending)
      BY <1>1, <2>1, <2>2 DEF Covering
    <3> QED
      BY <3>2, <3>3, CoversStay
  <2>3. CASE WorkerReceived /\ b = delivered
    <3>1. QP!Consume /\ ack[b] = "sent"
      BY <2>1, <2>3, WorkerQueue, QueueConstants, QP!ConsumeEffect DEF Base, QP!Sent
    <3>2. covers'[b] = covers[b]
      BY <2>1, <3>1, CoversMoves DEF Base, Untouched
    <3>3. \A d \in QP!ToSet(QP!Pending') : QP!Ahead(QP!Pending, b, d)
      BY <2>1, <2>3, <3>1, QueueConstants, QP!TakesFirst DEF Base
    <3>4. \A r \in covers[b] : r \in Rows /\ ~QP!Ahead(QP!Pending, b, r)
      BY <1>1, <2>1 DEF Covering
    <3> QED
      BY <3>2, <3>3, <3>4
  <2> QED
    BY <2>2, <2>3, FinishingMoves
<1>4. ASSUME NEW b \in Barriers, ack'[b] = "none" PROVE covers'[b] = {}
  <2>1. ack[b] = "none"
    BY <1>4, AnswersStay
  <2>2. ~QP!Offering(b)
    BY <1>4, QueueConstants, QP!OfferEffect DEF QP!Offering, Base
  <2> QED
    BY <2>1, <2>2, CoversMoves DEF Covering
<1>5. ASSUME NEW b \in Barriers, barrier'[b].pc \in {"resolved", "ok"} PROVE Covered(b)'
  <2>1. covers'[b] = covers[b]
    BY <1>5, CoversMoves
  <2>2. Covered(b)
    <3>1. CASE barrier[b].pc \in {"resolved", "ok"}
      BY <3>1 DEF Covering
    <3>2. CASE barrier[b].pc \notin {"resolved", "ok"}
      <4>1. WorkerSettle /\ b = cmd
        BY <1>5, <3>2, BarrierMoves DEF BarrierMove, RejectedAs
      <4> QED
        BY <4>1, CoveredAtEnd
    <3> QED
      BY <3>1, <3>2
  <2>3. \A r \in covers[b] : ack[r] = "refused" => ack'[r] = "refused"
    BY <1>1, AnswersStay
  <2> QED
    BY <2>1, <2>2, <2>3, FatedStays DEF Covered
<1> QED
  BY <1>2, <1>3, <1>4, <1>5 DEF Covering

LEMMA CoveringAlways == Spec => [](Placed /\ Covering)
<1>1. Init => Covering
  BY DEF Init, Covering, Finishing, Dispatching
<1> QED
  BY <1>1, PlacedAlways, CoveringKept, PTL DEF Spec

(* A barrier that resolved has covered every row offered before it was     *)
(* called: the row has its outcome, unless the queue turned it away.       *)
THEOREM BarriersCover == Spec => []BarrierCovers
<1>1. ASSUME Placed, Covering PROVE BarrierCovers
  <2> SUFFICES ASSUME NEW b \in Barriers, barrier[b].pc \in {"resolved", "ok"},
                      NEW r \in covers[b]
               PROVE  fate[r] # "none" \/ (r \notin counted /\ ack[r] = "refused")
    BY DEF BarrierCovers
  <2>1. r \in Fated \/ ack[r] = "refused"
    BY <1>1 DEF Covering, Covered
  <2>2. ack[r] = "refused" => r \notin counted
    BY <1>1 DEF Placed, RowsPlaced
  <2> QED
    BY <2>1, <2>2 DEF Fated
<1> QED
  BY <1>1, CoveringAlways, PTL

-----------------------------------------------------------------------------
(* The reports.  What is counted since the last report accounts for every  *)
(* row the worker took, but for those still with it; and no report is made *)
(* while any is.                                                           *)
Accounted ==
    interval["accepted"] =
      interval["committed"] + interval["failed"] + interval["ambiguous"] + Cardinality(AtWorker)

Balance ==
    FailurePolicy = "continue" => Accounted /\ Balanced(reported) /\ Balanced(unobserved)

LEMMA ReportsMove ==
    ASSUME Base, [Next]_vars
    PROVE  \/ UNCHANGED reportVars /\ (WorkerSettle => UNCHANGED interval)
           \/ WorkerSettle /\ fatal = "none" /\ cmd \in Barriers /\ ResolveBarrier(cmd)
<1>1. CASE Callers
  <2>1. ~WorkerSettle \/ UNCHANGED interval
    BY <1>1, CallersFrame
  <2> QED
    BY <1>1, <2>1, CallersFrame DEF reportVars
<1>2. CASE WorkerSettle
  <2>1. fatal # "none" => UNCHANGED <<interval, reportVars>>
    BY <1>2 DEF WorkerSettle
  <2>2. fatal = "none" => ResolveBarrier(cmd)
    BY <1>2 DEF WorkerSettle
  <2>3. cmd \in Barriers
    BY <1>2 DEF WorkerSettle, Base, Types, WorkerTypeOK
  <2> QED
    BY <1>2, <2>1, <2>2, <2>3 DEF reportVars
<1>3. CASE ~WorkerSettle /\ ~Callers
  BY <1>3 DEF Next, Callers, Worker, WorkerTop, WorkerReceived, WorkerCapacity, PassCircuit,
       StartProbe, WorkerSend, WorkerUnwind, Requests, Settle, BatchCommits, BatchFails,
       BatchFinally, Timers, DeadlinePasses, ReceiveTimeout, CooldownElapses, reportVars, vars
<1> QED
  BY <1>1, <1>2, <1>3

LEMMA ReportBalanced ==
    ASSUME Base, Balance, FailurePolicy = "continue", WorkerSettle, ResolveBarrier(cmd),
           rows = {}
    PROVE  /\ interval' = Zero
           /\ Balanced(reported') /\ Balanced(unobserved')
<1> DEFINE d == AtLeastZero(barrier[cmd].droppedAt - reportedDropped)
           out == Plus(Plus(interval, unobserved), Count("dropped", d))
<1>1. Output(barrier[cmd].droppedAt) = out
  BY StreamAssumption DEF Output, Carried
<1>2. interval \in Counts /\ unobserved \in Counts /\ reported \in Counts
  BY DEF Base, Types, CountTypeOK
<1>3. AtWorker = {}
  BY DEF AtWorker, Held, Dispatching, OpenRows, WorkerSettle, AllSettled
<1>4. interval["accepted"] = interval["committed"] + interval["failed"] + interval["ambiguous"]
  <2>1. Cardinality(AtWorker) = 0
    BY <1>3, FS_EmptySet
  <2>2. \A f \in Fields : interval[f] \in Nat
    BY <1>2, CountsApplied
  <2> QED
    BY <2>1, <2>2 DEF Balance, Accounted, Fields
<1>5. \A f \in Fields \ {"dropped"} : out[f] = interval[f] + unobserved[f]
  <2>1. \A f \in Fields : Plus(interval, unobserved)[f] = interval[f] + unobserved[f]
    BY CountsApplied
  <2>2. \A f \in Fields \ {"dropped"} : Count("dropped", d)[f] = 0
    BY CountsApplied
  <2>3. \A f \in Fields : out[f] = Plus(interval, unobserved)[f] + Count("dropped", d)[f]
    BY CountsApplied
  <2>4. \A f \in Fields : interval[f] \in Nat /\ unobserved[f] \in Nat
    BY <1>2, CountsApplied
  <2> HIDE DEF out, d
  <2> QED
    BY <2>1, <2>2, <2>3, <2>4
<1> HIDE DEF out
<1>6. \A f \in Fields : interval[f] \in Nat /\ unobserved[f] \in Nat /\ reported[f] \in Nat
  BY <1>2, CountsApplied
<1>7. {"accepted", "committed", "failed", "ambiguous"} \subseteq Fields \ {"dropped"}
  BY DEF Fields
<1>8. Balanced(out)
  BY <1>4, <1>5, <1>6, <1>7 DEF Balanced, Balance
<1>9. Balanced(Plus(reported, out))
  <2>1. \A f \in Fields : Plus(reported, out)[f] = reported[f] + out[f]
    BY CountsApplied
  <2> QED
    BY <1>5, <1>6, <1>7, <1>8, <2>1 DEF Balanced, Balance
<1>10. Balanced(Zero)
  BY <1>7, CountsApplied DEF Balanced
<1> QED
  BY <1>1, <1>8, <1>9, <1>10 DEF ResolveBarrier, Balance

LEMMA AccountedKept ==
    ASSUME Placed, Ending, Errors, Accounted, FailurePolicy = "continue", [Next]_vars,
           UNCHANGED interval \/ ~WorkerSettle
    PROVE  Accounted'
<1> USE DEF Placed
<1>1. /\ \A f \in Fields : interval[f] \in Nat
      /\ {"accepted", "committed", "failed", "ambiguous"} \subseteq Fields
  BY CountsApplied DEF Base, Types, CountTypeOK, Fields
<1>2. AtWorker \in SUBSET Rows
  BY DEF AtWorker, Held, OpenRows, Base, Types, WorkerTypeOK
<1>3. Cardinality(AtWorker) \in Nat
  BY <1>2, CardSplit
<1>4. CASE Stay
  <2>1. OpenRows' = OpenRows
    BY <1>4, OpenRowsMove DEF Stay
  <2> QED
    BY <1>4, <2>1 DEF Stay, AtWorker, Accounted
<1>5. CASE Take
  <2>1. OpenRows' = OpenRows
    BY <1>5, OpenRowsMove DEF Take
  <2>2. AtWorker' = AtWorker \cup {delivered} /\ delivered \notin AtWorker /\ delivered \in Rows
    BY <1>5, <2>1 DEF Take, AtWorker, RowsPlaced
  <2>3. Cardinality(AtWorker') = Cardinality(AtWorker) + 1
    <3>1. {delivered} \in SUBSET Rows /\ AtWorker \cap {delivered} = {}
      BY <2>2
    <3>2. Cardinality(AtWorker \cup {delivered}) = Cardinality(AtWorker) + Cardinality({delivered})
      BY <1>2, <3>1, CardSplit
    <3> QED
      BY <2>2, <3>2, FS_Singleton
  <2>4. \A f \in Fields : interval'[f] = interval[f] + (IF f = "accepted" THEN 1 ELSE 0)
    BY <1>1, <1>5, CountsApplied DEF Take
  <2> QED
    BY <1>1, <1>3, <2>3, <2>4 DEF Accounted
<1>6. CASE Leave
  <2>1. AtWorker' = AtWorker
    BY <1>6, OpenRowsMove DEF Leave, AtWorker
  <2> QED
    BY <1>6, <2>1 DEF Leave, countVars, Accounted
<1>7. CASE WorkerUnwind
  <2>1. fatal = "none" /\ Lost = {} /\ Fail({})
    BY <1>7, NothingToLose, UnwindMoves DEF Errors
  <2>2. AtWorker' = AtWorker
    BY <2>1, OpenRowsMove DEF Fail, AtWorker
  <2>3. interval' = Plus(interval, Count("failed", 0))
    BY <2>1, FS_EmptySet DEF Fail, CountLocalFailure
  <2>4. \A f \in Fields : interval'[f] = interval[f]
    BY <1>1, <2>3, CountsApplied
  <2> QED
    BY <1>1, <2>2, <2>4 DEF Accounted
<1>8. ASSUME NEW S \in SUBSET Rows, Fail(S), ~WorkerUnwind PROVE FALSE
  BY <1>8 DEF Fail, Errors
<1>9. ASSUME NEW t \in inFlight, NEW o \in Outcomes, SettleRows(t, o) PROVE Accounted'
  <2> DEFINE n == Cardinality(t.rows)
  <2>1. OpenRows' = OpenRows \ t.rows /\ t.rows \subseteq OpenRows
    BY <1>9, OpenRowsMove, BatchesApart DEF SettleRows
  <2>2. AtWorker' = AtWorker \ t.rows /\ t.rows \subseteq AtWorker
    BY <1>9, <2>1 DEF SettleRows, AtWorker, RowsPlaced
  <2>3. Cardinality(AtWorker') = Cardinality(AtWorker) - n /\ n \in Nat
    BY <1>2, <2>2, CardSplit
  <2>4. interval' = Plus(interval, Count(o, n))
    BY <1>9 DEF SettleRows, CountOutcome
  <2> HIDE DEF n
  <2>5. \A f \in Fields : interval'[f] = interval[f] + (IF f = o THEN n ELSE 0)
    BY <1>1, <2>3, <2>4, CountsApplied
  <2>6. o \in {"committed", "failed", "ambiguous"}
    BY DEF Outcomes
  <2> QED
    BY <1>1, <1>3, <2>3, <2>5, <2>6 DEF Accounted
<1> QED
  BY <1>4, <1>5, <1>6, <1>7, <1>8, <1>9, RowMoves DEF RowMove

LEMMA BalanceKept ==
    ASSUME Placed, Ending, Errors, Balance, [Next]_vars
    PROVE  Balance'
<1> SUFFICES ASSUME FailurePolicy = "continue"
             PROVE  (Accounted /\ Balanced(reported) /\ Balanced(unobserved))'
  BY DEF Balance
<1>1. Accounted /\ Balanced(reported) /\ Balanced(unobserved)
  BY DEF Balance
<1>2. CASE UNCHANGED reportVars /\ (WorkerSettle => UNCHANGED interval)
  BY <1>1, <1>2, AccountedKept DEF Balanced, reportVars
<1>3. CASE WorkerSettle /\ fatal = "none" /\ cmd \in Barriers /\ ResolveBarrier(cmd)
  <2>1. rows = {} /\ inFlight = {}
    BY <1>3 DEF Placed, WorkerPlace, WorkerSettle, AllSettled
  <2>2. interval' = Zero /\ Balanced(reported') /\ Balanced(unobserved')
    BY <1>3, <2>1, ReportBalanced DEF Placed
  <2>3. AtWorker' = {}
    <3>1. rows' = {} /\ inFlight' = {} /\ after' = "top"
      BY <1>3, <2>1 DEF WorkerSettle, bufferVars
    <3> QED
      BY <3>1 DEF AtWorker, Held, OpenRows
  <2>4. Cardinality(AtWorker') = 0
    BY <2>3, FS_EmptySet
  <2>5. Accounted'
    BY <2>2, <2>4, CountsApplied DEF Accounted, Fields
  <2> QED
    BY <2>2, <2>5 DEF Balanced
<1> QED
  BY <1>2, <1>3, ReportsMove DEF Placed

LEMMA BalanceAlways == Spec => []Balance
<1>1. Init => Balance
  <2> SUFFICES ASSUME Init PROVE Balance
    OBVIOUS
  <2>1. AtWorker = {}
    BY DEF Init, AtWorker, Held, OpenRows
  <2>2. Cardinality(AtWorker) = 0
    BY <2>1, FS_EmptySet
  <2>3. interval = Zero /\ reported = Zero /\ unobserved = Zero
    BY DEF Init
  <2> QED
    BY <2>2, <2>3, CountsApplied DEF Balance, Accounted, Balanced, Fields
<1> QED
  BY <1>1, ErrorsAlways, BalanceKept, PTL DEF Spec

(* A delivery report is complete: every row it says was accepted has its   *)
(* outcome in the same report, also across cancelled flushes.              *)
THEOREM ReportsBalance == Spec => []ReportsBalanced
<1>1. Balance => ReportsBalanced
  BY DEF Balance, ReportsBalanced
<1> QED
  BY <1>1, BalanceAlways, PTL

-----------------------------------------------------------------------------
(* The last report.  Nothing enters a report or an interval after the      *)
(* shutdown command is completed, no barrier found more drops than the     *)
(* command did, and what it took left nothing for a later report.          *)
LastReport ==
    /\ FailurePolicy = "continue" /\ barrier[Shutdown].pc # "new" =>
         /\ \A b \in Barriers : barrier[b].droppedAt <= barrier[Shutdown].droppedAt
         /\ reportedDropped <= barrier[Shutdown].droppedAt
    /\ ShutdownResolved =>
         /\ \A f \in Fields : interval[f] = 0 /\ unobserved[f] = 0
         /\ FailurePolicy = "continue" => reportedDropped = barrier[Shutdown].droppedAt

LEMMA DropsKept ==
    ASSUME Placed, Ending, Errors, ReportInv, ReportInv', LastReport, [Next]_vars,
           FailurePolicy = "continue", barrier'[Shutdown].pc # "new"
    PROVE  /\ \A b \in Barriers : barrier'[b].droppedAt <= barrier'[Shutdown].droppedAt
           /\ reportedDropped' <= barrier'[Shutdown].droppedAt
<1> USE Names DEF Placed
<1>1. fatal = "none"
  BY DEF Errors
<1>2. /\ barrier \in [Barriers -> [pc : {"new", "called", "aborted", "resolved", "task", "ok",
                                        "failed", "closed"}, droppedAt : Nat]]
      /\ reportedDropped \in Nat
  BY DEF Base, Types, CallerTypeOK, CountTypeOK
<1>3. CASE barrier[Shutdown].pc # "new"
  <2>1. \A b \in Barriers : barrier'[b].droppedAt = barrier[b].droppedAt
    BY <1>3, SnapshotsTaken DEF Snapshots, LastInvited, ShutdownCall, ShutdownUnstarted
  <2>2. reportedDropped' <= barrier[Shutdown].droppedAt
    BY <1>2, <1>3, ReportsMove DEF LastReport, ResolveBarrier, reportVars
  <2> QED
    BY <1>3, <2>1, <2>2 DEF LastReport
<1>4. CASE barrier[Shutdown].pc = "new"
  <2>1. ShutdownCall
    BY <1>4, BarrierMoves DEF BarrierMove, RejectedAs, ShutdownResolved, LastInvited,
       WorkerSettle, Finishing, Base, Untouched
  <2>2. EnterBarrier(Shutdown) /\ UNCHANGED <<countVars, reportVars>>
    BY <1>1, <2>1 DEF ShutdownCall
  <2>3. barrier'[Shutdown].droppedAt = lifetime["dropped"]
    BY <1>2, <2>2 DEF EnterBarrier
  <2>4. lifetime' = lifetime /\ reportedDropped' = reportedDropped
    BY <2>2 DEF countVars, reportVars
  <2> QED
    BY <2>3, <2>4 DEF ReportInv, ReportsAddUp
<1> QED
  BY <1>3, <1>4

(* Once the shutdown command is completed the intervals stay empty. *)
LEMMA IntervalStaysEmpty ==
    ASSUME Placed, Ending, Errors, LastReport, [Next]_vars, ShutdownResolved
    PROVE  /\ \A f \in Fields : interval'[f] = 0
           /\ UNCHANGED reportVars
<1> USE DEF Placed
<1>1. /\ fatal = "none" /\ pc \in {"unwind", "done"}
      /\ rows = {} /\ inFlight = {} /\ QP!Pending = <<>>
  BY DEF Ending
<1>2. ~WorkerSettle
  BY <1>1 DEF WorkerSettle
<1>3. UNCHANGED reportVars
  BY <1>2, ReportsMove
<1>4. \A f \in Fields : interval[f] = 0
  BY DEF LastReport
<1>5. CASE Stay
  <2>1. UNCHANGED interval
    BY <1>2, <1>5, Zenon DEF Stay
  <2> QED
    BY <1>3, <1>4, <2>1
<1>6. ~Take
  <2> SUFFICES ASSUME Take PROVE FALSE
    OBVIOUS
  <2>1. Taken' = Taken \cup {delivered} /\ delivered \notin Taken
    BY DEF Take
  <2>2. ~WorkerReceived
    BY <1>1 DEF WorkerReceived
  <2>3. WorkerUnwind
    BY <2>1, <2>2, TakenMoves
  <2>4. Taken' = Taken \cup Lost /\ Lost = {}
    BY <1>1, <2>3, NothingToLose, UnwindMoves DEF Fail
  <2> QED
    BY <2>1, <2>4
<1>7. ~Leave
  BY <1>1 DEF Leave
<1>8. ASSUME NEW S \in SUBSET Rows, Fail(S) PROVE \A f \in Fields : interval'[f] = 0
  <2>1. Fail(Lost) /\ Lost = {}
    BY <1>1, <1>8, NothingToLose, UnwindMoves DEF Fail
  <2>2. interval' = Plus(interval, Count("failed", 0))
    BY <2>1, FS_EmptySet DEF Fail, CountLocalFailure
  <2> QED
    BY <1>4, <2>2, CountsApplied
<1> QED
  BY <1>1, <1>3, <1>4, <1>5, <1>6, <1>7, <1>8, RowMoves DEF RowMove

LEMMA LastReportKept ==
    ASSUME Placed, Ending, Errors, ReportInv, ReportInv', LastReport, [Next]_vars
    PROVE  LastReport'
<1> USE Names DEF Placed
<1>1. ASSUME FailurePolicy = "continue", barrier'[Shutdown].pc # "new"
      PROVE  /\ \A b \in Barriers : barrier'[b].droppedAt <= barrier'[Shutdown].droppedAt
             /\ reportedDropped' <= barrier'[Shutdown].droppedAt
  BY <1>1, DropsKept
<1>2. CASE ShutdownResolved
  <2>1. /\ \A f \in Fields : interval'[f] = 0
        /\ unobserved' = unobserved /\ reportedDropped' = reportedDropped
    BY <1>2, IntervalStaysEmpty DEF reportVars
  <2>2. barrier'[Shutdown].droppedAt = barrier[Shutdown].droppedAt
    BY <1>2, SnapshotsTaken DEF Snapshots, LastInvited, ShutdownCall, ShutdownUnstarted,
       ShutdownResolved
  <2> QED
    BY <1>1, <1>2, <2>1, <2>2 DEF LastReport
<1>3. CASE ShutdownResolved' /\ ~ShutdownResolved
  <2>1. WorkerSettle /\ cmd = Shutdown /\ fatal' = "none"
    BY <1>3, Resolving
  <2>2. fatal = "none" /\ ResolveBarrier(Shutdown)
    BY <2>1 DEF WorkerSettle, lifeVars
  <2>3. interval' = Zero /\ unobserved' = Zero
    BY <2>2 DEF ResolveBarrier, LastInvited
  <2>4. ASSUME FailurePolicy = "continue" PROVE reportedDropped' = barrier'[Shutdown].droppedAt
    <3>1. barrier[Shutdown].pc # "new"
      BY <2>1 DEF WorkerSettle, Finishing, LastInvited, Base, Untouched
    <3>2. barrier'[Shutdown].droppedAt = barrier[Shutdown].droppedAt
      BY <3>1, SnapshotsTaken DEF Snapshots, LastInvited, ShutdownCall, ShutdownUnstarted
    <3>3. reportedDropped <= barrier[Shutdown].droppedAt
      BY <2>4, <3>1 DEF LastReport
    <3>4. reportedDropped \in Nat /\ barrier[Shutdown].droppedAt \in Nat
      BY DEF Base, Types, CallerTypeOK, CountTypeOK
    <3>5. reportedDropped' = IF barrier[Shutdown].droppedAt > reportedDropped
                             THEN barrier[Shutdown].droppedAt ELSE reportedDropped
      BY <2>2, <2>4 DEF ResolveBarrier
    <3> QED
      BY <3>2, <3>3, <3>4, <3>5
  <2> QED
    BY <1>1, <2>3, <2>4, CountsApplied DEF LastReport
<1>4. CASE ~ShutdownResolved'
  BY <1>1, <1>4 DEF LastReport
<1> QED
  BY <1>2, <1>3, <1>4

LEMMA LastReportAlways == Spec => [](Placed /\ Ending /\ Errors /\ ReportInv /\ LastReport)
<1>1. Init => LastReport
  BY Names DEF Init, LastReport, ShutdownResolved
<1> QED
  BY <1>1, PlacedAlways, ErrorsAlways, ReportsAlways, LastReportKept, PTL DEF Spec

(* Once shutdown() resolved, the reports add up to all that happened: each *)
(* row that was counted is in one of them with its outcome, and so is each  *)
(* drop before shutdown() was called; in stop mode all is committed.        *)
THEOREM ShutdownIsComplete == Spec => []ShutdownTellsAll
<1>1. ASSUME Placed, Ending, Errors, ReportInv, LastReport, Tallied, RowsConserved,
             ReportsBalanced
      PROVE  ShutdownTellsAll
  <2> SUFFICES ASSUME ShutdownResolved
               PROVE  IF FailurePolicy = "stop"
                      THEN /\ reported["committed"] = Cardinality(counted)
                           /\ \A r \in counted : fate[r] = "committed"
                      ELSE /\ reported["accepted"] = Cardinality(counted)
                           /\ \A o \in Outcomes : reported[o] = Cardinality(WithFate(o))
                           /\ reported["dropped"] = barrier[Shutdown].droppedAt
    BY DEF ShutdownTellsAll, ShutdownResolved
  <2>1. fatal = "none" /\ \A r \in counted : fate[r] # "none"
    BY <1>1, AllFated DEF Ending
  <2>2. \A f \in Fields : interval[f] = 0 /\ unobserved[f] = 0 /\ reported[f] \in Nat
    BY <1>1, CountsApplied DEF LastReport, Placed, Base, Types, CountTypeOK
  <2>3. /\ fate \in [Rows -> Outcomes \cup {"none"}]
        /\ counted \subseteq Rows
    BY <1>1 DEF Placed, Base, Types, CountTypeOK
  <2>4. {"accepted", "committed", "failed", "ambiguous", "dropped"} \subseteq Fields
    BY DEF Fields
  <2>5. CASE FailurePolicy = "stop"
    <3>1. \A r \in counted : fate[r] = "committed"
      BY <1>1, <2>1, <2>3, <2>5 DEF Errors, Outcomes
    <3>2. WithFate("committed") = counted
      BY <1>1, <2>3, <3>1 DEF WithFate, RowsConserved
    <3>3. reported["committed"] = lifetime["committed"]
      BY <1>1, <2>2, <2>4 DEF ReportInv, ReportsAddUp
    <3>4. lifetime["committed"] = Cardinality(WithFate("committed"))
      BY <1>1 DEF RowsConserved, Outcomes
    <3> QED
      BY <2>5, <3>1, <3>2, <3>3, <3>4
  <2>6. CASE FailurePolicy = "continue"
    <3>1. /\ reported["committed"] = lifetime["committed"]
          /\ reported["failed"] = lifetime["failed"]
          /\ reported["ambiguous"] = lifetime["ambiguous"]
          /\ reported["dropped"] = reportedDropped
      BY <1>1, <2>2, <2>4, <2>6 DEF ReportInv, ReportsAddUp
    <3>2. \A o \in Outcomes : lifetime[o] = Cardinality(WithFate(o))
      BY <1>1 DEF RowsConserved
    <3>3. \A o \in Outcomes : reported[o] = Cardinality(WithFate(o))
      BY <3>1, <3>2 DEF Outcomes
    <3>4. pendingRowCount = 0
      <4>1. counted \ Fated = {}
        BY <2>1, <2>3 DEF Fated
      <4> QED
        BY <1>1, <4>1, FS_EmptySet DEF Tallied
    <3>5. reported["accepted"] = Cardinality(counted)
      BY <1>1, <2>2, <2>4, <2>6, <3>1, <3>4 DEF RowsConserved, ReportsBalanced, Balanced
    <3>6. reported["dropped"] = barrier[Shutdown].droppedAt
      BY <1>1, <2>6, <3>1 DEF LastReport
    <3> QED
      BY <2>6, <3>3, <3>5, <3>6
  <2> QED
    BY <2>5, <2>6, StreamAssumption
<1> QED
  BY <1>1, LastReportAlways, TallyAlways, EveryRowCounted, ReportsBalance, PTL

-----------------------------------------------------------------------------
(* The claim on the probe.  Some row is on its way to be the probe, or part *)
(* of it: queued, held, buffered in a batch that is not leaving as another, *)
(* or in the probe's request.  Whatever ends the probe ends the claim.      *)
ProbeRows == {r \in Rows : \E t \in inFlight : t.probe /\ ~t.settled /\ r \in t.rows}

OnItsWay(r) ==
    \/ ack[r] = "sent" /\ r \notin Taken
    \/ r \in Held
    \/ r \in rows /\ ~(pc = "send" /\ ~probe)
    \/ r \in ProbeRows

Claim ==
    probeClaimed =>
        /\ FailurePolicy = "continue"
        /\ circuitState # "closed"
        /\ \E r \in counted : OnItsWay(r)

(* A claim starts with a row, keeps the circuit from closing, and no probe *)
(* settles while it lasts.                                                 *)
LEMMA ClaimMoves ==
    ASSUME Base, ProbeInv, [Next]_vars, probeClaimed'
    PROVE  \/ /\ probeClaimed
              /\ circuitState # "closed" => circuitState' # "closed"
              /\ \A t \in inFlight : Settle(t) => ~t.probe
           \/ /\ \E r \in Rows : TrySendAccepted(r)
              /\ ClaimsProbe
              /\ circuitState' = circuitState
<1> DEFINE Goal == /\ probeClaimed
                   /\ circuitState # "closed" => circuitState' # "closed"
<1>1. ASSUME NEW t \in inFlight, Settle(t) PROVE ~t.probe /\ Goal
  <2>1. \A isProbe : CloseCircuit \/ OpenCircuit => ~probeClaimed'
    BY DEF CloseCircuit, OpenCircuit
  <2>2. ~t.settled
    BY <1>1 DEF Settle, BatchCommits, BatchFails
  <2>3. t.probe => FailurePolicy = "continue" /\ FailureThreshold # 0
    BY <2>2, ProbeAlone DEF ProbeInv
  <2>4. ASSUME NEW availability, CircuitFailure(t.probe, availability)
        PROVE  ~t.probe /\ probeClaimed /\ circuitState' = circuitState
    BY <2>1, <2>3, <2>4 DEF CircuitFailure, ServiceAnswered, circuitVars
  <2>5. ASSUME CircuitSuccess(t.probe)
        PROVE  ~t.probe /\ probeClaimed /\ circuitState' = circuitState
    BY <2>1, <2>3, <2>5 DEF CircuitSuccess, circuitVars
  <2> QED
    BY <1>1, <2>4, <2>5 DEF Settle, BatchCommits, BatchFails
<1>2. CASE UNCHANGED <<probeClaimed, circuitState>>
  BY <1>1, <1>2
<1>3. ASSUME NEW r \in Rows, TrySendAccepted(r), ~probeClaimed
      PROVE  ClaimsProbe /\ circuitState' = circuitState
  BY <1>3 DEF TrySendAccepted
<1>4. CASE Callers
  <2>1. circuitState' = circuitState
    BY <1>4, CallersFrame
  <2>2. UNCHANGED probeClaimed \/ \E r \in Rows : TrySendAccepted(r)
    BY <1>4 DEF Callers, User, SendCall, TrySendDropped, SendAbort, FlushCall,
       FlushAbort, ShutdownCall, Resume, SendGranted, SendRefused, SendReturns,
       SendBounced, ResumeBarrier, BarrierRefused, TaskAwaited, circuitVars
  <2> QED
    BY <1>1, <1>2, <1>3, <2>1, <2>2
<1>5. CASE StartProbe
  <2>1. probeClaimed' = probeClaimed /\ circuitState' = "half-open"
    BY <1>5, Zenon DEF StartProbe
  <2> QED
    BY <1>1, <2>1
<1>6. CASE WorkerTop \/ WorkerReceived \/ WorkerCapacity \/ PassCircuit \/ WorkerSend
             \/ WorkerSettle \/ WorkerUnwind \/ Timers \/ UNCHANGED vars
  BY <1>2, <1>6 DEF WorkerTop, WorkerReceived, WorkerCapacity, PassCircuit, WorkerSend,
       WorkerSettle, WorkerUnwind, Timers, DeadlinePasses, ReceiveTimeout, CooldownElapses,
       vars, circuitVars
<1>7. CASE \E t \in inFlight : BatchFinally(t)
  BY <1>2, <1>7 DEF BatchFinally, circuitVars
<1> QED
  BY <1>1, <1>4, <1>5, <1>6, <1>7 DEF Next, Callers, Worker, Requests

(* A batch leaves as the probe unless the circuit is closed. *)
LEMMA LeavesAsProbe ==
    ASSUME [Next]_vars, circuitState # "closed", pc' = "send", ~probe'
    PROVE  pc = "send" /\ ~probe
<1>1. Aside => UNCHANGED <<pc, probe>>
  BY AsideFrame
<1>2. ~WorkerTop /\ ~WorkerReceived /\ ~WorkerCapacity /\ ~PassCircuit /\ ~StartProbe
  BY DEF WorkerTop, WorkerReceived, DisposeDelivered, RowDelivered, Push, BarrierDelivered,
         NothingDelivered, WorkerCapacity, PassCircuit, StartProbe
<1>3. ~WorkerSend /\ ~WorkerSettle /\ ~WorkerUnwind
  BY DEF WorkerSend, DispatchThrows, Dispatch, Push, WorkerSettle, WorkerUnwind
<1> QED
  BY <1>1, <1>2, <1>3 DEF Next, Aside, Callers, Worker

LEMMA WayKept ==
    ASSUME Placed, Ending, Errors, ProbeInv, FailurePolicy = "continue",
           circuitState # "closed", \A t \in inFlight : Settle(t) => ~t.probe,
           [Next]_vars, NEW r \in Rows, OnItsWay(r)
    PROVE  OnItsWay(r)'
<1> USE DEF Placed
<1>1. ack[r] = "sent" => ack'[r] = "sent"
  BY AnswersStay, Names
<1>2. pc' = "send" /\ ~probe' => pc = "send" /\ ~probe
  BY LeavesAsProbe
<1>3. UNCHANGED inFlight => ProbeRows' = ProbeRows
  BY DEF ProbeRows
<1>4. CASE Stay
  <2>1. ProbeRows \subseteq ProbeRows'
    BY <1>4 DEF Stay, ProbeRows
  <2> QED
    BY <1>1, <1>2, <1>4, <2>1 DEF Stay, OnItsWay
<1>5. CASE Take
  <2>1. pc # "send"
    BY <1>5, Names DEF Take, WorkerPlace, QP!Ready
  <2> QED
    BY <1>1, <1>2, <1>3, <1>5, <2>1 DEF Take, OnItsWay
<1>6. CASE Leave
  <2>1. pc = "send" /\ pc' # "send"
    BY <1>6 DEF Leave, WorkerSend, DispatchThrows, Dispatch, Push
  <2>2. ProbeRows \subseteq ProbeRows' /\ (probe => rows \subseteq ProbeRows')
    <3>1. NewBatch.rows = rows /\ ~NewBatch.settled /\ NewBatch.probe = probe
      BY DEF NewBatch
    <3>2. rows \subseteq Rows
      BY DEF Base, Types, WorkerTypeOK
    <3> HIDE DEF NewBatch
    <3> QED
      BY <1>6, <3>1, <3>2 DEF Leave, ProbeRows
  <2> QED
    BY <1>1, <1>6, <2>1, <2>2 DEF Leave, OnItsWay
<1>7. ASSUME NEW S \in SUBSET Rows, Fail(S) PROVE OnItsWay(r)'
  <2>1. WorkerUnwind /\ fatal = "none"
    BY <1>7 DEF Fail, Errors
  <2>2. Lost = {} /\ Fail(Lost)
    BY <2>1, NothingToLose, UnwindMoves
  <2>3. Taken' = Taken /\ Held = {} /\ rows' = rows /\ pc' # "send" /\ inFlight' = inFlight
    BY <2>1, <2>2 DEF Fail, WorkerUnwind
  <2> QED
    BY <1>1, <1>3, <2>3 DEF OnItsWay
<1>8. ASSUME NEW t \in inFlight, NEW o \in Outcomes, SettleRows(t, o) PROVE OnItsWay(r)'
  <2>1. Settle(t)
    BY <1>8 DEF SettleRows, Settle, Outcomes
  <2>2. ProbeRows \subseteq ProbeRows'
    BY <1>8, <2>1 DEF SettleRows, Settled, ProbeRows
  <2> QED
    BY <1>1, <1>2, <1>8, <2>2 DEF SettleRows, OnItsWay
<1> QED
  BY <1>4, <1>5, <1>6, <1>7, <1>8, RowMoves DEF RowMove

LEMMA ClaimKept ==
    ASSUME Placed, Ending, Errors, ProbeInv, Claim, [Next]_vars
    PROVE  Claim'
<1> USE DEF Placed
<1> SUFFICES ASSUME probeClaimed'
             PROVE  /\ FailurePolicy = "continue" /\ circuitState' # "closed"
                    /\ \E r \in counted' : OnItsWay(r)'
  BY DEF Claim
<1>1. CASE /\ probeClaimed
           /\ circuitState # "closed" => circuitState' # "closed"
           /\ \A t \in inFlight : Settle(t) => ~t.probe
  <2>1. FailurePolicy = "continue" /\ circuitState # "closed"
    BY <1>1 DEF Claim
  <2>2. PICK r \in counted : OnItsWay(r)
    BY <1>1 DEF Claim
  <2>3. r \in Rows /\ r \in counted'
    BY CountedStays DEF Base, Types, CountTypeOK
  <2>4. OnItsWay(r)'
    BY <1>1, <2>1, <2>2, <2>3, WayKept
  <2> QED
    BY <1>1, <2>1, <2>3, <2>4
<1>2. ASSUME NEW r \in Rows, TrySendAccepted(r), ClaimsProbe, circuitState' = circuitState
      PROVE  /\ FailurePolicy = "continue" /\ circuitState' # "closed"
             /\ \E q \in counted' : OnItsWay(q)'
  <2>1. FailurePolicy = "continue" /\ circuitState' # "closed"
    BY <1>2 DEF ClaimsProbe
  <2>2. r \in counted' /\ Q!TrySend(r) /\ call[r] = "new"
    BY <1>2 DEF TrySendAccepted, CountAccepted
  <2>3. ack'[r] = "sent"
    BY <2>2, SameQueue, QueueConstants, Names, QP!TrySendSent DEF Base
  <2>4. ack[r] # "sent"
    BY <2>2 DEF Base, Untouched
  <2>5. r \notin Taken
    BY <2>4, Names DEF Taken, QP!Gone
  <2> QED
    BY <2>1, <2>2, <2>3, <2>4, <2>5, SentFirst DEF OnItsWay
<1> QED
  BY <1>1, <1>2, ClaimMoves

(* Who claims the probe admission is on its way to be the probe, or lets    *)
(* another row be it: trySend() never drops rows for a probe that ended.    *)
THEOREM ClaimIsHonoured == Spec => []ClaimHasProbe
<1>1. Init => Claim
  BY DEF Init, Claim
<1>2. Spec => [](Placed /\ Claim)
  BY <1>1, PlacedAlways, ErrorsAlways, ProbeAlways, ClaimKept, PTL DEF Spec
<1>3. Placed /\ Claim => ClaimHasProbe
  <2>1. \A r \in Rows : Placed /\ OnItsWay(r) => fate[r] = "none"
    BY DEF Placed, RowsPlaced, AtWorker, Fated, OnItsWay, ProbeRows, OpenRows
  <2>2. Placed => counted \subseteq Rows
    BY DEF Placed, Base, Types, CountTypeOK
  <2> QED
    BY <2>1, <2>2 DEF Claim, ClaimHasProbe
<1> QED
  BY <1>2, <1>3, PTL

-----------------------------------------------------------------------------
(* The promise.  Each step of the stream is a step of StreamPromise or     *)
(* none, under either policy: one that continues is never broken.          *)
PromiseVars == <<Accepted, OpenRows, fate, Closing>>

Kept == [Promise!StreamNext]_PromiseVars

(* A broken stream has an error, and an error means it is broken. *)
LEMMA BrokenMeansError ==
    ASSUME Errors
    PROVE  Promise!Broken <=> fatal # "none"
<1>1. CASE FailurePolicy = "stop"
  BY <1>1 DEF Errors, Promise!Broken
<1>2. CASE FailurePolicy = "continue"
  BY <1>2 DEF Errors, Promise!Broken
<1> QED
  BY <1>1, <1>2, StreamAssumption

(* After shutdown() resolved every row the queue took has its outcome. *)
LEMMA SentSettled ==
    ASSUME Placed, Ending, Errors, ShutdownResolved
    PROVE  /\ fatal = "none" /\ ~Promise!Broken
           /\ \A r \in Rows : ack[r] = "sent" => Promise!Settled(r)
<1>1. fatal = "none" /\ \A r \in Rows : ack[r] = "sent" => fate[r] # "none"
  BY AllFated DEF Ending
<1>2. ~Promise!Broken
  BY <1>1, BrokenMeansError
<1> QED
  BY <1>1, <1>2 DEF Promise!Settled

(* Rows that reach their callers as accepted. *)
LEMMA AcceptedMoves ==
    ASSUME Placed, [Next]_vars
    PROVE  \/ Accepted' = Accepted
           \/ \E r \in Rows : /\ (SendReturns(r) /\ fatal = "none") \/ TrySendAccepted(r)
                              /\ Accepted' = Accepted \cup {r}
<1>1. call \in [Rows -> {"new", "acquiring", "queueing", "ok", "threw", "accepted", "dropped"}]
  BY DEF Placed, Base, Types, CallerTypeOK
<1>2. ASSUME NEW r \in Rows, NEW where, SetCall(r, where)
      PROVE  \A q \in Rows : call'[q] = IF q = r THEN where ELSE call[q]
  BY <1>1, <1>2 DEF SetCall
<1>3. ASSUME NEW r \in Rows, SendReturns(r)
      PROVE  Accepted' = IF fatal = "none" THEN Accepted \cup {r} ELSE Accepted
  <2>1. call[r] = "queueing" /\ SetCall(r, IF fatal = "none" THEN "ok" ELSE "threw")
    BY <1>3 DEF SendReturns
  <2> QED
    BY <1>2, <2>1 DEF Accepted
<1>4. ASSUME NEW r \in Rows, TrySendAccepted(r) PROVE Accepted' = Accepted \cup {r}
  <2>1. SetCall(r, "accepted")
    BY <1>4 DEF TrySendAccepted
  <2> QED
    BY <1>2, <2>1 DEF Accepted
<1>5. ASSUME NEW r \in Rows,
             SendCall(r) \/ SendGranted(r) \/ SendRefused(r) \/ SendBounced(r)
               \/ TrySendDropped(r)
      PROVE  Accepted' = Accepted
  <2>1. \E where \in {"threw", "acquiring", "queueing", "dropped"} :
           SetCall(r, where) /\ call[r] \in {"new", "acquiring", "queueing"}
    BY <1>5 DEF SendCall, SendGranted, SendRefused, SendBounced, TrySendDropped
  <2> QED
    BY <1>2, <2>1 DEF Accepted
<1>6. CASE UNCHANGED call
  BY <1>6 DEF Accepted
<1>7. ASSUME ~(\E r \in Rows : SendCall(r) \/ SendGranted(r) \/ SendRefused(r) \/ SendReturns(r)
                 \/ SendBounced(r) \/ TrySendAccepted(r) \/ TrySendDropped(r))
      PROVE  UNCHANGED call
  <2>1. CASE Callers
    BY <1>7, <2>1 DEF Callers, User, SendAbort, FlushCall, FlushAbort, ShutdownCall, Resume,
         ResumeBarrier, BarrierRefused, TaskAwaited, callerVars
  <2>2. CASE Worker
    BY <2>2 DEF Worker, WorkerTop, WorkerReceived, WorkerCapacity, PassCircuit, StartProbe,
         WorkerSend, WorkerSettle, WorkerUnwind, callerVars
  <2>3. CASE Requests \/ Timers \/ UNCHANGED vars
    BY <2>3 DEF Requests, Settle, BatchCommits, BatchFails, BatchFinally, Timers,
         DeadlinePasses, ReceiveTimeout, CooldownElapses, vars, callerVars
  <2> QED
    BY <2>1, <2>2, <2>3 DEF Next, Callers
<1> QED
  BY <1>3, <1>4, <1>5, <1>6, <1>7

(* How shutdown() gets on. *)
LEMMA ClosingMoves ==
    ASSUME Placed, Ending, [Next]_vars
    PROVE  \/ Closing' = Closing
           \/ ShutdownCall /\ Closing = "no" /\ Closing' = "called"
           \/ /\ workerDone /\ Closing = "called"
              /\ IF fatal = "none" THEN ShutdownResolved /\ Closing' = "ok"
                 ELSE Closing' = "failed"
              /\ TaskAwaited(Shutdown)
<1> USE Names
<1> USE DEF Closing, ShutdownResolved
<1>1. BarrierMove(Shutdown)
  BY BarrierMoves DEF Placed
<1>2. CASE barrier'[Shutdown].pc = barrier[Shutdown].pc
  BY <1>2
<1>3. CASE ShutdownCall /\ barrier[Shutdown].pc = "new"
             /\ barrier'[Shutdown].pc = IF fatal = "none" THEN "called" ELSE "task"
  BY <1>3
<1>4. CASE barrier[Shutdown].pc = "called" /\ barrier'[Shutdown].pc = RejectedAs(Shutdown)
  BY <1>4 DEF RejectedAs
<1>5. CASE /\ WorkerSettle /\ fatal = "none" /\ Shutdown = cmd
           /\ barrier'[Shutdown].pc = "resolved"
  <2>1. ack[Shutdown] = "sent"
    BY <1>5 DEF WorkerSettle, Finishing, Placed, LastInvited
  <2>2. barrier[Shutdown].pc \notin {"new", "ok", "failed"}
    BY <1>5, <2>1 DEF WorkerSettle, Ending, Placed, Base, Untouched
  <2> QED
    BY <1>5, <2>2
<1>6. CASE /\ workerDone /\ TaskAwaited(Shutdown)
           /\ \/ barrier[Shutdown].pc = "task" /\ barrier'[Shutdown].pc = "failed"
              \/ barrier[Shutdown].pc = "resolved" /\ barrier'[Shutdown].pc = "ok"
  BY <1>6 DEF Ending
<1> QED
  BY <1>1, <1>2, <1>3, <1>4, <1>5, <1>6 DEF BarrierMove

(* What callers do: accept a row, begin or finish the shutdown. *)
LEMMA CallersKeepPromise ==
    ASSUME Placed, Ending, Errors, [Next]_vars, Callers
    PROVE  Kept
<1> USE DEF Placed
<1>1. OpenRows' = OpenRows /\ fate' = fate
  BY CallersFrame DEF OpenRows
<1>2. ASSUME NEW r \in Rows, (SendReturns(r) /\ fatal = "none") \/ TrySendAccepted(r),
             Accepted' = Accepted \cup {r}
      PROVE  Promise!Accept(r)
  <2>1. Closing' = Closing
    BY <1>2 DEF SendReturns, TrySendAccepted, Closing
  <2>2. ~Promise!Broken
    BY <1>2, BrokenMeansError DEF TrySendAccepted, Admits
  <2>3. ASSUME Closing = "ok" PROVE Promise!Settled(r)
    <3>1. ShutdownResolved
      BY <2>3 DEF Closing, ShutdownResolved
    <3>2. ~TrySendAccepted(r)
      BY <3>1 DEF TrySendAccepted, Admits, ShutdownResolved, LastInvited
    <3>3. ack[r] = "sent"
      BY <1>2, <3>2 DEF SendReturns
    <3> QED
      BY <3>1, <3>3, SentSettled
  <2> QED
    BY <1>1, <1>2, <2>1, <2>2, <2>3 DEF Promise!Accept
<1>3. CASE Accepted' = Accepted /\ Closing' = Closing
  BY <1>1, <1>3 DEF Kept, PromiseVars
<1>4. ASSUME Accepted' = Accepted, ShutdownCall, Closing = "no", Closing' = "called"
      PROVE  Promise!BeginShutdown
  BY <1>1, <1>4 DEF Promise!BeginShutdown
<1>5. ASSUME Accepted' = Accepted, workerDone, Closing = "called",
             IF fatal = "none" THEN ShutdownResolved /\ Closing' = "ok"
             ELSE Closing' = "failed"
      PROVE  Promise!Finish
  <2>1. OpenRows = {}
    BY <1>5, NothingLeft DEF OpenRows
  <2>2. CASE fatal = "none"
    <3>1. \A r \in Accepted : r \in Rows /\ ack[r] = "sent"
      BY DEF Accepted, CallsPlaced, RowsPlaced
    <3>2. ~Promise!Broken /\ \A r \in Accepted : Promise!Settled(r)
      BY <1>5, <2>2, <3>1, SentSettled
    <3> QED
      BY <1>1, <1>5, <2>1, <2>2, <3>2 DEF Promise!Finish
  <2>3. CASE fatal # "none"
    BY <1>1, <1>5, <2>1, <2>3, BrokenMeansError DEF Promise!Finish
  <2> QED
    BY <2>2, <2>3
<1>6. ASSUME NEW r \in Rows, SendReturns(r) \/ TrySendAccepted(r) PROVE Closing' = Closing
  BY <1>6 DEF SendReturns, TrySendAccepted, Closing
<1>7. CASE Accepted' # Accepted
  <2>1. \E r \in Rows : Promise!Accept(r)
    BY <1>2, <1>7, AcceptedMoves
  <2> QED
    BY <2>1 DEF Kept, Promise!StreamNext
<1>8. CASE Accepted' = Accepted
  <2>1. CASE ShutdownCall /\ Closing = "no" /\ Closing' = "called"
    BY <1>4, <1>8, <2>1 DEF Kept, Promise!StreamNext
  <2>2. CASE /\ workerDone /\ Closing = "called"
             /\ IF fatal = "none" THEN ShutdownResolved /\ Closing' = "ok"
                ELSE Closing' = "failed"
    BY <1>5, <1>8, <2>2 DEF Kept, Promise!StreamNext
  <2> QED
    BY <1>3, <1>8, <2>1, <2>2, ClosingMoves
<1> QED
  BY <1>7, <1>8

(* What the worker, the requests and the timers do: hand rows over, settle *)
(* them or give them up.                                                   *)
LEMMA OthersKeepPromise ==
    ASSUME Placed, Ending, Errors, [Next]_vars, ~Callers
    PROVE  Kept
<1> USE DEF Placed
<1>1. Accepted' = Accepted
  <2>1. ASSUME NEW r \in Rows, SendReturns(r) \/ TrySendAccepted(r) PROVE Callers
    BY <2>1 DEF Callers, User, Resume
  <2> QED
    BY <2>1, AcceptedMoves
<1>2. Closing' = Closing
  <2>1. ASSUME ShutdownCall \/ TaskAwaited(Shutdown) PROVE Callers
    BY <2>1, Names DEF Callers, User, ResumeBarrier
  <2> QED
    BY <2>1, ClosingMoves
<1>3. fate \in [Rows -> Outcomes \cup {"none"}] /\ rows \subseteq Rows
  BY DEF Base, Types, WorkerTypeOK, CountTypeOK
<1>4. ASSUME NEW S \in SUBSET Rows, S \cap Fated = {}, S \cap OpenRows = {}
      PROVE  Promise!Unsent(S)
  BY <1>4 DEF Fated, Promise!Unsent, Promise!Settled
<1>5. CASE Stay \/ Take
  <2>1. OpenRows' = OpenRows /\ fate' = fate
    BY <1>5, OpenRowsMove DEF Stay, Take
  <2> QED
    BY <1>1, <1>2, <2>1 DEF Kept, PromiseVars
<1>6. CASE Leave
  <2>1. rows # {} /\ fatal = "none" /\ OpenRows' = OpenRows \cup rows /\ fate' = fate
    BY <1>6, OpenRowsMove DEF Leave, countVars
  <2>2. Promise!Unsent(rows)
    BY <1>3, <1>4 DEF RowsPlaced, AtWorker
  <2>3. Closing \in {"no", "called"}
    BY <2>1, Names DEF Closing, Ending, ShutdownResolved
  <2>4. Promise!HandOver(rows)
    BY <1>1, <1>2, <2>1, <2>2, <2>3, BrokenMeansError DEF Promise!HandOver
  <2> QED
    BY <1>3, <2>4 DEF Kept, Promise!StreamNext
<1>7. ASSUME NEW S \in SUBSET Rows, Fail(S) PROVE Kept
  <2>1. OpenRows' = OpenRows
    BY <1>7, OpenRowsMove DEF Fail
  <2>2. fate' = [r \in Rows |-> IF r \in S THEN "failed" ELSE fate[r]]
    BY <1>7 DEF Fail, CountLocalFailure
  <2>3. CASE fatal # "none"
    <3>1. S \cap Fated = {} /\ S \cap OpenRows = {}
      BY <1>7 DEF Fail, RowsPlaced, AtWorker
    <3>2. Promise!GiveUp(S)
      BY <1>1, <1>2, <1>4, <2>1, <2>2, <2>3, <3>1, BrokenMeansError DEF Promise!GiveUp
    <3> QED
      BY <3>2 DEF Kept, Promise!StreamNext
  <2>4. CASE fatal = "none"
    <3>1. Fail(Lost) /\ Lost = {}
      BY <1>7, <2>4, NothingToLose, UnwindMoves DEF Fail
    <3>2. fate' = fate
      BY <1>3, <3>1 DEF Fail, CountLocalFailure
    <3> QED
      BY <1>1, <1>2, <2>1, <3>2 DEF Kept, PromiseVars
  <2> QED
    BY <2>3, <2>4
<1>8. ASSUME NEW t \in inFlight, NEW o \in Outcomes, SettleRows(t, o) PROVE Kept
  <2>1. t.rows # {} /\ t.rows \subseteq OpenRows /\ t.rows \in SUBSET Rows
    BY <1>8, BatchesApart DEF SettleRows, WorkerPlace
  <2>2. OpenRows' = OpenRows \ t.rows
    BY <1>8, OpenRowsMove DEF SettleRows
  <2>3. fate' = [r \in Rows |-> IF r \in t.rows THEN o ELSE fate[r]]
    BY <1>8 DEF SettleRows, CountOutcome
  <2>4. Promise!Settle(t.rows, o)
    BY <1>1, <1>2, <2>1, <2>2, <2>3 DEF Promise!Settle, Outcomes
  <2> QED
    BY <2>1, <2>4 DEF Kept, Promise!StreamNext, Outcomes
<1> QED
  BY <1>5, <1>6, <1>7, <1>8, RowMoves DEF RowMove

(* The stream keeps its promise.  Whatever it queues, batches and retries,  *)
(* a program that delivers rows through it and then calls shutdown() sees   *)
(* what StreamPromise states: shutdown() resolves only when every accepted  *)
(* row has its outcome, which in stop mode is a commit, throws only in stop *)
(* mode when a row was lost or may be, leaves no request in flight either   *)
(* way, and nothing more is sent after a failure or the end.                *)
THEOREM PromiseIsKept == Spec => KeepsPromise
<1>1. Init => Promise!StreamInit
  BY Names DEF Init, Promise!StreamInit, Accepted, OpenRows, Closing
<1>2. Placed /\ Ending /\ Errors /\ [Next]_vars => [Promise!StreamNext]_Promise!streamVars
  BY CallersKeepPromise, OthersKeepPromise DEF Kept, PromiseVars, Promise!streamVars
<1> QED
  BY <1>1, <1>2, PlacedAlways, ErrorsAlways, PTL DEF Spec, KeepsPromise, Promise!StreamSpec

=============================================================================
