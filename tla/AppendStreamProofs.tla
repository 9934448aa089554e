------------------------- MODULE AppendStreamProofs -------------------------
(***************************************************************************)
(* Proofs about AppendStream, for every set of rows and barriers, all      *)
(* sizes and limits, both failure policies and every breaker threshold.    *)
(*                                                                         *)
(* The invariants are proved in layers.  Base joins the types with the     *)
(* invariants of the queue and the budget: the stream takes only steps     *)
(* these allow, so what is proved of them holds here.  On Base rest the    *)
(* deadline, the reports and the probe.                                    *)
(***************************************************************************)
EXTENDS AppendStream, FiniteSetTheorems, SequenceTheorems, TLAPS

QP == INSTANCE AsyncBoundedQueueProofs WITH
        Command <- Commands, Capacity <- ChannelCapacity, closed <- queueClosed

BP == INSTANCE PendingBytesBudgetProofs WITH
        Holder <- Rows, Permits <- RowPermits, MaxPermits <- MaxPendingBytes

(* What a caller has not yet asked for, queue and budget do not know of. *)
Untouched ==
    /\ \A r \in Rows : call[r] = "new" => B!Idle(r)
    /\ \A r \in Rows : call[r] \in {"new", "acquiring"} => ack[r] = "none"
    /\ \A b \in Barriers : barrier[b].pc = "new" => ack[b] = "none"

Types == WorkerTypeOK /\ CountTypeOK /\ CircuitTypeOK /\ CallerTypeOK

Base == QP!IInv /\ BP!IInv /\ Untouched /\ Types

Callers ==
    \/ User
    \/ \E r \in Rows : Resume(r)
    \/ \E b \in Barriers : ResumeBarrier(b)

-----------------------------------------------------------------------------
(* The assumptions the components make of their constants. *)
LEMMA QueueConstants ==
    /\ ChannelCapacity \in Nat \ {0}
    /\ {NONE, TIMEOUT, CLOSED} \cap Commands = {}
    /\ NONE # TIMEOUT /\ NONE # CLOSED /\ TIMEOUT # CLOSED
BY StreamAssumption

LEMMA BudgetConstants ==
    /\ IsFiniteSet(Rows) /\ BP!IsFiniteSet(Rows)
    /\ MaxPendingBytes \in Nat
    /\ RowPermits \in [Rows -> Nat \ {0}]
<1>1. IsFiniteSet(Rows) => BP!IsFiniteSet(Rows)
  BY Zenon DEF IsFiniteSet, BP!IsFiniteSet
<1> QED
  BY <1>1, StreamAssumption DEF RowPermits

LEMMA Names ==
    /\ Rows \subseteq Commands /\ Barriers \subseteq Commands
    /\ Flushes \subseteq Barriers /\ Shutdown \in Barriers
    /\ Rows \cap Barriers = {} /\ Commands = Rows \cup Barriers
    /\ Shutdown \notin Flushes /\ NONE \notin Commands
BY StreamAssumption DEF Commands, Barriers

-----------------------------------------------------------------------------
(* Every step of the stream is a step of the queue and one of the budget.  *)
(* Asked and Admitted tell which caller's call went on with it.            *)
Asked(c) ==
    /\ c \in Rows => call'[c] \notin {"new", "acquiring"}
    /\ c \in Barriers => barrier'[c].pc # "new"

QueueStep ==
    \/ \E c \in Commands : Asked(c) /\ Q!New(c) /\ (Q!Send(c) \/ Q!TrySend(c))
    \/ \E c \in Commands : Q!Abort(c)
    \/ Q!Worker \/ Q!Timeout \/ Q!Close \/ Q!CloseAndDrain
    \/ UNCHANGED queueVars

BudgetStep ==
    \/ \E r \in Rows : call'[r] # "new" /\ B!Idle(r) /\ (B!Acquire(r) \/ B!TryAcquire(r))
    \/ \E r \in Rows : B!Abort(r)
    \/ \E S \in SUBSET Rows : B!ReleaseAll(S) \/ B!ReleaseAndClose(S)
    \/ B!Close
    \/ UNCHANGED budgetVars

(* Nobody becomes new again, and the worker's state is not the callers'. *)
CallsGoOn ==
    /\ \A r \in Rows : call'[r] = "new" => call[r] = "new"
    /\ \A r \in Rows : call'[r] \in {"new", "acquiring"} => call[r] \in {"new", "acquiring"}
    /\ \A b \in Barriers : barrier'[b].pc = "new" => barrier[b].pc = "new"

LEMMA RejectedPlace ==
    ASSUME CallerTypeOK, NEW S, RejectBarriers(S)
    PROVE  /\ \A b \in Barriers : barrier'[b].pc = "new" => barrier[b].pc = "new"
           /\ barrier' \in [Barriers ->
                [pc : {"new", "called", "aborted", "resolved", "task", "ok",
                       "failed", "closed"}, droppedAt : Nat]]
           /\ \A b \in Barriers : barrier'[b].droppedAt = barrier[b].droppedAt
BY DEF RejectBarriers, RejectedAs, CallerTypeOK

LEMMA EnterBarrierStep ==
    ASSUME Base, NEW b \in Barriers, barrier[b].pc = "new", EnterBarrier(b)
    PROVE  QueueStep /\ \A c \in Barriers : barrier'[c].pc = "new" => barrier[c].pc = "new"
<1>1. Q!New(b) /\ Q!Send(b)
  BY DEF EnterBarrier, Base, Untouched, Q!New
<1>2. Asked(b)
  BY Names DEF EnterBarrier, Asked, Base, Types, CallerTypeOK
<1> QED
  BY <1>1, <1>2, Names DEF EnterBarrier, QueueStep, Base, Types, CallerTypeOK

LEMMA CallerSteps ==
    ASSUME Base, Callers
    PROVE  QueueStep /\ BudgetStep /\ CallsGoOn
<1> USE Names DEF Base, Types
<1>1. ASSUME NEW r \in Rows, SendCall(r) PROVE QueueStep /\ BudgetStep /\ CallsGoOn
  <2>1. QueueStep
    BY <1>1 DEF SendCall, QueueStep
  <2>2. CallsGoOn
    BY <1>1 DEF SendCall, SetCall, CallsGoOn, CallerTypeOK
  <2>3. BudgetStep
    BY <1>1 DEF SendCall, SetCall, BudgetStep, Untouched, CallerTypeOK
  <2> QED
    BY <2>1, <2>2, <2>3
<1>2. ASSUME NEW r \in Rows, TrySendAccepted(r) PROVE QueueStep /\ BudgetStep /\ CallsGoOn
  <2>1. Q!New(r) /\ Q!TrySend(r) /\ B!Idle(r) /\ B!TryAcquire(r)
    BY <1>2 DEF TrySendAccepted, Untouched, Q!New
  <2>2. Asked(r) /\ call'[r] # "new"
    BY <1>2 DEF TrySendAccepted, SetCall, Asked, CallerTypeOK
  <2>3. CallsGoOn
    BY <1>2 DEF TrySendAccepted, SetCall, CallsGoOn, CallerTypeOK
  <2> QED
    BY <2>1, <2>2, <2>3 DEF QueueStep, BudgetStep
<1>3. ASSUME NEW r \in Rows, TrySendDropped(r) PROVE QueueStep /\ BudgetStep /\ CallsGoOn
  BY <1>3 DEF TrySendDropped, SetCall, QueueStep, BudgetStep, CallsGoOn, CallerTypeOK
<1>4. ASSUME NEW r \in Rows, SendAbort(r) PROVE QueueStep /\ BudgetStep /\ CallsGoOn
  BY <1>4 DEF SendAbort, callerVars, QueueStep, BudgetStep, CallsGoOn
<1>5. ASSUME NEW f \in Flushes, FlushCall(f) PROVE QueueStep /\ BudgetStep /\ CallsGoOn
  <2>1. BudgetStep /\ UNCHANGED call
    BY <1>5 DEF FlushCall, BudgetStep
  <2>2. CASE EnterBarrier(f)
    BY <1>5, <2>1, <2>2, EnterBarrierStep DEF FlushCall, CallsGoOn
  <2>3. CASE SetBarrier(f, IF fatal # "none" THEN "task" ELSE "closed") /\ UNCHANGED queueVars
    BY <2>1, <2>3 DEF SetBarrier, QueueStep, CallsGoOn, CallerTypeOK
  <2> QED
    BY <1>5, <2>2, <2>3 DEF FlushCall
<1>6. ASSUME NEW f \in Flushes, FlushAbort(f) PROVE QueueStep /\ BudgetStep /\ CallsGoOn
  BY <1>6 DEF FlushAbort, SetBarrier, QueueStep, BudgetStep, CallsGoOn, CallerTypeOK
<1>7. CASE ShutdownCall
  <2>1. BudgetStep /\ UNCHANGED call
    BY <1>7 DEF ShutdownCall, BudgetStep
  <2>2. CASE EnterBarrier(Shutdown)
    BY <1>7, <2>1, <2>2, EnterBarrierStep DEF ShutdownCall, ShutdownUnstarted, CallsGoOn
  <2>3. CASE SetBarrier(Shutdown, "task") /\ UNCHANGED queueVars
    BY <2>1, <2>3 DEF SetBarrier, QueueStep, CallsGoOn, CallerTypeOK
  <2> QED
    BY <1>7, <2>2, <2>3 DEF ShutdownCall
<1>8. ASSUME NEW r \in Rows, SendGranted(r) PROVE QueueStep /\ BudgetStep /\ CallsGoOn
  <2>1. CallsGoOn
    BY <1>8 DEF SendGranted, SetCall, CallsGoOn, CallerTypeOK
  <2>2. CASE SetCall(r, "queueing") /\ Q!Send(r) /\ UNCHANGED budgetVars
    <3>1. Q!New(r) /\ Asked(r)
      BY <1>8, <2>2 DEF SendGranted, SetCall, Asked, Untouched, CallerTypeOK, Q!New
    <3> QED
      BY <2>1, <2>2, <3>1 DEF QueueStep, BudgetStep
  <2>3. CASE GiveBack(r) /\ UNCHANGED queueVars
    BY <2>1, <2>3 DEF GiveBack, QueueStep, BudgetStep
  <2> QED
    BY <1>8, <2>2, <2>3 DEF SendGranted
<1>9. ASSUME NEW r \in Rows, SendRefused(r) \/ SendReturns(r) \/ SendBounced(r)
      PROVE  QueueStep /\ BudgetStep /\ CallsGoOn
  <2>1. UNCHANGED <<queueVars, barrier>>
    BY <1>9 DEF SendRefused, SendReturns, SendBounced
  <2>2. UNCHANGED budgetVars \/ B!ReleaseAll({r})
    BY <1>9 DEF SendRefused, SendReturns, SendBounced, GiveBack
  <2>3. CallsGoOn
    BY <1>9, <2>1 DEF SendRefused, SendReturns, SendBounced, SetCall, CallsGoOn, CallerTypeOK
  <2> QED
    BY <2>1, <2>2, <2>3 DEF QueueStep, BudgetStep
<1>10. ASSUME NEW b \in Barriers, ResumeBarrier(b) PROVE QueueStep /\ BudgetStep /\ CallsGoOn
  <2>1. UNCHANGED <<queueVars, budgetVars, call>>
    BY <1>10 DEF ResumeBarrier, BarrierRefused, TaskAwaited
  <2>2. \A c \in Barriers : barrier'[c].pc = "new" => barrier[c].pc = "new"
    BY <1>10, RejectedPlace DEF ResumeBarrier, BarrierRefused, TaskAwaited, SetBarrier, CallerTypeOK
  <2> QED
    BY <2>1, <2>2 DEF QueueStep, BudgetStep, CallsGoOn
<1> QED
  BY <1>1, <1>2, <1>3, <1>4, <1>5, <1>6, <1>7, <1>8, <1>9, <1>10 DEF Callers, User, Resume

LEMMA WorkerSteps ==
    ASSUME Base, Worker
    PROVE  QueueStep /\ BudgetStep /\ CallsGoOn
<1> USE Names DEF Base, Types
<1>1. CASE WorkerTop
  <2>1. Q!Worker \/ UNCHANGED queueVars
    BY <1>1 DEF WorkerTop, Timed, Q!Worker
  <2> QED
    BY <1>1, <2>1 DEF WorkerTop, callerVars, QueueStep, BudgetStep, CallsGoOn
<1>2. CASE WorkerReceived
  <2>1. Q!Worker /\ UNCHANGED call
    BY <1>2 DEF WorkerReceived, Q!Worker
  <2>2. CASE DisposeDelivered
    BY <2>1, <2>2, RejectedPlace DEF DisposeDelivered, QueueStep, BudgetStep, CallsGoOn
  <2>3. CASE UNCHANGED <<budgetVars, barrier>>
    BY <2>1, <2>3 DEF QueueStep, BudgetStep, CallsGoOn
  <2> QED
    BY <1>2, <2>2, <2>3 DEF WorkerReceived, RowDelivered, BarrierDelivered, NothingDelivered
<1>3. CASE WorkerCapacity \/ PassCircuit \/ StartProbe
  BY <1>3 DEF WorkerCapacity, PassCircuit, StartProbe, callerVars, QueueStep, BudgetStep, CallsGoOn
<1>4. CASE WorkerSend
  <2>1. UNCHANGED <<queueVars, call>>
    BY <1>4 DEF WorkerSend
  <2>2. CASE DispatchThrows
    BY <2>1, <2>2, RejectedPlace
       DEF DispatchThrows, QueueStep, BudgetStep, CallsGoOn, WorkerTypeOK
  <2>3. CASE UNCHANGED <<budgetVars, barrier>>
    BY <2>1, <2>3 DEF QueueStep, BudgetStep, CallsGoOn
  <2> QED
    BY <1>4, <2>2, <2>3 DEF WorkerSend, Dispatch
<1>5. CASE WorkerSettle
  <2>1. UNCHANGED <<queueVars, budgetVars, call>>
    BY <1>5 DEF WorkerSettle
  <2>2. \A b \in Barriers : barrier'[b].pc = "new" => barrier[b].pc = "new"
    <3>1. CASE RejectBarriers({cmd})
      BY <3>1, RejectedPlace
    <3>2. CASE ResolveBarrier(cmd)
      BY <3>2 DEF ResolveBarrier, SetBarrier, CallerTypeOK
    <3> QED
      BY <1>5, <3>1, <3>2 DEF WorkerSettle
  <2> QED
    BY <2>1, <2>2 DEF QueueStep, BudgetStep, CallsGoOn
<1>6. CASE WorkerUnwind
  <2>1. Lost \in SUBSET Rows
    BY DEF Lost, WorkerTypeOK
  <2>2. Q!CloseAndDrain /\ B!ReleaseAndClose(Lost) /\ UNCHANGED call
    BY <1>6 DEF WorkerUnwind
  <2>3. \A b \in Barriers : barrier'[b].pc = "new" => barrier[b].pc = "new"
    BY <1>6, RejectedPlace DEF WorkerUnwind
  <2> QED
    BY <2>1, <2>2, <2>3 DEF QueueStep, BudgetStep, CallsGoOn
<1> QED
  BY <1>1, <1>2, <1>3, <1>4, <1>5, <1>6 DEF Worker

LEMMA OtherSteps ==
    ASSUME Base, Requests \/ Timers \/ UNCHANGED vars
    PROVE  QueueStep /\ BudgetStep /\ CallsGoOn
<1>1. ASSUME NEW t \in inFlight, BatchCommits(t) PROVE QueueStep /\ BudgetStep /\ CallsGoOn
  BY <1>1 DEF BatchCommits, callerVars, QueueStep, BudgetStep, CallsGoOn
<1>2. ASSUME NEW t \in inFlight, NEW outcome \in {"failed", "ambiguous"},
             NEW availability \in BOOLEAN, BatchFails(t, outcome, availability)
      PROVE  QueueStep /\ BudgetStep /\ CallsGoOn
  <2>1. UNCHANGED callerVars
    BY <1>2 DEF BatchFails
  <2>2. Q!Close \/ UNCHANGED queueVars
    BY <1>2 DEF BatchFails, SetFatal
  <2>3. B!Close \/ UNCHANGED budgetVars
    BY <1>2 DEF BatchFails, SetFatal
  <2> QED
    BY <2>1, <2>2, <2>3 DEF callerVars, QueueStep, BudgetStep, CallsGoOn
<1>3. ASSUME NEW t \in inFlight, BatchFinally(t) PROVE QueueStep /\ BudgetStep /\ CallsGoOn
  <2>1. t.rows \in SUBSET Rows
    BY DEF Base, Types, WorkerTypeOK, Batches
  <2> QED
    BY <1>3, <2>1 DEF BatchFinally, callerVars, QueueStep, BudgetStep, CallsGoOn
<1>4. CASE Timers
  <2>1. UNCHANGED <<budgetVars, callerVars>> /\ (UNCHANGED queueVars \/ Q!Timeout)
    BY <1>4 DEF Timers, DeadlinePasses, ReceiveTimeout, CooldownElapses
  <2> QED
    BY <2>1 DEF callerVars, QueueStep, BudgetStep, CallsGoOn
<1>5. CASE UNCHANGED vars
  BY <1>5 DEF vars, callerVars, QueueStep, BudgetStep, CallsGoOn
<1> QED
  BY <1>1, <1>2, <1>3, <1>4, <1>5 DEF Requests, Settle

LEMMA StreamSteps ==
    ASSUME Base, [Next]_vars
    PROVE  QueueStep /\ BudgetStep /\ CallsGoOn
BY CallerSteps, WorkerSteps, OtherSteps DEF Next, Callers

-----------------------------------------------------------------------------
(* So the components keep their invariants, and what is new stays so.  The *)
(* two instances of the queue have the same operations.                    *)
LEMMA SameQueue ==
    /\ \A c : Q!New(c) => QP!New(c)
    /\ \A c : Q!Send(c) => QP!Send(c)
    /\ \A c : Q!TrySend(c) => QP!TrySend(c)
    /\ \A c : Q!Abort(c) => QP!Abort(c)
    /\ Q!Worker => QP!Worker
    /\ Q!Timeout => QP!Timeout
    /\ Q!Close => QP!Close
    /\ Q!CloseAndDrain => QP!CloseAndDrain
<1>1. \A c : Q!New(c) => QP!New(c)
  BY Zenon DEF Q!New, QP!New
<1>2. \A c : Q!Send(c) => QP!Send(c)
  BY Zenon DEF Q!Send, Q!Refuse, Q!HandOver, Q!Enqueue, Q!Wait, Q!ReceiverWaits,
         QP!Send, QP!Refuse, QP!HandOver, QP!Enqueue, QP!Wait, QP!ReceiverWaits
<1>3. \A c : Q!TrySend(c) => QP!TrySend(c)
  BY Zenon DEF Q!TrySend, Q!CanTrySend, Q!HandOver, Q!Enqueue, Q!ReceiverWaits,
         QP!TrySend, QP!CanTrySend, QP!HandOver, QP!Enqueue, QP!ReceiverWaits
<1>4. \A c : Q!Abort(c) => QP!Abort(c)
  BY Zenon DEF Q!Abort, Q!ToSet, Q!RemoveAt, QP!Abort, QP!ToSet, QP!RemoveAt
<1>5. Q!Worker => QP!Worker
  BY Zenon DEF Q!Worker, Q!Receive, Q!Consume, Q!ReceiveBuffered, Q!ReceiveParked,
         Q!ReceiveClosed, Q!ReceiveWaits, Q!Room, Q!ToSet,
         QP!Worker, QP!Receive, QP!Consume, QP!ReceiveBuffered,
         QP!ReceiveParked, QP!ReceiveClosed, QP!ReceiveWaits, QP!Room, QP!ToSet
<1>6. Q!Timeout => QP!Timeout
  BY Zenon DEF Q!Timeout, QP!Timeout
<1>7. Q!Close => QP!Close
  BY Zenon DEF Q!Close, Q!CloseEffect, Q!ToSet, QP!Close, QP!CloseEffect, QP!ToSet
<1>8. Q!CloseAndDrain => QP!CloseAndDrain
  BY Zenon DEF Q!CloseAndDrain, Q!CloseEffect, Q!ToSet,
         QP!CloseAndDrain, QP!CloseEffect, QP!ToSet
<1> QED
  BY <1>1, <1>2, <1>3, <1>4, <1>5, <1>6, <1>7, <1>8

LEMMA QueueInvariantKept ==
    ASSUME Base, QueueStep
    PROVE  QP!IInv'
<1>1. \/ \E c \in Commands : QP!New(c) /\ (QP!Send(c) \/ QP!TrySend(c))
      \/ \E c \in Commands : QP!Abort(c)
      \/ QP!Worker \/ QP!Timeout \/ QP!Close \/ QP!CloseAndDrain
      \/ UNCHANGED queueVars
  BY SameQueue DEF QueueStep
<1>2. QP!Next \/ UNCHANGED QP!queueVars
  BY <1>1 DEF QP!Next, queueVars, QP!queueVars
<1> QED
  BY <1>2, QueueConstants, QP!NextInvariant DEF Base

LEMMA SameBudget ==
    /\ \A r : B!Idle(r) => BP!Idle(r)
    /\ \A r : B!Acquire(r) => BP!Acquire(r)
    /\ \A r : B!TryAcquire(r) => BP!TryAcquire(r)
    /\ \A r : B!Abort(r) => BP!Abort(r)
    /\ \A S : B!ReleaseAll(S) => BP!ReleaseAll(S)
    /\ \A S : B!ReleaseAndClose(S) => BP!ReleaseAndClose(S)
    /\ B!Close => BP!Close
<1>1. \A S : B!Total(S) = BP!Total(S)
  BY Zenon DEF B!Total, B!PermitsOf, B!Cardinality, BP!Total, BP!PermitsOf, BP!Cardinality
<1>2. \A s : B!ToSet(s) = BP!ToSet(s)
  BY Zenon DEF B!ToSet, BP!ToSet
<1>3. \A free, w : B!Served(free, w) = BP!Served(free, w)
  BY Zenon DEF B!Served, B!FirstOf, B!Total, B!PermitsOf, B!Cardinality, B!ToSet,
         BP!Served, BP!FirstOf, BP!Total, BP!PermitsOf, BP!Cardinality, BP!ToSet
<1>4. \A r : B!Idle(r) => BP!Idle(r)
  BY Zenon, <1>2 DEF B!Idle, BP!Idle
<1>5. \A r : B!Acquire(r) => BP!Acquire(r)
  BY Zenon DEF B!Acquire, B!CanAcquire, B!Grant, BP!Acquire, BP!CanAcquire, BP!Grant
<1>6. \A r : B!TryAcquire(r) => BP!TryAcquire(r)
  BY Zenon DEF B!TryAcquire, B!CanTryAcquire, B!CanAcquire, B!Grant,
         BP!TryAcquire, BP!CanTryAcquire, BP!CanAcquire, BP!Grant
<1>7. \A free, w, held : B!DrainWaiters(free, w, held) => BP!DrainWaiters(free, w, held)
  BY Zenon, <1>1, <1>2, <1>3 DEF B!DrainWaiters, BP!DrainWaiters
<1>8. \A r : B!Abort(r) => BP!Abort(r)
  <2>1. \A s, i : B!RemoveAt(s, i) = BP!RemoveAt(s, i)
    BY Zenon DEF B!RemoveAt, BP!RemoveAt
  <2> QED
    BY Zenon, <1>7, <2>1 DEF B!Abort, BP!Abort
<1>9. \A S : B!Unreleased(S) = BP!Unreleased(S)
  BY Zenon DEF B!Unreleased, BP!Unreleased
<1>10. \A S : B!ReleaseAll(S) => BP!ReleaseAll(S)
  BY Zenon, <1>1, <1>7, <1>9 DEF B!ReleaseAll, BP!ReleaseAll
<1>11. \A S : B!ReleaseAndClose(S) => BP!ReleaseAndClose(S)
  BY Zenon, <1>1, <1>2, <1>3, <1>9 DEF B!ReleaseAndClose, BP!ReleaseAndClose
<1>12. B!Close => BP!Close
  BY Zenon DEF B!Close, BP!Close
<1> QED
  BY <1>4, <1>5, <1>6, <1>8, <1>10, <1>11, <1>12

LEMMA BudgetInvariantKept ==
    ASSUME Base, BudgetStep
    PROVE  BP!IInv'
<1>1. \/ \E r \in Rows : BP!Idle(r) /\ (BP!Acquire(r) \/ BP!TryAcquire(r))
      \/ \E r \in Rows : BP!Abort(r)
      \/ \E S \in SUBSET Rows : BP!ReleaseAll(S) \/ BP!ReleaseAndClose(S)
      \/ BP!Close
      \/ UNCHANGED budgetVars
  BY SameBudget DEF BudgetStep
<1>2. BP!Next \/ UNCHANGED BP!budgetVars
  BY <1>1 DEF BP!Next, budgetVars, BP!budgetVars
<1> QED
  BY <1>2, BudgetConstants, BP!NextInvariant DEF Base

LEMMA UntouchedKept ==
    ASSUME Base, QueueStep, BudgetStep, CallsGoOn
    PROVE  Untouched'
<1>1. ASSUME NEW r \in Rows, call'[r] = "new" PROVE B!Idle(r)'
  <2>1. BP!Idle(r)
    BY <1>1, SameBudget DEF CallsGoOn, Base, Untouched
  <2>2. BP!QuietFor(r)
    BY <1>1, SameBudget DEF BudgetStep, BP!QuietFor, budgetVars, BP!budgetVars
  <2>3. BP!Idle(r)'
    BY <2>1, <2>2, BudgetConstants, BP!IdleStaysIdle DEF Base
  <2> QED
    BY <2>3 DEF BP!Idle, B!Idle, BP!ToSet, B!ToSet
<1>2. ASSUME NEW c \in Commands, ack[c] = "none", ~Asked(c) PROVE ack'[c] = "none"
  <2>1. QP!New(c)
    BY <1>2 DEF QP!New
  <2>2. \A d : Q!New(d) /\ (Q!Send(d) \/ Q!TrySend(d))
                 => QP!New(d) /\ (QP!Send(d) \/ QP!TrySend(d))
    BY SameQueue
  <2>3. QP!QuietFor(c)
    BY <1>2, <2>2, SameQueue DEF QueueStep, QP!QuietFor, queueVars, QP!queueVars
  <2>4. QP!New(c)'
    BY <2>1, <2>3, QueueConstants, QP!NewStaysNew DEF Base
  <2> QED
    BY <2>4 DEF QP!New
<1>3. ASSUME NEW r \in Rows, call'[r] \in {"new", "acquiring"} PROVE ack'[r] = "none"
  BY <1>2, <1>3, Names DEF CallsGoOn, Asked, Base, Untouched
<1>4. ASSUME NEW b \in Barriers, barrier'[b].pc = "new" PROVE ack'[b] = "none"
  BY <1>2, <1>4, Names DEF CallsGoOn, Asked, Base, Untouched
<1> QED
  BY <1>1, <1>3, <1>4 DEF Untouched

-----------------------------------------------------------------------------
(* Types. *)
LEMMA Counting ==
    /\ Zero \in Counts
    /\ \A a, b \in Counts : Plus(a, b) \in Counts
    /\ \A f, n : n \in Nat => Count(f, n) \in Counts
    /\ \A n \in Int : AtLeastZero(n) \in Nat
    /\ \A S \in SUBSET Rows : Cardinality(S) \in Nat /\ NewlyCounted(S) \in Nat
<1>1. Zero \in Counts /\ \A f, n : n \in Nat => Count(f, n) \in Counts
  BY DEF Zero, Counts, Count
<1>2. \A a, b \in Counts : Plus(a, b) \in Counts
  BY DEF Counts, Plus
<1>3. \A n \in Int : AtLeastZero(n) \in Nat
  BY DEF AtLeastZero
<1>4. \A S \in SUBSET Rows : Cardinality(S) \in Nat
  BY BudgetConstants, FS_Subset, FS_CardinalityType
<1>5. \A S \in SUBSET Rows : NewlyCounted(S) \in Nat
  BY <1>4 DEF NewlyCounted
<1> QED
  BY <1>1, <1>2, <1>3, <1>4, <1>5

(* What the bookkeeping operations change, and that it keeps its type. *)
Counters == lifetime \in Counts /\ interval \in Counts /\ pendingRowCount \in Nat
              /\ counted \subseteq Rows /\ fate \in [Rows -> Outcomes \cup {"none"}]

LEMMA CountAcceptedType ==
    ASSUME Counters, NEW S \in SUBSET Rows, CountAccepted(S)
    PROVE  lifetime' \in Counts /\ pendingRowCount' \in Nat /\ counted' \subseteq Rows
BY Counting DEF CountAccepted, Counters

LEMMA CountOutcomeType ==
    ASSUME Counters, NEW S \in SUBSET Rows, NEW outcome \in Outcomes,
           CountOutcome(S, outcome)
    PROVE  Counters'
<1>1. Cardinality(S) \in Nat
  BY Counting
<1>2. Count(outcome, Cardinality(S)) \in Counts
  BY <1>1, Counting
<1>3. lifetime' \in Counts /\ interval' \in Counts
  BY <1>2, Counting DEF CountOutcome, Counters
<1>4. pendingRowCount' \in Nat
  BY <1>1, Counting DEF CountOutcome, Counters
<1>5. counted' \subseteq Rows /\ fate' \in [Rows -> Outcomes \cup {"none"}]
  BY DEF CountOutcome, Counters
<1> QED
  BY <1>3, <1>4, <1>5 DEF Counters

LEMMA CountLocalFailureType ==
    ASSUME Counters, NEW S \in SUBSET Rows, CountLocalFailure(S)
    PROVE  Counters'
<1>1. Cardinality(S) \in Nat /\ NewlyCounted(S) \in Nat
  BY Counting
<1>2. /\ Count("failed", Cardinality(S)) \in Counts
      /\ Count("accepted", NewlyCounted(S)) \in Counts
  BY <1>1, Counting
<1>3. Plus(lifetime, Count("accepted", NewlyCounted(S))) \in Counts
  BY <1>2, Counting DEF Counters
<1>4. lifetime' \in Counts /\ interval' \in Counts
  BY <1>2, <1>3, Counting DEF CountLocalFailure, Counters
<1>5. pendingRowCount' \in Nat
  BY <1>1, Counting DEF CountLocalFailure, Counters
<1>6. counted' \subseteq Rows /\ fate' \in [Rows -> Outcomes \cup {"none"}]
  BY DEF CountLocalFailure, Counters, Outcomes
<1> QED
  BY <1>4, <1>5, <1>6 DEF Counters

LEMMA QueueTypes ==
    ASSUME Base
    PROVE  /\ items \in Seq(Commands) /\ ToSet(items) \subseteq Commands
           /\ delivered \in Commands \cup {NONE, TIMEOUT, CLOSED}
           /\ Lost \in SUBSET Rows
<1>1. /\ items \in Seq(Commands)
      /\ delivered \in Commands \cup {NONE, TIMEOUT, CLOSED}
  BY DEF Base, QP!IInv, QP!Shape, QP!TypeOK
<1> QED
  BY <1>1 DEF ToSet, Lost, Base, Types, WorkerTypeOK

(* Callers leave the worker, its buffer and its requests alone. *)
LEMMA CallersFrame ==
    ASSUME Callers
    PROVE  /\ UNCHANGED <<workerVars, bufferVars, inFlight, fatal, interval, fate,
                          reportVars, circuitState, cooled, failures, probePending>>
           /\ accepting' \in {accepting, FALSE}
BY DEF Callers, User, SendCall, TrySendAccepted, TrySendDropped, SendAbort, FlushCall,
       FlushAbort, ShutdownCall, Resume, SendGranted, SendRefused, SendReturns,
       SendBounced, ResumeBarrier, BarrierRefused, TaskAwaited, workerVars, bufferVars,
       lifeVars, countVars, reportVars, circuitVars

LEMMA WorkerTypeKept ==
    ASSUME Base, [Next]_vars
    PROVE  WorkerTypeOK'
<1> USE Names DEF Base, Types, WorkerTypeOK
<1>1. CASE Callers
  <2>1. accepting' \in BOOLEAN
    BY <1>1, CallersFrame
  <2> QED
    BY <1>1, <2>1, CallersFrame DEF workerVars, bufferVars
<1>2. CASE WorkerTop
  BY <1>2 DEF WorkerTop, StartDispatch, lifeVars, bufferVars
<1>3. CASE WorkerReceived
  <2>1. UNCHANGED <<accepting, fatal, inFlight>>
    BY <1>3 DEF WorkerReceived, lifeVars
  <2>2. CASE DisposeDelivered
    BY <2>1, <2>2 DEF DisposeDelivered, bufferVars
  <2>3. CASE delivered \in Rows /\ RowDelivered(delivered)
    BY <2>1, <2>3 DEF RowDelivered, StartDispatch, Push, bufferVars
  <2>4. CASE delivered \in Barriers /\ BarrierDelivered(delivered)
    BY <2>1, <2>4 DEF BarrierDelivered, StartDispatch, bufferVars
  <2>5. CASE NothingDelivered
    BY <2>1, <2>5 DEF NothingDelivered, StartDispatch, bufferVars
  <2> QED
    BY <1>3, <2>2, <2>3, <2>4, <2>5 DEF WorkerReceived
<1>4. CASE WorkerCapacity \/ PassCircuit \/ StartProbe
  BY <1>4 DEF WorkerCapacity, PassCircuit, StartProbe, lifeVars, bufferVars
<1>5. CASE WorkerSend
  <2>1. UNCHANGED <<accepting, fatal>>
    BY <1>5 DEF WorkerSend, lifeVars
  <2>2. CASE DispatchThrows
    BY <2>1, <2>2 DEF DispatchThrows, bufferVars
  <2>3. CASE Dispatch
    <3>1. inFlight' \subseteq Batches
      <4>1. [rows |-> rows, probe |-> probe, settled |-> FALSE] \in Batches
        BY DEF Batches
      <4> QED
        BY <2>3, <4>1 DEF Dispatch
    <3>2. CASE after = "push" /\ Push(cmd, {})
      BY <2>1, <2>3, <3>1, <3>2 DEF Dispatch, Push
    <3>3. CASE after # "push"
      BY <2>1, <2>3, <3>1, <3>3 DEF Dispatch, EmptyBuffer
    <3> QED
      BY <2>3, <3>2, <3>3 DEF Dispatch
  <2> QED
    BY <1>5, <2>2, <2>3 DEF WorkerSend
<1>6. CASE WorkerSettle
  BY <1>6 DEF WorkerSettle, lifeVars, bufferVars
<1>7. CASE WorkerUnwind
  BY <1>7 DEF WorkerUnwind, EmptyBuffer
<1>8. ASSUME NEW t \in inFlight, Settle(t) PROVE WorkerTypeOK'
  <2>1. [t EXCEPT !.settled = TRUE] \in Batches
    BY DEF Batches
  <2>2. inFlight' \subseteq Batches /\ UNCHANGED <<workerVars, bufferVars>>
    BY <1>8, <2>1 DEF Settle, BatchCommits, BatchFails, Settled
  <2>3. CASE BatchCommits(t)
    BY <2>2, <2>3 DEF BatchCommits, lifeVars, workerVars, bufferVars
  <2>4. ASSUME NEW outcome \in {"failed", "ambiguous"}, NEW availability \in BOOLEAN,
               BatchFails(t, outcome, availability)
        PROVE  WorkerTypeOK'
    <3>1. accepting' \in BOOLEAN /\ fatal' \in {"none", "failed", "ambiguous"}
      BY <2>4 DEF BatchFails, SetFatal, Promoted, lifeVars
    <3> QED
      BY <2>2, <3>1 DEF workerVars, bufferVars
  <2> QED
    BY <1>8, <2>3, <2>4 DEF Settle
<1>9. ASSUME NEW t \in inFlight, BatchFinally(t) PROVE WorkerTypeOK'
  BY <1>9 DEF BatchFinally, lifeVars, workerVars, bufferVars
<1>10. CASE Timers
  BY <1>10 DEF Timers, DeadlinePasses, ReceiveTimeout, CooldownElapses,
               lifeVars, workerVars, bufferVars
<1>11. CASE UNCHANGED vars
  BY <1>11 DEF vars, lifeVars, workerVars, bufferVars
<1> QED
  BY <1>1, <1>2, <1>3, <1>4, <1>5, <1>6, <1>7, <1>8, <1>9, <1>10, <1>11
     DEF Next, Callers, Worker, Requests

LEMMA OutputType ==
    ASSUME Base, NEW drops \in Nat
    PROVE  Output(drops) \in Counts
<1> USE DEF Base, Types, CountTypeOK
<1>1. interval["committed"] + unobserved["committed"] \in Nat
  BY DEF Counts, Fields
<1>2. AtLeastZero(drops - reportedDropped) \in Nat
  BY Counting
<1>3. /\ Count("committed", interval["committed"] + unobserved["committed"]) \in Counts
      /\ Count("dropped", AtLeastZero(drops - reportedDropped)) \in Counts
  BY <1>1, <1>2, Counting
<1>4. Plus(interval, unobserved) \in Counts
  BY Counting
<1> QED
  BY <1>3, <1>4, Counting DEF Output, Carried

LEMMA CountTypeKept ==
    ASSUME Base, [Next]_vars
    PROVE  CountTypeOK'
<1> DEFINE Told == reportedDropped \in Nat /\ unobserved \in Counts /\ reported \in Counts
<1>1. Counters /\ Told
  BY DEF Base, Types, CountTypeOK, Counters
<1> SUFFICES Counters' /\ Told'
  BY DEF CountTypeOK, Counters
<1>2. ASSUME UNCHANGED <<lifetime, interval, pendingRowCount, counted, fate>> PROVE Counters'
  BY <1>1, <1>2 DEF Counters
<1>3. ASSUME UNCHANGED reportVars PROVE Told'
  BY <1>1, <1>3 DEF reportVars
<1> HIDE DEF Told
<1>4. CASE Callers
  <2>1. UNCHANGED <<interval, fate, reportVars>>
    BY <1>4, CallersFrame
  <2>2. ASSUME NEW r \in Rows, CountAccepted({r}) PROVE Counters'
    BY <1>1, <2>1, <2>2, CountAcceptedType DEF Counters
  <2>3. ASSUME NEW r \in Rows, TrySendDropped(r) PROVE Counters'
    <3>1. Count("dropped", 1) \in Counts
      BY Counting
    <3>2. Plus(lifetime, Count("dropped", 1)) \in Counts
      BY <1>1, <3>1, Counting DEF Counters
    <3> QED
      BY <1>1, <2>1, <2>3, <3>2 DEF TrySendDropped, Counters
  <2>4. \/ UNCHANGED countVars
        \/ \E r \in Rows : CountAccepted({r}) \/ TrySendDropped(r)
    BY <1>4 DEF Callers, User, SendCall, TrySendAccepted, SendAbort, FlushCall,
         FlushAbort, ShutdownCall, Resume, SendGranted, SendRefused, SendReturns,
         SendBounced, ResumeBarrier, BarrierRefused, TaskAwaited
  <2> QED
    BY <1>2, <1>3, <2>1, <2>2, <2>3, <2>4 DEF countVars
<1>5. CASE WorkerTop \/ WorkerCapacity \/ PassCircuit \/ StartProbe \/ Timers \/ UNCHANGED vars
  <2>1. UNCHANGED <<countVars, reportVars>>
    BY <1>5 DEF WorkerTop, WorkerCapacity, PassCircuit, StartProbe, Timers,
         DeadlinePasses, ReceiveTimeout, CooldownElapses, vars
  <2> QED
    BY <1>2, <1>3, <2>1 DEF countVars
<1>6. CASE WorkerReceived
  <2>1. Told'
    BY <1>3, <1>6 DEF WorkerReceived
  <2>2. CASE DisposeDelivered
    BY <1>1, <1>2, <2>1, <2>2, CountLocalFailureType DEF DisposeDelivered, countVars
  <2>3. CASE delivered \in Rows /\ RowDelivered(delivered)
    <3>1. Count("accepted", 1) \in Counts
      BY Counting
    <3>2. interval' \in Counts
      BY <1>1, <2>3, <3>1, Counting DEF RowDelivered, Counters
    <3> QED
      BY <1>1, <2>1, <2>3, <3>2, CountAcceptedType DEF RowDelivered, Counters
  <2>4. CASE UNCHANGED countVars
    BY <1>2, <2>1, <2>4 DEF countVars
  <2> QED
    BY <1>6, <2>2, <2>3, <2>4 DEF WorkerReceived, BarrierDelivered, NothingDelivered
<1>7. CASE WorkerSend
  <2>1. Told'
    BY <1>3, <1>7 DEF WorkerSend
  <2>2. CASE after = "push" /\ CountLocalFailure({cmd})
    BY <1>1, <2>1, <2>2, CountLocalFailureType DEF Base, Types, WorkerTypeOK
  <2>3. CASE UNCHANGED countVars
    BY <1>2, <2>1, <2>3 DEF countVars
  <2> QED
    BY <1>7, <2>2, <2>3 DEF WorkerSend, Dispatch, DispatchThrows
<1>8. CASE WorkerSettle
  <2>1. UNCHANGED <<lifetime, pendingRowCount, counted, fate>>
    BY <1>8 DEF WorkerSettle
  <2>2. CASE UNCHANGED <<interval, reportVars>>
    BY <1>2, <1>3, <2>1, <2>2
  <2>3. CASE ResolveBarrier(cmd)
    <3>1. cmd \in Barriers /\ barrier[cmd].droppedAt \in Nat
      BY <1>8 DEF WorkerSettle, Base, Types, WorkerTypeOK, CallerTypeOK
    <3>2. Output(barrier[cmd].droppedAt) \in Counts
      BY <3>1, OutputType
    <3>3. Counters'
      BY <1>1, <2>1, <2>3, Counting DEF ResolveBarrier, Counters
    <3>4. unobserved' \in Counts /\ reported' \in Counts /\ reportedDropped' \in Nat
      BY <1>1, <2>3, <3>1, <3>2, Counting DEF ResolveBarrier, Told
    <3> QED
      BY <3>3, <3>4 DEF Told
  <2> QED
    BY <1>8, <2>2, <2>3 DEF WorkerSettle
<1>9. CASE WorkerUnwind
  BY <1>1, <1>3, <1>9, QueueTypes, CountLocalFailureType DEF WorkerUnwind
<1>10. ASSUME NEW t \in inFlight, Settle(t) \/ BatchFinally(t) PROVE Counters' /\ Told'
  <2>1. t.rows \in SUBSET Rows
    BY DEF Base, Types, WorkerTypeOK, Batches
  <2>2. Told'
    BY <1>3, <1>10 DEF Settle, BatchCommits, BatchFails, BatchFinally
  <2>3. ASSUME NEW outcome \in Outcomes, CountOutcome(t.rows, outcome) PROVE Counters'
    BY <1>1, <2>1, <2>3, CountOutcomeType
  <2>4. CASE BatchFinally(t)
    BY <1>2, <2>2, <2>4 DEF BatchFinally, countVars
  <2> QED
    BY <1>10, <2>2, <2>3, <2>4 DEF Settle, BatchCommits, BatchFails, Outcomes
<1> QED
  BY <1>4, <1>5, <1>6, <1>7, <1>8, <1>9, <1>10 DEF Next, Callers, Worker, Requests

LEMMA CircuitTypeKept ==
    ASSUME Base, [Next]_vars
    PROVE  CircuitTypeOK'
<1> USE DEF Base, Types, CircuitTypeOK
<1>1. CASE Callers
  <2>1. probeClaimed' \in BOOLEAN
    BY <1>1 DEF Callers, User, SendCall, TrySendAccepted, ClaimsProbe, TrySendDropped,
         SendAbort, FlushCall, FlushAbort, ShutdownCall, Resume, SendGranted,
         SendRefused, SendReturns, SendBounced, ResumeBarrier, BarrierRefused,
         TaskAwaited, circuitVars
  <2>2. UNCHANGED cooled
    BY <1>1 DEF Callers, User, SendCall, TrySendAccepted, TrySendDropped,
         SendAbort, FlushCall, FlushAbort, ShutdownCall, Resume, SendGranted,
         SendRefused, SendReturns, SendBounced, ResumeBarrier, BarrierRefused,
         TaskAwaited, circuitVars
  <2> QED
    BY <1>1, <2>1, <2>2, CallersFrame
<1>2. CASE Worker
  BY <1>2 DEF Worker, WorkerTop, WorkerReceived, WorkerCapacity, PassCircuit, StartProbe,
       WorkerSend, WorkerSettle, WorkerUnwind, circuitVars
<1>3. ASSUME NEW t \in inFlight, Settle(t) PROVE CircuitTypeOK'
  <2>1. CASE UNCHANGED circuitVars
    BY <2>1 DEF circuitVars
  <2>2. CASE CloseCircuit
    BY <2>2 DEF CloseCircuit
  <2>3. ASSUME failures' = failures + 1,
               OpenCircuit \/ UNCHANGED <<circuitState, cooled, probeClaimed, probePending>>
        PROVE  CircuitTypeOK'
    <3>1. failures' \in Nat
      BY <2>3
    <3> QED
      BY <2>3, <3>1 DEF OpenCircuit
  <2>4. ASSUME failures' = 0, UNCHANGED <<circuitState, cooled, probeClaimed, probePending>>
        PROVE  CircuitTypeOK'
    BY <2>4
  <2> HIDE DEF CircuitTypeOK
  <2>5. CASE BatchCommits(t)
    BY <2>1, <2>2, <2>4, <2>5 DEF BatchCommits, CircuitSuccess
  <2>6. ASSUME NEW outcome, NEW availability, BatchFails(t, outcome, availability)
        PROVE  CircuitTypeOK'
    BY <2>1, <2>2, <2>3, <2>6 DEF BatchFails, CircuitFailure, ServiceAnswered
  <2> QED
    BY <1>3, <2>5, <2>6 DEF Settle
<1>4. CASE Timers \/ (\E t \in inFlight : BatchFinally(t)) \/ UNCHANGED vars
  BY <1>4 DEF Timers, DeadlinePasses, ReceiveTimeout, CooldownElapses, BatchFinally,
       vars, circuitVars
<1> QED
  BY <1>1, <1>2, <1>3, <1>4 DEF Next, Callers, Requests

LEMMA CallerTypeKept ==
    ASSUME Base, [Next]_vars
    PROVE  CallerTypeOK'
<1> USE Names DEF Base, Types
<1> DEFINE Calls == [Rows -> {"new", "acquiring", "queueing", "ok", "threw",
                              "accepted", "dropped"}]
           Places == {"new", "called", "aborted", "resolved", "task", "ok",
                      "failed", "closed"}
           Bars == [Barriers -> [pc : Places, droppedAt : Nat]]
           Covered == [Barriers -> SUBSET Rows]
<1>1. call \in Calls /\ barrier \in Bars /\ covers \in Covered
  BY DEF CallerTypeOK
<1> SUFFICES call' \in Calls /\ barrier' \in Bars /\ covers' \in Covered
  BY DEF CallerTypeOK
<1>2. ASSUME NEW r \in Rows, NEW where \in {"new", "acquiring", "queueing", "ok",
                                          "threw", "accepted", "dropped"},
             SetCall(r, where)
      PROVE  call' \in Calls
  BY <1>1, <1>2 DEF SetCall
<1>3. ASSUME NEW b \in Barriers, NEW where \in Places, SetBarrier(b, where)
      PROVE  barrier' \in Bars
  BY <1>1, <1>3 DEF SetBarrier
<1>4. ASSUME NEW S, RejectBarriers(S) PROVE barrier' \in Bars
  BY <1>4, RejectedPlace
<1>5. ASSUME NEW b \in Barriers, EnterBarrier(b) PROVE barrier' \in Bars /\ covers' \in Covered
  <2>1. lifetime["dropped"] \in Nat
    BY DEF CountTypeOK, Counts, Fields
  <2>2. Offered \subseteq Rows
    BY DEF Offered
  <2> QED
    BY <1>1, <1>5, <2>1, <2>2 DEF EnterBarrier
<1> HIDE DEF Calls, Places, Bars, Covered
<1>6. ASSUME NEW r \in Rows, SendCall(r) \/ TrySendAccepted(r) \/ TrySendDropped(r) \/ Resume(r)
      PROVE  call' \in Calls /\ UNCHANGED <<barrier, covers>>
  BY <1>2, <1>6 DEF SendCall, TrySendAccepted, TrySendDropped, Resume, SendGranted,
       SendRefused, SendReturns, SendBounced
<1>7. ASSUME NEW r \in Rows, SendAbort(r) PROVE UNCHANGED callerVars
  BY <1>7 DEF SendAbort
<1>8. ASSUME NEW f \in Flushes, FlushCall(f) \/ FlushAbort(f)
      PROVE  barrier' \in Bars /\ covers' \in Covered /\ UNCHANGED call
  BY <1>1, <1>3, <1>5, <1>8 DEF FlushCall, FlushAbort, Places
<1>9. CASE ShutdownCall
  BY <1>1, <1>3, <1>5, <1>9 DEF ShutdownCall, Places
<1>10. ASSUME NEW b \in Barriers, ResumeBarrier(b)
       PROVE  barrier' \in Bars /\ UNCHANGED <<covers, call>>
  BY <1>3, <1>4, <1>10 DEF ResumeBarrier, BarrierRefused, TaskAwaited, Places
<1>11. CASE Callers
  BY <1>1, <1>6, <1>7, <1>8, <1>9, <1>10, <1>11 DEF Callers, User, callerVars
<1>12. CASE WorkerReceived \/ WorkerSend \/ WorkerSettle \/ WorkerUnwind
  <2>1. UNCHANGED <<call, covers>>
    BY <1>12 DEF WorkerReceived, WorkerSend, WorkerSettle, WorkerUnwind
  <2>2. CASE \E S : RejectBarriers(S)
    BY <1>1, <1>4, <2>1, <2>2
  <2>3. CASE UNCHANGED barrier
    BY <1>1, <2>1, <2>3
  <2>4. CASE pc = "settle" /\ ResolveBarrier(cmd)
    BY <1>1, <1>3, <2>1, <2>4 DEF ResolveBarrier, WorkerTypeOK, Places
  <2> QED
    BY <1>12, <2>2, <2>3, <2>4 DEF WorkerReceived, DisposeDelivered, RowDelivered,
         BarrierDelivered, NothingDelivered, WorkerSend, DispatchThrows, Dispatch,
         WorkerSettle, WorkerUnwind
<1>13. CASE WorkerTop \/ WorkerCapacity \/ PassCircuit \/ StartProbe \/ Requests \/ Timers
              \/ UNCHANGED vars
  <2>1. UNCHANGED callerVars
    BY <1>13 DEF WorkerTop, WorkerCapacity, PassCircuit, StartProbe, Requests, Settle,
         BatchCommits, BatchFails, BatchFinally, Timers, DeadlinePasses,
         ReceiveTimeout, CooldownElapses, vars
  <2> QED
    BY <1>1, <2>1 DEF callerVars
<1> QED
  BY <1>11, <1>12, <1>13 DEF Next, Callers, Worker

(* Base is inductive. *)
LEMMA BaseInit == Init => Base
<1> SUFFICES ASSUME Init PROVE Base
  OBVIOUS
<1> USE DEF Init
<1>1. QP!IInv
  <2>1. QP!Init
    BY DEF Q!Init, QP!Init
  <2> QED
    BY <2>1, QueueConstants, QP!InitInvariant
<1>2. BP!IInv
  <2>1. BP!Init
    BY DEF B!Init, BP!Init
  <2> QED
    BY <2>1, BudgetConstants, BP!InitInvariant
<1>3. Untouched
  <2>1. ack = [c \in Commands |-> "none"] /\ reserved = {} /\ byteWaiters = <<>>
    BY DEF Q!Init, B!Init
  <2>2. B!ToSet(<<>>) = {}
    BY EmptySeq DEF B!ToSet
  <2>3. \A r \in Rows : B!Idle(r)
    BY <2>1, <2>2 DEF B!Idle
  <2> QED
    BY <2>1, <2>3, Names DEF Untouched
<1>4. Types
  <2>1. WorkerTypeOK
    BY Names DEF WorkerTypeOK
  <2>2. CountTypeOK
    BY Counting DEF CountTypeOK
  <2>3. CircuitTypeOK
    BY DEF CircuitTypeOK
  <2>4. CallerTypeOK
    BY DEF CallerTypeOK
  <2> QED
    BY <2>1, <2>2, <2>3, <2>4 DEF Types
<1> QED
  BY <1>1, <1>2, <1>3, <1>4 DEF Base

LEMMA BaseKept ==
    ASSUME Base, [Next]_vars
    PROVE  Base'
<1>1. QP!IInv'
  BY StreamSteps, QueueInvariantKept
<1>2. BP!IInv'
  BY StreamSteps, BudgetInvariantKept
<1>3. Untouched'
  BY StreamSteps, UntouchedKept
<1>4. Types'
  BY WorkerTypeKept, CountTypeKept, CircuitTypeKept, CallerTypeKept DEF Types
<1> QED
  BY <1>1, <1>2, <1>3, <1>4 DEF Base

LEMMA BaseAlways == Spec => []Base
BY BaseInit, BaseKept, PTL DEF Spec

(* Every variable keeps its type. *)
THEOREM TypeCorrect == Spec => []TypeOK
<1>1. Base => TypeOK
  <2> SUFFICES ASSUME Base PROVE TypeOK
    OBVIOUS
  <2>1. Q!TypeOK
    BY DEF Base, QP!IInv, QP!Shape, QP!TypeOK, Q!TypeOK
  <2>2. B!TypeOK
    BY DEF Base, BP!IInv, BP!TypeOK, B!TypeOK
  <2> QED
    BY <2>1, <2>2 DEF Base, Types, TypeOK
<1> QED
  BY <1>1, BaseAlways, PTL

(* The stream never misuses its queue or its budget: it offers a command   *)
(* once, awaits one receive() at a time, and asks once for a row's bytes.  *)
(* So what is proved of the two modules holds inside the stream.           *)
THEOREM ComponentsUsed == Spec => UsesComponents
<1>1. Init => Q!Init /\ B!Init
  BY DEF Init
<1>2. ASSUME QueueStep PROVE Q!Next \/ UNCHANGED Q!queueVars
  BY <1>2 DEF QueueStep, Q!Next, Q!queueVars, queueVars
<1>3. ASSUME BudgetStep PROVE B!Next \/ UNCHANGED B!budgetVars
  BY <1>3 DEF BudgetStep, B!Next, B!budgetVars, budgetVars
<1>4. Base /\ [Next]_vars => [Q!Next]_(Q!queueVars) /\ [B!Next]_(B!budgetVars)
  BY <1>2, <1>3, StreamSteps
<1> QED
  BY <1>1, <1>4, BaseAlways, PTL DEF Spec, UsesComponents, Q!Spec, B!Spec

-----------------------------------------------------------------------------
(* The batch deadline. *)
LEMMA DeadlineKept ==
    ASSUME BufferHasDeadline, [Next]_vars
    PROVE  BufferHasDeadline'
<1> USE DEF BufferHasDeadline
<1>1. ASSUME UNCHANGED bufferVars PROVE BufferHasDeadline'
  BY <1>1 DEF bufferVars
<1>2. ASSUME NEW r, Push(r, rows) \/ Push(r, {}) PROVE BufferHasDeadline'
  <2>1. rows' # {}
    BY <1>2 DEF Push
  <2>2. deadline' # "none"
    BY <1>2 DEF Push
  <2> QED
    BY <2>1, <2>2
<1>3. ASSUME EmptyBuffer PROVE BufferHasDeadline'
  BY <1>3 DEF EmptyBuffer
<1> HIDE DEF BufferHasDeadline
<1>4. CASE Callers
  BY <1>1, <1>4, CallersFrame
<1>5. CASE WorkerTop \/ WorkerCapacity \/ PassCircuit \/ StartProbe \/ WorkerSettle
  BY <1>1, <1>5 DEF WorkerTop, WorkerCapacity, PassCircuit, StartProbe, WorkerSettle
<1>6. CASE WorkerReceived
  BY <1>1, <1>2, <1>6 DEF WorkerReceived, DisposeDelivered, RowDelivered,
       BarrierDelivered, NothingDelivered
<1>7. CASE WorkerSend
  BY <1>1, <1>2, <1>3, <1>7 DEF WorkerSend, DispatchThrows, Dispatch
<1>8. CASE WorkerUnwind
  BY <1>3, <1>8 DEF WorkerUnwind
<1>9. CASE Requests
  BY <1>1, <1>9 DEF Requests, Settle, BatchCommits, BatchFails, BatchFinally
<1>10. CASE Timers
  <2>1. CASE DeadlinePasses
    BY <2>1 DEF DeadlinePasses, BufferHasDeadline
  <2> QED
    BY <1>1, <1>10, <2>1 DEF Timers, ReceiveTimeout, CooldownElapses
<1>11. CASE UNCHANGED vars
  BY <1>1, <1>11 DEF vars
<1> QED
  BY <1>4, <1>5, <1>6, <1>7, <1>8, <1>9, <1>10, <1>11 DEF Next, Callers, Worker

(* A batch being filled always has its deadline, so receive() is timed and *)
(* the batch leaves without anybody's help; an empty buffer has none.      *)
THEOREM DeadlineArmed == Spec => []BufferHasDeadline
<1>1. Init => BufferHasDeadline
  BY DEF Init, BufferHasDeadline
<1> QED
  BY <1>1, DeadlineKept, PTL DEF Spec

-----------------------------------------------------------------------------
(* After a failure. *)
NothingSent ==
    fatal # "none" =>
        /\ InFlightRows' \subseteq InFlightRows
        /\ fatal' \in {fatal, "ambiguous"}

(* Once the stream failed the worker hands no row to the service, whatever *)
(* it holds, and a failure is never taken back or made more definite.      *)
THEOREM FailureIsFinal == Spec => NothingSentAfterFailure
<1>1. ASSUME Base, [Next]_vars PROVE NothingSent
  <2> SUFFICES ASSUME fatal # "none"
               PROVE  InFlightRows' \subseteq InFlightRows /\ fatal' \in {fatal, "ambiguous"}
    BY DEF NothingSent
  <2>1. ASSUME UNCHANGED inFlight PROVE InFlightRows' \subseteq InFlightRows
    BY <2>1 DEF InFlightRows
  <2>2. CASE Callers
    BY <2>1, <2>2, CallersFrame
  <2>3. CASE Worker
    <3>1. UNCHANGED <<fatal, inFlight>>
      BY <2>3 DEF Worker, WorkerTop, WorkerReceived, WorkerCapacity, PassCircuit,
           StartProbe, WorkerSend, DispatchForbidden, DispatchThrows, WorkerSettle,
           WorkerUnwind, lifeVars
    <3> QED
      BY <2>1, <3>1
  <2>4. ASSUME NEW t \in inFlight, Settle(t)
        PROVE  InFlightRows' \subseteq InFlightRows /\ fatal' \in {fatal, "ambiguous"}
    <3>1. t \in Batches
      BY <1>1 DEF Base, Types, WorkerTypeOK
    <3>2. [t EXCEPT !.settled = TRUE].rows = t.rows
      BY <3>1 DEF Batches
    <3>3. inFlight' = (inFlight \ {t}) \cup {[t EXCEPT !.settled = TRUE]}
      BY <2>4 DEF Settle, BatchCommits, BatchFails, Settled
    <3>4. ASSUME NEW r \in InFlightRows' PROVE r \in InFlightRows
      <4>1. PICK u \in inFlight' : r \in u.rows
        BY DEF InFlightRows
      <4>2. \E v \in inFlight : r \in v.rows
        BY <3>2, <3>3, <4>1
      <4> QED
        BY <4>2 DEF InFlightRows
    <3>5. fatal' \in {fatal, "ambiguous"}
      BY <2>4 DEF Settle, BatchCommits, BatchFails, SetFatal, Promoted, lifeVars
    <3> QED
      BY <3>4, <3>5
  <2>5. ASSUME NEW t \in inFlight, BatchFinally(t)
        PROVE  InFlightRows' \subseteq InFlightRows /\ fatal' \in {fatal, "ambiguous"}
    <3>1. inFlight' \subseteq inFlight /\ fatal' = fatal
      BY <2>5 DEF BatchFinally, lifeVars
    <3> QED
      BY <3>1 DEF InFlightRows
  <2>6. CASE Timers \/ UNCHANGED vars
    <3>1. UNCHANGED <<fatal, inFlight>>
      BY <2>6 DEF Timers, DeadlinePasses, ReceiveTimeout, CooldownElapses, vars, lifeVars
    <3> QED
      BY <2>1, <3>1
  <2> QED
    BY <1>1, <2>2, <2>3, <2>4, <2>5, <2>6 DEF Next, Callers, Requests
<1>2. Base /\ [Next]_vars => [NothingSent]_vars
  BY <1>1
<1> QED
  BY <1>2, BaseAlways, PTL DEF Spec, NothingSentAfterFailure, NothingSent

-----------------------------------------------------------------------------
(* The probe of the circuit breaker.  Beyond SingleProbe the invariant says *)
(* that a breaker that is not used stays closed, that nothing stops a       *)
(* stream that continues, so that a probe is never abandoned, and that the  *)
(* batch about to be sent knows whether it is the probe.                    *)
ProbeInv ==
    /\ SingleProbe
    /\ FailurePolicy # "continue" \/ FailureThreshold = 0 => circuitState = "closed"
    /\ FailurePolicy = "continue" => fatal = "none"
    /\ pc = "send" /\ probe => circuitState = "half-open" /\ inFlight = {}
    /\ pc = "send" /\ ~probe => circuitState # "half-open"

(* An unsettled probe is alone, and no other batch is in flight half-open. *)
LEMMA ProbeAlone ==
    ASSUME ProbeInv, NEW t \in inFlight, ~t.settled, t.probe
    PROVE  circuitState = "half-open" /\ inFlight = {t} /\ ~(pc = "send" /\ probe)
BY DEF ProbeInv, SingleProbe

LEMMA NoProbeNotHalfOpen ==
    ASSUME ProbeInv, NEW t \in inFlight, t.settled \/ ~t.probe
    PROVE  circuitState # "half-open" /\ ~(pc = "send" /\ probe)
BY DEF ProbeInv, SingleProbe

LEMMA ProbeSettles ==
    ASSUME Base, ProbeInv, NEW t \in inFlight, Settle(t)
    PROVE  ProbeInv'
<1>1. /\ ~t.settled /\ UNCHANGED workerVars
      /\ inFlight' = (inFlight \ {t}) \cup {[t EXCEPT !.settled = TRUE]}
  BY DEF Settle, BatchCommits, BatchFails, Settled
<1>2. [t EXCEPT !.settled = TRUE].settled
  BY DEF Base, Types, WorkerTypeOK, Batches
<1>3. FailurePolicy = "continue" => fatal' = "none"
  BY DEF Settle, BatchCommits, BatchFails, ProbeInv, lifeVars
<1>4. CASE t.probe
  <2>1. /\ circuitState = "half-open" /\ inFlight' = {[t EXCEPT !.settled = TRUE]}
        /\ ~(pc = "send" /\ probe)
        /\ FailurePolicy = "continue" /\ FailureThreshold # 0
    BY <1>1, <1>4, ProbeAlone DEF ProbeInv
  <2>2. ASSUME NEW availability, CircuitFailure(t.probe, availability)
        PROVE  CloseCircuit \/ OpenCircuit
    BY <1>4, <2>1, <2>2 DEF CircuitFailure, ServiceAnswered
  <2>3. CloseCircuit \/ OpenCircuit
    BY <1>4, <2>1, <2>2 DEF Settle, BatchCommits, BatchFails, CircuitSuccess
  <2>4. circuitState' \in {"closed", "open"} /\ ~probePending'
    BY <2>3 DEF CloseCircuit, OpenCircuit
  <2> QED
    BY <1>1, <1>2, <1>3, <2>1, <2>4 DEF ProbeInv, SingleProbe, workerVars
<1>5. CASE ~t.probe
  <2>1. circuitState # "half-open" /\ ~(pc = "send" /\ probe)
    BY <1>5, NoProbeNotHalfOpen
  <2>2. \A u \in inFlight' : ~(u.probe /\ ~u.settled)
    BY <1>1, <1>2, <2>1 DEF ProbeInv, SingleProbe
  <2>3. ASSUME NEW availability, CircuitFailure(t.probe, availability)
        PROVE  UNCHANGED <<circuitState, probePending>> \/ OpenCircuit
    BY <1>5, <2>3 DEF CircuitFailure, ServiceAnswered, circuitVars
  <2>4. UNCHANGED <<circuitState, probePending>> \/ OpenCircuit
    BY <1>5, <2>3 DEF Settle, BatchCommits, BatchFails, CircuitSuccess, circuitVars
  <2>5. FailurePolicy # "continue" \/ FailureThreshold = 0 => UNCHANGED circuitState
    BY <1>5 DEF Settle, BatchCommits, BatchFails, CircuitSuccess, CircuitFailure, circuitVars
  <2>6. circuitState' # "half-open" /\ ~probePending'
    BY <2>1, <2>4 DEF OpenCircuit, ProbeInv, SingleProbe
  <2> QED
    BY <1>1, <1>3, <2>1, <2>2, <2>5, <2>6 DEF ProbeInv, SingleProbe, workerVars
<1> QED
  BY <1>4, <1>5

LEMMA ProbeKept ==
    ASSUME Base, ProbeInv, [Next]_vars
    PROVE  ProbeInv'
<1>1. ASSUME UNCHANGED <<circuitState, probePending, fatal, inFlight>>,
             UNCHANGED <<pc, probe>> \/ (pc' # "send" /\ pc # "send")
      PROVE  ProbeInv'
  BY <1>1 DEF ProbeInv, SingleProbe
<1>2. CASE Callers
  <2>1. /\ UNCHANGED <<circuitState, probePending, fatal, inFlight>>
        /\ UNCHANGED <<pc, probe>>
    BY <1>2, CallersFrame DEF workerVars
  <2> QED
    BY <1>1, <2>1
<1>3. CASE WorkerTop \/ WorkerReceived \/ WorkerCapacity \/ WorkerSettle \/ WorkerUnwind
  <2>1. UNCHANGED <<circuitState, probePending, fatal, inFlight>>
    BY <1>3 DEF WorkerTop, WorkerReceived, WorkerCapacity, WorkerSettle, WorkerUnwind,
         circuitVars, lifeVars
  <2>2. pc # "send" /\ pc' # "send"
    BY <1>3 DEF WorkerTop, WorkerReceived, DisposeDelivered, RowDelivered, Push,
         BarrierDelivered, NothingDelivered, WorkerCapacity, WorkerSettle, WorkerUnwind
  <2> QED
    BY <1>1, <2>1, <2>2
<1>4. CASE PassCircuit
  BY <1>4 DEF PassCircuit, ProbeInv, SingleProbe, circuitVars, lifeVars
<1>5. CASE StartProbe
  BY <1>5 DEF StartProbe, OlderSettled, ProbeInv, SingleProbe, lifeVars
<1>6. CASE WorkerSend
  <2>1. UNCHANGED <<circuitState, probePending, fatal>> /\ pc = "send"
    BY <1>6 DEF WorkerSend, circuitVars, lifeVars
  <2>2. CASE DispatchThrows
    BY <1>6, <2>1, <2>2 DEF WorkerSend, DispatchThrows, DispatchForbidden, Dispatch,
         ProbeInv, SingleProbe
  <2>3. CASE Dispatch
    <3> DEFINE new == [rows |-> rows, probe |-> probe, settled |-> FALSE]
    <3>1. inFlight' = inFlight \cup {new} /\ new.probe = probe /\ ~new.settled
      BY <2>3 DEF Dispatch
    <3>2. pc' # "send"
      BY <2>3 DEF Dispatch, Push
    <3> HIDE DEF new
    <3>3. CASE probe
      BY <2>1, <3>1, <3>2, <3>3 DEF ProbeInv, SingleProbe
    <3>4. CASE ~probe
      BY <2>1, <3>1, <3>2, <3>4 DEF ProbeInv, SingleProbe
    <3> QED
      BY <3>3, <3>4
  <2> QED
    BY <1>6, <2>2, <2>3 DEF WorkerSend
<1>7. ASSUME NEW t \in inFlight, BatchFinally(t) PROVE ProbeInv'
  <2>1. circuitState # "half-open" /\ ~(pc = "send" /\ probe)
    BY <1>7, NoProbeNotHalfOpen DEF BatchFinally
  <2> QED
    BY <1>7, <2>1 DEF BatchFinally, ProbeInv, SingleProbe, circuitVars, lifeVars, workerVars
<1>8. CASE Timers \/ UNCHANGED vars
  <2>1. /\ UNCHANGED <<circuitState, probePending, fatal, inFlight>>
        /\ UNCHANGED <<pc, probe>>
    BY <1>8 DEF Timers, DeadlinePasses, ReceiveTimeout, CooldownElapses, vars,
         circuitVars, lifeVars, workerVars
  <2> QED
    BY <1>1, <2>1
<1> QED
  BY <1>2, <1>3, <1>4, <1>5, <1>6, <1>7, <1>8, ProbeSettles
     DEF Next, Callers, Worker, Requests

LEMMA ProbeAlways == Spec => []ProbeInv
<1>1. Init => ProbeInv
  BY DEF Init, ProbeInv, SingleProbe
<1> QED
  BY <1>1, BaseAlways, ProbeKept, PTL DEF Spec

(* A half-open circuit has exactly one probe and nothing else in flight,   *)
(* and the promise the worker waits on is one that the probe will resolve. *)
THEOREM OneProbeAtATime == Spec => []SingleProbe
<1>1. ProbeInv => SingleProbe
  BY DEF ProbeInv
<1> QED
  BY <1>1, ProbeAlways, PTL

-----------------------------------------------------------------------------
(* The delivery reports.  An interval starts empty and counts no drops: a   *)
(* report gets its drops from the snapshot its barrier took.                *)
ReportInv ==
    /\ ReportsAddUp
    /\ interval["dropped"] = 0
    /\ \A b \in Barriers : barrier[b].droppedAt <= lifetime["dropped"]

(* Lifetime and interval counters move together, but for the drops. *)
Together ==
    /\ \A f \in Outcomes : \E n \in Nat :
         lifetime'[f] = lifetime[f] + n /\ interval'[f] = interval[f] + n
    /\ interval'["dropped"] = interval["dropped"]
    /\ \E n \in Nat : lifetime'["dropped"] = lifetime["dropped"] + n

Snapshots ==
    \A b \in Barriers :
        \/ barrier'[b].droppedAt = barrier[b].droppedAt
        \/ barrier'[b].droppedAt = lifetime["dropped"] /\ (accepting \/ ShutdownCall)

LEMMA CountsApplied ==
    /\ \A a, b, f : f \in Fields => Plus(a, b)[f] = a[f] + b[f]
    /\ \A g, n, f : f \in Fields => Count(g, n)[f] = IF f = g THEN n ELSE 0
    /\ \A f \in Fields : Zero[f] = 0
    /\ \A c \in Counts : \A f \in Fields : c[f] \in Nat
    /\ Outcomes \subseteq Fields /\ "dropped" \in Fields /\ "accepted" \in Fields
    /\ "dropped" \notin Outcomes /\ "accepted" \notin Outcomes
BY DEF Plus, Count, Zero, Counts, Fields, Outcomes

LEMMA TogetherUnchanged ==
    ASSUME Base, lifetime' = lifetime, interval' = interval
    PROVE  Together
<1>1. \A f \in Outcomes \cup {"dropped"} :
        lifetime[f] = lifetime[f] + 0 /\ interval[f] = interval[f] + 0
  BY CountsApplied DEF Base, Types, CountTypeOK
<1>2. 0 \in Nat
  OBVIOUS
<1> QED
  BY <1>1, <1>2 DEF Together

LEMMA TogetherAccepted ==
    ASSUME Base, NEW n \in Nat, lifetime' = Plus(lifetime, Count("accepted", n)),
           NEW k \in Nat, interval' = interval \/ interval' = Plus(interval, Count("accepted", k))
    PROVE  Together
<1>1. \A f \in Outcomes \cup {"dropped"} : lifetime[f] \in Nat /\ interval[f] \in Nat
  BY CountsApplied DEF Base, Types, CountTypeOK
<1>2. \A f \in Outcomes \cup {"dropped"} :
        lifetime'[f] = lifetime[f] + 0 /\ interval'[f] = interval[f] + 0
  BY <1>1, CountsApplied
<1>3. interval'["dropped"] = interval["dropped"]
  BY <1>1, <1>2
<1>4. 0 \in Nat
  OBVIOUS
<1> QED
  BY <1>2, <1>3, <1>4 DEF Together

LEMMA TogetherOutcome ==
    ASSUME Base, NEW S \in SUBSET Rows, NEW outcome \in Outcomes, CountOutcome(S, outcome)
    PROVE  Together
<1> DEFINE n == Cardinality(S)
<1>1. n \in Nat
  BY Counting
<1>2. /\ lifetime' = Plus(lifetime, Count(outcome, n))
      /\ interval' = Plus(interval, Count(outcome, n))
  BY DEF CountOutcome
<1> HIDE DEF n
<1>3. \A f \in Outcomes \cup {"dropped"} : lifetime[f] \in Nat /\ interval[f] \in Nat
  BY CountsApplied DEF Base, Types, CountTypeOK
<1>4. \A f \in Outcomes \cup {"dropped"} :
        LET k == IF f = outcome THEN n ELSE 0
        IN  k \in Nat /\ lifetime'[f] = lifetime[f] + k /\ interval'[f] = interval[f] + k
  BY <1>1, <1>2, CountsApplied
<1>5. interval'["dropped"] = interval["dropped"]
  BY <1>3, <1>4, CountsApplied
<1> QED
  BY <1>4, <1>5 DEF Together

LEMMA TogetherLocalFailure ==
    ASSUME Base, NEW S \in SUBSET Rows, CountLocalFailure(S)
    PROVE  Together
<1> DEFINE n == Cardinality(S)
           m == NewlyCounted(S)
<1>1. n \in Nat /\ m \in Nat
  BY Counting
<1>2. /\ lifetime' = Plus(Plus(lifetime, Count("accepted", m)), Count("failed", n))
      /\ interval' = Plus(interval, Count("failed", n))
  BY DEF CountLocalFailure
<1> HIDE DEF n, m
<1>3. \A f \in Outcomes \cup {"dropped"} : lifetime[f] \in Nat /\ interval[f] \in Nat
  BY CountsApplied DEF Base, Types, CountTypeOK
<1>4. \A f \in Outcomes \cup {"dropped"} :
        LET k == IF f = "failed" THEN n ELSE 0
        IN  k \in Nat /\ lifetime'[f] = lifetime[f] + k /\ interval'[f] = interval[f] + k
  BY <1>1, <1>2, <1>3, CountsApplied
<1>5. interval'["dropped"] = interval["dropped"]
  BY <1>3, <1>4, CountsApplied DEF Outcomes
<1> QED
  BY <1>4, <1>5 DEF Together

(* Counting and snapshots keep the books. *)
LEMMA CountingKeepsBooks ==
    ASSUME Base, ReportInv, Together, Snapshots, UNCHANGED reportVars
    PROVE  ReportInv'
<1>1. \A f \in Outcomes \cup {"dropped"} :
        lifetime[f] \in Nat /\ interval[f] \in Nat /\ reported[f] \in Nat /\ unobserved[f] \in Nat
  BY CountsApplied DEF Base, Types, CountTypeOK
<1>2. \A b \in Barriers : barrier[b].droppedAt \in Nat
  BY DEF Base, Types, CallerTypeOK
<1>3. reported' = reported /\ unobserved' = unobserved /\ reportedDropped' = reportedDropped
  BY DEF reportVars
<1>4. reportedDropped \in Nat
  BY DEF Base, Types, CountTypeOK
<1>5. ASSUME NEW f \in Outcomes, reported[f] + unobserved[f] + interval[f] = lifetime[f]
      PROVE  reported'[f] + unobserved'[f] + interval'[f] = lifetime'[f]
  BY <1>1, <1>3, <1>5 DEF Together
<1>6. lifetime'["dropped"] \in Nat /\ lifetime["dropped"] <= lifetime'["dropped"]
  BY <1>1 DEF Together
<1>7. \A b \in Barriers : barrier'[b].droppedAt <= lifetime'["dropped"]
  BY <1>1, <1>2, <1>6 DEF ReportInv, Snapshots
<1>8. reportedDropped <= lifetime["dropped"] => reportedDropped' <= lifetime'["dropped"]
  BY <1>1, <1>3, <1>4, <1>6
<1>9. /\ interval'["dropped"] = 0
      /\ reported["dropped"] + unobserved["dropped"] + interval["dropped"] = reportedDropped
           => reported'["dropped"] + unobserved'["dropped"] + interval'["dropped"] = reportedDropped'
  BY <1>3 DEF ReportInv, Together
<1> QED
  BY <1>5, <1>7, <1>8, <1>9 DEF ReportInv, ReportsAddUp, Outcomes

(* A resolved barrier moves what it reports from one book to another. *)
LEMMA ResolveKeepsBooks ==
    ASSUME Base, ReportInv, NEW b \in Barriers, ResolveBarrier(b), lifetime' = lifetime
    PROVE  ReportInv'
<1> DEFINE d == barrier[b].droppedAt
           out == Output(d)
           more == AtLeastZero(d - reportedDropped)
<1>1. \A f \in Outcomes \cup {"dropped"} :
        lifetime[f] \in Nat /\ interval[f] \in Nat /\ reported[f] \in Nat /\ unobserved[f] \in Nat
  BY CountsApplied DEF Base, Types, CountTypeOK
<1>2. d \in Nat /\ reportedDropped \in Nat /\ d <= lifetime["dropped"]
  BY DEF Base, Types, CallerTypeOK, CountTypeOK, ReportInv
<1>3. more = IF d > reportedDropped THEN d - reportedDropped ELSE 0
  BY <1>2 DEF AtLeastZero
<1>4. \A c \in Barriers : barrier'[c].droppedAt = barrier[c].droppedAt
  BY DEF ResolveBarrier, SetBarrier, Base, Types, CallerTypeOK
<1>5. interval' = Zero
  BY DEF ResolveBarrier
<1>6. \A f \in Outcomes \cup {"dropped"} : interval'[f] = 0
  BY <1>5, CountsApplied
<1>7. \/ unobserved' = out /\ reported' = reported
      \/ unobserved' = Zero /\ reported' = Plus(reported, out)
  BY DEF ResolveBarrier
<1>8. \A f \in Outcomes \cup {"dropped"} : out[f] \in Nat
  BY <1>2, OutputType, CountsApplied
<1>9. reportedDropped' = IF FailurePolicy = "continue" /\ d > reportedDropped
                         THEN d ELSE reportedDropped
  BY DEF ResolveBarrier
<1>10. \A c \in Barriers : barrier'[c].droppedAt <= lifetime'["dropped"]
  BY <1>4 DEF ReportInv
<1>11. \A f \in Outcomes \cup {"dropped"} :
         reported'[f] + unobserved'[f] + interval'[f] = reported[f] + out[f]
  BY <1>1, <1>6, <1>7, <1>8, CountsApplied
<1>12. interval["dropped"] = 0
  BY DEF ReportInv
<1>13. CASE FailurePolicy = "stop"
  <2>1. out["committed"] = interval["committed"] + unobserved["committed"]
    BY <1>13, CountsApplied DEF Output, Carried, Outcomes
  <2> HIDE DEF out, d
  <2>2. reported'["committed"] + unobserved'["committed"] + interval'["committed"] = lifetime'["committed"]
    BY <1>1, <1>11, <2>1 DEF ReportInv, ReportsAddUp, Outcomes
  <2> QED
    BY <1>6, <1>10, <1>13, <2>2 DEF ReportInv, ReportsAddUp
<1>14. CASE FailurePolicy = "continue"
  <2>1. out = Plus(Plus(interval, unobserved), Count("dropped", more))
    BY <1>14 DEF Output, Carried
  <2>2. \A f \in Outcomes : out[f] = interval[f] + unobserved[f]
    BY <1>1, <2>1, CountsApplied
  <2>3. out["dropped"] = interval["dropped"] + unobserved["dropped"] + more
    BY <1>1, <2>1, CountsApplied
  <2> HIDE DEF out, d, more
  <2>4. \A f \in Outcomes :
          reported'[f] + unobserved'[f] + interval'[f] = lifetime'[f]
    BY <1>1, <1>11, <1>14, <2>2 DEF ReportInv, ReportsAddUp, Outcomes
  <2>5. /\ reported'["dropped"] + unobserved'["dropped"] + interval'["dropped"] = reportedDropped'
        /\ reportedDropped' <= lifetime'["dropped"]
    BY <1>1, <1>2, <1>3, <1>9, <1>11, <1>12, <1>14, <2>3 DEF ReportInv, ReportsAddUp
  <2> QED
    BY <1>6, <1>10, <2>4, <2>5 DEF ReportInv, ReportsAddUp, Outcomes
<1> QED
  BY <1>13, <1>14, StreamAssumption

(* Every step counts, takes a snapshot, or resolves a barrier. *)
LEMMA SnapshotsTaken ==
    ASSUME Base, [Next]_vars
    PROVE  Snapshots
<1> USE Names DEF Base, Types, CallerTypeOK, Snapshots
<1>1. ASSUME NEW b \in Barriers, NEW where, SetBarrier(b, where) PROVE Snapshots
  BY <1>1 DEF SetBarrier
<1>2. ASSUME NEW S, RejectBarriers(S) PROVE Snapshots
  BY <1>2, RejectedPlace
<1>3. ASSUME NEW b \in Barriers, EnterBarrier(b), accepting \/ ShutdownCall PROVE Snapshots
  BY <1>3 DEF EnterBarrier
<1>4. ASSUME UNCHANGED barrier PROVE Snapshots
  BY <1>4
<1> HIDE DEF Snapshots
<1>5. CASE Callers
  <2>1. ASSUME NEW r \in Rows, SendCall(r) \/ TrySendAccepted(r) \/ TrySendDropped(r)
                               \/ SendAbort(r) \/ Resume(r)
        PROVE  UNCHANGED barrier
    BY <2>1 DEF SendCall, TrySendAccepted, TrySendDropped, SendAbort, Resume, SendGranted,
         SendRefused, SendReturns, SendBounced, callerVars
  <2>2. ASSUME NEW f \in Flushes, FlushCall(f) \/ FlushAbort(f) PROVE Snapshots
    BY <1>1, <1>3, <2>2 DEF FlushCall, FlushAbort
  <2>3. CASE ShutdownCall
    BY <1>1, <1>3, <2>3 DEF ShutdownCall
  <2>4. ASSUME NEW b \in Barriers, ResumeBarrier(b) PROVE Snapshots
    BY <1>1, <1>2, <2>4 DEF ResumeBarrier, BarrierRefused, TaskAwaited
  <2> QED
    BY <1>4, <1>5, <2>1, <2>2, <2>3, <2>4 DEF Callers, User
<1>6. CASE Worker
  <2>1. CASE WorkerTop \/ WorkerCapacity \/ PassCircuit \/ StartProbe
    BY <1>4, <2>1 DEF WorkerTop, WorkerCapacity, PassCircuit, StartProbe, callerVars
  <2>2. CASE WorkerReceived \/ WorkerSend \/ WorkerUnwind
    BY <1>2, <1>4, <2>2 DEF WorkerReceived, DisposeDelivered, RowDelivered,
         BarrierDelivered, NothingDelivered, WorkerSend, DispatchThrows, Dispatch,
         WorkerUnwind
  <2>3. CASE WorkerSettle
    <3>1. cmd \in Barriers
      BY <2>3 DEF WorkerSettle, WorkerTypeOK
    <3> QED
      BY <1>1, <1>2, <2>3, <3>1 DEF WorkerSettle, ResolveBarrier
  <2> QED
    BY <1>6, <2>1, <2>2, <2>3 DEF Worker
<1>7. CASE Requests \/ Timers \/ UNCHANGED vars
  BY <1>4, <1>7 DEF Requests, Settle, BatchCommits, BatchFails, BatchFinally, Timers,
       DeadlinePasses, ReceiveTimeout, CooldownElapses, vars, callerVars
<1> QED
  BY <1>5, <1>6, <1>7 DEF Next, Callers

LEMMA ReportsKept ==
    ASSUME Base, ReportInv, [Next]_vars
    PROVE  ReportInv'
<1>1. ASSUME Together, UNCHANGED reportVars PROVE ReportInv'
  BY <1>1, SnapshotsTaken, CountingKeepsBooks
<1>2. ASSUME UNCHANGED lifetime, UNCHANGED interval, UNCHANGED reportVars PROVE ReportInv'
  BY <1>1, <1>2, TogetherUnchanged
<1>3. ASSUME UNCHANGED countVars, UNCHANGED reportVars PROVE ReportInv'
  BY <1>2, <1>3 DEF countVars
<1>4. CASE Callers
  <2>1. interval' = interval /\ UNCHANGED reportVars
    BY <1>4, CallersFrame
  <2>2. ASSUME NEW r \in Rows, CountAccepted({r}) PROVE Together
    <3>1. NewlyCounted({r}) \in Nat
      BY Counting
    <3> QED
      BY <2>1, <2>2, <3>1, TogetherAccepted DEF CountAccepted
  <2>3. ASSUME NEW r \in Rows, TrySendDropped(r) PROVE Together
    <3>1. \A f \in Outcomes \cup {"dropped"} : lifetime[f] \in Nat /\ interval[f] \in Nat
      BY CountsApplied DEF Base, Types, CountTypeOK
    <3>2. lifetime' = Plus(lifetime, Count("dropped", 1))
      BY <2>3 DEF TrySendDropped
    <3>3. lifetime'["dropped"] = lifetime["dropped"] + 1
      BY <3>2, CountsApplied
    <3>4. \A f \in Outcomes :
            lifetime'[f] = lifetime[f] + 0 /\ interval'[f] = interval[f] + 0
      BY <2>1, <3>1, <3>2, CountsApplied
    <3> QED
      BY <2>1, <3>3, <3>4 DEF Together
  <2>4. \/ UNCHANGED countVars
        \/ \E r \in Rows : CountAccepted({r}) \/ TrySendDropped(r)
    BY <1>4 DEF Callers, User, SendCall, TrySendAccepted, SendAbort, FlushCall,
         FlushAbort, ShutdownCall, Resume, SendGranted, SendRefused, SendReturns,
         SendBounced, ResumeBarrier, BarrierRefused, TaskAwaited
  <2> QED
    BY <1>1, <1>3, <2>1, <2>2, <2>3, <2>4
<1>5. CASE WorkerTop \/ WorkerCapacity \/ PassCircuit \/ StartProbe \/ Timers \/ UNCHANGED vars
  BY <1>3, <1>5 DEF WorkerTop, WorkerCapacity, PassCircuit, StartProbe, Timers,
       DeadlinePasses, ReceiveTimeout, CooldownElapses, vars
<1>6. CASE WorkerReceived
  <2>1. UNCHANGED reportVars
    BY <1>6 DEF WorkerReceived
  <2>2. CASE delivered \in Rows /\ CountLocalFailure({delivered})
    BY <1>1, <2>1, <2>2, TogetherLocalFailure
  <2>3. CASE delivered \in Rows /\ RowDelivered(delivered)
    <3>1. NewlyCounted({delivered}) \in Nat /\ 1 \in Nat
      BY <2>3, Counting
    <3>2. Together
      BY <2>3, <3>1, TogetherAccepted DEF RowDelivered, CountAccepted
    <3> QED
      BY <1>1, <2>1, <3>2
  <2> QED
    BY <1>3, <1>6, <2>1, <2>2, <2>3
       DEF WorkerReceived, DisposeDelivered, BarrierDelivered, NothingDelivered
<1>7. CASE WorkerSend
  <2>1. CASE after = "push" /\ CountLocalFailure({cmd})
    <3>1. cmd \in Rows
      BY <2>1 DEF Base, Types, WorkerTypeOK
    <3> QED
      BY <1>1, <1>7, <2>1, <3>1, TogetherLocalFailure DEF WorkerSend
  <2> QED
    BY <1>3, <1>7, <2>1 DEF WorkerSend, DispatchThrows, Dispatch
<1>8. CASE WorkerSettle
  <2>1. UNCHANGED lifetime /\ cmd \in Barriers
    BY <1>8 DEF WorkerSettle, Base, Types, WorkerTypeOK
  <2> QED
    BY <1>2, <1>8, <2>1, ResolveKeepsBooks DEF WorkerSettle
<1>9. CASE WorkerUnwind
  BY <1>1, <1>9, QueueTypes, TogetherLocalFailure DEF WorkerUnwind
<1>10. ASSUME NEW t \in inFlight, Settle(t) \/ BatchFinally(t) PROVE ReportInv'
  <2>1. t.rows \in SUBSET Rows
    BY DEF Base, Types, WorkerTypeOK, Batches
  <2>2. UNCHANGED reportVars
    BY <1>10 DEF Settle, BatchCommits, BatchFails, BatchFinally
  <2>3. ASSUME NEW outcome \in Outcomes, CountOutcome(t.rows, outcome) PROVE ReportInv'
    BY <1>1, <2>1, <2>2, <2>3, TogetherOutcome
  <2> QED
    BY <1>3, <1>10, <2>2, <2>3 DEF Settle, BatchCommits, BatchFails, BatchFinally, Outcomes
<1> QED
  BY <1>4, <1>5, <1>6, <1>7, <1>8, <1>9, <1>10 DEF Next, Callers, Worker, Requests

LEMMA ReportsAlways == Spec => []ReportInv
<1>1. Init => ReportInv
  BY CountsApplied DEF Init, ReportInv, ReportsAddUp, Outcomes
<1> QED
  BY <1>1, BaseAlways, ReportsKept, PTL DEF Spec

(* Reports lose nothing and repeat nothing, whoever is cancelled when: what *)
(* callers received, what cancelled flushes left for the next barrier and   *)
(* what is still being counted always add up to the lifetime totals.        *)
THEOREM ReportsComplete == Spec => []ReportsAddUp
<1>1. ReportInv => ReportsAddUp
  BY DEF ReportInv
<1> QED
  BY <1>1, ReportsAlways, PTL
=============================================================================
