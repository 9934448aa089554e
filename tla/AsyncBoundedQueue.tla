-------------------------- MODULE AsyncBoundedQueue --------------------------
(***************************************************************************)
(* The bounded command queue between the callers of an append stream and   *)
(* its worker: class AsyncBoundedQueue of src/stream-internals.ts.         *)
(*                                                                         *)
(* Every method runs to completion on the JavaScript thread, so one method *)
(* call is one action.  What a call awaits afterwards is state: a sender   *)
(* awaits ack[c], the receiver awaits `delivered'.                         *)
(*                                                                         *)
(* Many senders, one receiver: only the worker calls receive(), and it     *)
(* awaits each call before the next, so recvWaiters has at most one entry. *)
(***************************************************************************)
EXTENDS Naturals, Sequences, SequencesExt

CONSTANTS
    Command,    \* what is queued: each command is offered at most once
    Capacity,   \* how many commands the buffer holds
    NONE,       \* receive() has not been answered
    TIMEOUT,    \* QUEUE_TIMEOUT
    CLOSED      \* QUEUE_CLOSED

ASSUME CapacityAssumption == Capacity \in Nat \ {0}

ASSUME AnswerAssumption ==
    /\ {NONE, TIMEOUT, CLOSED} \cap Command = {}
    /\ NONE # TIMEOUT /\ NONE # CLOSED /\ TIMEOUT # CLOSED

VARIABLES
    items,        \* commands in the buffer
    sendWaiters,  \* commands whose sender waits for room, oldest first
    recvWaiter,   \* the receiver: "idle", or waiting with or without a timer
    delivered,    \* the answer of the last receive(), until it is read
    closed,       \* no command is taken any more
    ack           \* ack[c]: what the sender of c has been told

queueVars == <<items, sendWaiters, recvWaiter, delivered, closed, ack>>

Init ==
    /\ items = <<>>
    /\ sendWaiters = <<>>
    /\ recvWaiter = "idle"
    /\ delivered = NONE
    /\ closed = FALSE
    /\ ack = [c \in Command |-> "none"]

TypeOK ==
    /\ items \in Seq(Command)
    /\ sendWaiters \in Seq(Command)
    /\ recvWaiter \in {"idle", "forever", "timed"}
    /\ delivered \in Command \cup {NONE, TIMEOUT, CLOSED}
    /\ closed \in BOOLEAN
    /\ ack \in [Command -> {"none", "waiting", "sent", "refused"}]

-----------------------------------------------------------------------------
(* A definition named Slip... is a mistake the next one could plausibly     *)
(* contain; nothing uses it.  See README, "Slips".                         *)

(* The receiver is waiting for a command. *)
SlipReceiverWaits == FALSE

ReceiverWaits == recvWaiter # "idle"

(* A command handed straight to the waiting receiver. *)
HandOver(c) ==
    /\ delivered' = c
    /\ recvWaiter' = "idle"
    /\ ack' = [ack EXCEPT ![c] = "sent"]
    /\ UNCHANGED <<items, sendWaiters, closed>>

SlipEnqueue(c) ==
    /\ items' = <<c>> \o items
    /\ ack' = [ack EXCEPT ![c] = "sent"]
    /\ UNCHANGED <<sendWaiters, recvWaiter, delivered, closed>>

Enqueue(c) ==
    /\ items' = Append(items, c)
    /\ ack' = [ack EXCEPT ![c] = "sent"]
    /\ UNCHANGED <<sendWaiters, recvWaiter, delivered, closed>>

Wait(c) ==
    /\ sendWaiters' = Append(sendWaiters, c)
    /\ ack' = [ack EXCEPT ![c] = "waiting"]
    /\ UNCHANGED <<items, recvWaiter, delivered, closed>>

Refuse(c) ==
    /\ ack' = [ack EXCEPT ![c] = "refused"]
    /\ UNCHANGED <<items, sendWaiters, recvWaiter, delivered, closed>>

(* send(): refused when closed, else handed over, buffered, or parked. *)
Send(c) ==
    CASE closed                  -> Refuse(c)
      [] ~closed /\ ReceiverWaits -> HandOver(c)
      [] ~closed /\ ~ReceiverWaits /\ Len(items) < Capacity -> Enqueue(c)
      [] OTHER                   -> Wait(c)

(* trySend() succeeds only where it would neither wait nor overtake. *)
CanTrySend ==
    /\ ~closed
    /\ \/ ReceiverWaits
       \/ sendWaiters = <<>> /\ Len(items) < Capacity

TrySend(c) ==
    /\ CanTrySend
    /\ IF ReceiverWaits THEN HandOver(c) ELSE Enqueue(c)

(* The abort listener of a parked sender. *)
SlipAbort(c) ==
    /\ c \in ToSet(sendWaiters)
    /\ ack' = [ack EXCEPT ![c] = "refused"]
    /\ UNCHANGED <<items, sendWaiters, recvWaiter, delivered, closed>>

Abort(c) ==
    /\ \E i \in DOMAIN sendWaiters :
        sendWaiters[i] = c /\ sendWaiters' = RemoveAt(sendWaiters, i)
    /\ ack' = [ack EXCEPT ![c] = "refused"]
    /\ UNCHANGED <<items, recvWaiter, delivered, closed>>

(* How many parked commands drainSenders() moves into a buffer of n. *)
SlipRoom(n) == 0

Room(n) ==
    IF Capacity - n <= Len(sendWaiters) THEN Capacity - n ELSE Len(sendWaiters)

(* receive() with a buffered command: take the head, then drainSenders(),  *)
(* which finds no waiting receiver: the only one is making this call.      *)
ReceiveBuffered ==
    LET k == Room(Len(items) - 1)
        moved == SubSeq(sendWaiters, 1, k)
    IN  /\ delivered' = Head(items)
        /\ items' = Tail(items) \o moved
        /\ sendWaiters' = SubSeq(sendWaiters, k + 1, Len(sendWaiters))
        /\ ack' = [c \in Command |-> IF c \in ToSet(moved) THEN "sent" ELSE ack[c]]
        /\ UNCHANGED <<recvWaiter, closed>>

(* receive() from a parked sender when the buffer is empty. *)
ReceiveParked ==
    /\ delivered' = Head(sendWaiters)
    /\ sendWaiters' = Tail(sendWaiters)
    /\ ack' = [ack EXCEPT ![Head(sendWaiters)] = "sent"]
    /\ UNCHANGED <<items, recvWaiter, closed>>

ReceiveClosed ==
    /\ delivered' = CLOSED
    /\ UNCHANGED <<items, sendWaiters, recvWaiter, closed, ack>>

ReceiveWaits(timed) ==
    /\ recvWaiter' = IF timed THEN "timed" ELSE "forever"
    /\ UNCHANGED <<items, sendWaiters, delivered, closed, ack>>

(* receive(timeoutMs): `timed' says that timeoutMs > 0. *)
Receive(timed) ==
    /\ recvWaiter = "idle"
    /\ delivered = NONE
    /\ IF items # <<>> THEN ReceiveBuffered
       ELSE IF sendWaiters # <<>> THEN ReceiveParked
       ELSE IF closed THEN ReceiveClosed
       ELSE ReceiveWaits(timed)

Timeout ==
    /\ recvWaiter = "timed"
    /\ recvWaiter' = "idle"
    /\ delivered' = TIMEOUT
    /\ UNCHANGED <<items, sendWaiters, closed, ack>>

(* The receiver resumes with the answer. *)
Consume ==
    /\ delivered # NONE
    /\ delivered' = NONE
    /\ UNCHANGED <<items, sendWaiters, recvWaiter, closed, ack>>

(* close(): parked senders are refused and a waiting receiver is told; *)
(* what is buffered stays.                                            *)
CloseEffect ==
    /\ closed' = TRUE
    /\ sendWaiters' = <<>>
    /\ ack' = [c \in Command |-> IF c \in ToSet(sendWaiters) THEN "refused" ELSE ack[c]]
    /\ recvWaiter' = "idle"
    /\ delivered' = IF recvWaiter = "idle" THEN delivered ELSE CLOSED

Close ==
    /\ IF closed THEN UNCHANGED <<closed, sendWaiters, ack, recvWaiter, delivered>>
       ELSE CloseEffect
    /\ UNCHANGED items

(* The worker's last use of the queue: close(), then drain(). *)
CloseAndDrain ==
    /\ IF closed THEN UNCHANGED <<closed, sendWaiters, ack, recvWaiter, delivered>>
       ELSE CloseEffect
    /\ items' = <<>>

-----------------------------------------------------------------------------
(* The queue among senders that each offer a command once and a worker. *)
New(c) == ack[c] = "none"

Worker == Receive(TRUE) \/ Receive(FALSE) \/ Consume

Next ==
    \/ \E c \in Command : New(c) /\ (Send(c) \/ TrySend(c))
    \/ \E c \in Command : Abort(c)
    \/ Worker
    \/ Timeout
    \/ Close
    \/ CloseAndDrain

Spec == Init /\ [][Next]_queueVars

-----------------------------------------------------------------------------
(* No lost wake-up: while the receiver waits there is nothing to receive,  *)
(* buffered, parked or already answered, and the queue is open.            *)
NoLostWakeup ==
    recvWaiter # "idle" =>
        items = <<>> /\ sendWaiters = <<>> /\ delivered = NONE /\ ~closed

(* A sender is parked only behind a full buffer of an open queue, so a     *)
(* take always makes room for it, and the buffer never exceeds Capacity.   *)
ParkedBehindFullBuffer ==
    /\ Len(items) <= Capacity
    /\ sendWaiters # <<>> => Len(items) = Capacity /\ ~closed

(* A command is in at most one place, and its sender's ack agrees: parked  *)
(* exactly while "waiting", and buffered only once "sent".                 *)
AckMatchesPlace ==
    /\ IsInjective(items \o sendWaiters)
    /\ \A c \in Command :
        /\ c \in ToSet(sendWaiters) <=> ack[c] = "waiting"
        /\ c \in ToSet(items) => ack[c] = "sent" /\ delivered # c

(* A command answered to the receiver, buffered or parked, in the order in *)
(* which the receiver will see them.                                       *)
Pending ==
    (IF delivered \in Command THEN <<delivered>> ELSE <<>>) \o items \o sendWaiters

(* The queue is a FIFO channel: see FifoChannel. *)
Channel == INSTANCE FifoChannel WITH
    channel <- Pending,
    accepted <- {c \in Command : ack[c] = "sent"},
    offered <- {c \in Command : ack[c] # "none"},
    open <- ~closed

FifoOrder == Channel!Spec
=============================================================================
