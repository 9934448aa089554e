------------------------------- MODULE Outbox -------------------------------
(***************************************************************************)
(* examples/templates/audit-outbox.ts: a worker takes an interval of rows  *)
(* from a durable source, delivers it with an append stream of its own,    *)
(* and checkpoints.  It may crash at any point, and what it had on its way *)
(* may still be written: the source replays the interval.                  *)
(*                                                                         *)
(* The stream is StreamPromise, which AppendStream keeps.  The rows of an  *)
(* interval are in the order in which they are sent.                       *)
(***************************************************************************)
EXTENDS Integers, Sequences, FiniteSets, StreamPromise

CONSTANTS
    Interval,    \* the source: a sequence of intervals, sequences of rows
    Invalid,     \* rows that send() cannot encode, or that are too large
    MaxFaults    \* bound of the model: failed and crashed deliveries

Intervals == 1 .. Len(Interval)
RowsOf(i) == {Interval[i][k] : k \in 1 .. Len(Interval[i])}

(* The worker takes the default policy, and its source repeats no row. *)
ASSUME OutboxAssumption ==
    /\ Stops = TRUE
    /\ Interval \in Seq(Seq(Row))
    /\ \A i, j \in Intervals : RowsOf(i) \cap RowsOf(j) = {} \/ i = j
    /\ Invalid \subseteq Row
    /\ MaxFaults \in Nat

VARIABLES
    cursor,      \* the source's: intervals checkpointed
    pc,          \* where deliverAuditInterval() awaits
    taken,       \* the interval it has read
    next,        \* the row it awaits send() of
    copies,      \* row -> how often the service has written it
    late,        \* row -> writes that may yet happen, their request given up
    faults       \* history: deliveries that failed or crashed

worker == <<pc, taken, next>>
service == <<copies, late>>
vars == <<streamVars, cursor, worker, service, faults>>

TypeOK ==
    /\ StreamTypeOK
    /\ cursor \in Nat /\ cursor <= Len(Interval)
    /\ pc \in {"idle", "sending", "stopping", "checkpointing", "cleaning"}
    /\ taken \in Intervals \cup {0}
    /\ next \in Nat
    /\ copies \in [Row -> Nat]
    /\ late \in [Row -> Nat]
    /\ faults \in Nat

Init ==
    /\ StreamInit
    /\ cursor = 0
    /\ pc = "idle" /\ taken = 0 /\ next = 0
    /\ copies = [r \in Row |-> 0]
    /\ late = [r \in Row |-> 0]
    /\ faults = 0

PlusOne(f, S) == [r \in Row |-> IF r \in S THEN f[r] + 1 ELSE f[r]]

-----------------------------------------------------------------------------
(* The stream and the service. *)

(* Rows whose send() was called and got as far as the stream's queue. *)
Offered ==
    IF pc = "idle" THEN {}
    ELSE {Interval[taken][k] : k \in {j \in 1 .. next : j <= Len(Interval[taken])}} \ Invalid

Dispatch(S) ==
    /\ S \subseteq Offered
    /\ HandOver(S)
    /\ UNCHANGED <<cursor, worker, service, faults>>

(* "committed" was written once and "failed" never; an ambiguous request    *)
(* may be written after the client gave it up.                              *)
Outcome(S, outcome) ==
    /\ Settle(S, outcome)
    /\ copies' = IF outcome = "committed" THEN PlusOne(copies, S) ELSE copies
    /\ late' = IF outcome = "ambiguous" THEN PlusOne(late, S) ELSE late
    /\ outcome = "committed" \/ Broken \/ faults < MaxFaults
    /\ UNCHANGED <<cursor, worker, faults>>

WrittenLate(r) ==
    /\ late[r] > 0
    /\ late' = [late EXCEPT ![r] = @ - 1]
    /\ copies' = [copies EXCEPT ![r] = @ + 1]
    /\ UNCHANGED <<streamVars, cursor, worker, faults>>

FailWaiting(S) ==
    /\ S \subseteq Offered
    /\ GiveUp(S)
    /\ UNCHANGED <<cursor, worker, service, faults>>

-----------------------------------------------------------------------------
(* deliverAuditInterval(). *)

(* readUnconfirmed() has an interval for it, and the stream is built. *)
ReadUnconfirmed ==
    /\ pc = "idle"
    /\ cursor < Len(Interval)
    /\ pc' = "sending"
    /\ taken' = cursor + 1
    /\ next' = 1
    /\ NewStream
    /\ UNCHANGED <<cursor, service, faults>>

Awaited == Interval[taken][next]

(* send() resolves, and the loop goes on. *)
RowSent ==
    /\ pc = "sending"
    /\ next <= Len(Interval[taken])
    /\ Awaited \notin Invalid
    /\ Accept(Awaited)
    /\ next' = next + 1
    /\ UNCHANGED <<cursor, pc, taken, service, faults>>

Stop ==
    /\ pc = "sending"
    /\ next > Len(Interval[taken])
    /\ pc' = "stopping"
    /\ BeginShutdown
    /\ UNCHANGED <<cursor, taken, next, service, faults>>

(* The catch clause: a stream that was not shut down is, and awaited. *)
SlipCleanUp == pc' = "idle" /\ UNCHANGED streamVars

CleanUp ==
    /\ pc' = "cleaning"
    /\ IF closing = "no" THEN BeginShutdown ELSE UNCHANGED streamVars

(* A stream that was stopped takes no row, and none takes an invalid one, *)
(* whatever came before it: each replay of its interval fails there.       *)
SendThrows ==
    /\ pc = "sending"
    /\ next <= Len(Interval[taken])
    /\ Broken \/ (Awaited \in Invalid /\ faults < MaxFaults)
    /\ CleanUp
    /\ UNCHANGED <<cursor, taken, next, service, faults>>

(* The stream's own shutdown, as far as the worker awaits it. *)
Stopped ==
    /\ pc \in {"stopping", "cleaning"}
    /\ Finish
    /\ UNCHANGED <<cursor, worker, service, faults>>

(* Whether the worker may go on to checkpoint(). *)
SlipAllDelivered == Offered \subseteq accepted

AllDelivered == closing = "ok"

ShutdownReturns ==
    /\ pc = "stopping"
    /\ \/ AllDelivered /\ pc' = "checkpointing" /\ UNCHANGED streamVars
       \/ closing = "failed" /\ CleanUp
    /\ UNCHANGED <<cursor, taken, next, service, faults>>

(* checkpoint() resolves. *)
SlipSaved == cursor

Saved == taken

Checkpoint ==
    /\ pc = "checkpointing"
    /\ cursor' = Saved
    /\ pc' = "idle"
    /\ UNCHANGED <<streamVars, taken, next, service, faults>>

(* checkpoint() throws, whether or not it has taken effect. *)
CheckpointThrows ==
    /\ pc = "checkpointing"
    /\ faults < MaxFaults
    /\ cursor' \in {cursor, Saved}
    /\ CleanUp
    /\ UNCHANGED <<taken, next, service, faults>>

(* The error is thrown once the catch clause's shutdown() has settled. *)
Throw ==
    /\ pc = "cleaning"
    /\ closing \in {"ok", "failed"}
    /\ pc' = "idle"
    /\ faults' = faults + 1
    /\ UNCHANGED <<streamVars, cursor, taken, next, service>>

(* The process is gone; its requests may still be written. *)
Crash ==
    /\ pc # "idle"
    /\ faults < MaxFaults
    /\ faults' = faults + 1
    /\ pc' = "idle"
    /\ late' = PlusOne(late, open)
    /\ NewStream
    /\ UNCHANGED <<cursor, taken, next, copies>>

Worker ==
    \/ ReadUnconfirmed \/ RowSent \/ Stop \/ SendThrows \/ ShutdownReturns
    \/ Checkpoint \/ Throw

Stream ==
    \/ \E S \in SUBSET Row :
         \/ Dispatch(S)
         \/ \E o \in {"committed", "failed", "ambiguous"} : Outcome(S, o)
         \/ FailWaiting(S)
    \/ Stopped

Next ==
    \/ Worker \/ Stream
    \/ CheckpointThrows \/ Crash
    \/ \E r \in Row : WrittenLate(r)

Spec == Init /\ [][Next]_vars

(***************************************************************************)
(* The worker goes on, or is started again, and its stream sends and       *)
(* settles what it took (AppendStream: BarriersReturn, AcceptedRowsSettle). *)
(***************************************************************************)
FairSpec == Spec /\ WF_vars(Worker) /\ WF_vars(Stream)

-----------------------------------------------------------------------------
(* At least once: an interval is checkpointed only after each of its rows  *)
(* was written, whatever failed or crashed before (deliverAuditInterval()). *)
NothingSkipped ==
    \A i \in 1 .. cursor : \A r \in RowsOf(i) : copies[r] >= 1

(* "Settle outstanding requests before another worker replays the interval": *)
(* a delivery that returned or threw has no request in flight.             *)
SettledBeforeReplay == pc = "idle" => open = {}

(* "Replaying after a crash or unknown outcome may duplicate committed     *)
(* events", and nothing else does: each further copy of a row, written or  *)
(* still to come, is owed to a delivery that failed or crashed.            *)
DuplicatesOnlyAfterFaults ==
    \A r \in Row : copies[r] + late[r] <= 1 + faults

(* Once deliveries stop failing, every interval is delivered up to the     *)
(* first that holds an invalid row; none behind that one ever is           *)
(* (NothingSkipped, as its row is never written).                          *)
Deliverable ==
    {i \in Intervals : \A j \in 1 .. i : RowsOf(j) \cap Invalid = {}}

EverythingDelivered == <>(Deliverable \subseteq 1 .. cursor)
==============================================================================
