---------------------------- MODULE TailDelivery ----------------------------
(***************************************************************************)
(* The worker that stores what other programs logged, and the strict       *)
(* stream that encodes its rows.                                           *)
(***************************************************************************)
EXTENDS TailWorker, Functions

CONSTANTS
    Traces      \* a heap and the item of a trace that refers to it

VARIABLES
    trace,
    pc,
    rows,       \* records still to be sent
    sent        \* documents the stream took

vars == <<trace, pc, rows, sent>>

Init ==
    /\ trace \in Traces
    /\ pc = "start" /\ rows = <<>> /\ sent = <<>>

(* tail(): a value that cannot be read throws before any row is sent. *)
ReadTrace ==
    /\ pc = "start"
    /\ LET read == ToEventRows(trace.heap, trace.item)
       IN  IF \E k \in DOMAIN read : read[k] = Unreadable
           THEN pc' = "threw" /\ UNCHANGED rows
           ELSE pc' = "sending" /\ rows' = read
    /\ UNCHANGED <<trace, sent>>

(* sendAll(): the first record that send() refuses ends it, and tail(). *)
SendRow ==
    /\ pc = "sending" /\ rows # <<>>
    /\ LET document == PrepareRecord(trace.heap, Head(rows))
       IN  IF document \in {Refused, RecordTooLarge}
           THEN pc' = "threw" /\ UNCHANGED <<rows, sent>>
           ELSE sent' = Append(sent, document) /\ rows' = Tail(rows) /\ UNCHANGED pc
    /\ UNCHANGED trace

Finish ==
    /\ pc = "sending" /\ rows = <<>>
    /\ pc' = "done"
    /\ UNCHANGED <<trace, rows, sent>>

Next == ReadTrace \/ SendRow \/ Finish

Spec == Init /\ [][Next]_vars

-----------------------------------------------------------------------------
RECURSIVE Nesting(_)
Nesting(document) ==
    IF document[1] \in {"array", "plain"}
    THEN 1 + Max({0} \cup {Nesting(document[2][k]) : k \in DOMAIN document[2]})
    ELSE 0

(* The values that a message holds, as deep as they are looked at. *)
RECURSIVE Within(_, _, _)
Within(heap, v, depth) ==
    IF ~IsObject(v) \/ depth = 0 THEN {v}
    ELSE {v} \cup UNION {Within(heap, w, depth - 1) : w \in Range(ObjectOf(heap, v).items)}

Stringless(heap, v) ==
    \/ v[1] = "stringless"
    \/ IsObject(v) /\ ObjectOf(heap, v).kind \in {"stringless", "forged"}

(***************************************************************************)
(* "Non-finite numbers, unsafe integers, sparse arrays, Errors, or         *)
(* circular objects never reject the batch" (tail-worker.ts:258-259).  A   *)
(* batch is rejected only before any of it is sent, for a message that     *)
(* holds something without a string, or at a row beyond the size limit;    *)
(* any other is sent whole.  A message that the encoder would take as it   *)
(* is, sharing of objects included, is stored unaltered up to the depth    *)
(* limit.                                                                  *)
(***************************************************************************)
TailDelivers ==
    LET logs == trace.item.logs
        AsIs(k) == Encode(trace.heap, logs[k], {})
    IN  /\ pc = "threw" =>
             IF rows = <<>>
             THEN /\ sent = <<>>
                  /\ \E k \in DOMAIN logs :
                       \E v \in Within(trace.heap, logs[k], MaxSanitizeDepth) :
                           Stringless(trace.heap, v)
             ELSE EncodeAppendRecord(trace.heap, Head(rows)) # Refused
        /\ pc = "done" =>
             /\ Len(sent) = 1 + Len(logs) + Len(trace.item.exceptions)
             /\ \A k \in DOMAIN logs :
                  AsIs(k) # Refused /\ Nesting(AsIs(k)) <= MaxSanitizeDepth =>
                      sent[k + 1][2][2] = <<"plain", <<AsIs(k)>> >>
=============================================================================
