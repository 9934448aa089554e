--------------------------- MODULE AppendEncoding ---------------------------
(***************************************************************************)
(* encodeAppendRecord() and prepareRecord(): which records a strict append *)
(* accepts, objects within objects included, and what it writes for them.  *)
(***************************************************************************)
EXTENDS AppendValues, FiniteSetsExt

CONSTANT MaxAppendBodyBytes    \* 8 MiB in the code

ASSUME BodyAssumption == MaxAppendBodyBytes \in Nat

RECURSIVE Encode(_, _, _)
Encode(heap, v, ancestors) ==
    IF ~IsObject(v) THEN EncodeLeaf(v)
    ELSE LET o == ObjectOf(heap, v)
         IN  EncodeObject(o.kind,
                 [k \in 1 .. Len(o.items) |-> Encode(heap, o.items[k], ancestors \cup {v})],
                 v \in ancestors)

EncodeAppendRecord(heap, record) ==
    IF IsObject(record) /\ IsPlain(ObjectOf(heap, record))
    THEN Encode(heap, record, {})
    ELSE Refused

(* Each object and each other value is taken to be one byte long. *)
RECURSIVE Bytes(_)
Bytes(document) ==
    IF document[1] \in {"array", "plain"}
    THEN 1 + MapThenSumSet(LAMBDA k : Bytes(document[2][k]), DOMAIN document[2])
    ELSE 1

RecordTooLarge == <<"tooLarge", 0>>

PrepareRecord(heap, record) ==
    LET document == EncodeAppendRecord(heap, record)
    IN  IF document # Refused /\ Bytes(document) > MaxAppendBodyBytes
        THEN RecordTooLarge
        ELSE document
=============================================================================
