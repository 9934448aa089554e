----------------------------- MODULE ResultCopy -----------------------------
(***************************************************************************)
(* A program that reads a row of a result as an object and sends the       *)
(* object through a strict stream: toObjects(), encodeAppendRecord().  A   *)
(* record beyond the size limit is left out: its program is told, as for   *)
(* any other that is refused.                                              *)
(***************************************************************************)
EXTENDS ResultCells

CONSTANTS
    Results     \* columns, a row and the integer mode it is read with

ASSUME ResultsAssumption ==
    \A result \in Results :
        /\ result.fields \in Seq([name : STRING, type : STRING])
        /\ result.row \in Seq(STRING \X Int)
        /\ result.mode \in IntegerModes

VARIABLES
    result,     \* what the program was given
    stage,
    object,     \* column -> value, once it has read the row
    document    \* what the stream took for it

copyVars == <<result, stage, object, document>>

CopyInit ==
    /\ result \in Results
    /\ stage = "reading" /\ object = <<>> /\ document = <<>>

(* toObjects() *)
ReadRow ==
    /\ stage = "reading"
    /\ \E values \in ParseRow(result.fields, result.row, result.mode) :
         IF UniqueFieldNames(result.fields) /\ \A k \in DOMAIN values : values[k] # Thrown
         THEN stage' = "sending" /\ object' = RowObject(result.fields, values)
         ELSE stage' = "threw" /\ UNCHANGED object
    /\ UNCHANGED <<result, document>>

(* encodeAppendRecord() of an object of which no value is an object. *)
EncodeFlat(items) ==
    EncodeObject("plain", [k \in DOMAIN items |-> EncodeLeaf(items[k])], FALSE)

SendObject ==
    /\ stage = "sending"
    /\ IF EncodeFlat(object) = Refused
       THEN stage' = "threw" /\ UNCHANGED document
       ELSE stage' = "done" /\ document' = EncodeFlat(object)
    /\ UNCHANGED <<result, object>>

CopyNext == ReadRow \/ SendObject

CopySpec == CopyInit /\ [][CopyNext]_copyVars

-----------------------------------------------------------------------------
(***************************************************************************)
(* No integer changes on its way from a result into a table, whatever the  *)
(* integer mode: it arrives as it was, or the program is told; no column   *)
(* disappears (result.ts: parseInteger(), append-encoding.ts: encode()).   *)
(***************************************************************************)
IntegersSurvive ==
    stage = "done" =>
        /\ DOMAIN document[2] = DOMAIN result.row
        /\ \A k \in DOMAIN result.row : result.row[k][1] = "integer" =>
             LET n == result.row[k][2]
             IN  document[2][k] \in {<<"token", n>>, String(n)}
=============================================================================
