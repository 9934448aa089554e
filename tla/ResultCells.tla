----------------------------- MODULE ResultCells -----------------------------
(***************************************************************************)
(* result.ts: what a program gets for the cells of a result.  A cell has   *)
(* the text of an integer, a number that is not finite, a timestamp or a   *)
(* truth value, is null, or is malformed.                                  *)
(***************************************************************************)
EXTENDS AppendValues

CONSTANTS
    MaxUnsigned,    \* of a uint: 2^64 - 1 in the code
    Powers          \* of two, by which a number's mantissa is multiplied

(* A mantissa has as many bits as MaxSafeInteger, which is 2^53 - 1. *)
ASSUME CellsAssumption ==
    /\ MaxUnsigned \in Nat
    /\ {1, 2} \subseteq Powers /\ Powers \subseteq Nat
    /\ \E half \in 1 .. MaxSafeInteger : MaxSafeInteger + 1 = 2 * half

NullCell == <<"null", 0>>
Malformed == <<"malformed", 0>>
IntegerCell(n) == <<"integer", n>>
IntegerModes == {"bigint", "number", "string"}

Thrown == <<"thrown", 0>>

(* Number(integer): a nearest number; of two either may be it. *)
Numbers == {s * m * p : s \in {-1, 1}, m \in 0 .. MaxSafeInteger, p \in Powers}
Distance(m, n) == IF m > n THEN m - n ELSE n - m
Nearest(n) == {m \in Numbers : \A k \in Numbers : Distance(m, n) <= Distance(k, n)}

InRange(n, type) ==
    IF type = "uint" THEN 0 <= n /\ n <= MaxUnsigned
    ELSE MinInteger <= n /\ n <= MaxInteger

ParseInteger(n, type, mode) ==
    CASE ~InRange(n, type) -> {Thrown}
      [] InRange(n, type) /\ mode = "bigint" -> {BigInt(n)}
      [] InRange(n, type) /\ mode = "number" -> {Number(m) : m \in Nearest(n)}
      [] InRange(n, type) /\ mode = "string" -> {String(n)}

ParseFloat(cell) ==
    CASE cell[1] = "integer" -> {Number(m) : m \in Nearest(cell[2])}
      [] cell[1] = "nonfinite" -> {cell}
      [] OTHER -> {Thrown}

ParseCell(cell, type, mode) ==
    CASE cell = NullCell -> {Null}
      [] cell # NullCell /\ type = "string" -> {String(cell[2])}
      [] cell[1] = "integer" /\ type \in {"int", "uint"} -> ParseInteger(cell[2], type, mode)
      [] cell # NullCell /\ type = "float" -> ParseFloat(cell)
      [] cell[1] = "timestamp" /\ type = "timestamp" -> {<<"date", 0>>}
      [] cell[1] = "boolean" /\ type = "boolean" -> {cell}
      [] OTHER -> {Thrown}

(* A column name that occurs twice would lose a cell. *)
UniqueFieldNames(fields) ==
    \A i, j \in DOMAIN fields : fields[i].name = fields[j].name => i = j

(* toValues(), a row at a time: the values its cells may give. *)
ParseRow(fields, row, mode) ==
    IF Len(row) # Len(fields) THEN {<<Thrown>>}
    ELSE LET Values(k) == ParseCell(row[k], fields[k].type, mode)
         IN  {v \in [DOMAIN row -> UNION {Values(k) : k \in DOMAIN row}] :
                \A k \in DOMAIN row : v[k] \in Values(k)}

(* rowObject(): the items of an object, by column; of equal names the last *)
(* one stays.                                                              *)
RowObject(fields, values) ==
    LET kept == {k \in DOMAIN fields :
                    \A j \in DOMAIN fields : j > k => fields[j].name # fields[k].name}
    IN  [k \in kept |-> values[k]]
=============================================================================
