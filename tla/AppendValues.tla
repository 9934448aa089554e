---------------------------- MODULE AppendValues ----------------------------
(***************************************************************************)
(* JavaScript values as encodeAppendRecord() tells them apart, and what it *)
(* writes for one of them.  A value is a pair of a tag and what the tag    *)
(* needs; "object" refers to a heap, as objects may be shared and cyclic,  *)
(* and "fresh" is an object nothing else refers to.                        *)
(***************************************************************************)
EXTENDS Integers, Sequences

CONSTANTS
    MaxSafeInteger,           \* of a number: 2^53 - 1 in the code
    MinInteger, MaxInteger    \* of a bigint: signed 64 bits in the code

ASSUME EncodingAssumption ==
    /\ MaxSafeInteger \in Nat
    /\ MinInteger < -MaxSafeInteger /\ MaxInteger > MaxSafeInteger

String(x) == <<"string", x>>
Number(n) == <<"number", n>>    \* a number without a fraction
BigInt(n) == <<"bigint", n>>
Null == <<"null", 0>>
Hole == <<"hole", 0>>           \* a place of a sparse array
Accessor == <<"accessor", 0>>   \* a property with a getter

(* An object has a kind and items: "array", "plain", "symbols" (plain with *)
(* a symbol as a key), "error", "custom" (of another class), "stringless"  *)
(* (the same, with no usable toString()) and "forged" (made from           *)
(* Date.prototype, and no Date).                                           *)
IsObject(v) == v[1] \in {"object", "fresh"}
ObjectOf(heap, v) == IF v[1] = "object" THEN heap[v[2]] ELSE v[2]
IsPlain(o) == o.kind \in {"plain", "symbols"}

Refused == <<"refused", 0>>

IsSafe(n) == -MaxSafeInteger <= n /\ n <= MaxSafeInteger

(* One more is a number that others are rounded to. *)
SlipEncodesInteger(n) == -MaxSafeInteger <= n /\ n <= MaxSafeInteger + 1

EncodesInteger(n) == IsSafe(n)

EncodeLeaf(v) ==
    CASE v[1] \in {"string", "boolean", "null"} -> v
      [] v[1] = "number" -> IF EncodesInteger(v[2]) THEN <<"token", v[2]>> ELSE Refused
      [] v[1] = "bigint" ->
           IF MinInteger <= v[2] /\ v[2] <= MaxInteger THEN <<"token", v[2]>> ELSE Refused
      [] v[1] = "fraction" -> v
      [] v[1] = "date" -> String("date")
      [] OTHER -> Refused    \* not finite, undefined, functions, invalid date

(* An array or a plain object, given what becomes of its items. *)
EncodeObject(kind, documents, cyclic) ==
    IF \/ kind \notin {"array", "plain"}
       \/ cyclic
       \/ \E k \in DOMAIN documents : documents[k] = Refused
    THEN Refused
    ELSE <<kind, documents>>
=============================================================================
