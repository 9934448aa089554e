----------------------------- MODULE TailWorker -----------------------------
(***************************************************************************)
(* examples/frameworks/cloudflare-worker/tail-worker.ts: what becomes of   *)
(* the values a program logged, before a strict stream encodes them.  Left *)
(* out: proxies, getters in arrays, an own property called __proto__, an   *)
(* error's name, message or stack that is a getter or not a string.        *)
(***************************************************************************)
EXTENDS AppendEncoding

CONSTANTS
    MaxSanitizeDepth,
    MinStatus, MaxStatus    \* 100 and 599 in the code

ASSUME DepthAssumption == {MaxSanitizeDepth, MinStatus, MaxStatus} \subseteq Nat

StringField(v) == IF v[1] = "string" THEN v ELSE Null

FiniteNumber(v) ==
    IF v[1] = "fraction" \/ (v[1] = "number" /\ IsSafe(v[2])) THEN v ELSE Null

(* String() or getTime() throws, and with it everything that called it. *)
Unreadable == <<"unreadable", 0>>

SanitizeLeaf(v) ==
    CASE v[1] \in {"string", "boolean", "null", "fraction"} -> v
      [] v[1] = "number" /\ IsSafe(v[2]) -> v
      [] v[1] = "bigint" /\ MinInteger <= v[2] /\ v[2] <= MaxInteger -> v
      [] v[1] \in {"undefined", "hole"} -> Null
      [] v[1] = "stringless" -> Unreadable    \* a function
      [] OTHER -> String(v[1])

Fresh(kind, items) ==
    IF \E k \in DOMAIN items : items[k] = Unreadable
    THEN Unreadable
    ELSE <<"fresh", [kind |-> kind, items |-> items]>>

(* Properties that are not copied. *)
Skipped(v) == v[1] \in {"accessor", "undefined"}

(* An object that was left still counts as an ancestor. *)
SlipAncestorsOf(ancestors, o, k) ==
    ancestors \cup {o.items[j] : j \in 1 .. k - 1}

(* The ancestors of an object's k-th item are those of the object. *)
AncestorsOf(ancestors, o, k) == ancestors

RECURSIVE Sanitize(_, _, _, _)
Sanitize(heap, v, depth, ancestors) ==
    IF ~IsObject(v) THEN SanitizeLeaf(v)
    ELSE LET o == ObjectOf(heap, v)
             Item(k) == Sanitize(heap, o.items[k], depth + 1,
                                 AncestorsOf(ancestors \cup {v}, o, k))
             copied == SelectSeq([k \in 1 .. Len(o.items) |-> k],
                                 LAMBDA k : ~Skipped(o.items[k]))
         IN  IF o.kind = "forged" THEN Unreadable
             ELSE IF o.kind = "error"
             THEN Fresh("plain", <<String("name"), String("message")>>)
             ELSE IF v \in ancestors THEN String("circular")
             ELSE IF depth >= MaxSanitizeDepth THEN String("deep")
             ELSE IF o.kind = "array"
             THEN Fresh("array", [k \in 1 .. Len(o.items) |-> Item(k)])
             ELSE IF IsPlain(o)
             THEN Fresh("plain", [k \in 1 .. Len(copied) |-> Item(copied[k])])
             ELSE IF o.kind = "stringless" THEN Unreadable
             ELSE String("custom")

SafeHttpStatus(v) ==
    IF v[1] = "number" /\ IsSafe(v[2]) /\ v[2] \in MinStatus .. MaxStatus
    THEN <<v>> ELSE <<>>

(* formatTimestamp() always gives a string. *)
Row(item, attributes) ==
    Fresh("plain", <<String("time"), Fresh("plain", attributes)>> \o SafeHttpStatus(item.status))

(* An invocation's rows: its own, one for each message and one for each *)
(* exception, known by its stack.                                       *)
ToEventRows(heap, item) ==
    <<Row(item, <<StringField(item.colo), FiniteNumber(item.wallTime)>>)>> \o
    [k \in 1 .. Len(item.logs) |-> Row(item, <<Sanitize(heap, item.logs[k], 0, {})>>)] \o
    [k \in 1 .. Len(item.exceptions) |->
        Row(item, <<String("name"), String("message"), StringField(item.exceptions[k])>>)]
=============================================================================
