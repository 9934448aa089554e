------------------------------ MODULE MCRecords ------------------------------
(***************************************************************************)
(* TailDelivery and ResultCopy for TLC, which runs either the one or the   *)
(* other.  Numbers have three bits of mantissa, bigints five bits.         *)
(***************************************************************************)
EXTENDS TailDelivery, ResultCopy

NoTail == trace = <<>> /\ pc = "none" /\ rows = <<>> /\ sent = <<>>
NoCopy == result = <<>> /\ stage = "none" /\ object = <<>> /\ document = <<>>

EitherInit == (Init /\ NoCopy) \/ (CopyInit /\ NoTail)
EitherNext == (Next /\ UNCHANGED copyVars) \/ (CopyNext /\ UNCHANGED vars)
EitherSpec == EitherInit /\ [][EitherNext]_<<vars, copyVars>>

Number3 == {Number(n) : n \in {0, 7, 8, -8}}
Leaves ==
    Number3 \cup {BigInt(15), BigInt(16), String("x")} \cup
    {<<tag, 0>> : tag \in {"boolean", "fraction", "nonfinite", "undefined", "function", "stringless", "date", "invalidDate"}}

Kinds == {"array", "plain", "symbols"}
Closed == [kind : {"error", "custom", "stringless", "forged"}, items : {<<>>}]
ItemsOf(kind) ==
    {Number(8), String("x"), <<"undefined", 0>>, <<"object", 1>>, <<"object", 2>>, <<"object", 3>>}
    \cup (IF kind = "array" THEN {Hole} ELSE {Accessor})
ObjectsUpTo(n) ==
    UNION {{[kind |-> kind, items |-> items] :
               items \in UNION {[1 .. m -> ItemsOf(kind)] : m \in 0 .. n}} : kind \in Kinds}
    \cup Closed

Item(wallTime, colo, status, logs, exceptions) ==
    [wallTime |-> wallTime, colo |-> colo, status |-> status,
     logs |-> logs, exceptions |-> exceptions]

Logged(heap, message) ==
    [heap |-> heap, item |-> Item(Number(0), Null, Number(5), <<message>>, <<>>)]

SmallObjects ==
    [kind : {"array", "plain"}, items : {<<>>, <<Number(8)>>, <<(<<"object", 1>>)>>}]
    \cup Closed

(* Any leaf, and three objects that may contain each other and themselves. *)
AllTraces ==
    {[heap |-> <<>>, item |-> Item(a, b, a, <<a, b>>, <<b>>)] : a, b \in Leaves} \cup
    {Logged(<<o, p, q>>, <<"object", 1>>) :
         o \in ObjectsUpTo(2), p \in ObjectsUpTo(1), q \in SmallObjects}

SmallestInteger == -16
Integers5 == -17 .. 33
CellsOf(type) ==
    {NullCell, Malformed} \cup
    (CASE type = "timestamp" -> {<<"timestamp", 0>>}
       [] type = "boolean" -> {<<"boolean", 0>>}
       [] type = "float" -> {IntegerCell(n) : n \in Integers5} \cup {<<"nonfinite", 0>>}
       [] OTHER -> {IntegerCell(n) : n \in Integers5})

Columns ==
    [name : {"a", "b"}, type : {"int", "uint", "string", "float", "timestamp", "boolean"}]
RowsFor(column) ==
    {<<c, d>> : c \in CellsOf(column.type), d \in {IntegerCell(9), NullCell}}
    \cup {<<NullCell>>}

AllResults ==
    UNION {[fields : {<<column, [name |-> "a", type |-> "int"]>>},
            row : RowsFor(column), mode : IntegerModes] : column \in Columns}
==============================================================================
