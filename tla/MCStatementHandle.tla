-------------------------- MODULE MCStatementHandle --------------------------
(* StatementHandle for TLC: a refresh, a cancellation, an execution. *)
EXTENDS StatementHandle

CONSTANTS r1, k1, x1

AllCalls == {r1, k1, x1}
MethodOf == [c \in Calls |-> CASE c = r1 -> "refresh"
                               [] c = k1 -> "cancel"
                               [] OTHER -> "execute"]
==============================================================================
