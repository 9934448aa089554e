--------------------------- MODULE MCAppendStream ---------------------------
(* AppendStream for TLC: sets of rows, their sizes, and the symmetry among *)
(* rows of one size.                                                       *)
EXTENDS AppendStream, TLC

CONSTANTS r1, r2, r3, f1, f2

TwoRows == {r1, r2}
ThreeRows == {r1, r2, r3}

SameSize == [r \in Rows |-> 1]
OneLarge == [r \in Rows |-> IF r = r1 THEN 2 ELSE 1]

(* Rows of one size may as well be offered in one order, and by trySend(), *)
(* which is who the circuit breaker drops: two action constraints.         *)
Order == <<r1, r2, r3>>
IsOffered(r) == call[r] # "new"
OffersInOrder ==
    \A k \in 2 .. 3 :
        IsOffered(Order[k - 1]) \/ IsOffered(Order[k])' = IsOffered(Order[k])

TrySendOnly == \A r \in Rows : call[r] = "new" => call'[r] \notin {"acquiring", "threw"}

(* Of three rows at most two are offered by send(): a constraint.          *)
BySend == {r \in Rows : call[r] \in {"acquiring", "queueing", "ok", "threw"}}
TwoSends == Cardinality(BySend) <= 2

Symmetric == Permutations(Rows) \cup Permutations(Flushes)
=============================================================================
