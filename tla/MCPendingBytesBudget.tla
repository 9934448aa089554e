------------------------ MODULE MCPendingBytesBudget ------------------------
(* PendingBytesBudget for TLC: holders of unequal size. *)
EXTENDS PendingBytesBudget, TLC

CONSTANTS h1, h2, h3, h4, h5

MCHolder == {h1, h2, h3, h4, h5}

(* h1 and h3 fill the budget, h4 needs it all, h2 and h5 fit in the gaps. *)
MCPermits == h1 :> 2 @@ h2 :> 1 @@ h3 :> 2 @@ h4 :> 4 @@ h5 :> 1
=============================================================================
