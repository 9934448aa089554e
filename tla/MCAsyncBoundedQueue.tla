------------------------ MODULE MCAsyncBoundedQueue ------------------------
(* AsyncBoundedQueue for TLC: four commands. *)
EXTENDS AsyncBoundedQueue, TLC

CONSTANTS c1, c2, c3, c4

MCCommand == {c1, c2, c3, c4}
=============================================================================
