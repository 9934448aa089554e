------------------------------ MODULE MCOutbox ------------------------------
(* Outbox for TLC: an interval of two rows, one of a single row, and one    *)
(* whose second row is invalid.                                            *)
EXTENDS Outbox

CONSTANTS r1, r2, r3, r4, r5

AllRows == {r1, r2, r3, r4, r5}
ThreeIntervals == << <<r1, r2>>, <<r3>>, <<r4, r5>> >>
=============================================================================
