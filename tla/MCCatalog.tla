------------------------------ MODULE MCCatalog ------------------------------
(* Catalog for TLC: two writers like each other. *)
EXTENDS Catalog, TLC

CONSTANTS w1, w2

TwoWriters == {w1, w2}
Symmetric == Permutations(TwoWriters)
==============================================================================
