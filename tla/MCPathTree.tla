------------------------------ MODULE MCPathTree ------------------------------
(* PathTree for TLC: two rows on a list of three.                            *)
EXTENDS PathTree, TLC

CONSTANTS e1, e2, e3, e4, w

MCElements == {e1, e2, e3, e4}
MCValues == {Zero, w}
Interchangeable == Permutations(MCElements)
=============================================================================
