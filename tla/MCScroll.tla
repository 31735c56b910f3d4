------------------------------- MODULE MCScroll -------------------------------
(* Scroll for TLC: a window of two rows on a slice of up to three elements. *)
EXTENDS Scroll, TLC

CONSTANTS a, b, c, z

MCItems == {a, b, c}
MCBlanks == {z}
Interchangeable == Permutations(MCItems)
=============================================================================
