--------------------------- MODULE MCClickActions ---------------------------
(* ClickActions for TLC: two buttons, one of them bound again, two clicks and *)
(* two documents.                                                            *)
EXTENDS ClickActions, TLC

CONSTANTS save, send, c1, c2

MCNames == {save, send}
MCClicks == {c1, c2}
Interchangeable == Permutations(MCNames) \cup Permutations(MCClicks)
=============================================================================
