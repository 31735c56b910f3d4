------------------------------ MODULE MCSession ------------------------------
(* Session for TLC: two state subscribers and one call of an action.         *)
EXTENDS Session

CONSTANTS s1, s2, submit

MCSubs == {s1, s2}
=============================================================================
