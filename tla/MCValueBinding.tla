---------------------------- MODULE MCValueBinding ----------------------------
(* ValueBinding for TLC: two keys and two application goroutines.            *)
EXTENDS ValueBinding

CONSTANTS k1, k2, w1, w2

MCKeys == {k1, k2}
MCWorkers == {w1, w2}
=============================================================================
