----------------------------- MODULE MCFormViews -----------------------------
(* FormViews for TLC: two callbacks, two changes being told and three values,*)
(* one of them with an error.                                                *)
EXTENDS FormViews, TLC

CONSTANTS c1, c2, v1, v2, v3, t1, t2

MCValues == {v1, v2, v3}
MCErrors == [v \in MCValues |-> IF v = v3 THEN {"required"} ELSE {}]
MCCallbacks == {c1, c2}
MCChanges == {t1, t2}
Interchangeable == Permutations(MCCallbacks) \cup Permutations(MCChanges)
=============================================================================
