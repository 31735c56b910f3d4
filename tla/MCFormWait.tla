----------------------------- MODULE MCFormWait -----------------------------
(* FormWait for TLC: two form names, one of them bound twice, and two calls.  *)
EXTENDS FormWait

CONSTANTS contact, order, b1, b2, b3, call1, call2

MCNames == {contact, order}
MCBindings == {b1, b2, b3}
MCNameOf == [b \in MCBindings |-> IF b = b3 THEN order ELSE contact]
MCWaiters == {call1, call2}
=============================================================================
