----------------------------- MODULE ActionFence -----------------------------
(***************************************************************************)
(* What jsrpc.Server promises a page about one connection to the web       *)
(* server (jsrpc/webserver.go, the comment on the field "sets"): an action  *)
(* reaches the server only after every value the page had set before it    *)
(* called the action.  The promise says nothing of how many messages there *)
(* are, of the order sets are applied in, or of values set after the call. *)
(***************************************************************************)
CONSTANTS
    Sets,       \* the values the page sets, one element per call of SetValue
    Actions     \* the actions the page calls, one element per call

VARIABLES
    up,         \* the connection has not failed
    issued,     \* the sets the page has made
    applied,    \* the sets the server has applied
    owed,       \* for an action that was called, the sets made before it
    delivered,  \* the actions the server has run
    outcome     \* what the page knows of each action

vars == <<up, issued, applied, owed, delivered, outcome>>

Outcomes == {"idle", "pending", "answered", "failed"}

Init ==
    /\ up = TRUE
    /\ issued = {}
    /\ applied = {}
    /\ owed = [a \in Actions |-> {}]
    /\ delivered = {}
    /\ outcome = [a \in Actions |-> "idle"]

Issue(s) ==
    /\ s \notin issued
    /\ issued' = issued \cup {s}
    /\ UNCHANGED <<up, applied, owed, delivered, outcome>>

Apply(s) ==
    /\ s \in issued \ applied
    /\ applied' = applied \cup {s}
    /\ UNCHANGED <<up, issued, owed, delivered, outcome>>

Call(a) ==
    /\ outcome[a] = "idle"
    /\ outcome' = [outcome EXCEPT ![a] = "pending"]
    /\ owed' = [owed EXCEPT ![a] = issued]
    /\ UNCHANGED <<up, issued, applied, delivered>>

\* The promise: everything owed to the action is applied first.
Deliver(a) ==
    /\ outcome[a] # "idle"
    /\ a \notin delivered
    /\ owed[a] \subseteq applied
    /\ delivered' = delivered \cup {a}
    /\ UNCHANGED <<up, issued, applied, owed, outcome>>

Answer(a) ==
    /\ outcome[a] = "pending"
    /\ a \in delivered
    /\ outcome' = [outcome EXCEPT ![a] = "answered"]
    /\ UNCHANGED <<up, issued, applied, owed, delivered>>

\* A call fails only on a connection that failed; the action may have run.
Fail(a) ==
    /\ outcome[a] = "pending"
    /\ ~up
    /\ outcome' = [outcome EXCEPT ![a] = "failed"]
    /\ UNCHANGED <<up, issued, applied, owed, delivered>>

Break ==
    /\ up
    /\ up' = FALSE
    /\ UNCHANGED <<issued, applied, owed, delivered, outcome>>

Next ==
    \/ \E s \in Sets : Issue(s) \/ Apply(s)
    \/ \E a \in Actions : Call(a) \/ Deliver(a) \/ Answer(a) \/ Fail(a)
    \/ Break

Spec == Init /\ [][Next]_vars
=============================================================================
