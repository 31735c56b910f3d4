---------------------------- MODULE MessageStreams ----------------------------
(***************************************************************************)
(* What a Demux promises the readers of its endpoints (wsconn/endpoint.go, *)
(* the comment on Demux): each has the messages the other end sent to it,  *)
(* as one stream, which may end anywhere but has no hole.  The promise     *)
(* knows of no wire, of no goroutine and of no pipe: it does not say where *)
(* a message is on its way, nor that one which is read ever held another   *)
(* up.  It says when a stream may end: never while the connection is up    *)
(* and its reader, and the reader the connection is kept for, go on.       *)
(***************************************************************************)
EXTENDS Naturals, Sequences

CONSTANTS
    Endpoints,  \* the endpoints on one connection
    Main,       \* the endpoint whose reader keeps the connection
    MaxSent     \* bound: how many messages are sent to each endpoint

VARIABLES
    up,         \* the connection is there
    sent,       \* how many messages were sent to each endpoint
    got,        \* the messages each reader has taken
    ended       \* the reader of the endpoint has returned

vars == <<up, sent, got, ended>>

Init ==
    /\ up = TRUE
    /\ sent = [e \in Endpoints |-> 0]
    /\ got = [e \in Endpoints |-> <<>>]
    /\ ended = [e \in Endpoints |-> FALSE]

Send(e) ==
    /\ up
    /\ sent[e] < MaxSent
    /\ sent' = [sent EXCEPT ![e] = @ + 1]
    /\ UNCHANGED <<up, got, ended>>

\* The promise: the next message, and no other.  It may be read after the
\* connection has gone.
Take(e) ==
    /\ ~ended[e]
    /\ Len(got[e]) < sent[e]
    /\ got' = [got EXCEPT ![e] = Append(@, Len(@) + 1)]
    /\ UNCHANGED <<up, sent, ended>>

\* A reader returns because the connection has gone, because it cannot use
\* what it read, or because the main reader took the connection with it.
End(e) ==
    /\ ~ended[e]
    /\ ~up \/ got[e] # <<>> \/ ended[Main]
    /\ ended' = [ended EXCEPT ![e] = TRUE]
    /\ UNCHANGED <<up, sent, got>>

Break ==
    /\ up
    /\ up' = FALSE
    /\ UNCHANGED <<sent, got, ended>>

Next ==
    \/ \E e \in Endpoints : Send(e) \/ Take(e) \/ End(e)
    \/ Break

Spec == Init /\ [][Next]_vars
=============================================================================
