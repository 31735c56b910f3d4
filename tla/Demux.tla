-------------------------------- MODULE Demux --------------------------------
(***************************************************************************)
(* One end of the websocket: wsconn.Demux with its two endpoints, and the  *)
(* code that sets it up and takes it down, browser/connection.go at the    *)
(* page and controller.Start at the server.                                *)
(*                                                                         *)
(* A goroutine reads messages off the websocket and writes each to its     *)
(* endpoint's pipe, which holds it up until the endpoint's reader has      *)
(* taken the message.  The reader of one endpoint is rpc.Server.ServeConn, *)
(* of the other rpc.Client; a reader may give up on a message it cannot    *)
(* decode.  ServeConn then closes its endpoint, the client does not.       *)
(*                                                                         *)
(* The page is single threaded: the Demux goroutine first runs when        *)
(* connection waits, with both endpoints attached.  At the server it runs  *)
(* at once.                                                                *)
(***************************************************************************)
EXTENDS Integers, Sequences, SequencesExt

CONSTANTS
    Side,       \* which end this is
    MaxSent     \* bound: how many messages the other end sends per endpoint

ASSUME DemuxAssumption == Side \in {"browser", "server"} /\ MaxSent \in Nat

Endpoints == {"served", "called"}
Nothing == [ep |-> "none", n |-> 0]

VARIABLES
    conn,       \* the websocket: up, failed (by the other end), closed here
    wire,       \* messages sent by the other end that have not been read
    sent,       \* how many messages the other end sent to each endpoint
    loop,       \* the Demux goroutine
    hand,       \* the message it is writing to a pipe
    pipe,       \* each endpoint's pipe
    reader,     \* each endpoint's reader
    got,        \* the messages each reader has taken
    owner       \* what connection or Start has done: 0 attached nothing ...

vars == <<conn, wire, sent, loop, hand, pipe, reader, got, owner>>

\* The endpoints in the order NewEndpoint is called for 0 and 1.
AttachOrder == IF Side = "browser" THEN <<"called", "served">> ELSE <<"served", "called">>

\* Mutant: Demux.Close is deferred last, and so waits for the goroutine first.
BrowserTeardownWaitsFirst == <<"conn", "wait", "served", "called">>

\* connection's deferred calls, last first, once ServeConn has returned: both
\* endpoints are closed before Demux.Close waits for the goroutine.
BrowserTeardown == <<"served", "called", "conn", "wait">>

\* Start's goroutine closes its own endpoint; the handler that waited on done
\* returns, and its deferred CloseNow closes the websocket.
ServerTeardown == <<"served", "conn">>

Teardown == IF Side = "browser" THEN BrowserTeardown ELSE ServerTeardown

Attached == 2                       \* owner, once both endpoints are attached
Serving == 3                        \* owner, once both readers run
Over == Serving + Len(Teardown)     \* owner, once the teardown is done

Init ==
    /\ conn = "up"
    /\ wire = <<>>
    /\ sent = [e \in Endpoints |-> 0]
    /\ loop = "reading"
    /\ hand = Nothing
    /\ pipe = [e \in Endpoints |-> "none"]
    /\ reader = [e \in Endpoints |-> "off"]
    /\ got = [e \in Endpoints |-> <<>>]
    /\ owner = 0

-----------------------------------------------------------------------------
(* The other end, and the network *)

Send(e) ==
    /\ conn = "up"
    /\ sent[e] < MaxSent
    /\ sent' = [sent EXCEPT ![e] = @ + 1]
    /\ wire' = Append(wire, [ep |-> e, n |-> sent'[e]])
    /\ UNCHANGED <<conn, loop, hand, pipe, reader, got, owner>>

\* The other end goes away; what it sent last may be lost.
Fail ==
    /\ conn = "up"
    /\ conn' = "failed"
    /\ \E w \in Prefixes(wire) : wire' = w
    /\ UNCHANGED <<sent, loop, hand, pipe, reader, got, owner>>

\* The context of the websocket's reads is cancelled.
Cancel ==
    /\ conn # "closed"
    /\ conn' = "closed"
    /\ UNCHANGED <<wire, sent, loop, hand, pipe, reader, got, owner>>

-----------------------------------------------------------------------------
(* The Demux goroutine *)

\* Mutant: the page gives way between newDemux and the second NewEndpoint.
LoopRunsAtOnce == TRUE

\* newDemux starts the goroutine; at the page it runs once connection waits.
LoopRuns == Side = "browser" => owner >= Serving

\* ReadMessage returns a message; one for no endpoint is passed over.
ReadMessage ==
    /\ LoopRuns
    /\ loop = "reading"
    /\ conn # "closed"
    /\ wire # <<>>
    /\ wire' = Tail(wire)
    /\ IF pipe[Head(wire).ep] = "none"
       THEN UNCHANGED <<loop, hand>>
       ELSE loop' = "writing" /\ hand' = Head(wire)
    /\ UNCHANGED <<conn, sent, pipe, reader, got, owner>>

\* endpoint.input: the reader takes the message, or the pipe is closed and
\* the message goes nowhere.
Input ==
    /\ loop = "writing"
    /\ \/ /\ pipe[hand.ep] = "open"
          /\ reader[hand.ep] = "reading"
          /\ got' = [got EXCEPT ![hand.ep] = Append(@, hand.n)]
       \/ /\ pipe[hand.ep] = "closed"
          /\ UNCHANGED got
    /\ loop' = "reading"
    /\ hand' = Nothing
    /\ UNCHANGED <<conn, wire, sent, pipe, reader, owner>>

\* Mutant: the goroutine ends with a message in its hand.
LoopEndsWriting ==
    /\ LoopRuns
    /\ loop # "ended"
    /\ conn = "closed" \/ (conn = "failed" /\ wire = <<>>)
    /\ loop' = "ended"
    /\ pipe' = [e \in Endpoints |-> IF pipe[e] = "open" THEN "closed" ELSE pipe[e]]
    /\ UNCHANGED <<conn, wire, sent, hand, reader, got, owner>>

\* Mutant: the goroutine ends without closing the endpoints.
LoopEndsQuietly ==
    /\ LoopRuns
    /\ loop = "reading"
    /\ conn = "closed" \/ (conn = "failed" /\ wire = <<>>)
    /\ loop' = "ended"
    /\ UNCHANGED <<conn, wire, sent, hand, pipe, reader, got, owner>>

\* ReadMessage fails: the goroutine closes the endpoints it knows, and done.
LoopEnds ==
    /\ LoopRuns
    /\ loop = "reading"
    /\ conn = "closed" \/ (conn = "failed" /\ wire = <<>>)
    /\ loop' = "ended"
    /\ pipe' = [e \in Endpoints |-> IF pipe[e] = "open" THEN "closed" ELSE pipe[e]]
    /\ UNCHANGED <<conn, wire, sent, hand, reader, got, owner>>

-----------------------------------------------------------------------------
(* The endpoints' readers *)

\* The reader finds its pipe closed and returns.
ReadEOF(e) ==
    /\ reader[e] = "reading"
    /\ pipe[e] = "closed"
    /\ ~(loop = "writing" /\ hand.ep = e)
    /\ reader' = [reader EXCEPT ![e] = "gone"]
    /\ UNCHANGED <<conn, wire, sent, loop, hand, pipe, got, owner>>

\* The reader cannot decode what it read and returns: ServeConn closes its
\* endpoint, rpc.Client only fails its pending calls.
GiveUp(e) ==
    /\ reader[e] = "reading"
    /\ got[e] # <<>>
    /\ reader' = [reader EXCEPT ![e] = "gone"]
    /\ pipe' = IF e = "served" THEN [pipe EXCEPT ![e] = "closed"] ELSE pipe
    /\ UNCHANGED <<conn, wire, sent, loop, hand, got, owner>>

-----------------------------------------------------------------------------
(* connection and Start *)

\* NewEndpoint, whether or not the goroutine still runs.
NewEndpoint ==
    /\ owner < Attached
    /\ pipe' = [pipe EXCEPT ![AttachOrder[owner + 1]] = "open"]
    /\ owner' = owner + 1
    /\ UNCHANGED <<conn, wire, sent, loop, hand, reader, got>>

\* rpc.NewClient and rpc.Server.ServeConn start to read.
StartReaders ==
    /\ owner = Attached
    /\ reader' = [e \in Endpoints |-> "reading"]
    /\ owner' = Serving
    /\ UNCHANGED <<conn, wire, sent, loop, hand, pipe, got>>

\* The next step of the teardown.
TearDown ==
    /\ owner \in Serving..(Over - 1)
    /\ reader["served"] = "gone"
    /\ LET step == Teardown[owner - Serving + 1]
       IN /\ pipe' = IF step \in Endpoints THEN [pipe EXCEPT ![step] = "closed"] ELSE pipe
          /\ conn' = IF step = "conn" THEN "closed" ELSE conn
          /\ step = "wait" => loop = "ended"
    /\ owner' = owner + 1
    /\ UNCHANGED <<wire, sent, loop, hand, reader, got>>

-----------------------------------------------------------------------------
Loop == ReadMessage \/ Input \/ LoopEnds
Owner == NewEndpoint \/ StartReaders \/ TearDown

Next ==
    \/ \E e \in Endpoints : Send(e) \/ ReadEOF(e) \/ GiveUp(e)
    \/ Fail
    \/ Cancel
    \/ Loop
    \/ Owner

\* Goroutines run.  Nothing makes the other end send or the connection fail.
Fairness ==
    /\ WF_vars(Loop)
    /\ WF_vars(Owner)
    /\ \A e \in Endpoints : WF_vars(ReadEOF(e))

Spec == Init /\ [][Next]_vars
FairSpec == Spec /\ Fairness

-----------------------------------------------------------------------------
(* Properties *)

\* Every variable holds a value of its type, and the goroutine has a message in
\* its hand just while it writes it.
TypeOK ==
    /\ conn \in {"up", "failed", "closed"}
    /\ wire \in Seq([ep : Endpoints, n : 1..MaxSent])
    /\ sent \in [Endpoints -> 0..MaxSent]
    /\ loop \in {"reading", "writing", "ended"}
    /\ hand \in [ep : Endpoints, n : 1..MaxSent] \cup {Nothing}
    /\ hand # Nothing <=> loop = "writing"
    /\ pipe \in [Endpoints -> {"none", "open", "closed"}]
    /\ reader \in [Endpoints -> {"off", "reading", "gone"}]
    /\ got \in [Endpoints -> Seq(1..MaxSent)]
    /\ owner \in 0..Over

\* Each reader takes its endpoint's messages in the order they were sent and
\* misses none before one it takes: what it reads is a stream, as gob needs.
StreamOrder == \A e \in Endpoints : got[e] = [i \in 1..Len(got[e]) |-> i]

\* The promise to the readers, which a page's Demux keeps.
Promise == INSTANCE MessageStreams WITH
    Main <- "served",
    up <- conn = "up",
    ended <- [e \in Endpoints |-> reader[e] = "gone"]

\* The page's Demux, its pipes and its teardown implement the promise: no reader
\* takes a message out of turn, one that was not sent, or one after it returned,
\* and none returns without cause.
ImplementsStreams == Promise!Spec

\* The goroutine is held up by a client that gave up.
Stuck == loop = "writing" /\ pipe[hand.ep] = "open" /\ reader[hand.ep] = "gone"

\* The end notices that the connection is gone, and goes on to redial or to
\* return from its handler, unless the client's reader gave up before.
LossIsSeen == conn # "up" ~> reader["served"] = "gone" \/ Stuck

\* connection returns once ServeConn has, whoever reads or does not read the
\* other endpoint.
TeardownEnds == reader["served"] = "gone" ~> owner = Over

\* The comment on controller.Start: wait on the returned channel, which is
\* closed when ServeConn returns.
DoneIsClosed == conn # "up" ~> reader["served"] = "gone" \/ reader["called"] = "gone"
=============================================================================
