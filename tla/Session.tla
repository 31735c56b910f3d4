------------------------------- MODULE Session -------------------------------
(***************************************************************************)
(* A headless page's session (browser/session.go): one endpoint, dialed     *)
(* again after every dropped connection until the page closes the session. *)
(* The form stores of its connections are modelled in FormViews.           *)
(*                                                                         *)
(* The page is a single thread.  The goroutine of run gives way where it   *)
(* blocks: in the dial, in ServeConn, in the teardown of a connection and  *)
(* in the wait before a redial.  State subscribers are called in the       *)
(* middle of setState, outside its lock, and page code called there may    *)
(* use the session: calls of setState nest, as the frames of "stack".      *)
(* Once the page has called close it does not use the session again.       *)
(***************************************************************************)
EXTENDS Integers, Sequences, FiniteSets

CONSTANTS
    Subs,       \* the page's state subscribers
    Calls,      \* the page's calls of action
    MaxConns    \* bound: how many connections open

ASSUME SessionAssumption == MaxConns \in Nat

minRedial == 1
maxRedial == 30

VARIABLES
    run,        \* where the goroutine of run is
    conns,      \* how many connections have opened
    up,         \* the current connection has not dropped
    server,     \* session.server: the connection actions use, or 0
    cancelled,  \* the session's context
    delay,      \* run's delay before the next redial, in seconds
    failures,   \* history: failed dials since a connection was open
    opened,     \* what start has been told
    once,       \* close has run, or is calling the subscribers
    state,      \* session.state
    subs,       \* session.stateSubs
    heard,      \* history: what each subscriber was last told, until it left
    stack,      \* setState calls in progress, innermost last
    nested,     \* history: close was called by a subscriber
    call        \* each action: the connection it waits on, or its result

life == <<run, conns, up, server, delay, failures, opened>>
telling == <<state, subs, heard, stack, nested>>
vars == <<run, conns, up, server, cancelled, delay, failures, opened, once, state, subs,
          heard, stack, nested, call>>

States == {"open", "reconnecting", "closed"}
Uncalled == [at |-> "idle", conn |-> 0]

Init ==
    /\ run = "dialing"
    /\ conns = 0
    /\ up = FALSE
    /\ server = 0
    /\ cancelled = FALSE
    /\ delay = minRedial
    /\ failures = 0
    /\ opened = "none"
    /\ once = "no"
    /\ state = "reconnecting"
    /\ subs = {}
    /\ heard = [s \in Subs |-> "nothing"]
    /\ stack = <<>>
    /\ nested = FALSE
    /\ call = [c \in Calls |-> Uncalled]

-----------------------------------------------------------------------------
(* setState *)

\* Mutant: a closed session may still change its state.
SetStateAlways(to) ==
    IF state = to
    THEN UNCHANGED <<state, stack>>
    ELSE state' = to /\ stack' = Append(stack, [state |-> to, left |-> subs, inside |-> FALSE])

\* The subscribers to call are those of the moment the state changes.
SetState(to) ==
    IF state = to \/ state = "closed"
    THEN UNCHANGED <<state, stack>>
    ELSE state' = to /\ stack' = Append(stack, [state |-> to, left |-> subs, inside |-> FALSE])

Top == stack[Len(stack)]

\* setState calls one of them ...
Tell(s) ==
    /\ stack # <<>>
    /\ s \in Top.left
    /\ heard' = [heard EXCEPT ![s] = IF @ = "left" THEN @ ELSE Top.state]
    /\ stack' = [stack EXCEPT ![Len(stack)] = [Top EXCEPT !.left = Top.left \ {s}, !.inside = TRUE]]
    /\ UNCHANGED <<life, cancelled, once, state, subs, nested, call>>

\* Page code runs from the JS event loop, or in the subscriber just called.
PageRuns == once = "no" /\ opened = "ok" /\ (stack # <<>> => Top.inside)

\* close, after its setState: the subscribers are let go (and the stores, see FormViews).
ReleaseAll ==
    /\ once' = "closed"
    /\ subs' = {}

\* ... and returns when it has called them all.
Told ==
    /\ stack # <<>>
    /\ Top.left = {}
    /\ stack' = SubSeq(stack, 1, Len(stack) - 1)
    /\ IF Top.state = "closed" THEN ReleaseAll ELSE UNCHANGED <<once, subs>>
    /\ UNCHANGED <<life, cancelled, state, heard, nested, call>>

-----------------------------------------------------------------------------
(* run and connection *)

RunRuns == stack = <<>>

\* Mutant: the delay is not reset when a connection opens.
ConnectedKeepsDelay ==
    /\ RunRuns
    /\ run = "dialing"
    /\ conns < MaxConns
    /\ conns' = conns + 1
    /\ up' = TRUE
    /\ server' = conns'
    /\ failures' = 0
    /\ opened' = "ok"
    /\ run' = "serving"
    /\ SetState("open")
    /\ UNCHANGED <<cancelled, delay, once, subs, heard, nested, call>>

\* Mutant: ready tells the page first and sets the server last.
ConnectedTellsFirst ==
    /\ RunRuns
    /\ run = "dialing"
    /\ conns < MaxConns
    /\ conns' = conns + 1
    /\ up' = TRUE
    /\ delay' = minRedial
    /\ failures' = 0
    /\ opened' = "ok"
    /\ run' = "serving"
    /\ SetState("open")
    /\ UNCHANGED <<server, cancelled, once, subs, heard, nested, call>>

\* The dial succeeds: ready sets the server, tells start, and the state.
Connected ==
    /\ RunRuns
    /\ run = "dialing"
    /\ conns < MaxConns
    /\ conns' = conns + 1
    /\ up' = TRUE
    /\ server' = conns'
    /\ delay' = minRedial
    /\ failures' = 0
    /\ opened' = "ok"
    /\ run' = "serving"
    /\ SetState("open")
    /\ UNCHANGED <<cancelled, once, subs, heard, nested, call>>

\* The loop of run after a connection: the first failure closes the session, a
\* cancelled context ends it, anything else waits and redials.
AfterConnection ==
    IF opened = "none"
    THEN /\ opened' = "error"
         /\ run' = "stopped"
         /\ cancelled' = TRUE
         /\ SetState("closed")
         /\ once' = "closing"
    ELSE /\ UNCHANGED <<opened, cancelled, once>>
         /\ IF cancelled
            THEN run' = "stopped" /\ UNCHANGED <<state, stack>>
            ELSE run' = "waiting" /\ SetState("reconnecting")

DialFails ==
    /\ RunRuns
    /\ run = "dialing"
    /\ failures' = failures + 1
    /\ failures < 6 \/ cancelled        \* bound: the delay no longer changes
    /\ AfterConnection
    /\ UNCHANGED <<conns, up, server, delay, subs, heard, nested, call>>

\* The connection fails, or the cancelled context ends it.
Drop ==
    /\ run = "serving"
    /\ up
    /\ up' = FALSE
    /\ UNCHANGED <<run, conns, server, cancelled, delay, failures, opened, once, telling, call>>

\* ServeConn returns; the websocket and its endpoints are closed.
ServeEnds ==
    /\ RunRuns
    /\ run = "serving"
    /\ ~up
    /\ run' = "ending"
    /\ UNCHANGED <<conns, up, server, cancelled, delay, failures, opened, once, telling, call>>

\* connection returns: no server, and the browser releases its bindings.
ConnectionEnds ==
    /\ RunRuns
    /\ run = "ending"
    /\ server' = 0
    /\ AfterConnection
    /\ UNCHANGED <<conns, up, delay, failures, subs, heard, nested, call>>

\* Mutant: the delay has no cap.
RedialUncapped ==
    /\ RunRuns
    /\ run = "waiting"
    /\ \/ /\ cancelled
          /\ run' = "stopped"
          /\ UNCHANGED delay
       \/ /\ run' = "dialing"
          /\ delay' = 2 * delay
    /\ UNCHANGED <<conns, up, server, cancelled, failures, opened, once, telling, call>>

\* The wait before the redial is over, or the context was cancelled in it.
Redial ==
    /\ RunRuns
    /\ run = "waiting"
    /\ \/ /\ cancelled
          /\ run' = "stopped"
          /\ UNCHANGED delay
       \/ /\ run' = "dialing"
          /\ delay' = IF 2 * delay < maxRedial THEN 2 * delay ELSE maxRedial
    /\ UNCHANGED <<conns, up, server, cancelled, failures, opened, once, telling, call>>

-----------------------------------------------------------------------------
(* The page *)

Subscribe(s) ==
    /\ PageRuns
    /\ s \notin subs
    /\ heard[s] = "nothing"
    /\ subs' = subs \cup {s}
    /\ UNCHANGED <<life, cancelled, once, state, heard, stack, nested, call>>

Unsubscribe(s) ==
    /\ PageRuns
    /\ s \in subs
    /\ subs' = subs \ {s}
    /\ heard' = [heard EXCEPT ![s] = "left"]
    /\ UNCHANGED <<life, cancelled, once, state, stack, nested, call>>

\* Mutant: close does not cancel the session's context.
CloseWithoutCancel ==
    /\ PageRuns
    /\ once' = "closing"
    /\ nested' = (stack # <<>>)
    /\ SetState("closed")
    /\ UNCHANGED <<life, cancelled, subs, heard, call>>

\* session.close: the context is cancelled, and the subscribers are told.
Close ==
    /\ PageRuns
    /\ once' = "closing"
    /\ cancelled' = TRUE
    /\ nested' = (stack # <<>>)
    /\ SetState("closed")
    /\ UNCHANGED <<life, subs, heard, call>>

\* session.action: the call is made on the connection of the moment.
Action(c) ==
    /\ PageRuns
    /\ call[c] = Uncalled
    /\ call' = [call EXCEPT ![c] =
                    [at |-> IF server = 0 THEN "disconnected" ELSE "calling", conn |-> server]]
    /\ UNCHANGED <<life, cancelled, once, telling>>

\* It resolves with the server's answer, or once its connection is gone.
ActionResolves(c) ==
    /\ call[c].at = "calling"
    /\ call' = [call EXCEPT ![c].at =
                    IF up /\ call[c].conn = conns THEN "answered" ELSE "disconnected"]
    /\ UNCHANGED <<life, cancelled, once, telling>>

-----------------------------------------------------------------------------
Run == Connected \/ DialFails \/ ServeEnds \/ ConnectionEnds \/ Redial
Telling == Told \/ \E s \in Subs : Tell(s)

Next ==
    \/ Run
    \/ Telling
    \/ Drop
    \/ \E s \in Subs : Subscribe(s) \/ Unsubscribe(s)
    \/ Close
    \/ \E c \in Calls : Action(c) \/ ActionResolves(c)

\* Dials end, timers fire, a cancelled context ends its connection.  Nothing else makes a connection drop or the page act.
Fairness ==
    /\ WF_vars(Run)
    /\ WF_vars(Telling)
    /\ WF_vars(Drop /\ cancelled)

Spec == Init /\ [][Next]_vars
FairSpec == Spec /\ Fairness

-----------------------------------------------------------------------------
(* Properties *)

\* Every variable holds a value of its type.
TypeOK ==
    /\ run \in {"dialing", "serving", "ending", "waiting", "stopped"}
    /\ conns \in 0..MaxConns /\ server \in {0, conns}
    /\ {up, cancelled, nested} \subseteq BOOLEAN
    /\ delay \in minRedial..maxRedial /\ failures \in Nat
    /\ opened \in {"none", "ok", "error"} /\ once \in {"no", "closing", "closed"}
    /\ state \in States
    /\ subs \subseteq Subs
    /\ heard \in [Subs -> States \cup {"nothing", "left"}]
    /\ stack \in Seq([state : States, left : SUBSET Subs, inside : BOOLEAN])
    /\ call \in [Calls -> [at : {"idle", "calling", "answered", "disconnected"}, conn : 0..conns]]

\* What a subscriber was last told is the state of the session, once all calls
\* of setState have returned.  A subscriber that calls close is the exception:
\* the inner setState tells the others "closed", and the outer one goes on to
\* tell them the state before it.
HeardIsState ==
    stack = <<>> /\ ~nested => \A s \in Subs : heard[s] \in {state, "nothing", "left"}

\* The delay after n failed dials: minRedial doubled n times, up to maxRedial.
DelayAfter(n) == IF n < 5 THEN <<1, 2, 4, 8, 16>>[n + 1] ELSE maxRedial

\* Each wait before a redial doubles with every failed dial since a connection
\* was open, from minRedial up to maxRedial, and starts over after one.
BackoffFollowsFailures == run = "waiting" => delay = DelayAfter(failures)

\* close closes the websocket and stops redialing, whatever run was doing, and
\* finishes itself.
CloseEnds == once = "closing" ~> once = "closed" /\ run = "stopped"

\* "open" means that the page can call actions, on the spot: no call is refused
\* for want of a connection while the session reports itself open, not even one
\* that a subscriber makes when it is told so.
OpenAcceptsActions ==
    [][\A c \in Calls : Action(c) /\ state = "open" => call'[c].at = "calling"]_vars

=============================================================================
