----------------------------- MODULE PendingSets -----------------------------
(***************************************************************************)
(* One page's connection to the web server: jsrpc.Server with its          *)
(* pendingSets counter on the page's side, net/rpc in between, and         *)
(* wsrpc.Server on the other side.                                         *)
(*                                                                         *)
(* net/rpc runs every call on a goroutine of its own on both sides.  A set *)
(* is counted on the JS event loop (SetValue), sent by its goroutine       *)
(* (SendSet), applied by a goroutine of the server (HandleSet) and         *)
(* uncounted when its call returns (SetReturns).  An action is called      *)
(* (StartAction), waits until no set is counted (CheckIdle), is sent       *)
(* (SendAction), runs on the server (HandleAction) and returns             *)
(* (ActionReturns).  The two directions of the connection hold any number  *)
(* of messages; the server starts handlers in the order requests arrive    *)
(* but they run in any order, so the requests in flight are a set.         *)
(***************************************************************************)
EXTENDS Integers, FiniteSets

CONSTANTS
    MaxSets,    \* how many values the page sets (a bound on the behaviours)
    Actions,    \* one element per action called: CallAction or Action
    Keys,       \* the key paths of the bound model
    KeyOf       \* the key path each set writes

Sets == 1..MaxSets      \* in the order the page makes them
NoSet == 0              \* the value a key has before any set

ASSUME PendingSetsAssumption ==
    /\ MaxSets \in Nat
    /\ KeyOf \in [Sets -> Keys]
    /\ Sets \cap Actions = {}

VARIABLES
    alive,      \* the rpc client has not seen the connection fail
    n,          \* pendingSets.n
    made,       \* how many sets the page has made
    set,        \* what the goroutine of each set is doing
    act,        \* what the goroutine of each action is doing
    inbox,      \* requests sent that no handler has run for
    ran,        \* requests the server has handled
    value,      \* the server's model: the set each key's value is from
    saw,        \* the server's model as each action's handler found it
    before,     \* history: the sets made before an action was called
    overlapped  \* history: keys that had two sets in flight at once

page == <<n, made, set, act>>
server == <<inbox, ran, value, saw>>
history == <<before, overlapped>>
vars == <<alive, n, made, set, act, inbox, ran, value, saw, before, overlapped>>

SetStates == {"none", "starting", "calling", "returned"}
ActStates == {"idle", "waiting", "asleep", "ready", "calling", "answered", "failed"}

Made == 1..made
InFlight == {s \in Sets : set[s] \in {"starting", "calling"}}

Init ==
    /\ alive = TRUE
    /\ n = 0
    /\ made = 0
    /\ set = [s \in Sets |-> "none"]
    /\ act = [a \in Actions |-> "idle"]
    /\ inbox = {}
    /\ ran = {}
    /\ value = [k \in Keys |-> NoSet]
    /\ saw = [a \in Actions |-> [k \in Keys |-> NoSet]]
    /\ before = [a \in Actions |-> {}]
    /\ overlapped = {}

-----------------------------------------------------------------------------
(* pendingSets *)

\* Mutant: SetValue does not count the set.
NotAdded == n

\* add: SetValue counts the set before it starts the goroutine that sends it.
Added == n + 1

\* Mutant: done is deferred and called on the way out as well.
DoneTwice == n - 2

\* done: runs when the call returns, whether it succeeded or not.
Done == n - 1

\* Mutant: a count of one is taken for the caller's own set.
IdleAtOne == n <= 1

\* wait returns once no call is in flight.
Idle == n = 0

\* Mutant: Signal for Broadcast wakes one sleeper.
WokenOne ==
    IF Done = 0 /\ \E a \in Actions : act[a] = "asleep"
    THEN [act EXCEPT ![CHOOSE a \in Actions : act[a] = "asleep"] = "waiting"]
    ELSE act

\* done broadcasts when the count reaches zero: every sleeper checks again.
Woken ==
    IF Done = 0
    THEN [a \in Actions |-> IF act[a] = "asleep" THEN "waiting" ELSE act[a]]
    ELSE act

-----------------------------------------------------------------------------
(* The page's side *)

\* Observer.SetValue, called on the JS event loop.
SetValue(s) ==
    /\ s = made + 1
    /\ made' = s
    /\ n' = Added
    /\ set' = [set EXCEPT ![s] = "starting"]
    /\ overlapped' = overlapped \cup {k \in Keys : k = KeyOf[s] /\ \E t \in InFlight : KeyOf[t] = k}
    /\ UNCHANGED <<alive, act, server, before>>

\* The set's goroutine makes its call: it writes the request, or finds the
\* client shut down and writes nothing.
SendSet(s) ==
    /\ set[s] = "starting"
    /\ set' = [set EXCEPT ![s] = "calling"]
    /\ inbox' = IF alive THEN inbox \cup {s} ELSE inbox
    /\ UNCHANGED <<alive, n, made, act, ran, value, saw, history>>

\* Mutant: the goroutine does not wait for the answer.
SetReturnsUnanswered(s) ==
    /\ set[s] = "calling"
    /\ set' = [set EXCEPT ![s] = "returned"]
    /\ n' = Done
    /\ act' = Woken
    /\ UNCHANGED <<alive, made, server, history>>

\* The set's call returns: its answer came, or the connection failed.
SetReturns(s) ==
    /\ set[s] = "calling"
    /\ alive => s \in ran
    /\ set' = [set EXCEPT ![s] = "returned"]
    /\ n' = Done
    /\ act' = Woken
    /\ UNCHANGED <<alive, made, server, history>>

\* The page calls CallAction, or a click binding calls Action.
StartAction(a) ==
    /\ act[a] = "idle"
    /\ act' = [act EXCEPT ![a] = "waiting"]
    /\ before' = [before EXCEPT ![a] = Made]
    /\ UNCHANGED <<alive, n, made, set, server, overlapped>>

\* One turn of wait's loop, under the lock: go on, or sleep on the condition.
CheckIdle(a) ==
    /\ act[a] = "waiting"
    /\ act' = [act EXCEPT ![a] = IF Idle THEN "ready" ELSE "asleep"]
    /\ UNCHANGED <<alive, n, made, set, server, history>>

\* Mutant: the action is sent without a look at the count.
SendActionUnfenced(a) ==
    /\ act[a] \in {"waiting", "ready"}
    /\ act' = [act EXCEPT ![a] = "calling"]
    /\ inbox' = IF alive THEN inbox \cup {a} ELSE inbox
    /\ UNCHANGED <<alive, n, made, set, ran, value, saw, history>>

\* The action's goroutine makes its call, as a set's does.
SendAction(a) ==
    /\ act[a] = "ready"
    /\ act' = [act EXCEPT ![a] = "calling"]
    /\ inbox' = IF alive THEN inbox \cup {a} ELSE inbox
    /\ UNCHANGED <<alive, n, made, set, ran, value, saw, history>>

\* The call returns its answer, or an error once the connection failed.
ActionReturns(a) ==
    /\ act[a] = "calling"
    /\ \/ /\ a \in ran
          /\ alive
          /\ act' = [act EXCEPT ![a] = "answered"]
       \/ /\ ~alive
          /\ act' = [act EXCEPT ![a] = "failed"]
    /\ UNCHANGED <<alive, n, made, set, server, history>>

-----------------------------------------------------------------------------
(* The server's side: net/rpc runs a goroutine for every request it reads. *)

\* Server.SetValue: the model takes the request's value.
HandleSet(s) ==
    /\ s \in inbox
    /\ inbox' = inbox \ {s}
    /\ ran' = ran \cup {s}
    /\ value' = [value EXCEPT ![KeyOf[s]] = s]
    /\ UNCHANGED <<alive, page, saw, history>>

\* Server.Call and Server.Action: the handler reads the model.
HandleAction(a) ==
    /\ a \in inbox
    /\ inbox' = inbox \ {a}
    /\ ran' = ran \cup {a}
    /\ saw' = [saw EXCEPT ![a] = value]
    /\ UNCHANGED <<alive, page, value, history>>

\* The rpc client's reader sees the connection fail: every call in flight
\* fails, and so does every later one.
Drop ==
    /\ alive
    /\ alive' = FALSE
    /\ UNCHANGED <<page, server, history>>

\* A request that was on the wire when the connection failed.  One the server
\* had read still runs.
Lose(m) ==
    /\ ~alive
    /\ m \in inbox
    /\ inbox' = inbox \ {m}
    /\ UNCHANGED <<alive, page, ran, value, saw, history>>

-----------------------------------------------------------------------------
SetStep(s) == SendSet(s) \/ SetReturns(s) \/ HandleSet(s)
ActStep(a) == CheckIdle(a) \/ SendAction(a) \/ HandleAction(a) \/ ActionReturns(a)

Next ==
    \/ \E s \in Sets : SetValue(s) \/ SetStep(s) \/ Lose(s)
    \/ \E a \in Actions : StartAction(a) \/ ActStep(a) \/ Lose(a)
    \/ Drop

\* Goroutines are scheduled, an open connection delivers, handlers return.
\* Nothing makes the page set a value or call an action, and nothing makes
\* the connection fail.
Fairness ==
    /\ \A s \in Sets : WF_vars(SetStep(s))
    /\ \A a \in Actions : WF_vars(ActStep(a))

Spec == Init /\ [][Next]_vars
FairSpec == Spec /\ Fairness

-----------------------------------------------------------------------------
(* Properties *)

\* Every variable holds a value of its type.
TypeOK ==
    /\ alive \in BOOLEAN
    /\ n \in Nat
    /\ made \in 0..MaxSets
    /\ set \in [Sets -> SetStates]
    /\ act \in [Actions -> ActStates]
    /\ inbox \subseteq Sets \cup Actions
    /\ ran \subseteq Sets \cup Actions
    /\ value \in [Keys -> Sets \cup {NoSet}]
    /\ saw \in [Actions -> [Keys -> Sets \cup {NoSet}]]
    /\ before \in [Actions -> SUBSET Sets]
    /\ overlapped \subseteq Keys

\* add and done pair up over every way a call can end (answer, failed
\* connection, client already shut down): the counter is the number of sets
\* whose goroutine has not returned.
CounterExact == n = Cardinality(InFlight)

\* A goroutine asleep in wait has a set in flight whose done will wake it:
\* Broadcast never runs between the check of the count and the sleep.
NoLostWakeup == \A a \in Actions : act[a] = "asleep" => InFlight # {}

\* An action runs on the server only after every set the page had made before
\* it called the action, whatever the order the requests were handled in.
ActionSeesEarlierSets == \A a \in Actions \cap ran : before[a] \subseteq ran

\* An action finds each key at least as new as the page had set it, for the
\* keys the page never set again while an earlier set was in flight.
ActionSeesNewest ==
    \A a \in Actions \cap ran : \A s \in before[a] :
        KeyOf[s] \notin overlapped => saw[a][KeyOf[s]] >= s

\* Once the page's sets have all been answered, the server has the page's
\* value of each key that never had two sets in flight.
QuietServerAgrees ==
    alive /\ InFlight = {} =>
        \A s \in Made : KeyOf[s] \notin overlapped => value[KeyOf[s]] >= s

\* A page that waits on an action hears of it: with the answer, or with the
\* error of the connection, and never sleeps for ever in wait.
EveryCallReturns ==
    \A a \in Actions : act[a] = "waiting" ~> act[a] \in {"answered", "failed"}

\* What the page knows of an action, as the abstract promise has it.
Outcome(a) ==
    IF act[a] \in {"idle", "answered", "failed"} THEN act[a] ELSE "pending"

Fence == INSTANCE ActionFence WITH
    up <- alive,
    issued <- Made,
    applied <- ran \cap Sets,
    owed <- before,
    delivered <- ran \cap Actions,
    outcome <- [a \in Actions |-> Outcome(a)]

\* The calls, the counter and the condition variable implement the promise.
ImplementsFence == Fence!Spec
=============================================================================
