------------------------------- MODULE FormWait -------------------------------
(***************************************************************************)
(* How a page that binds elements finds a form: jsrpc.Browser keeps the    *)
(* bindings the server makes (handles) and the latest under each form name *)
(* (formIDs); form(name) and errors(name) wait in bindingsFor until the    *)
(* name is there.  A channel of capacity 1, formAdded, tells a waiter that *)
(* some form was added: not which, and only one waiter.                    *)
(*                                                                         *)
(* The wasm runs one goroutine at a time, and one switches to another only *)
(* where it blocks, so each action is what a goroutine does until then.    *)
(***************************************************************************)
EXTENDS Integers, Sequences

CONSTANTS
    Names,      \* form names
    Bindings,   \* value bindings the server may make, one handle each
    NameOf,     \* the form name of each binding
    Waiters,    \* calls of form or errors by the page
    None

ASSUME FormWaitAssumption == NameOf \in [Bindings -> Names] /\ None \notin Bindings

VARIABLES
    handles,    \* bindings that are bound
    made,       \* bindings that have been made, in order
    formIDs,    \* the binding found under each name
    waiter,     \* each call: what it looks for and how far it is
    queue,      \* the calls blocked on formAdded, first come first served
    token,      \* formAdded holds an element
    closed,     \* formAdded is closed
    rebinding,  \* a rebind the page asked for has not run yet
    forgotten   \* history: names cleared by a rebind since their last binding

vars == <<handles, made, formIDs, waiter, queue, token, closed, rebinding, forgotten>>

Idle == [at |-> "idle"]

Init ==
    /\ handles = {}
    /\ made = <<>>
    /\ formIDs = [n \in Names |-> None]
    /\ waiter = [w \in Waiters |-> Idle]
    /\ queue = <<>>
    /\ token = FALSE
    /\ closed = FALSE
    /\ rebinding = FALSE
    /\ forgotten = {}

Wake(w) == [waiter EXCEPT ![w].at = "checking"]

\* A send that does not block: to the first blocked receiver, else into the
\* channel, else nowhere.
SignalAdded ==
    IF queue # <<>>
    THEN queue' = Tail(queue) /\ waiter' = Wake(Head(queue)) /\ UNCHANGED token
    ELSE token' = TRUE /\ UNCHANGED <<queue, waiter>>

-----------------------------------------------------------------------------
(* Calls from the server *)

\* Mutant: only the first form of a name is signalled.
NewValueBindingOnce(b) ==
    /\ ~closed
    /\ \A i \in 1..Len(made) : made[i] # b
    /\ made' = Append(made, b)
    /\ handles' = handles \cup {b}
    /\ formIDs' = [formIDs EXCEPT ![NameOf[b]] = b]
    /\ forgotten' = forgotten \ {NameOf[b]}
    /\ IF \E i \in 1..Len(made) : NameOf[made[i]] = NameOf[b]
       THEN UNCHANGED <<queue, token, waiter>>
       ELSE SignalAdded
    /\ UNCHANGED <<closed, rebinding>>

\* NewValueBinding and storeBindings.  No call is served after Release.
NewValueBinding(b) ==
    /\ ~closed
    /\ \A i \in 1..Len(made) : made[i] # b
    /\ made' = Append(made, b)
    /\ handles' = handles \cup {b}
    /\ formIDs' = [formIDs EXCEPT ![NameOf[b]] = b]
    /\ forgotten' = forgotten \ {NameOf[b]}
    /\ SignalAdded
    /\ UNCHANGED <<closed, rebinding>>

\* Mutant: Delete for CompareAndDelete.
FormIDsWithoutName(b) == [formIDs EXCEPT ![NameOf[b]] = None]

\* CompareAndDelete: the name goes only if it still stands for this binding.
FormIDsWithout(b) == [n \in Names |-> IF formIDs[n] = b THEN None ELSE formIDs[n]]

Unbind(b) ==
    /\ ~closed
    /\ b \in handles
    /\ handles' = handles \ {b}
    /\ formIDs' = FormIDsWithout(b)
    /\ UNCHANGED <<made, waiter, queue, token, closed, rebinding, forgotten>>

-----------------------------------------------------------------------------
(* Calls from the page *)

\* rebind clears the names at once, and again in the goroutine that binds the
\* elements of every handle anew.
ClearForms ==
    /\ formIDs' = [n \in Names |-> None]
    /\ forgotten' = {n \in Names : \E i \in 1..Len(made) : NameOf[made[i]] = n}

AskRebind ==
    /\ ~closed
    /\ ~rebinding
    /\ rebinding' = TRUE
    /\ ClearForms
    /\ UNCHANGED <<handles, made, waiter, queue, token, closed>>

Rebind ==
    /\ rebinding
    /\ rebinding' = FALSE
    /\ ClearForms
    /\ UNCHANGED <<handles, made, waiter, queue, token, closed>>

\* form(name) and newErrorSource start a goroutine that looks for the name.
Ask(w, n) ==
    /\ waiter[w] = Idle
    /\ waiter' = [waiter EXCEPT ![w] = [at |-> "checking", name |-> n]]
    /\ UNCHANGED <<handles, made, formIDs, queue, token, closed, rebinding, forgotten>>

\* bindingsFor's loop, up to where it returns or blocks.
Found(w) == formIDs[waiter[w].name] # None

Resolve(w) ==
    /\ waiter[w].at = "checking"
    /\ Found(w)
    /\ waiter' = [waiter EXCEPT ![w] = [at |-> "resolved", name |-> @.name, form |-> formIDs[@.name]]]
    /\ UNCHANGED <<handles, made, formIDs, queue, token, closed, rebinding, forgotten>>

\* Not there: receive from formAdded.  An element that waited there only makes
\* the loop look again, which finds nothing new, and block; a closed channel
\* ends it.
Block(w) ==
    /\ waiter[w].at = "checking"
    /\ ~Found(w)
    /\ token' = FALSE
    /\ IF closed
       THEN waiter' = [waiter EXCEPT ![w].at = "closing"] /\ UNCHANGED queue
       ELSE waiter' = [waiter EXCEPT ![w].at = "blocked"] /\ queue' = Append(queue, w)
    /\ UNCHANGED <<handles, made, formIDs, closed, rebinding, forgotten>>

\* Mutant: the receivers are only taken off the queue.
ReleaseDropsQueue ==
    /\ ~closed
    /\ closed' = TRUE
    /\ queue' = <<>>
    /\ UNCHANGED <<handles, made, formIDs, waiter, token, rebinding, forgotten>>

\* Release closes formAdded, which ends every wait, and releases the handles.
Release ==
    /\ ~closed
    /\ closed' = TRUE
    /\ queue' = <<>>
    /\ waiter' = [w \in Waiters |->
                    IF waiter[w].at = "blocked" THEN [waiter[w] EXCEPT !.at = "closing"] ELSE waiter[w]]
    /\ UNCHANGED <<handles, made, formIDs, token, rebinding, forgotten>>

-----------------------------------------------------------------------------
Look(w) == Resolve(w) \/ Block(w)

Next ==
    \/ \E b \in Bindings : NewValueBinding(b) \/ Unbind(b)
    \/ AskRebind
    \/ Rebind
    \/ \E w \in Waiters : Look(w) \/ \E n \in Names : Ask(w, n)
    \/ Release

\* Goroutines that can run do; the server and the page need do nothing.
Fairness == WF_vars(Rebind) /\ \A w \in Waiters : WF_vars(Look(w))

Spec == Init /\ [][Next]_vars
FairSpec == Spec /\ Fairness

-----------------------------------------------------------------------------
(* Properties *)

\* Every variable holds a value of its type, and the queue is the calls that
\* are blocked.
TypeOK ==
    /\ handles \subseteq Bindings
    /\ formIDs \in [Names -> Bindings \cup {None}]
    /\ \A w \in Waiters : waiter[w].at \in {"idle", "checking", "blocked", "resolved", "closing"}
    /\ {queue[i] : i \in 1..Len(queue)} = {w \in Waiters : waiter[w].at = "blocked"}
    /\ {token, closed, rebinding} \subseteq BOOLEAN

\* The latest binding made under a name.
Latest(n) ==
    LET of == {i \in 1..Len(made) : NameOf[made[i]] = n}
    IN IF of = {} THEN None ELSE made[CHOOSE i \in of : \A j \in of : j <= i]

\* While the latest binding of a name is bound, the name stands for it,
\* whatever older bindings of the name are unbound in the meantime; once it is
\* unbound no call finds it.  A rebind forgets the name.
NameIsLatest ==
    \A n \in Names :
        IF Latest(n) \in handles /\ n \notin forgotten
        THEN formIDs[n] = Latest(n)
        ELSE formIDs[n] = None

\* The only call the page has made never stays blocked on a form that is there: no
\* addition is lost between looking for the name and blocking, and an element left in
\* the channel by another form does no harm.  (With two calls, the one element of a
\* form may go to the call that waits for another form.)
FindsAlone(w) ==
    waiter[w].at = "blocked" /\ Found(w) => \E v \in Waiters \ {w} : waiter[v] # Idle

\* Once the browser is released, every call comes to an end; and until then the only
\* call finds its form.
WaitsEnd ==
    /\ closed ~> \A w \in Waiters : waiter[w].at \in {"idle", "resolved", "closing"}
    /\ [](\A w \in Waiters : FindsAlone(w))
=============================================================================
