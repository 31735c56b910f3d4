----------------------------- MODULE ClickActions -----------------------------
(***************************************************************************)
(* Buttons: controller.BindAction and Release on the web server, and the    *)
(* page's ClickBindings, which send an action for each click.              *)
(*                                                                         *)
(* BindAction holds the controller's lock across its calls of the page, and *)
(* an action waits for that lock to find its target; Release takes no lock. *)
(* A document may be rendered anew, without or with other elements; then    *)
(* the page asks for its bindings to be rebound.  An action is bound to the *)
(* element of its name; handles are the numbers of the BindActions.         *)
(***************************************************************************)
EXTENDS Integers

CONSTANTS
    Names,          \* of actions
    Clicks,         \* the user's clicks
    MaxBinds,       \* bound: calls of BindAction
    MaxRenders      \* bound: documents

ASSUME ClickAssumption == MaxBinds \in Nat /\ MaxRenders \in Nat \ {0}

VARIABLES
    conn,       \* the connection is up
    binding,    \* the BindAction in progress, which has the lock
    binds,      \* how many BindActions there were
    actions,    \* c.actions: the handle of each action, or 0
    target,     \* the target in each action's actionBinding
    acting,     \* the controller's action observer is with the server
    release,    \* Release: "no", "unbinding" or "done"
    left,       \* the actions it has yet to unbind
    bindings,   \* the page's ClickBindings
    renders,    \* how many documents there were
    elements,   \* the document that each element is in, or 0
    rendered,   \* the document is new and nothing has been rebound
    dead,       \* the page's program has ended in a panic
    click,      \* each click's action
    overlapped  \* history: Release met a BindAction

server == <<binding, binds, actions, target, acting, release, left, overlapped>>
page == <<bindings, renders, elements, rendered, dead>>
vars == <<conn, server, page, click>>

NoBind == [at |-> "idle", name |-> "none", handle |-> 0]
Unclicked == [at |-> "idle", name |-> "none", since |-> 0, ran |-> 0]

Init ==
    /\ conn = TRUE
    /\ binding = NoBind
    /\ binds = 0
    /\ actions = [n \in Names |-> 0]
    /\ target = [n \in Names |-> 0]
    /\ acting = TRUE
    /\ release = "no"
    /\ left = {}
    /\ bindings = {}
    /\ renders = 1
    /\ elements \in [Names -> {0, 1}]
    /\ rendered = FALSE
    /\ dead = FALSE
    /\ click = [c \in Clicks |-> Unclicked]
    /\ overlapped = FALSE

-----------------------------------------------------------------------------
(* ClickBindings *)

\* A binding has found its element once, and listens to the one in document "on".
ClickBinding(h, n, found, on) == [handle |-> h, name |-> n, found |-> found, on |-> on]

\* NewClickBinding listens if the element is there.
NewClickBinding(h, n) == ClickBinding(h, n, elements[n] # 0, elements[n])

\* ClickBinding.Rebind lets go of the element it had and looks for it again.
ClickRebind(b) == ClickBinding(b.handle, b.name, b.found \/ elements[b.name] # 0, elements[b.name])

\* Browser.Unbind.  Releasing a ClickBinding that never found its element calls a
\* method of undefined, a panic that nothing recovers.
Unbind(h) ==
    /\ bindings' = {b \in bindings : b.handle # h}
    /\ dead' = (\E b \in bindings : b.handle = h /\ ~b.found)
    /\ UNCHANGED <<renders, elements, rendered>>

PageAnswers == conn /\ ~dead

-----------------------------------------------------------------------------
(* BindAction *)

\* Mutant: BindAction takes the lock to store the action only.
FreeAlways == TRUE

\* The controller's lock is free for a reader.
Free == binding.at = "idle"

\* Mutant: the old handle is not unbound.
BindActionAgain(n) ==
    /\ Free /\ release = "no" /\ binds < MaxBinds
    /\ binds' = binds + 1
    /\ binding' = [at |-> "making", name |-> n, handle |-> binds']
    /\ UNCHANGED <<conn, actions, target, acting, release, left, overlapped, page, click>>

\* It takes the lock.  An action that is bound is unbound first.
BindAction(n) ==
    /\ Free /\ release = "no" /\ binds < MaxBinds
    /\ binds' = binds + 1
    /\ binding' = [at |-> IF actions[n] = 0 THEN "making" ELSE "unbinding", name |-> n, handle |-> binds']
    /\ UNCHANGED <<conn, actions, target, acting, release, left, overlapped, page, click>>

\* The page unbinds the old handle, and the entry goes.
BindUnbinds ==
    /\ binding.at = "unbinding" /\ PageAnswers
    /\ Unbind(actions[binding.name])
    /\ binding' = [binding EXCEPT !.at = "making"]
    /\ actions' = [actions EXCEPT ![binding.name] = 0]
    /\ UNCHANGED <<conn, binds, target, acting, release, left, overlapped, click>>

\* The page makes the new binding: from here on it may be clicked.
BindMakes ==
    /\ binding.at = "making" /\ PageAnswers
    /\ bindings' = bindings \cup {NewClickBinding(binding.handle, binding.name)}
    /\ binding' = [binding EXCEPT !.at = "made"]
    /\ UNCHANGED <<conn, binds, actions, target, acting, release, left, overlapped,
                   renders, elements, rendered, dead, click>>

\* BindAction has the handle.  The actionBinding is that of before, if there was one.
\* Whether an iteration of Release finds it is up to the map.
BindReturns ==
    /\ binding.at = "made" /\ conn
    /\ binding' = NoBind
    /\ actions' = [actions EXCEPT ![binding.name] = binding.handle]
    /\ target' = [target EXCEPT ![binding.name] = binding.handle]
    /\ left' \in {left} \cup (IF release = "unbinding" THEN {left \cup {binding.name}} ELSE {})
    /\ UNCHANGED <<conn, binds, acting, release, overlapped, page, click>>

\* A call of the page fails with the connection: the action is not bound.
BindFails ==
    /\ binding.at # "idle" /\ ~conn
    /\ binding' = NoBind
    /\ actions' = [actions EXCEPT ![binding.name] = 0]
    /\ UNCHANGED <<conn, binds, target, acting, release, left, overlapped, page, click>>

-----------------------------------------------------------------------------
(* Controller.Release *)

\* The iterations of Release and a BindAction's writes are a data race: Go may end the
\* server in it, which is a server that takes no further step.
\* The observers of actions and the handlers of calls go first ...
Release ==
    /\ release = "no"
    /\ release' = "unbinding"
    /\ acting' = FALSE
    /\ left' = {n \in Names : actions[n] # 0}
    /\ overlapped' = (binding.at # "idle")
    /\ UNCHANGED <<conn, binding, binds, actions, target, page, click>>

\* ... then each action is unbound, if the page is there, ...
ReleaseUnbinds(n) ==
    /\ n \in left
    /\ left' = left \ {n}
    /\ IF conn THEN ~dead /\ Unbind(actions[n]) ELSE UNCHANGED page
    /\ UNCHANGED <<conn, binding, binds, actions, target, acting, release, overlapped, click>>

\* ... and all are forgotten.
ReleaseEnds ==
    /\ release = "unbinding" /\ left = {}
    /\ release' = "done"
    /\ actions' = [n \in Names |-> 0]
    /\ UNCHANGED <<conn, binding, binds, target, acting, left, overlapped, page, click>>

-----------------------------------------------------------------------------
(* The page *)

\* Another document, with some of the elements.
Render ==
    /\ ~dead /\ renders < MaxRenders
    /\ renders' = renders + 1
    /\ elements' \in [Names -> {0, renders'}]
    /\ rendered' = TRUE
    /\ UNCHANGED <<conn, server, bindings, dead, click>>

\* Mutant: the listener of the old element stays.
RebindAdds ==
    /\ ~dead /\ rendered
    /\ bindings' = bindings \cup {ClickRebind(b) : b \in bindings}
    /\ rendered' = FALSE
    /\ UNCHANGED <<conn, server, renders, elements, dead, click>>

\* goui.rebind
Rebind ==
    /\ ~dead /\ rendered
    /\ bindings' = {ClickRebind(b) : b \in bindings}
    /\ rendered' = FALSE
    /\ UNCHANGED <<conn, server, renders, elements, dead, click>>

\* The user clicks an element, and a binding that listens to it sends the action.
Click(c, b) ==
    /\ ~dead /\ conn /\ click[c].at = "idle"
    /\ b \in bindings /\ b.on # 0 /\ b.on = elements[b.name]
    /\ click' = [click EXCEPT ![c] = [at |-> "sent", name |-> b.name, since |-> b.handle, ran |-> 0]]
    /\ UNCHANGED <<conn, server, page>>

\* The page loses the connection and releases its bindings.
PageReleases ==
    /\ ~conn /\ ~dead
    /\ bindings' = {}
    /\ dead' = (\E b \in bindings : ~b.found)
    /\ UNCHANGED <<conn, server, renders, elements, rendered, click>>

\* The connection fails.
Break ==
    /\ conn /\ conn' = FALSE
    /\ UNCHANGED <<server, page, click>>

-----------------------------------------------------------------------------
(* An action at the server *)

\* Controller.action finds the actionBinding, under the lock ...
Find(c) ==
    /\ click[c].at = "sent"
    /\ acting => Free
    /\ click' = [click EXCEPT ![c].at =
                    IF acting /\ actions[click[c].name] # 0 THEN "found" ELSE "lost"]
    /\ UNCHANGED <<conn, server, page>>

\* ... and calls its target, which may have been replaced by now.
Run(c) ==
    /\ click[c].at = "found"
    /\ click' = [click EXCEPT ![c].at = "ran", ![c].ran = target[click[c].name]]
    /\ UNCHANGED <<conn, server, page>>

\* It is lost with the connection.
Lose(c) ==
    /\ click[c].at = "sent" /\ ~conn
    /\ click' = [click EXCEPT ![c].at = "lost"]
    /\ UNCHANGED <<conn, server, page>>

Binding == BindUnbinds \/ BindMakes \/ BindReturns \/ BindFails \/ \E n \in Names : BindAction(n)
Releasing == Release \/ ReleaseEnds \/ \E n \in Names : ReleaseUnbinds(n)

Next ==
    \/ Binding \/ Releasing
    \/ Render \/ Rebind \/ PageReleases \/ Break
    \/ \E c \in Clicks : Find(c) \/ Run(c) \/ Lose(c) \/ \E b \in bindings : Click(c, b)

Spec == Init /\ [][Next]_vars

-----------------------------------------------------------------------------
(* Properties *)

\* The variables hold what they are declared to hold, and no two bindings of the
\* page have one handle.
TypeOK ==
    /\ {conn, acting, rendered, dead, overlapped} \subseteq BOOLEAN
    /\ binding \in [at : {"idle", "unbinding", "making", "made"}, name : Names \cup {"none"}, handle : 0..MaxBinds]
    /\ binding.at # "idle" => binding.name \in Names /\ binding.handle # 0
    /\ binds \in 0..MaxBinds /\ renders \in 1..MaxRenders
    /\ actions \in [Names -> 0..binds] /\ target \in [Names -> 0..binds]
    /\ release \in {"no", "unbinding", "done"} /\ left \subseteq Names
    /\ bindings \subseteq [handle : 1..binds, name : Names, found : BOOLEAN, on : 0..renders]
    /\ \A b, d \in bindings : b.handle = d.handle => b = d
    /\ elements \in [Names -> 0..renders]
    /\ click \in [Clicks -> [at : {"idle", "sent", "found", "ran", "lost"}, name : Names \cup {"none"},
                             since : 0..binds, ran : 0..binds]]

\* A click is never lost while the connection and the controller last, not even one
\* that comes before BindAction has the handle of its button, or while the action is
\* being bound anew; and what runs is no older than what was clicked.
ClicksAreHeard ==
    \A c \in Clicks :
        /\ click[c].at = "lost" => ~conn \/ release # "no"
        /\ click[c].at = "ran" => click[c].ran >= click[c].since

\* Server and page agree on the buttons whenever no call is on its way, a click
\* sends one action only, listeners follow the document, and Release leaves
\* nothing at the page, unless it meets a BindAction.
ButtonsAgree ==
    /\ PageAnswers /\ Free /\ release = "no" =>
            {<<b.name, b.handle>> : b \in bindings} = {<<n, actions[n]>> : n \in {m \in Names : actions[m] # 0}}
    /\ \A b, d \in bindings : b.name = d.name /\ ~overlapped => b = d
    /\ ~rendered => \A b \in bindings : b.on = elements[b.name]
    /\ PageAnswers /\ release = "done" /\ ~overlapped => bindings = {}
=============================================================================
