----------------------------- MODULE ValueBinding -----------------------------
(***************************************************************************)
(* A model bound to a page: controller.BindValues on the web server, the   *)
(* browser's copy made by jsrpc.Browser.NewValueBinding, and the two        *)
(* observers that keep the copies together.                                 *)
(*                                                                         *)
(* On both sides a PathObserver watches the copy.  A change made by that   *)
(* side's own code is sent to the other side; a change that comes from the *)
(* other side is applied between Updating and its done, so that it is not  *)
(* sent back.  Updating is a counter of the whole PathObserver: it does    *)
(* not know which change, which key or which goroutine it is for.          *)
(*                                                                         *)
(* Application goroutines and the handlers of the page's sets run in       *)
(* parallel on the server.  The page is a single JS thread: a push is      *)
(* applied without a pause, and page code runs inside its window only as   *)
(* a subscriber the push itself calls.                                     *)
(***************************************************************************)
EXTENDS Integers, FiniteSets

CONSTANTS
    Keys,           \* key paths of the model
    Workers,        \* goroutines of the application that write the model
    MaxAppWrites,   \* bound: how many changes the application makes
    MaxPageWrites   \* bound: how many changes the page makes

ASSUME ValueBindingAssumption == MaxAppWrites \in Nat /\ MaxPageWrites \in Nat

VARIABLES
    bind,       \* how far BindValues has come
    snapshot,   \* the model as NewValueBinding's request carries it
    model,      \* the server's copy: the id of the write of each key
    copy,       \* the page's copy
    worker,     \* what each application goroutine is doing
    pushes,     \* calls of Browser.SetValue the page has not handled
    sets,       \* calls of Server.SetValue no handler has started on
    serving,    \* the server's handlers of sets, and how far each is
    applying,   \* the push the page is inside of (at most one)
    updating,   \* PathObserver's counter on each side
    appWrites, pageWrites,  \* how many writes each side has made
    raced       \* history: keys whose last write met another change

vars == <<bind, snapshot, model, copy, worker, pushes, sets, serving, applying,
          updating, appWrites, pageWrites, raced>>

Ids == 0..(MaxAppWrites + MaxPageWrites)    \* 0 is the initial value
Last == appWrites + pageWrites
Change == [key : Keys, id : Ids, by : {"app", "page"}]
Idle == [at |-> "idle"]

Init ==
    /\ bind = "observing"
    /\ snapshot = [k \in Keys |-> 0]
    /\ model = [k \in Keys |-> 0]
    /\ copy = [k \in Keys |-> 0]
    /\ worker = [w \in Workers |-> Idle]
    /\ pushes = {}
    /\ sets = {}
    /\ serving = {}
    /\ applying = {}
    /\ updating = [server |-> 0, page |-> 0]
    /\ appWrites = 0
    /\ pageWrites = 0
    /\ raced = {}

\* Mutant: Updating suppresses nobody.
HeardAlways(count, c) == {c}

\* Observe.observersFor: nobody hears of a change while updating is positive.
Heard(count, c) == IF count > 0 THEN {} ELSE {c}

\* A change of key k that one side has and the other may not.
Outstanding(k) ==
    \/ \E w \in Workers : worker[w].at # "idle" /\ worker[w].c.key = k
    \/ \E c \in pushes \cup sets \cup applying : c.key = k
    \/ \E h \in serving : h.c.key = k

\* The history: a write on its own settles its key, one that meets another
\* change does not.
Raced(k, met) == IF met THEN raced \cup {k} ELSE raced \ {k}

-----------------------------------------------------------------------------
(* BindValues.  The server's side of the binding already applies the page's  *)
(* sets (AddValueObserver).                                                  *)

\* NewValueBinding's request is made from the model as it is.
RequestBinding ==
    /\ bind = "observing"
    /\ bind' = "requested"
    /\ snapshot' = model
    /\ UNCHANGED <<model, copy, worker, pushes, sets, serving, applying, updating,
                   appWrites, pageWrites, raced>>

\* Browser.NewValueBinding: the page has its copy and may change it.
NewValueBinding ==
    /\ bind = "requested"
    /\ bind' = "created"
    /\ copy' = snapshot
    /\ UNCHANGED <<snapshot, model, worker, pushes, sets, serving, applying, updating,
                   appWrites, pageWrites, raced>>

\* BindValues has the handle and adds the observer that pushes to it.
AttachObserver ==
    /\ bind = "created"
    /\ bind' = "attached"
    /\ UNCHANGED <<snapshot, model, copy, worker, pushes, sets, serving, applying, updating,
                   appWrites, pageWrites, raced>>

-----------------------------------------------------------------------------
(* A change made by the application *)

\* Model.SetValue stores the value ...
AppWrite(w, k) ==
    /\ worker[w] = Idle
    /\ appWrites < MaxAppWrites
    /\ appWrites' = appWrites + 1
    /\ model' = [model EXCEPT ![k] = Last + 1]
    /\ worker' = [worker EXCEPT ![w] = [at |-> "wrote", c |-> [key |-> k, id |-> Last + 1, by |-> "app"]]]
    /\ raced' = Raced(k, Outstanding(k))
    /\ UNCHANGED <<bind, snapshot, copy, pushes, sets, serving, applying, updating, pageWrites>>

\* ... and notifies: wsrpc.Observer.SetValue calls the browser and waits.
AppNotify(w) ==
    /\ worker[w].at = "wrote"
    /\ LET c == worker[w].c
           heard == IF bind = "attached" THEN Heard(updating.server, c) ELSE {}
           missed == bind \in {"requested", "created"} /\ snapshot[c.key] # c.id
       IN /\ pushes' = pushes \cup heard
          /\ worker' = [worker EXCEPT ![w] = IF heard = {} THEN Idle ELSE [@ EXCEPT !.at = "pushing"]]
          /\ raced' = IF missed \/ serving # {} THEN raced \cup {c.key} ELSE raced
    /\ UNCHANGED <<bind, snapshot, model, copy, sets, serving, applying, updating, appWrites, pageWrites>>

\* Browser.SetValue at the page: up.SetValue marks the path as updating and
\* sets the copy.
ApplyPush(c) ==
    /\ c \in pushes
    /\ applying = {}
    /\ pushes' = pushes \ {c}
    /\ applying' = {c}
    /\ updating' = [updating EXCEPT !.page = @ + 1]
    /\ copy' = [copy EXCEPT ![c.key] = c.id]
    /\ sets' = sets \cup Heard(updating'.page, c)
    /\ UNCHANGED <<bind, snapshot, model, worker, serving, appWrites, pageWrites, raced>>

\* Mutant: done is not called.
PushAppliedNotDone(c) ==
    /\ c \in applying
    /\ applying' = {}
    /\ worker' = [w \in Workers |->
                    IF worker[w].at = "pushing" /\ worker[w].c = c THEN Idle ELSE worker[w]]
    /\ UNCHANGED <<bind, snapshot, model, copy, pushes, sets, serving, updating,
                   appWrites, pageWrites, raced>>

\* The subscribers have run: done, and the call is answered.
PushApplied(c) ==
    /\ c \in applying
    /\ applying' = {}
    /\ updating' = [updating EXCEPT !.page = @ - 1]
    /\ worker' = [w \in Workers |->
                    IF worker[w].at = "pushing" /\ worker[w].c = c THEN Idle ELSE worker[w]]
    /\ UNCHANGED <<bind, snapshot, model, copy, pushes, sets, serving, appWrites, pageWrites, raced>>

-----------------------------------------------------------------------------
(* A change made by the page *)

\* The page sets a key of its copy: from its own code, or from a subscriber
\* that a push called.
PageWrite(k) ==
    /\ bind \in {"created", "attached"}
    /\ pageWrites < MaxPageWrites
    /\ pageWrites' = pageWrites + 1
    /\ copy' = [copy EXCEPT ![k] = Last + 1]
    /\ sets' = sets \cup Heard(updating.page, [key |-> k, id |-> Last + 1, by |-> "page"])
    /\ raced' = Raced(k, Outstanding(k) \/ applying # {})
    /\ UNCHANGED <<bind, snapshot, model, worker, pushes, serving, applying, updating, appWrites>>

\* Server.SetValue finds the action's observer and marks its path as updating.
ServeSet(c) ==
    /\ c \in sets
    /\ sets' = sets \ {c}
    /\ serving' = serving \cup {[at |-> "begun", c |-> c]}
    /\ updating' = [updating EXCEPT !.server = @ + 1]
    /\ UNCHANGED <<bind, snapshot, model, copy, worker, pushes, applying, appWrites, pageWrites, raced>>

\* The model takes the value, and its observers are told unless updating.
StoreSet(h) ==
    /\ h \in serving
    /\ h.at = "begun"
    /\ model' = [model EXCEPT ![h.c.key] = h.c.id]
    /\ pushes' = pushes \cup (IF bind = "attached" THEN Heard(updating.server, h.c) ELSE {})
    /\ serving' = (serving \ {h}) \cup {[h EXCEPT !.at = "stored"]}
    /\ UNCHANGED <<bind, snapshot, copy, worker, sets, applying, updating, appWrites, pageWrites, raced>>

\* Mutant: done is deferred and called on the way out as well.
SetServedTwice(h) ==
    /\ h \in serving
    /\ h.at = "stored"
    /\ serving' = serving \ {h}
    /\ updating' = [updating EXCEPT !.server = @ - 2]
    /\ UNCHANGED <<bind, snapshot, model, copy, worker, pushes, sets, applying, appWrites, pageWrites, raced>>

\* Mutant: done is not called.
SetServedNotDone(h) ==
    /\ h \in serving
    /\ h.at = "stored"
    /\ serving' = serving \ {h}
    /\ UNCHANGED <<bind, snapshot, model, copy, worker, pushes, sets, applying, updating,
                   appWrites, pageWrites, raced>>

\* The set is stored: done, and the call is answered.
SetServed(h) ==
    /\ h \in serving
    /\ h.at = "stored"
    /\ serving' = serving \ {h}
    /\ updating' = [updating EXCEPT !.server = @ - 1]
    /\ UNCHANGED <<bind, snapshot, model, copy, worker, pushes, sets, applying, appWrites, pageWrites, raced>>

-----------------------------------------------------------------------------
Binding == RequestBinding \/ NewValueBinding \/ AttachObserver
Pushing == (\E c \in pushes : ApplyPush(c)) \/ (\E c \in applying : PushApplied(c))
Serving == (\E c \in sets : ServeSet(c)) \/ (\E h \in serving : StoreSet(h) \/ SetServed(h))

Next ==
    \/ Binding
    \/ \E w \in Workers : AppNotify(w) \/ \E k \in Keys : AppWrite(w, k)
    \/ Pushing
    \/ \E k \in Keys : PageWrite(k)
    \/ Serving

\* Goroutines run and calls are delivered and answered; nothing makes the
\* application or the page write.
Fairness ==
    /\ WF_vars(Binding)
    /\ \A w \in Workers : WF_vars(AppNotify(w))
    /\ WF_vars(Pushing)
    /\ WF_vars(Serving)

Spec == Init /\ [][Next]_vars
FairSpec == Spec /\ Fairness

-----------------------------------------------------------------------------
(* Properties *)

\* Every variable holds a value of its type, and at most one push is applied
\* at a time.
TypeOK ==
    /\ bind \in {"observing", "requested", "created", "attached"}
    /\ {snapshot, model, copy} \subseteq [Keys -> Ids]
    /\ worker \in [Workers -> {Idle} \cup [at : {"wrote", "pushing"}, c : Change]]
    /\ pushes \subseteq Change
    /\ sets \subseteq Change
    /\ serving \subseteq [at : {"begun", "stored"}, c : Change]
    /\ applying \subseteq Change /\ Cardinality(applying) <= 1
    /\ updating \in [server : Nat, page : Nat]
    /\ appWrites \in 0..MaxAppWrites
    /\ pageWrites \in 0..MaxPageWrites
    /\ raced \subseteq Keys

\* A change that came from the other side is never sent back to it.
NoEcho ==
    /\ \A c \in sets : c.by = "page"
    /\ \A c \in pushes : c.by = "app"

\* Nothing is on its way between the two copies.
Quiet ==
    /\ bind = "attached"
    /\ \A w \in Workers : worker[w] = Idle
    /\ pushes \cup sets \cup applying = {}
    /\ serving = {}

\* Once everything sent has been applied, the copies agree on every key whose
\* last write met no other change: no write of the same key on its way, no
\* change of any key being applied by the writer's side, no binding half made.
ConvergesUnlessRaced == Quiet => \A k \in Keys \ raced : model[k] = copy[k]

\* Whatever the two sides do, they come to rest, agreeing on those keys.
ComesToRest == <>[](Quiet /\ \A k \in Keys \ raced : model[k] = copy[k])

\* The comment on Form: the browser's copy receives the server's changes.
AppWriteArrives == <>[](Quiet /\ \A k \in Keys : copy[k] >= model[k])
=============================================================================
