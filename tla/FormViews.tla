------------------------------ MODULE FormViews ------------------------------
(***************************************************************************)
(* What page code sees of a form's model: on a headless page a formStore,   *)
(* with its subscribers and error subscribers; on an element-binding page a *)
(* form, with its subscriptions, and an errorSource.                        *)
(*                                                                         *)
(* A change of the model calls the observers it finds, and they call the    *)
(* page, which may change the model, subscribe and unsubscribe there: the   *)
(* calls of several changes interleave.  The calls a change has still to    *)
(* make are a set, for the page subscribes in any order.                    *)
(***************************************************************************)
EXTENDS Integers

CONSTANTS
    Values,     \* of the model
    Initial,    \* the value it is bound with
    Errors,     \* the validation errors of each value
    Callbacks,  \* functions of page code, each for one subscription at a time
    Changes     \* bound: changes that are being told at once

ErrorSets == {Errors[v] : v \in Values}

ASSUME ViewsAssumption ==
    /\ Initial \in Values /\ DOMAIN Errors = Values /\ {} \in ErrorSets
    /\ "changed" \notin Callbacks

VARIABLES
    headless,   \* the page is: Browser.onForm is set
    model,      \* the browser's copy of the model
    calls,      \* for each change being told, the calls it has yet to make
    role,       \* what each callback is subscribed to, and how far that is
    bound,      \* formStore.source is set
    watched,    \* formStore.watch observes it
    snapshot,   \* formStore.snapshot
    stale,      \* formStore.stale
    errors,     \* formStore.errors and lastErrs
    resolved,   \* errorSource.resolved is closed
    state,      \* errorSource.state
    seen,       \* what each callback last read of the model
    seenErrors, \* ... and of the errors
    missed      \* history: callbacks that started while the errors changed

storeVars == <<bound, watched, snapshot, stale, errors>>
sourceVars == <<resolved, state>>
readings == <<seen, seenErrors>>
vars == <<headless, model, calls, role, storeVars, sourceVars, readings, missed>>

StoreRoles == {"none", "sub", "errSub"}
Live == {"plain", "left", "key", "form", "source"}  \* "left": unsubscribed in vain
FormRoles == Live \cup {"none", "waiting", "cancelled", "startingForm", "startingSource"}

Init ==
    /\ headless \in BOOLEAN
    /\ model = Initial
    /\ calls = [t \in Changes |-> {}]
    /\ role = [c \in Callbacks |-> "none"]
    /\ bound = FALSE
    /\ watched = FALSE
    /\ snapshot = Initial
    /\ stale = FALSE
    /\ errors = {}
    /\ resolved = FALSE
    /\ state = {}
    /\ seen = [c \in Callbacks |-> Initial]
    /\ seenErrors = [c \in Callbacks |-> {}]
    /\ missed = {}

In(roles) == {c \in Callbacks : role[c] \in roles}
Free(c) == role[c] = "none" /\ \A t \in Changes : c \notin calls[t]
Becomes(c, r) == role' = [role EXCEPT ![c] = r]
Reads(c, v) == seen' = [seen EXCEPT ![c] = v] /\ UNCHANGED seenErrors
ReadsErrors(c, e) == seenErrors' = [seenErrors EXCEPT ![c] = e] /\ UNCHANGED seen

-----------------------------------------------------------------------------
(* The model changes *)

Observers == IF headless THEN (IF watched THEN {"changed"} ELSE {}) ELSE In(Live)

\* The server or the page sets a value; the observers there are will be called.
\* (For a store whose connection has ended there are none: set succeeds and that is all.)
Change(t, v) ==
    /\ calls[t] = {} /\ v # model
    /\ headless => bound
    /\ model' = v
    /\ calls' = [calls EXCEPT ![t] = Observers]
    /\ missed' = missed \cup In({"startingForm", "startingSource"})
    /\ UNCHANGED <<headless, role, storeVars, sourceVars, readings>>

\* formStore.attach: the model of a new connection; the old one's watch is released.
Attach(t, v) ==
    /\ headless /\ calls[t] = {}
    /\ model' = v
    /\ bound' = TRUE /\ watched' = TRUE
    /\ calls' = [u \in Changes |-> IF u = t THEN {"changed"} ELSE calls[u] \ {"changed"}]
    /\ UNCHANGED <<headless, role, snapshot, stale, errors, sourceVars, readings, missed>>

\* The connection ends: Browser.Release releases the model, and its observers go.
Lost ==
    /\ headless /\ watched
    /\ watched' = FALSE
    /\ calls' = [t \in Changes |-> calls[t] \ {"changed"}]
    /\ UNCHANGED <<headless, model, role, bound, snapshot, stale, errors, sourceVars, readings, missed>>

\* Mutant: the last errors are not remembered.
ChangedForgetting(t) ==
    /\ "changed" \in calls[t]
    /\ stale' = TRUE
    /\ calls' = [calls EXCEPT ![t] = In({"sub"}) \cup IF Errors[model] # {} THEN In({"errSub"}) ELSE {}]
    /\ errors' = Errors[model]
    /\ UNCHANGED <<headless, model, role, bound, watched, snapshot, sourceVars, readings, missed>>

\* formStore.changed: what its lock covers.  The calls follow.
Changed(t) ==
    /\ "changed" \in calls[t]
    /\ stale' = TRUE
    /\ errors' = Errors[model]
    /\ calls' = [calls EXCEPT ![t] =
                    In({"sub"}) \cup IF errors' # errors THEN In({"errSub"}) ELSE {}]
    /\ UNCHANGED <<headless, model, role, bound, watched, snapshot, sourceVars, readings, missed>>

-----------------------------------------------------------------------------
(* Callbacks *)

\* getSnapshot makes a snapshot of a model that has changed.
GetSnapshot(c) ==
    /\ snapshot' = IF bound /\ stale THEN model ELSE snapshot
    /\ stale' = (stale /\ ~bound)
    /\ Reads(c, snapshot')
    /\ UNCHANGED <<bound, watched, errors>>

\* One call of a change.  A subscription that has been released makes none, one
\* that a store has forgotten meanwhile is called but has gone ("none").
Call(t, c) ==
    /\ c \in calls[t]
    /\ calls' = [calls EXCEPT ![t] = @ \ {c}]
    /\ \/ role[c] = "sub" /\ GetSnapshot(c) /\ UNCHANGED <<sourceVars, missed>>
       \/ role[c] = "errSub" /\ ReadsErrors(c, errors) /\ UNCHANGED <<storeVars, sourceVars, missed>>
       \/ role[c] \in {"plain", "left", "key"} /\ Reads(c, model) /\ UNCHANGED <<storeVars, sourceVars, missed>>
       \/ /\ role[c] \in {"form", "source"}
          /\ ReadsErrors(c, Errors[model])
          /\ state' = IF role[c] = "source" THEN Errors[model] ELSE state
          /\ missed' = missed \ {c}
          /\ UNCHANGED <<storeVars, resolved>>
       \/ role[c] = "none" /\ UNCHANGED <<storeVars, sourceVars, readings, missed>>
    /\ UNCHANGED <<headless, model, role>>

-----------------------------------------------------------------------------
(* Subscriptions *)

\* formStore's subscribe; React reads the snapshot again when it has subscribed ...
Subscribe(c) ==
    /\ headless /\ Free(c) /\ Becomes(c, "sub")
    /\ GetSnapshot(c)
    /\ UNCHANGED <<headless, model, calls, sourceVars, missed>>

\* ... and its subscribeErrors.
SubscribeErrors(c) ==
    /\ headless /\ Free(c) /\ Becomes(c, "errSub")
    /\ ReadsErrors(c, errors)
    /\ UNCHANGED <<headless, model, calls, storeVars, sourceVars, missed>>

\* A form's subscribe or its subscribeKey.
FormSubscribe(c) ==
    /\ ~headless /\ Free(c) /\ (Becomes(c, "plain") \/ Becomes(c, "key"))
    /\ Reads(c, model)
    /\ UNCHANGED <<headless, model, calls, storeVars, sourceVars, missed>>

\* Mutant: a form's subscribeErrors begins with no errors.
FormSubscribeErrorsNone(c) ==
    /\ ~headless /\ Free(c) /\ Becomes(c, "startingForm")
    /\ ReadsErrors(c, {})
    /\ missed' = missed \ {c}
    /\ UNCHANGED <<headless, model, calls, storeVars, sourceVars>>

\* A form's subscribeErrors calls with the errors as they are ...
FormSubscribeErrors(c) ==
    /\ ~headless /\ Free(c) /\ Becomes(c, "startingForm")
    /\ ReadsErrors(c, Errors[model])
    /\ missed' = missed \ {c}
    /\ UNCHANGED <<headless, model, calls, storeVars, sourceVars>>

\* errorSource: the form is found, and its errors are worked out.
Resolve ==
    /\ ~headless /\ ~resolved
    /\ resolved' = TRUE
    /\ state' = Errors[model]
    /\ UNCHANGED <<headless, model, calls, role, storeVars, readings, missed>>

\* errorSource.subscribe starts a goroutine, ...
SourceSubscribe(c) ==
    /\ ~headless /\ Free(c) /\ Becomes(c, "waiting")
    /\ UNCHANGED <<headless, model, calls, storeVars, sourceVars, readings, missed>>

\* Mutant: it goes on before the form is found.
StartedUnresolved(c) ==
    /\ role[c] \in {"waiting", "cancelled"}
    /\ Becomes(c, IF role[c] = "waiting" THEN "startingSource" ELSE "none")
    /\ ReadsErrors(c, state)
    /\ missed' = IF state = Errors[model] THEN missed \ {c} ELSE missed \cup {c}
    /\ UNCHANGED <<headless, model, calls, storeVars, sourceVars>>

\* ... which calls with the state there is.  The select may take this branch for a
\* subscription that is cancelled; it observes nothing then.
Started(c) ==
    /\ role[c] \in {"waiting", "cancelled"} /\ resolved
    /\ Becomes(c, IF role[c] = "waiting" THEN "startingSource" ELSE "none")
    /\ ReadsErrors(c, state)
    /\ missed' = IF state = Errors[model] THEN missed \ {c} ELSE missed \cup {c}
    /\ UNCHANGED <<headless, model, calls, storeVars, sourceVars>>

GiveUp(c) ==
    /\ role[c] = "cancelled" /\ Becomes(c, "none")
    /\ UNCHANGED <<headless, model, calls, storeVars, sourceVars, readings, missed>>

\* After that first call both observe the model.
Observe(c) ==
    /\ \/ role[c] = "startingForm" /\ Becomes(c, "form")
       \/ role[c] = "startingSource" /\ Becomes(c, "source")
    /\ UNCHANGED <<headless, model, calls, storeVars, sourceVars, readings, missed>>

\* The function a subscription returned.  That of a form's subscribe removes the
\* observer from a source that it was not added to.
Unsubscribe(c) ==
    /\ \/ role[c] \in {"sub", "errSub", "key", "form", "source", "startingSource"} /\ Becomes(c, "none")
       \/ role[c] = "plain" /\ Becomes(c, "left")
       \/ role[c] = "waiting" /\ Becomes(c, "cancelled")
    /\ UNCHANGED <<headless, model, calls, storeVars, sourceVars, readings, missed>>

Next ==
    \/ \E t \in Changes, v \in Values : Change(t, v) \/ Attach(t, v)
    \/ \E t \in Changes : Changed(t) \/ \E c \in Callbacks : Call(t, c)
    \/ Lost
    \/ Resolve
    \/ \E c \in Callbacks :
        \/ Subscribe(c) \/ SubscribeErrors(c)
        \/ FormSubscribe(c) \/ FormSubscribeErrors(c) \/ SourceSubscribe(c)
        \/ Started(c) \/ GiveUp(c) \/ Observe(c)
        \/ Unsubscribe(c)

Spec == Init /\ [][Next]_vars

-----------------------------------------------------------------------------
(* Properties *)

Quiet == \A t \in Changes : calls[t] = {}

\* The variables hold what they are declared to hold; the goroutine of an errorSource
\* calls and observes only when it has a form.
TypeOK ==
    /\ headless \in BOOLEAN /\ bound \in BOOLEAN /\ watched \in BOOLEAN /\ stale \in BOOLEAN /\ resolved \in BOOLEAN
    /\ model \in Values /\ snapshot \in Values /\ seen \in [Callbacks -> Values]
    /\ errors \in ErrorSets /\ state \in ErrorSets /\ seenErrors \in [Callbacks -> ErrorSets]
    /\ role \in [Callbacks -> IF headless THEN StoreRoles ELSE FormRoles]
    /\ calls \in [Changes -> SUBSET (Callbacks \cup {"changed"})]
    /\ In({"startingSource", "source"}) # {} => resolved
    /\ missed \subseteq Callbacks

\* When every change has been told, each subscriber of a store has read the model
\* as it is, and each of its error subscribers the errors as they are, whatever
\* changes were made from inside callbacks, whoever came and went meanwhile, and
\* through the models of however many connections, while there is one.
StoreIsHeard ==
    headless /\ watched /\ Quiet =>
        /\ errors = Errors[model]
        /\ \A c \in In({"sub"}) : seen[c] = model
        /\ \A c \in In({"errSub"}) : seenErrors[c] = errors

\* ... and so it is for a form and an errorSource, but for a callback that started
\* with errors that had changed since they were worked out, or while they changed:
\* its first call is made before it observes, and nobody works out the state of an
\* errorSource that has no subscribers.
FormIsHeard ==
    Quiet =>
        /\ \A c \in In({"plain", "left", "key"}) : seen[c] = model
        /\ \A c \in In({"form", "source"}) \ missed : seenErrors[c] = Errors[model]
        /\ In({"source"}) \ missed # {} => state = Errors[model]
=============================================================================
