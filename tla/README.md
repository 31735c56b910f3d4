# Specifications of zugoui

TLA+ modules for zugoui, the TLC configurations that check them on small
instances, and proofs that TLAPS checks. Every definition is a translation of
the Go code; `PROJECT.json` names the lines each one stands for.

zugoui binds a model, a plain Go struct on a web server, to a page in a
browser. The page runs a Go program compiled to wasm. The two talk `net/rpc`
in both directions over one websocket: the page sets values of the model and
calls actions, the server pushes its own changes of the model to the page.

## 1. Inventory

| Part | Source | State it keeps | Operations | Talks to |
|---|---|---|---|---|
| Pending sets and actions | `jsrpc/webserver.go` | `pendingSets.n`, the sleepers of its condition | `Observer.SetValue`, `Server.Action`, `CallAction`, `add`, `done`, `wait` | calls the rpc server |
| Rpc server of the web server | `wsrpc/rpc.go`, `wsrpc/browser.go` | value observers by action, action observers, call handlers | `SetValue`, `Action`, `Call`, `HandleCall`, adding and removing observers | its observers; stubs that call the page |
| Controller | `controller/controller.go` | bindings, click bindings | `BindValues`, `BindAction`, `HandleAction`, `Release`, `AddData` | the rpc server, the page |
| Observers | `observable/observer.go` | observers by key, the `updating` count | `AddObserver`, `RemoveObserver`, `Updating`, notification | called by every source |
| Path observers | `observable/path.go` | a tree of observers that follows the sources | `SetValue`, `setValue`, `Release` | a source below, observers above |
| Model | `observable/controllers/model.go` | the value, caches of keys and of sources | `SetValue`, slice and map operations, `Release` | its observers |
| Scroll | `observable/controllers/scroll` | offset and capacity of a window | `Up`, `Down`, pages, `Insert` | the source it is a window of |
| Bindings, transforms, validation | `observable/{binding,transform,validate}.go` | two sources and observers | notification in both directions | a model and an input |
| Page's rpc service | `jsrpc/browser.go`, `jsrpc/goui.go` | handles, form names, listeners, `formAdded` | `NewValueBinding`, `Unbind`, `Rebind`, `form`, `errors`, `Release` | called by the server and by page code |
| Form subscriptions | `jsrpc/form.go`, `jsrpc/errors.go` | observers, the last errors | subscribe, unsubscribe, snapshots | a bound form |
| Headless session | `browser/session.go` | state, server, stores, subscribers, redial delay | `start`, `run`, `setState`, `action`, `close` | connections, page code (callbacks) |
| Form store | `browser/formstore.go` | source, snapshot, stale mark, errors, subscribers | `attach`, `changed`, `set`, `getSnapshot`, `release` | a bound form, page code (callbacks) |
| Connection | `browser/connection.go`, `controller/server.go` | the websocket, its Demux and endpoints | set up, serve, take down | Demux, `net/rpc` |
| Demultiplexer | `wsconn/endpoint.go`, `wsconn/message.go` | endpoints and their pipes, the reading goroutine | `NewEndpoint`, `Close`, `input` | the websocket, the readers of the endpoints |
| Inputs | `input/input.go`, `input/valuebindings.go` | DOM elements, properties, a throttle, the bindings of a document | events, `SetValue`, `Rebind` | the DOM, bindings |
| Buttons | `input/clickbinding.go`, `controller/controller.go` | an element and its listener; the handle of each action | `BindAction`, `Unbind`, `Rebind`, clicks | controller, page, actions |
| Page start-up | `browser/main.go`, `browser/serve.go` | the reconnect loop | `Main` | connection |
| Algorithms and glue | `jsonpath`, `rpctypes`, `jstypes`, `jsglue`, `gzasm` | none | conversions, `NewError`, choice of an encoding | - |
| Test runner | `wasm_exec` | tokens issued | `Issue`, `Verify` | - |

What is hard in it:

- **Goroutines per call.** `net/rpc` runs every call on a goroutine of its own,
  on both sides. Nothing orders two calls except what the code adds.
- **Two copies of one model**, each changed by its own side and by the other,
  and an echo suppression that is one counter for a whole path.
- **Callbacks into page code** outside locks, in the middle of an operation:
  page code may use the session, the stores or the model again.
- **A connection that fails at any step**, its teardown, the redial, and calls,
  bindings and stores that outlive it.
- **Waiting**: for pending sets, for a form, for a reader of a pipe, for the
  goroutine of a Demux, for a lock, for a throttle.
- **Positions and paths that move**: a window over a slice that changes under it,
  trees of observers whose sources are replaced, caches by position.

What makes each part correct:

- *Pending sets*: the counter is exact however calls end; an action runs after
  every set made before it; no wakeup is lost; every action returns.
- *Value bindings*: no change is echoed; both copies end up the same wherever
  that can be promised at all.
- *Demultiplexer*: each endpoint reads a stream without holes or reordering;
  the loss of the connection reaches its readers; the teardown ends.
- *Forms*: a name stands for its latest binding; a wait for a form ends; a
  subscriber has been told the latest model and the latest errors.
- *Session*: subscribers know the state; the backoff; `close` ends everything;
  an open session takes actions.
- *Model and scroll*: who follows the notifications has the slice; cached
  sources are the elements'; the page shows the rows of the window.
- *Path observers*: the tree hangs on the sources that are there; each path's
  observer has the value at its path.
- *Inputs*: an input shows its field; what was typed last is read.
- *Buttons*: no click is lost, none counts twice; server and page agree on what
  is bound.

`PROJECT.json` lists the hazards of the code under `hazards`, each at its line
with the properties about it.

## 2. The modules

| Module | Models | Composes |
|---|---|---|
| `ActionFence` | the promise of `jsrpc.Server` to a page, without calls, counters or conditions | |
| `PendingSets` | pending sets, actions, the calls and the server's handlers | implements `ActionFence` (`INSTANCE ... WITH`) |
| `ValueBinding` | `BindValues`, `NewValueBinding`, the observers of both sides | page, rpc and server in one |
| `MessageStreams` | what a Demux promises the readers of its endpoints, without a wire, a goroutine or pipes | |
| `Demux` | one end of the websocket, at the page or at the server (`Side`) | Demux, endpoints, readers, connection or `Start`; at the page implements `MessageStreams` |
| `FormWait` | handles, form names and the calls that wait for a form | page code, rpc calls |
| `FormViews` | form stores, form subscriptions, error sources | model, page callbacks, connections |
| `Session` | the headless session and its connections | run, page code, callbacks |
| `SliceModel` | a `Model` over a slice: array, caches, notifications | |
| `Scroll` | the window on a slice, and another model that follows the slice | extends `SliceModel` |
| `PathTree` | two path observers on a window of elements, a `Binding` to an input | model, scroll, path observers |
| `Inputs` | inputs, their throttle and lock, the bindings of a document | model, bindings, inputs |
| `ClickActions` | `BindAction`, click bindings, actions, `Release` | controller, rpc calls, page, user |
| `<M>_proofs` | the theorems about `M` and their proofs, for `PendingSets`, `ValueBinding`, `FormWait`, `Session`, `Demux` and `PathTree` | extends `M` |
| `Elements_proofs` | the theorems about the elements of a page | extends `ClickActions` and `Inputs` |
| `Views_proofs` | the theorems about what is shown of a model | extends `FormViews` and `Scroll` |

Definitions of `Inputs` and `Scroll` that other modules have too begin with the
module's name (`InputsInit`, `ScrollTypeOK`), so that one module of proofs can
extend two components. `MC*` modules only give names to the model values of a
run. `Demux` needs none.
In each module, definitions whose comment starts with "Mutant:" are variants of
the next definition with a plausible bug. They are not part of the
specification; substituted for it, each breaks the property that `PROJECT.json`
names under `mutants`.

### PendingSets

`n` is `pendingSets.n`. `set[s]` and `act[a]` are program counters of the
goroutines of sets and actions; `inbox` is what the server has not handled,
`ran` what it has. The requests in flight are a set: the server starts a
goroutine per request, so they run in any order. One action of the module is
one stretch of code between blocking points or under one lock: `SetValue` is
`add` (on the JS event loop), `SendSet` and `SetReturns` are the goroutine's
call and its deferred `done`, `CheckIdle` is one turn of `wait`'s loop (the
check and the sleep are one step, because `sync.Cond.Wait` enrols the sleeper
before it gives up the lock), `HandleSet` and `HandleAction` are the handlers,
reduced to the one key they write and to the model they see. `Drop` and `Lose`
are the failure of the connection: a request the server had read still runs.

The page's side is wasm, where one goroutine runs at a time; the module allows
any interleaving between the steps above, which includes those.

### ValueBinding

`model` and `copy` are the two copies, `updating` the two counters. Values are
the numbers of the writes, so each is written once and can be followed. A
goroutine of the application writes (`AppWrite`) and then notifies
(`AppNotify`), as `Model.SetValue` does, and waits for the page's answer. The
server's handlers of sets have three steps (`ServeSet`, `StoreSet`,
`SetServed`): `Updating`, the store with its notification, `done`. At the page
a push is `ApplyPush` and `PushApplied`, and only page code that a subscriber
runs (`PageWrite`) comes between them, as the page is one thread.

The two copies cannot agree always: when writes of one key cross, each side
ends up with the other's value, and no code settles it. `raced` records the
keys whose last write met another change, in terms of circumstances only: a
change of the key on its way, any change being applied by the writer's side, a
binding half made. `ConvergesUnlessRaced` says that these are the only ways.
A `done` that is forgotten is none of them, so it shows.

### Demux

The goroutine of `NewDemux` (`loop`), the pipes of the two endpoints, their
readers, and the code around them (`owner`), which differs by `Side`. An
`io.Pipe` has no buffer: the goroutine waits in `Input` until the reader takes
the message. A reader may give up after something it cannot decode
(`rpc.Server.ServeConn` closes its endpoint then, `rpc.Client` does not);
`GiveUp` and the failures of the websocket stand for code outside the
repository. At the page the goroutine cannot run before `connection` blocks in
`ServeConn`, as wasm is single threaded (`LoopRuns`); at the server it can.

`Promise` maps this to `MessageStreams`: the connection is up while `conn` is,
and a stream has ended when its reader has returned. Reading the websocket,
closing pipes and the other steps of the teardown are stutters there.

### FormWait

A send on `formAdded` goes to the first blocked receiver, else into the
channel, else nowhere (`SignalAdded`). What a goroutine of the wasm does up to
where it blocks is one action. `ClearForms` runs twice for one rebind, as in
the code. Elements and their inputs are left out. `WaitsEnd` has two parts: a
released browser ends every wait, and the only call the page has made is never
blocked on a form that is there (`FindsAlone`).

### FormViews

A change of the model calls the observers it finds; `calls[t]` holds the calls
that the change `t` has still to make. The page may change the model again from
a callback, so the calls of several changes interleave. Each callback has one
`role` at a time: a subscriber or error subscriber of a store (headless), or on
an element-binding page a form's `subscribe`, `subscribeKey` or
`subscribeErrors`, or an error source's subscriber, whose goroutine waits for
the form (`waiting`), calls once (`startingSource`) and observes. `Changed` is
what `formStore.changed` does under its lock. Errors are a function of the
model's value. `Lost` is the end of a connection: the store keeps its model, a
value set on it is kept and nobody hears of it until the next `Attach`.

### Session

`run` is where the goroutine of `run` is. `stack` holds the calls of `setState`
in progress: each calls its subscribers one by one outside the lock, page code
runs inside them (`PageRuns`), and a nested `close` pushes a frame of its own.

### SliceModel and Scroll

`array` and `len` are the slice; a larger array replaces the old one when it
grows, with any capacity Go might choose. `keys` and `sources` are the model's
caches by position: a slot may be of an array that was replaced. Operations are
`SetValue`, `SetValueAt`, `InsertValueAt`, `RemoveValueAt` and the reading of a
position, which makes a zero element where it finds nil. Each tells its
observers of a change of the slice and of new values of positions.
`TellSet`, `TellInsert` and `TellRemove` are what becomes of the two observers:
another model makes the same change (`replica`, by `WasSetAt`, `InsertedAt` and
`RemovedAt`), and the window passes on the values of its rows (`shown`). Within
one operation the order of the calls is that of the nesting: a removal sets
its key to nil first and then updates the keys from it on, so `UpdatedFrom` is
applied to what `KeySet` gives, at the offset the window has moved to by then.

### PathTree

Rows are a window on a list; each element has one field. A node of an observer
is "attached" while the tree holds it, and its observer stays with the source
after the node has gone ("watching"), as in the code, until the source is
released. Replacing an element releases its source; scrolling does not. `copy`
and `input` are what the wildcard observer and the one of a single path were
last told.

### Inputs

An `input` event puts one element into a channel of size 1 (`signal`); the
goroutine of the input takes it, reads the input and sleeps a second. A
`change` event reads at once. Both end in `ChangeHandler`: the field is set and
the field's other bindings set their inputs. `Rebind` drops all and binds
another document. `typed` says that there is text nobody has read.

### ClickActions

Handles are the numbers of the `BindAction` calls. `BindAction` has its
steps at the page's answers: unbind, make, return; `Find` and `Run` are an
action at the server, which waits for the lock and then calls the target. A
document is a number, and a binding listens to the element of one document
(`on`). `Release` goes through the bound actions one call at a time.

## 3. The runs

| Run | Shows | Bounds |
|---|---|---|
| `fence` | type, `CounterExact`, `NoLostWakeup`, `ActionSeesEarlierSets`, `ActionSeesNewest`, `QuietServerAgrees`, `EveryCallReturns`, and that the module implements `ActionFence` | 3 sets, two of one key; 2 actions |
| `two_copies` | type, `NoEcho`, `ConvergesUnlessRaced`, `ComesToRest` | 2 keys, 2 goroutines, 2 writes each side |
| `demux_browser` | type, `LossIsSeen`, `TeardownEnds`, and that the page's end implements `MessageStreams` | 2 messages for each endpoint |
| `form_wait` | type, `NameIsLatest`, `WaitsEnd` | 2 names, one bound twice; 2 calls |
| `form_views` | type, `StoreIsHeard`, `FormIsHeard` | 2 callbacks, 2 changes being told, 3 values |
| `session` | type, `HeardIsState`, `BackoffFollowsFailures`, `CloseEnds`, `OpenAcceptsActions` | 2 connections, 2 subscribers, 1 action, 6 failed dials in a row |
| `scroll` | type, `ReplicaAgrees`, `SourcesCurrent`, `WindowIsShown` | slices of up to 3 in arrays of up to 4, 3 elements and 1 zero element, a window of 2 |
| `path_tree` | type, `TreeFollowsSource`, `PathsShowFields` | a list of 3, 2 rows, 4 elements |
| `inputs` | type, `InputsShowFields`, `TypedIsRead` | 2 inputs, 2 fields, 3 values, 4 documents |
| `click_actions` | type, `ClicksAreHeard`, `ButtonsAgree` | 2 actions, 3 `BindAction`s, 2 clicks, 2 documents |

Each of these passes. Two runs end in a violation of one property, which a
comment of the code states and the code does not keep:

| Run | Property | What happens |
|---|---|---|
| `bind_write_lost` | `AppWriteArrives` | the application changes the model while `BindValues` waits for the page, and the page never has it |
| `demux_server` | `DoneIsClosed` | the connection is gone before `Start` attaches the endpoints; nothing closes them, and the channel stays open |

Where the code keeps a property only outside some circumstance, the property
names the circumstance and nothing else, mostly through a history variable that
records when it begins and ends. A reader of the code may want to know them:

- *Two sets of one key in flight* (`overlapped` in `PendingSets`): the older
  may be handled last, and an action or the server may be left with it.
- *Writes that cross*, and writes by a subscriber that a push has called
  (`raced` in `ValueBinding`): the copies differ until the next write.
- *A signal taken by another call* (`WaitsEnd`): with two calls waiting, the
  one signal of a form may wake the call that waits for another.
- *A subscriber that calls close* (`nested` in `Session`): others hear
  "closed" and then the state before it.
- *A set between connections* (`watched` in `FormViews`): it succeeds, and
  neither the server nor the subscribers hear of it.
- *A first call that is out of date* (`missed`): an error subscriber starts
  with errors that have changed since, and hears only of the next change.
- *A form's `subscribe`* cannot be unsubscribed (`left`).
- *`SetValueAt`, removal at the length, nil filled in a replaced array*
  (`strayed` in `SliceModel`): the model keeps the source of another element.
- *Removals that pull the window back* (`behind`) and *growth by assignment*
  (`unseen`, in `Scroll`): the page hears of the rows, or of `canDown`, when
  the user scrolls. `Scroll.SetValue` subtracts the offset that reading adds.
- *Scrolled rows* (`misled` in `PathTree`): the released node of an element
  that left the row goes on telling under the row's path.
- *A path that met nil* hears nothing until its row is set again.
- *One input bound twice to a field* (`wedged` in `Inputs`): the change handler
  sets the input it holds locked, and waits for itself.
- *Rebinding* drops typed text that has not been read.
- *A button whose element was never found* (`dead` in `ClickActions`): releasing
  it ends the page's program.
- *`Release` that meets a `BindAction`* (`overlapped`): the button stays.

Why the bounds are enough. *fence*: a wrong order needs two sets of one key, a
sleeper that is woken too early or not at all needs a second set and a second
action. *two_copies*: a race needs a write of each side and another of either
to settle or unsettle the key afterwards; a suppressed change of another key
needs the second key. *demux_browser*: a hole in a stream needs a second
message after the lost one, a held-up endpoint needs a message on the other.
*form_wait*: a stale name needs two bindings of it, a stolen signal two names
and two calls. *form_views*: calls out of order need two changes; the second
callback may have any other role; errors change between values with and without.
*session*: what outlives a connection needs a second one; the delay reaches its
cap after five failed dials. *scroll*: one position above or below the window,
an array with room and one without, and enough elements to fill the slice with
one to spare. *path_tree*: a row that changes while another stays, a position
outside the window, an element to spare. *inputs*: the documents bind inputs to
different fields, to one, one input twice, and none. *click_actions*: one
action bound again while the other is bound, an element that is there in
neither, either or both documents.

Deadlock is not checked where a finished run has nothing left to do, or where
the page may stop acting; each `.cfg` says so. In `scroll`, `path_tree` and
`form_views` it is.

Fairness. Liveness properties assume that goroutines that can run do, that an
open connection delivers, that handlers of the application return, that dials
end and that timers fire; each module says so at `Fairness`. `Inputs` assumes
that the goroutine of an input goes on when it can and that its second passes.
Nothing makes the page, the user or the application act, and nothing makes a
connection fail, except that a cancelled context ends it. `LossIsSeen` excludes
one case, `Stuck`: an `rpc.Client` that gave up does not close its endpoint, and
a message for it holds the goroutine up.

## 4. The proofs

The theorems hold for every value of the constants that the `ASSUME` of the
module allows: any number of sets, actions, keys, names, subscribers, messages,
elements, and of rounds wherever a run only bounds them. Each proof module has
the inductive invariant first (`IInv`, a conjunction of named parts), one lemma
for the initial states (`Initially`), one for a step (`Step`, by the actions of
`Next` and under each by the parts it can disturb), and `Invariance`; the
theorems follow from it. In the modules about two components the second's are
named for it (`InputsInv`, `ScrollInv`, `ScrollStep`). TLC checked every
inductive invariant on the run of its component before it was proved. The runs
check the properties as they stand.

Ten components are proved about: every invariant a run checks is a theorem, and
so are the action property and the two refinements. The type invariants are
`TypeCorrect`, `ButtonTypes`, `InputTypes`, `BindingTypes`, `WaitTypes`,
`SessionTypes`, `DemuxTypes`, `ViewTypes`, `ScrollTypes` and `PathTypes`; the rest:

| Module | Theorem | States | Assumed of the constants |
|---|---|---|---|
| `PendingSets` | `CounterIsExact` | `CounterExact` | each set has a key; a set is no action |
| | `NoWakeupIsLost` | `NoLostWakeup` | |
| | `ActionsSeeEarlierSets` | `ActionSeesEarlierSets` | |
| | `ActionsSeeNewest` | `ActionSeesNewest` | |
| | `QuietServerHasAgreed` | `QuietServerAgrees` | |
| | `FenceIsImplemented` | `ImplementsFence`, the refinement | |
| `ClickActions` | `EveryClickIsHeard` | `ClicksAreHeard` | there is a document |
| | `ServerAndPageAgree` | `ButtonsAgree` | |
| `Inputs` | `InputsAreCurrent` | `InputsShowFields` | a document binds each property of an input once; zero is a value |
| `ValueBinding` | `NothingEchoes` | `NoEcho` | - |
| | `CopiesConverge` | `ConvergesUnlessRaced` | |
| `FormWait` | `NamesFollowBindings` | `NameIsLatest` | each binding has a name |
| | `NoAdditionIsLost` | `OnlyCallFinds`, the safety half of `WaitsEnd` | |
| `Session` | `SubscribersKnowState` | `HeardIsState` | - |
| | `WaitsDouble` | `BackoffFollowsFailures` | |
| | `OpenServes` | `OpenAcceptsActions`, an action property | |
| | `ClosingIsFinal` | the safety half of `CloseEnds` | |
| `Demux` | `StreamsAreImplemented` | `ImplementsStreams`, the refinement | `Side = "browser"`, in the theorems |
| | `PageReadsStreams` | `StreamOrder`, what it means for the messages read | |
| | `TeardownIsUnhindered` | the safety half of `LossIsSeen` and of `TeardownEnds` | |
| `FormViews` | `StoresAreHeard` | `StoreIsHeard` | a value has its errors; a model may be valid |
| | `FormsAreHeard` | `FormIsHeard` | |
| `Scroll`, `SliceModel` | `ReplicaFollows` | `ReplicaAgrees` | window and slice have room for an element, the array for the slice; nil is no element, a zero element no item |
| | `SourcesAreCurrent` | `SourcesCurrent` | |
| | `WindowIsCurrent` | `WindowIsShown` | |
| `PathTree` | `TreesFollow` | `TreeFollowsSource` | the window is in the list, the bound row in the window |
| | `PathsAreShown` | `PathsShowFields` | |

Bounds on counters (`MaxSets`, `MaxConns`, `MaxSent` and the like) are any
natural number in the theorems.

### PendingSets

None of the properties is inductive. An action that is about to be sent may be
sent because its earlier sets have returned (`ReadyReturned`), which `CheckIdle`
knows because the counter is zero, which means something because the counter
is exact (`CounterExact`) and every set that was made has a goroutine
(`SetsMade`). That its earlier sets have then been *handled* holds because a
call on an open connection returns only with an answer (`ReturnedRan`); on a
failed one the action is never sent, and what is on the wire already satisfied
`SentRan`. `SleeperCounted` and the broadcast at zero give `NoLostWakeup`.
`SentSets`, `SentActions` and `HandledOnce` keep a request from being handled
before it is sent, or twice, which the refinement needs. `IInv` is the
conjunction; `Initially`, `SetSteps`, `ActionSteps` and `ConnectionSteps` are
the induction, and `FenceStep` maps every step to a step of `ActionFence` or to
a stutter.

The two theorems about values need `NewestInv` on top of it: the sets of a key
that never had two in flight are made one after the other's return
(`MadeInTurn`), so one is sent only when those before it have been handled
(`RanInTurn`), and what the server stored last is the newest it handled
(`ValueNewest`). Late requests of a failed connection do not disturb this: a
newer one can be on the wire only if it was sent before the failure, and the
older one had its answer by then.

### ClickActions

A click is lost if its action has no entry when the server looks for it, and
`actions` does lack the entry while `BindAction` binds the button again. The
proof is that this happens under the lock only: `Clicked` says that a click on
its way has an entry, or a `BindAction` at work on its name, or a failed
connection. `Handles` orders the handles, so that the target a click finds is
no older than its button. `Matched` relates the page's bindings to `actions`
at every step of `BindAction`, whose half-made binding (`IsMade`) is the one
exception; `Releases` does it while `Release` goes through what is left, and is
where `overlapped` is needed: a `BindAction` that `Release` met leaves a
binding no entry names. `ButtonsAgree` is about quiet states; `Agreement`
derives it from the parts, which hold in all.

### Inputs

What stands between an input and its field is text that was typed and not read.
`TypedIsBound` says that such text is in an input some binding reads, so that
the change handler, which does nothing for an input without one, clears it.
`FieldIsShown` is the lemma for whatever sets a field, a push or another input:
each input a binding of the field names shows it afterwards, and no other input
changes. It rests on `BoundOnce`: an input has one binding of its value, so
no two fields are shown in it. `ChangeIsShown` applies it to the change
handler, whose own binding is one of the field's. The case where the handler
waits for the lock it holds (`wedged`) is excluded by the property, and stays
excluded, as nothing goes on then. The liveness property `TypedIsRead` has its
safety half here: with text to read there is an element in the channel.

### ValueBinding

`NoEcho` needs `Counted`: `updating` is the number of changes being applied on
its side, so it is above zero whenever an observer is notified of a change
that came from the other side. `CopiesConverge` is the larger one. For a key that is
not `raced`, the changes on their way are all of one side (`OneSided`) and are
what that side has (`Newest`), and as long as the copies differ something is on
its way that will make them agree (`WillAgree`), through every stage of
`BindValues`: the write is in the snapshot that the page has yet to receive,
or it will be told. `InSnapshot` is the case in between, a write that is both in
the snapshot and still to be told. When nothing is on its way only the
disjunct "they agree" is left.

### FormWait

`NameIsLatest` speaks of the bindings made, in order. `Shapes` and `MadeOnce`
say that the order is one of distinct bindings, `HasLatest` that those of a name
have a last one (what `CHOOSE` picks in `Top`). `OnlyCallFinds` needs that the
queue of `formAdded` holds each blocked call once (`QueuedOnce`): a signal wakes
the head, and if the call is the only one, it is the head.

### Session

`Hearing` follows the frames of `setState`: while one calls its subscribers,
those that are left are exactly the ones that have yet to hear the present
state. It holds until a subscriber calls `close` from inside (`nested`);
`Nesting` says that nothing else nests. `Backoff` relates the delay to the
failures at every place of `run`, not only in the wait: a redial has the delay
of the failure it may end in already, and a connection resets both.
`Connections` gives `OpenServes`: an open session has a server, which `run` sets
before it tells anybody "open" and gives up as it leaves that state.

`ClosingIsFinal` says what can be said of `CloseEnds` without fairness: from the
moment the session is closed, by `close` or by a first connection that fails,
its state is "closed" and its context cancelled, and neither before. The frame
that tells of it is on the stack until it is told (`CloseIsTold`), also on top
of that of the subscriber that called `close`. And `run` gives up on no session
that was not closed.

### Demux

`DemuxTypes` is proved for both ends, `PageReadsStreams` for the page. There
(`Paused`) the goroutine reads nothing before both endpoints have readers, as
the page is one thread. After that `Streaming` says of every open endpoint
that the next message of its stream is in the goroutine's hand or the first of
its own on the wire, without a hole (`Chained`), in order (`Rising`); a closed
one has lost what came after and reads no more. At the server
the goroutine may run first, and pass over messages for an endpoint that is not
attached yet; the theorem is false there, and no run claims it.

`PromiseStep` maps the steps to `MessageStreams`. What `Streaming` says of the
message in hand makes `Input` the step that takes the next message of its
stream, and one that was sent. That no reader returns without cause is
`Causes`: a pipe is closed only once the connection has gone or the reader of
the page's own service has returned. `TornDown` follows the steps of the
teardown: both pipes and the websocket are closed before `Demux.Close` waits, so
the goroutine can always let go of the message in its hand.

### FormViews

Who has not read the model will be called: that is the invariant, for each kind
of callback (`StoreKnows`, `SubscribersRead`, `ObserversRead`, `StartersRead`),
where "will be called" is membership in `calls` of some change being told.
`WatchCallsFirst` says that a store's own observer is called before the
store's subscribers, so that `changed` has marked the snapshot stale and
replaced the errors when they ask. When no change is being told, nobody will be
called, so everybody has read it.

### Scroll and SliceModel

Everything rests on what an operation does to the array, stated once for each
(`AssignProperties`, `InsertionProperties`, `RemovalProperties`,
`LookProperties`) and once for the sequence operators of the replica
(`WasSetAtProperties`, `InsertedAtProperties`, `RemovedAtProperties`): which
element is at which position afterwards. `SetKeeps`, `InsertKeeps` and
`RemoveKeeps` compare the two, for the replica and for the rows of the window.

`SourcesCurrent` is not inductive: a slot cached in the array becomes one in an
old array when the array is replaced, and it has to have lain in the slice
then. `SlotsAreThere` says so, but for the positions whose caches the code
leaves behind. The theorems hold for windows larger than the slice too.

### PathTree

Both properties need that no element is in the list twice (`Distinct`). An
element that is replaced has its source released, and another row with it would
no longer be heard; the keeper of the copy is not told of its own change, and
would not know that it changed another row. The binding's observer must
have no node beside its row's, nor one after `Release` (`BoundNodes`).
`TreesMove` is about the trees when elements change, `FieldsAreRetold`,
`FieldIsTold` and `PathIsSet` about what is told then.

### What stays with TLC

- All liveness properties: `EveryCallReturns`, `ComesToRest`, `LossIsSeen`,
  `TeardownEnds`, `CloseEnds`, `TypedIsRead`, and that a released browser ends
  every wait in `WaitsEnd`. They rest on fairness and `ENABLED`, which the
  prover does not handle. What they need of every state is proved for most:
  `NoWakeupIsLost`, `CopiesConverge`, `TeardownIsUnhindered`, `ClosingIsFinal`,
  `InputsAreCurrent` and `NoAdditionIsLost`.
- The two violations of section 3. Of the server's Demux only the types are
  proved.

## 5. Not modelled

- The bytes of messages, gob and JSON encodings: values are numbers or names.
- Maps, arrays and `Text` values in a `Model`, and its search for keys in nested
  structs: reflection that keeps no state beside the caches `SliceModel` has.
  `ValueBinding` takes keys as scalars.
- A data race of two goroutines on one value of a model: a write of a key is
  one step. (`Model` has no lock; on values larger than a word the race could
  tear them.) `Release` and `BindAction` racing on a map may end the server;
  in `ClickActions` that is a server that takes no further step.
- An operation that panics: removal from an empty slice, a value of interface
  type that is nil (`Model.Value` loops on it).
- What a second `BindValues` of one name does to the first, and `AddData`.
- Validation, transforms other than `isZero`, JSON paths, `NewError`, the glue:
  functions of their arguments over strings and reflection.
- Page start-up and the choice of a compressed file, each one request after
  another without state; the test runner, the test helper and the samples.
- The DOM and the browser's JavaScript.

## 6. Plan

Done: all modules of section 2, and the theorems of section 4.

Worth adding next: a second `BindValues` of one name and `Unbind` in
`ValueBinding`; maps in the model; and what a server that attaches its endpoints
late still promises their readers, as a weaker `MessageStreams`.
