---------------------------- MODULE Elements_proofs ----------------------------
(***************************************************************************)
(* Proofs about the elements of a page: its buttons (ClickActions), for any *)
(* number of actions, clicks, BindActions and documents, and its inputs     *)
(* (Inputs), for any number of inputs, fields and values and any documents. *)
(***************************************************************************)
EXTENDS ClickActions, Inputs, TLAPS

-----------------------------------------------------------------------------
(* Buttons: the inductive invariant *)

\* The handle of the BindAction in progress is the newest; the actions that are
\* bound have older ones, and so has the page until it has made the new binding.
Handles ==
    /\ binding.at # "idle" => binding.handle = binds
    /\ \A n \in Names :
        /\ actions[n] <= target[n]
        /\ binding.at # "idle" => actions[n] < binds
    /\ binding.at \in {"unbinding", "making"} => \A b \in bindings : b.handle < binds

\* The page has made this binding, and BindAction has yet to hear of it.
IsMade(b) == binding.at = "made" /\ b.name = binding.name /\ b.handle = binding.handle

IsBound(n) == \E b \in bindings : b.name = n /\ b.handle = actions[n]

\* Until Release, while the page answers, its bindings are those of the actions and
\* the one being made.
Matched ==
    PageAnswers /\ release = "no" =>
        /\ \A n \in Names : actions[n] # 0 => IsBound(n)
        /\ \A b \in bindings : b.handle = actions[b.name] \/ IsMade(b)
        /\ binding.at = "made" => \E b \in bindings : IsMade(b)
        /\ binding.at \in {"making", "made"} => actions[binding.name] = 0

\* Release: it met no BindAction, or "overlapped" says so; what it has left is what
\* the page has.
Releases ==
    /\ acting = (release = "no")
    /\ release = "no" => ~overlapped
    /\ release # "unbinding" => left = {}
    /\ release # "no" /\ ~overlapped => binding.at = "idle"
    /\ release = "unbinding" /\ ~overlapped /\ PageAnswers =>
            /\ \A n \in left : IsBound(n)
            /\ \A b \in bindings : b.name \in left /\ b.handle = actions[b.name]

\* A click that is on its way will find its action, or BindAction at work on it, and
\* then a target as new as the button that was clicked.
Clicked ==
    \A c \in Clicks :
        /\ click[c].at # "idle" => click[c].name \in Names
        /\ click[c].at = "sent" /\ acting /\ conn =>
                actions[click[c].name] # 0 \/ (binding.at # "idle" /\ binding.name = click[c].name)
        /\ click[c].at = "sent" /\ acting =>
                \/ click[c].since <= target[click[c].name]
                \/ binding.at = "made" /\ binding.name = click[c].name /\ click[c].since <= binding.handle
                \/ ~conn /\ actions[click[c].name] = 0
        /\ click[c].at = "found" => click[c].since <= target[click[c].name]

\* The parts of ButtonsAgree that are about the page alone.
OnePerName == \A b, d \in bindings : b.name = d.name /\ ~overlapped => b = d
Listening == ~rendered => \A b \in bindings : b.on = elements[b.name]
NothingLeft == PageAnswers /\ release = "done" /\ ~overlapped => bindings = {}

IInv ==
    /\ TypeOK
    /\ Handles
    /\ Matched
    /\ Releases
    /\ Clicked
    /\ OnePerName
    /\ Listening
    /\ NothingLeft
    /\ ClicksAreHeard

-----------------------------------------------------------------------------
(* Buttons: every step preserves it *)

\* The initial states satisfy the invariant.
LEMMA Initially == Init => IInv
<1> SUFFICES ASSUME Init PROVE IInv
  OBVIOUS
<1> USE ClickAssumption DEF Init, NoBind, Unclicked
<1>1. TypeOK
  <2>1. elements \in [Names -> 0..renders] /\ renders \in 1..MaxRenders
    OBVIOUS
  <2>2. click \in [Clicks -> [at : {"idle", "sent", "found", "ran", "lost"}, name : Names \cup {"none"},
                            since : 0..binds, ran : 0..binds]]
    OBVIOUS
  <2>3. binding \in [at : {"idle", "unbinding", "making", "made"}, name : Names \cup {"none"},
                    handle : 0..MaxBinds]
    OBVIOUS
  <2>4. actions \in [Names -> 0..binds] /\ target \in [Names -> 0..binds] /\ binds \in 0..MaxBinds
    OBVIOUS
  <2> QED
    BY <2>1, <2>2, <2>3, <2>4 DEF TypeOK
<1>2. Handles /\ OnePerName /\ Listening /\ NothingLeft
  BY DEF Handles, OnePerName, Listening, NothingLeft
<1>3. Matched /\ Releases
  BY DEF Matched, Releases
<1>4. Clicked /\ ClicksAreHeard
  BY DEF Clicked, ClicksAreHeard
<1> QED
  BY <1>1, <1>2, <1>3, <1>4 DEF IInv

\* Every step of the system preserves the invariant.
LEMMA Step ==
  ASSUME IInv, [Next]_vars
  PROVE  IInv'
<1> USE ClickAssumption DEF IInv, TypeOK, server, page, vars
<1>1. ASSUME NEW n \in Names, BindAction(n) PROVE IInv'
  <2> USE <1>1 DEF BindAction
  <2>1. TypeOK' /\ Handles' /\ Listening'
    BY DEF Handles, Listening, NoBind, Releases, Clicked, Matched
  <2>2. Matched' /\ Releases' /\ OnePerName' /\ NothingLeft'
    BY DEF Matched, Releases, OnePerName, NothingLeft, Handles, IsMade, IsBound, PageAnswers, Free
  <2>3. Clicked' /\ ClicksAreHeard'
    BY DEF Clicked, ClicksAreHeard, Handles, Matched, Releases, IsMade, IsBound, PageAnswers, Free
  <2> QED
    BY <2>1, <2>2, <2>3
<1>2. CASE BindUnbinds
  <2> USE <1>2 DEF BindUnbinds, Unbind
  <2>1. TypeOK' /\ Handles' /\ Listening'
    BY DEF Handles, Listening, NoBind, Releases, Clicked, Matched
  <2>2. Matched' /\ Releases' /\ OnePerName' /\ NothingLeft'
    BY DEF Matched, Releases, OnePerName, NothingLeft, Handles, IsMade, IsBound, PageAnswers, Free
  <2>3. Clicked' /\ ClicksAreHeard'
    BY DEF Clicked, ClicksAreHeard, Handles, Matched, Releases, IsMade, IsBound, PageAnswers, Free
  <2> QED
    BY <2>1, <2>2, <2>3
<1>3. CASE BindMakes
  <2> USE <1>3 DEF BindMakes
  <2> DEFINE new == NewClickBinding(binding.handle, binding.name)
  <2>1. new \in [handle : 1..binds, name : Names, found : BOOLEAN, on : 0..renders]
        /\ new.handle = binding.handle /\ new.name = binding.name /\ new.on = elements[binding.name]
    BY DEF NewClickBinding, ClickBinding, Handles
  <2>2. bindings' = bindings \cup {new} /\ \A b \in bindings : b.handle < binding.handle
    BY DEF Handles
  <2> HIDE DEF new
  <2>3. TypeOK' /\ Handles' /\ Listening'
    BY <2>1, <2>2 DEF Handles, Listening
  <2>4. Matched'
    BY <2>1, <2>2 DEF Matched, Handles, IsMade, IsBound, PageAnswers
  <2>5. Releases' /\ OnePerName' /\ NothingLeft'
    BY <2>1, <2>2 DEF Releases, OnePerName, NothingLeft, Matched, Handles, IsMade, PageAnswers
  <2>6. Clicked' /\ ClicksAreHeard'
    BY DEF Clicked, ClicksAreHeard
  <2> QED
    BY <2>3, <2>4, <2>5, <2>6
<1>4. CASE BindReturns
  <2> USE <1>4 DEF BindReturns
  <2>1. TypeOK' /\ Handles' /\ Listening'
    BY DEF Handles, Listening, NoBind
  <2>2. Matched'
    <3> SUFFICES ASSUME PageAnswers, release = "no" PROVE Matched'
      BY DEF Matched, PageAnswers
    <3>1. \A n \in Names : actions'[n] # 0 => IsBound(n)'
      BY DEF Matched, IsBound, IsMade
    <3>2. \A b \in bindings : b.handle = actions'[b.name]
      BY DEF Matched, IsMade, Handles
    <3> QED
      BY <3>1, <3>2 DEF Matched, IsMade, NoBind
  <2>3. Releases' /\ OnePerName' /\ NothingLeft'
    BY DEF Releases, OnePerName, NothingLeft, NoBind, PageAnswers
  <2>4. Clicked' /\ ClicksAreHeard'
    BY DEF Clicked, ClicksAreHeard, Handles, NoBind
  <2> QED
    BY <2>1, <2>2, <2>3, <2>4
<1>5. CASE BindFails
  <2> USE <1>5 DEF BindFails
  <2>1. TypeOK' /\ Handles' /\ Listening'
    BY DEF Handles, Listening, NoBind, Releases, Clicked, Matched
  <2>2. Matched' /\ Releases' /\ OnePerName' /\ NothingLeft'
    BY DEF Matched, Releases, OnePerName, NothingLeft, Handles, IsMade, IsBound, PageAnswers, Free
  <2>3. Clicked' /\ ClicksAreHeard'
    BY DEF Clicked, ClicksAreHeard, Handles, Matched, Releases, IsMade, IsBound, PageAnswers, Free
  <2> QED
    BY <2>1, <2>2, <2>3
<1>6. CASE Release
  <2> USE <1>6 DEF Release
  <2>1. TypeOK' /\ Handles' /\ Listening'
    BY DEF Handles, Listening
  <2>2. Matched' /\ NothingLeft'
    BY DEF Matched, NothingLeft
  <2>3. OnePerName'
    BY DEF OnePerName, Releases
  <2>4. Releases'
    <3>1. CASE binding.at = "idle"
      <4>1. PageAnswers => /\ \A m \in left' : IsBound(m)
                           /\ \A b \in bindings : b.name \in left' /\ b.handle = actions[b.name]
        BY <3>1 DEF Matched, IsBound, IsMade
      <4> QED
        BY <3>1, <4>1 DEF Releases, IsBound, PageAnswers
    <3>2. CASE binding.at # "idle"
      BY <3>2 DEF Releases
    <3> QED
      BY <3>1, <3>2
  <2>5. Clicked' /\ ClicksAreHeard'
    BY DEF Clicked, ClicksAreHeard
  <2> QED
    BY <2>1, <2>2, <2>3, <2>4, <2>5
<1>7. ASSUME NEW n \in Names, ReleaseUnbinds(n) PROVE IInv'
  <2> USE <1>7 DEF ReleaseUnbinds, Unbind
  <2>1. TypeOK' /\ Handles' /\ Listening'
    BY DEF Handles, Listening
  <2>2. release = "unbinding"
    BY DEF Releases
  <2>3. Matched' /\ NothingLeft' /\ OnePerName'
    BY <2>2 DEF Matched, NothingLeft, OnePerName
  <2>4. Releases'
    <3>1. CASE ~overlapped /\ PageAnswers
      <4>1. \A b \in bindings' : b \in bindings /\ b.handle # actions[n]
        BY <3>1 DEF PageAnswers
      <4>2. \A m \in left' : IsBound(m)'
        BY <2>2, <3>1 DEF Releases, IsBound, PageAnswers
      <4> QED
        BY <2>2, <3>1, <4>1, <4>2 DEF Releases
    <3>2. CASE overlapped \/ ~PageAnswers
      BY <2>2, <3>2 DEF Releases, PageAnswers
    <3> QED
      BY <3>1, <3>2
  <2>5. Clicked' /\ ClicksAreHeard'
    BY DEF Clicked, ClicksAreHeard
  <2> QED
    BY <2>1, <2>3, <2>4, <2>5
<1>8. CASE ReleaseEnds
  <2> USE <1>8 DEF ReleaseEnds
  <2>1. TypeOK' /\ Handles' /\ Listening'
    BY DEF Handles, Listening, NoBind, Releases, Clicked, Matched
  <2>2. Matched' /\ Releases' /\ OnePerName' /\ NothingLeft'
    BY DEF Matched, Releases, OnePerName, NothingLeft, Handles, IsMade, IsBound, PageAnswers, Free
  <2>3. Clicked' /\ ClicksAreHeard'
    BY DEF Clicked, ClicksAreHeard, Handles, Matched, Releases, IsMade, IsBound, PageAnswers, Free
  <2> QED
    BY <2>1, <2>2, <2>3
<1>9. CASE Render
  <2> USE <1>9 DEF Render
  <2>1. TypeOK' /\ Handles' /\ Listening'
    BY DEF Handles, Listening, NoBind, Releases, Clicked, Matched
  <2>2. Matched' /\ Releases' /\ OnePerName' /\ NothingLeft'
    BY DEF Matched, Releases, OnePerName, NothingLeft, Handles, IsMade, IsBound, PageAnswers, Free
  <2>3. Clicked' /\ ClicksAreHeard'
    BY DEF Clicked, ClicksAreHeard, Handles, Matched, Releases, IsMade, IsBound, PageAnswers, Free
  <2> QED
    BY <2>1, <2>2, <2>3
<1>10. CASE Rebind
  <2> USE <1>10 DEF Rebind
  <2>1. \A b \in bindings :
            /\ ClickRebind(b) \in [handle : 1..binds, name : Names, found : BOOLEAN, on : 0..renders]
            /\ ClickRebind(b).handle = b.handle /\ ClickRebind(b).name = b.name
            /\ ClickRebind(b).on = elements[b.name]
    BY DEF ClickRebind, ClickBinding
  <2>2. bindings' = {ClickRebind(b) : b \in bindings}
    BY DEF Rebind
  <2>3. \A d \in bindings' : \E b \in bindings :
            /\ d = ClickRebind(b) /\ d.handle = b.handle /\ d.name = b.name
            /\ d.on = elements[b.name]
    BY <2>1, <2>2
  <2>4. \A b \in bindings : \E d \in bindings' : d.handle = b.handle /\ d.name = b.name
    BY <2>1, <2>2
  <2>5. TypeOK'
    <3>1. bindings' \subseteq [handle : 1..binds, name : Names, found : BOOLEAN, on : 0..renders]
      BY <2>1, <2>2
    <3>2. \A d, e \in bindings' : d.handle = e.handle => d = e
      BY <2>3
    <3> QED
      BY <3>1, <3>2
  <2>6. Handles' /\ Listening'
    BY <2>3 DEF Handles, Listening
  <2>7. Matched'
    BY <2>3, <2>4 DEF Matched, IsMade, IsBound, PageAnswers
  <2>8. Releases'
    BY <2>3, <2>4 DEF Releases, IsBound, PageAnswers
  <2>9. OnePerName'
    BY <2>3 DEF OnePerName
  <2>10. NothingLeft' /\ Clicked' /\ ClicksAreHeard'
    BY <2>3 DEF NothingLeft, PageAnswers, Clicked, ClicksAreHeard
  <2> QED
    BY <2>5, <2>6, <2>7, <2>8, <2>9, <2>10
<1>11. ASSUME NEW c \in Clicks, NEW b \in bindings, Click(c, b) PROVE IInv'
  <2> USE <1>11 DEF Click
  <2>1. TypeOK' /\ Handles' /\ Listening'
    BY DEF Handles, Listening, NoBind, Releases, Clicked, Matched
  <2>2. Matched' /\ Releases' /\ OnePerName' /\ NothingLeft'
    BY DEF Matched, Releases, OnePerName, NothingLeft, Handles, IsMade, IsBound, PageAnswers, Free
  <2>3. Clicked' /\ ClicksAreHeard'
    BY DEF Clicked, ClicksAreHeard, Handles, Matched, Releases, IsMade, IsBound, PageAnswers, Free
  <2> QED
    BY <2>1, <2>2, <2>3
<1>12. CASE PageReleases
  <2> USE <1>12 DEF PageReleases
  <2>1. TypeOK' /\ Handles' /\ Listening'
    BY DEF Handles, Listening, NoBind, Releases, Clicked, Matched
  <2>2. Matched' /\ Releases' /\ OnePerName' /\ NothingLeft'
    BY DEF Matched, Releases, OnePerName, NothingLeft, Handles, IsMade, IsBound, PageAnswers, Free
  <2>3. Clicked' /\ ClicksAreHeard'
    BY DEF Clicked, ClicksAreHeard, Handles, Matched, Releases, IsMade, IsBound, PageAnswers, Free
  <2> QED
    BY <2>1, <2>2, <2>3
<1>13. CASE Break
  <2> USE <1>13 DEF Break
  <2>1. TypeOK' /\ Handles' /\ Listening'
    BY DEF Handles, Listening, NoBind, Releases, Clicked, Matched
  <2>2. Matched' /\ Releases' /\ OnePerName' /\ NothingLeft'
    BY DEF Matched, Releases, OnePerName, NothingLeft, Handles, IsMade, IsBound, PageAnswers, Free
  <2>3. Clicked' /\ ClicksAreHeard'
    BY DEF Clicked, ClicksAreHeard, Handles, Matched, Releases, IsMade, IsBound, PageAnswers, Free
  <2> QED
    BY <2>1, <2>2, <2>3
<1>14. ASSUME NEW c \in Clicks, Find(c) PROVE IInv'
  <2> USE <1>14 DEF Find
  <2>1. TypeOK' /\ Handles' /\ Listening'
    BY DEF Handles, Listening, NoBind, Releases, Clicked, Matched
  <2>2. Matched' /\ Releases' /\ OnePerName' /\ NothingLeft'
    BY DEF Matched, Releases, OnePerName, NothingLeft, Handles, IsMade, IsBound, PageAnswers, Free
  <2>3. Clicked' /\ ClicksAreHeard'
    BY DEF Clicked, ClicksAreHeard, Handles, Matched, Releases, IsMade, IsBound, PageAnswers, Free
  <2> QED
    BY <2>1, <2>2, <2>3
<1>15. ASSUME NEW c \in Clicks, Run(c) PROVE IInv'
  <2> USE <1>15 DEF Run
  <2>1. click[c].name \in Names /\ target[click[c].name] \in 0..binds
    BY DEF Clicked
  <2>2. TypeOK'
    <3>1. click[c] \in [at : {"idle", "sent", "found", "ran", "lost"}, name : Names \cup {"none"},
                        since : 0..binds, ran : 0..binds]
      OBVIOUS
    <3>2. [click[c] EXCEPT !.at = "ran", !.ran = target[click[c].name]] \in
            [at : {"idle", "sent", "found", "ran", "lost"}, name : Names \cup {"none"},
             since : 0..binds, ran : 0..binds]
      BY <2>1, <3>1
    <3>3. click' = [click EXCEPT ![c] = [click[c] EXCEPT !.at = "ran", !.ran = target[click[c].name]]]
      OBVIOUS
    <3> QED
      BY <3>2, <3>3
  <2>3. Handles' /\ Listening' /\ Matched' /\ Releases' /\ OnePerName' /\ NothingLeft'
    BY DEF Handles, Listening, Matched, Releases, OnePerName, NothingLeft, IsMade, IsBound, PageAnswers
  <2>4. Clicked' /\ ClicksAreHeard'
    BY <2>1 DEF Clicked, ClicksAreHeard
  <2> QED
    BY <2>2, <2>3, <2>4
<1>16. ASSUME NEW c \in Clicks, Lose(c) PROVE IInv'
  <2> USE <1>16 DEF Lose
  <2>1. TypeOK' /\ Handles' /\ Listening'
    BY DEF Handles, Listening, NoBind, Releases, Clicked, Matched
  <2>2. Matched' /\ Releases' /\ OnePerName' /\ NothingLeft'
    BY DEF Matched, Releases, OnePerName, NothingLeft, Handles, IsMade, IsBound, PageAnswers, Free
  <2>3. Clicked' /\ ClicksAreHeard'
    BY DEF Clicked, ClicksAreHeard, Handles, Matched, Releases, IsMade, IsBound, PageAnswers, Free
  <2> QED
    BY <2>1, <2>2, <2>3
<1>17. CASE UNCHANGED vars
  <2> USE <1>17
  <2>1. TypeOK' /\ Handles' /\ Listening'
    BY DEF Handles, Listening, NoBind, Releases, Clicked, Matched
  <2>2. Matched' /\ Releases' /\ OnePerName' /\ NothingLeft'
    BY DEF Matched, Releases, OnePerName, NothingLeft, Handles, IsMade, IsBound, PageAnswers, Free
  <2>3. Clicked' /\ ClicksAreHeard'
    BY DEF Clicked, ClicksAreHeard, Handles, Matched, Releases, IsMade, IsBound, PageAnswers, Free
  <2> QED
    BY <2>1, <2>2, <2>3
<1> QED
  BY <1>1, <1>2, <1>3, <1>4, <1>5, <1>6, <1>7, <1>8, <1>9, <1>10, <1>11, <1>12, <1>13, <1>14, <1>15, <1>16, <1>17
  DEF Next, Binding, Releasing

\* So every reachable state satisfies it.
LEMMA Invariance == Spec => []IInv
<1> QED
  BY Initially, Step, PTL DEF Spec

-----------------------------------------------------------------------------
(* Buttons: results *)

\* Actions, handles, bindings, documents and clicks keep their types, and no two
\* bindings of the page have one handle, whatever the number of buttons.
THEOREM ButtonTypes == Spec => []TypeOK
<1> QED
  BY Invariance, PTL DEF IInv

\* No click is lost while the connection and the controller last, not even one made
\* before BindAction has the handle, and what runs is no older than what was clicked.
THEOREM EveryClickIsHeard == Spec => []ClicksAreHeard
<1> QED
  BY Invariance, PTL DEF IInv

\* Agreement is part of the invariant, put together.
LEMMA Agreement == IInv => ButtonsAgree
<1> SUFFICES ASSUME IInv PROVE ButtonsAgree
  OBVIOUS
<1>1. ASSUME PageAnswers, Free, release = "no"
      PROVE  {<<b.name, b.handle>> : b \in bindings} =
                {<<n, actions[n]>> : n \in {m \in Names : actions[m] # 0}}
  <2>1. \A b \in bindings : b.name \in Names /\ b.handle # 0 /\ b.handle = actions[b.name]
    BY <1>1 DEF IInv, TypeOK, Matched, IsMade, Free
  <2>2. \A n \in Names : actions[n] # 0 => IsBound(n)
    BY <1>1 DEF IInv, Matched
  <2> QED
    BY <2>1, <2>2 DEF IsBound
<1>2. OnePerName /\ Listening /\ NothingLeft
  BY DEF IInv
<1> QED
  BY <1>1, <1>2 DEF ButtonsAgree, OnePerName, Listening, NothingLeft

\* Server and page agree on the buttons whenever no call is on its way, a button has
\* one listener, on the element of the present document, and Release leaves none
\* at the page, unless it met a BindAction.
THEOREM ServerAndPageAgree == Spec => []ButtonsAgree
<1> QED
  BY Invariance, Agreement, PTL

-----------------------------------------------------------------------------
(* Inputs: the inductive invariant *)

\* Text that is to be read is in an input that a binding reads.
TypedIsBound == \A i \in InputIDs : typed[i] => Bound(i)

InputsInv ==
    /\ InputsTypeOK
    /\ TypedIsBound
    /\ InputsShowFields

\* A document binds each property of an input once.
LEMMA BoundOnce ==
  ASSUME InputsTypeOK
  PROVE  /\ valueBindings \subseteq InputBinding
         /\ \A p, q \in valueBindings : p.input = q.input /\ p.prop = q.prop => p = q
<1> QED
  BY InputsAssumption DEF InputsTypeOK

-----------------------------------------------------------------------------
(* Inputs: a field that is set is shown *)

\* When the bindings of a field set their inputs the others show what they did, and
\* what they set has been typed no more.
LEMMA FieldIsShown ==
  ASSUME InputsInv, ~wedged, UNCHANGED <<valueBindings, wedged>>,
         NEW f \in Fields, NEW v \in Values, NEW bs \in SUBSET valueBindings,
         \A b \in valueBindings : b.field = f => b \in bs,
         field' = [field EXCEPT ![f] = v], Show(f, v, bs)
  PROVE  /\ text' \in [InputIDs -> Values] /\ hidden' \in [InputIDs -> BOOLEAN]
         /\ typed' \in [InputIDs -> BOOLEAN] /\ field' \in [Fields -> Values]
         /\ TypedIsBound'
         /\ \A b \in valueBindings :
                /\ b.prop = "value" /\ ~typed'[b.input] => text'[b.input] = field'[b.field]
                /\ b.prop = "hidden" => hidden'[b.input] = (field'[b.field] = Zero)
         /\ \A i \in InputIDs : typed'[i] => typed[i]
         /\ \A b \in bs : b.field = f /\ b.prop = "value" => ~typed'[b.input]
<1> DEFINE shows(i, p) == \E b \in bs : b.field = f /\ b.input = i /\ b.prop = p
<1>1. /\ text' = [i \in InputIDs |-> IF shows(i, "value") THEN v ELSE text[i]]
      /\ typed' = [i \in InputIDs |-> typed[i] /\ ~shows(i, "value")]
      /\ hidden' = [i \in InputIDs |-> IF shows(i, "hidden") THEN v = Zero ELSE hidden[i]]
  BY DEF Show
<1>2. InputsTypeOK /\ TypedIsBound /\ InputsShowFields
  BY DEF InputsInv
<1>3. \A b \in valueBindings : b.input \in InputIDs /\ b.prop \in {"value", "hidden"} /\ b.field \in Fields
  BY <1>2, BoundOnce DEF InputBinding
<1>4. \A b \in valueBindings : shows(b.input, b.prop) <=> b.field = f
  BY <1>2, BoundOnce
<1> HIDE DEF shows
<1>5. field' \in [Fields -> Values] /\ text' \in [InputIDs -> Values] /\ typed' \in [InputIDs -> BOOLEAN]
  BY <1>1, <1>2 DEF InputsTypeOK
<1>6. hidden' \in [InputIDs -> BOOLEAN]
  BY <1>1, <1>2 DEF InputsTypeOK
<1>7. \A i \in InputIDs : typed'[i] => typed[i] /\ ~shows(i, "value")
  BY <1>1
<1>8. TypedIsBound'
  BY <1>2, <1>7 DEF TypedIsBound, Bound, ValueBinding
<1>9. ASSUME NEW b \in valueBindings, b.prop = "value", ~typed'[b.input]
      PROVE  text'[b.input] = field'[b.field]
  <2>1. CASE b.field = f
    BY <1>1, <1>2, <1>3, <1>4, <1>9, <2>1 DEF InputsTypeOK
  <2>2. CASE b.field # f
    <3>1. ~shows(b.input, "value") /\ b.input \in InputIDs /\ b.field \in Fields
      BY <1>3, <1>4, <1>9, <2>2
    <3>2. ~typed[b.input] /\ text'[b.input] = text[b.input]
      BY <1>1, <1>9, <3>1
    <3> QED
      BY <1>2, <1>9, <2>2, <3>1, <3>2 DEF InputsShowFields, InputsTypeOK
  <2> QED
    BY <2>1, <2>2
<1>10. ASSUME NEW b \in valueBindings, b.prop = "hidden"
       PROVE  hidden'[b.input] = (field'[b.field] = Zero)
  <2>1. CASE b.field = f
    <3>1. shows(b.input, "hidden") /\ b.input \in InputIDs
      BY <1>3, <1>4, <1>10, <2>1
    <3>2. hidden'[b.input] = (v = Zero) /\ field'[b.field] = v
      BY <1>1, <1>2, <2>1, <3>1 DEF InputsTypeOK
    <3> QED
      BY <3>2
  <2>2. CASE b.field # f
    <3>1. ~shows(b.input, "hidden") /\ b.input \in InputIDs /\ b.field \in Fields
      BY <1>3, <1>4, <1>10, <2>2
    <3>2. hidden'[b.input] = hidden[b.input] /\ field'[b.field] = field[b.field]
      BY <1>1, <1>2, <2>2, <3>1 DEF InputsTypeOK
    <3>3. hidden[b.input] = (field[b.field] = Zero)
      BY <1>2, <1>10 DEF InputsShowFields
    <3> QED
      BY <3>2, <3>3
  <2> QED
    BY <2>1, <2>2
<1>11. ASSUME NEW b \in bs, b.field = f, b.prop = "value" PROVE ~typed'[b.input]
  BY <1>3, <1>4, <1>7, <1>11
<1> QED
  BY <1>5, <1>6, <1>7, <1>8, <1>9, <1>10, <1>11

\* changeHandler leaves no text to read in its input, and shows the field it sets.
LEMMA ChangeIsShown ==
  ASSUME InputsInv, ~wedged, UNCHANGED valueBindings, NEW i \in InputIDs, ChangeHandler(i)
  PROVE  /\ text' \in [InputIDs -> Values] /\ hidden' \in [InputIDs -> BOOLEAN]
         /\ typed' \in [InputIDs -> BOOLEAN] /\ field' \in [Fields -> Values] /\ wedged' \in BOOLEAN
         /\ TypedIsBound'
         /\ ~wedged' =>
                /\ \A b \in valueBindings :
                    /\ b.prop = "value" /\ ~typed'[b.input] => text'[b.input] = field'[b.field]
                    /\ b.prop = "hidden" => hidden'[b.input] = (field'[b.field] = Zero)
                /\ \A j \in InputIDs : typed'[j] => typed[j] /\ j # i
<1>1. InputsTypeOK /\ TypedIsBound /\ InputsShowFields
  BY DEF InputsInv
<1>2. CASE ~Bound(i) /\ UNCHANGED <<field, text, hidden, typed, wedged>>
  <2>1. TypedIsBound'
    BY <1>1, <1>2 DEF TypedIsBound, Bound, ValueBinding
  <2>2. \A j \in InputIDs : typed'[j] => typed[j] /\ j # i
    BY <1>1, <1>2 DEF TypedIsBound
  <2> QED
    BY <1>1, <1>2, <2>1, <2>2 DEF InputsTypeOK, InputsShowFields
<1>3. ASSUME NEW b \in ValueBinding(i),
             field' = [field EXCEPT ![b.field] = text[i]],
             wedged' = TRUE, UNCHANGED <<text, hidden, typed>>
      PROVE  /\ text' \in [InputIDs -> Values] /\ hidden' \in [InputIDs -> BOOLEAN]
             /\ typed' \in [InputIDs -> BOOLEAN] /\ field' \in [Fields -> Values] /\ wedged' \in BOOLEAN
             /\ TypedIsBound'
  <2>1. TypedIsBound'
    BY <1>1, <1>3 DEF TypedIsBound, Bound, ValueBinding
  <2> QED
    BY <1>1, <1>3, <2>1 DEF InputsTypeOK
<1>4. ASSUME NEW b \in ValueBinding(i),
             field' = [field EXCEPT ![b.field] = text[i]],
             Show(b.field, text[i], {o \in valueBindings \ {b} : o.field = b.field} \cup {b}),
             UNCHANGED wedged
      PROVE  /\ text' \in [InputIDs -> Values] /\ hidden' \in [InputIDs -> BOOLEAN]
             /\ typed' \in [InputIDs -> BOOLEAN] /\ field' \in [Fields -> Values] /\ wedged' \in BOOLEAN
             /\ TypedIsBound'
             /\ \A c \in valueBindings :
                    /\ c.prop = "value" /\ ~typed'[c.input] => text'[c.input] = field'[c.field]
                    /\ c.prop = "hidden" => hidden'[c.input] = (field'[c.field] = Zero)
             /\ \A j \in InputIDs : typed'[j] => typed[j] /\ j # i
  <2> DEFINE bs == {o \in valueBindings \ {b} : o.field = b.field} \cup {b}
  <2>1. b \in valueBindings /\ b.prop = "value" /\ b.input = i /\ b.field \in Fields
    BY <1>1, BoundOnce DEF ValueBinding, InputBinding
  <2>2. bs \in SUBSET valueBindings /\ b \in bs /\ \A c \in valueBindings : c.field = b.field => c \in bs
    BY <2>1
  <2>3. text[i] \in Values
    BY <1>1 DEF InputsTypeOK
  <2>4. wedged' \in BOOLEAN
    BY <1>1, <1>4 DEF InputsTypeOK
  <2>5. Show(b.field, text[i], bs)
    BY <1>4
  <2> HIDE DEF bs
  <2> QED
    BY <1>4, <2>1, <2>2, <2>3, <2>4, <2>5, FieldIsShown
<1> QED
  BY <1>2, <1>3, <1>4 DEF ChangeHandler

-----------------------------------------------------------------------------
(* Inputs: every step preserves it *)

\* The first document's inputs are empty, as its fields are.
LEMMA InputsInitially == InputsInit => InputsInv
<1> SUFFICES ASSUME InputsInit PROVE InputsInv
  OBVIOUS
<1>1. valueBindings \in Layouts /\ valueBindings \subseteq InputBinding /\ Zero \in Values
  BY InputsAssumption DEF InputsInit
<1>2. hidden \in [InputIDs -> BOOLEAN]
  BY DEF InputsInit
<1>3. InputsTypeOK
  BY <1>1, <1>2 DEF InputsInit, InputsTypeOK
<1>4. ASSUME NEW b \in valueBindings
      PROVE  /\ text[b.input] = field[b.field] /\ ~typed[b.input]
             /\ b.prop = "hidden" => hidden[b.input] = (field[b.field] = Zero)
  <2>1. b.input \in InputIDs /\ b.field \in Fields
    BY <1>1 DEF InputBinding
  <2>2. text[b.input] = Zero /\ field[b.field] = Zero /\ ~typed[b.input]
    BY <2>1 DEF InputsInit
  <2>3. b.prop = "hidden" => hidden[b.input]
    BY <2>1 DEF InputsInit
  <2>4. hidden[b.input] \in BOOLEAN
    BY <1>2, <2>1
  <2> QED
    BY <2>2, <2>3, <2>4
<1>5. TypedIsBound
  BY DEF InputsInit, TypedIsBound
<1> QED
  BY <1>3, <1>4, <1>5 DEF InputsInv, InputsShowFields

\* Every step preserves the invariant.
LEMMA InputsStep ==
  ASSUME InputsInv, [InputsNext]_inputsVars
  PROVE  InputsInv'
<1>1. InputsTypeOK /\ TypedIsBound /\ InputsShowFields
  BY DEF InputsInv
<1>2. \A b \in valueBindings : b.input \in InputIDs /\ b.prop \in {"value", "hidden"} /\ b.field \in Fields
  BY <1>1, BoundOnce DEF InputBinding
<1>3. ASSUME NEW i \in InputIDs, NEW v \in Values, Type(i, v) PROVE InputsInv'
  <2>1. CASE Bound(i)
    <3>1. /\ text' = [text EXCEPT ![i] = v] /\ typed' = [typed EXCEPT ![i] = TRUE]
          /\ signal' = [signal EXCEPT ![i] = TRUE]
          /\ UNCHANGED <<valueBindings, field, hidden, loop, wedged>> /\ ~wedged
      BY <1>3, <2>1 DEF Type, Raised
    <3>2. InputsTypeOK'
      BY <1>1, <3>1 DEF InputsTypeOK
    <3>3. TypedIsBound'
      BY <1>1, <2>1, <3>1 DEF InputsTypeOK, TypedIsBound, Bound, ValueBinding
    <3>4. InputsShowFields'
      BY <1>1, <1>2, <3>1 DEF InputsTypeOK, InputsShowFields
    <3> QED
      BY <3>2, <3>3, <3>4 DEF InputsInv
  <2>2. CASE ~Bound(i)
    <3>1. /\ text' = [text EXCEPT ![i] = v]
          /\ UNCHANGED <<valueBindings, field, hidden, loop, wedged, typed, signal>>
      BY <1>3, <2>2 DEF Type
    <3>2. InputsTypeOK'
      BY <1>1, <3>1 DEF InputsTypeOK
    <3>3. TypedIsBound'
      BY <1>1, <3>1 DEF TypedIsBound, Bound, ValueBinding
    <3>4. \A b \in valueBindings : b.prop = "value" => b.input # i
      BY <2>2 DEF Bound, ValueBinding
    <3>5. InputsShowFields'
      BY <1>1, <1>2, <3>1, <3>4 DEF InputsTypeOK, InputsShowFields
    <3> QED
      BY <3>2, <3>3, <3>5 DEF InputsInv
  <2> QED
    BY <2>1, <2>2
<1>4. ASSUME NEW i \in InputIDs, Change(i) PROVE InputsInv'
  <2>1. ~wedged /\ ChangeHandler(i) /\ UNCHANGED <<valueBindings, signal, loop>>
    BY <1>4 DEF Change
  <2>2. InputsTypeOK' /\ TypedIsBound'
    BY <1>1, <2>1, ChangeIsShown DEF InputsTypeOK
  <2>3. InputsShowFields'
    <3>1. ~wedged' =>
            /\ \A b \in valueBindings :
                /\ b.prop = "value" /\ ~typed'[b.input] => text'[b.input] = field'[b.field]
                /\ b.prop = "hidden" => hidden'[b.input] = (field'[b.field] = Zero)
            /\ \A j \in InputIDs : typed'[j] => typed[j]
      BY <2>1, ChangeIsShown
    <3>2. ~wedged' => \A b \in valueBindings : typed'[b.input] => signal'[b.input]
      BY <1>1, <1>2, <2>1, <3>1 DEF InputsShowFields
    <3> QED
      BY <2>1, <3>1, <3>2 DEF InputsShowFields
  <2> QED
    BY <2>2, <2>3 DEF InputsInv
<1>5. ASSUME NEW i \in InputIDs, Throttled(i) PROVE InputsInv'
  <2>1. /\ ~wedged /\ ChangeHandler(i) /\ UNCHANGED valueBindings
        /\ signal' = [signal EXCEPT ![i] = FALSE] /\ loop' = [loop EXCEPT ![i] = "asleep"]
    BY <1>5 DEF Throttled
  <2>2. InputsTypeOK' /\ TypedIsBound'
    <3>1. signal' \in [InputIDs -> BOOLEAN] /\ loop' \in [InputIDs -> {"waiting", "asleep"}]
      BY <1>1, <2>1 DEF InputsTypeOK
    <3> QED
      BY <1>1, <2>1, <3>1, ChangeIsShown DEF InputsTypeOK
  <2>3. InputsShowFields'
    <3>1. ~wedged' =>
            /\ \A b \in valueBindings :
                /\ b.prop = "value" /\ ~typed'[b.input] => text'[b.input] = field'[b.field]
                /\ b.prop = "hidden" => hidden'[b.input] = (field'[b.field] = Zero)
            /\ \A j \in InputIDs : typed'[j] => typed[j] /\ j # i
      BY <2>1, ChangeIsShown
    <3>2. \A j \in InputIDs : j # i => signal'[j] = signal[j]
      BY <1>1, <2>1 DEF InputsTypeOK
    <3>3. ~wedged' => \A b \in valueBindings : typed'[b.input] => signal'[b.input]
      BY <1>1, <1>2, <2>1, <3>1, <3>2 DEF InputsShowFields
    <3> QED
      BY <2>1, <3>1, <3>3 DEF InputsShowFields
  <2> QED
    BY <2>2, <2>3 DEF InputsInv
<1>6. ASSUME NEW i \in InputIDs, Awake(i) PROVE InputsInv'
  <2>1. /\ loop' = [loop EXCEPT ![i] = "waiting"]
        /\ UNCHANGED <<valueBindings, field, text, hidden, signal, typed, wedged>>
    BY <1>6 DEF Awake
  <2>2. InputsTypeOK' /\ TypedIsBound' /\ InputsShowFields'
    BY <1>1, <2>1 DEF InputsTypeOK, TypedIsBound, Bound, ValueBinding, InputsShowFields
  <2> QED
    BY <2>2 DEF InputsInv
<1>7. ASSUME NEW f \in Fields, NEW v \in Values, Push(f, v) PROVE InputsInv'
  <2>1. /\ ~wedged /\ field' = [field EXCEPT ![f] = v] /\ Show(f, v, valueBindings)
        /\ UNCHANGED <<valueBindings, signal, loop, wedged>>
    BY <1>7 DEF Push
  <2>2. /\ text' \in [InputIDs -> Values] /\ hidden' \in [InputIDs -> BOOLEAN]
        /\ typed' \in [InputIDs -> BOOLEAN] /\ field' \in [Fields -> Values]
        /\ TypedIsBound'
        /\ \A b \in valueBindings :
               /\ b.prop = "value" /\ ~typed'[b.input] => text'[b.input] = field'[b.field]
               /\ b.prop = "hidden" => hidden'[b.input] = (field'[b.field] = Zero)
        /\ \A i \in InputIDs : typed'[i] => typed[i]
    BY <2>1, FieldIsShown
  <2>3. InputsTypeOK'
    BY <1>1, <2>1, <2>2 DEF InputsTypeOK
  <2>4. \A b \in valueBindings : typed'[b.input] => signal'[b.input]
    BY <1>1, <1>2, <2>1, <2>2 DEF InputsShowFields
  <2>5. InputsShowFields'
    BY <2>1, <2>2, <2>4 DEF InputsShowFields
  <2> QED
    BY <2>2, <2>3, <2>5 DEF InputsInv
<1>8. ASSUME NEW bs \in Layouts, RebindInputs(bs) PROVE InputsInv'
  <2> DEFINE of(i, p) == {b \in bs : b.input = i /\ b.prop = p}
             first(i, p) == CHOOSE b \in of(i, p) : TRUE
  <2>1. /\ ~wedged /\ valueBindings' = bs
        /\ text' = [i \in InputIDs |-> IF of(i, "value") = {} THEN text[i] ELSE field[first(i, "value").field]]
        /\ hidden' = [i \in InputIDs |->
                IF of(i, "hidden") = {} THEN hidden[i] ELSE field[first(i, "hidden").field] = Zero]
        /\ signal' = Quiet /\ typed' = Quiet /\ loop' = [i \in InputIDs |-> "waiting"]
        /\ UNCHANGED <<field, wedged>>
    BY <1>8 DEF RebindInputs
  <2>2. bs \subseteq InputBinding /\ \A p, q \in bs : p.input = q.input /\ p.prop = q.prop => p = q
    BY InputsAssumption
  <2>3. \A b \in bs : b.input \in InputIDs /\ b.field \in Fields
    BY <2>2 DEF InputBinding
  <2>4. \A i, p : of(i, p) # {} => first(i, p) \in bs
    OBVIOUS
  <2>5. ASSUME NEW b \in bs PROVE of(b.input, b.prop) # {} /\ first(b.input, b.prop) = b
    <3>1. b \in of(b.input, b.prop)
      OBVIOUS
    <3>2. first(b.input, b.prop) \in of(b.input, b.prop)
      BY <3>1
    <3> QED
      BY <2>2, <3>1, <3>2
  <2> HIDE DEF of, first
  <2>6. InputsTypeOK'
    <3>1. text' \in [InputIDs -> Values]
      BY <1>1, <2>1, <2>3, <2>4 DEF InputsTypeOK
    <3>2. hidden' \in [InputIDs -> BOOLEAN]
      BY <1>1, <2>1 DEF InputsTypeOK
    <3> QED
      BY <1>1, <2>1, <3>1, <3>2 DEF InputsTypeOK, Quiet
  <2>7. TypedIsBound'
    BY <2>1 DEF TypedIsBound, Quiet
  <2>8. ASSUME NEW b \in bs
        PROVE  /\ b.prop = "value" => text'[b.input] = field'[b.field]
               /\ b.prop = "hidden" => hidden'[b.input] = (field'[b.field] = Zero)
               /\ ~typed'[b.input]
    BY <2>1, <2>3, <2>5 DEF Quiet
  <2>9. InputsShowFields'
    BY <2>1, <2>8 DEF InputsShowFields
  <2> QED
    BY <2>6, <2>7, <2>9 DEF InputsInv
<1>9. CASE UNCHANGED inputsVars
  <2>1. InputsTypeOK' /\ TypedIsBound' /\ InputsShowFields'
    BY <1>1, <1>9 DEF inputsVars, InputsTypeOK, TypedIsBound, Bound, ValueBinding, InputsShowFields
  <2> QED
    BY <2>1 DEF InputsInv
<1> QED
  BY <1>3, <1>4, <1>5, <1>6, <1>7, <1>8, <1>9 DEF InputsNext

\* So every reachable state satisfies it.
LEMMA InputsInvariance == InputsSpec => []InputsInv
<1> QED
  BY InputsInitially, InputsStep, PTL DEF InputsSpec

-----------------------------------------------------------------------------
(* Inputs: results *)

\* Inputs, fields and bindings keep their types, whatever the documents bind.
THEOREM InputTypes == InputsSpec => []InputsTypeOK
<1> QED
  BY InputsInvariance, PTL DEF InputsInv

\* An input shows the field it is bound to unless it has text that nothing has read,
\* for which there is an element in the channel: typing, pushes, other inputs of the
\* field and new documents may come in any order.
THEOREM InputsAreCurrent == InputsSpec => []InputsShowFields
<1> QED
  BY InputsInvariance, PTL DEF InputsInv
=============================================================================
