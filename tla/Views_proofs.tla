----------------------------- MODULE Views_proofs -----------------------------
(***************************************************************************)
(* Proofs about what is shown of a model: to subscribers of a form          *)
(* (FormViews), for any values, errors, callbacks and changes, and in a     *)
(* window on a slice (Scroll), for any elements, sizes and capacity.        *)
(***************************************************************************)
EXTENDS FormViews, Scroll, SequenceTheorems, TLAPS

-----------------------------------------------------------------------------
(* Forms: the inductive invariant *)

\* A change will still call x.
WillCall(x) == \E t \in Changes : x \in calls[t]

\* A store's watch is the one observer of its model, and is called before the store's
\* subscribers are; a form has none.
WatchCallsFirst ==
    \A t \in Changes : "changed" \in calls[t] => headless /\ calls[t] = {"changed"}

\* Unless the watch is still to be called, the store knows the model's errors and that
\* its snapshot is stale, if it is, ...
StoreKnows ==
    headless /\ watched =>
        /\ bound
        /\ WillCall("changed") \/ errors = Errors[model]
        /\ WillCall("changed") \/ stale \/ snapshot = model

\* ... and a subscriber that has not read the model will be called.
SubscribersRead ==
    headless =>
        /\ watched => \A c \in In({"sub"}) : WillCall("changed") \/ WillCall(c) \/ seen[c] = model
        /\ \A c \in In({"errSub"}) : WillCall(c) \/ seenErrors[c] = errors

\* An observer of a form's model that has not read it will be called.
ObserversRead ==
    /\ \A c \in In({"plain", "left", "key"}) : WillCall(c) \/ seen[c] = model
    /\ \A c \in In({"form", "source"}) \ missed : WillCall(c) \/ seenErrors[c] = Errors[model]
    /\ \A c \in In({"source"}) \ missed : WillCall(c) \/ state = Errors[model]

\* One that has been called and does not observe yet read the errors there are.
StartersRead ==
    /\ \A c \in In({"startingForm", "startingSource"}) \ missed : seenErrors[c] = Errors[model]
    /\ \A c \in In({"startingSource"}) \ missed : state = Errors[model]

IInv ==
    /\ TypeOK
    /\ WatchCallsFirst
    /\ StoreKnows
    /\ SubscribersRead
    /\ ObserversRead
    /\ StartersRead

-----------------------------------------------------------------------------
(* Every step preserves it *)

\* A headless page has stores, the others forms.
LEMMA RolesOfPages ==
  ASSUME TypeOK, NEW c \in Callbacks
  PROVE  /\ headless => role[c] \in {"none", "sub", "errSub"}
         /\ ~headless => role[c] \notin {"sub", "errSub"}
BY DEF TypeOK, StoreRoles, FormRoles, Live

\* Every step of the system preserves the invariant.
LEMMA Step ==
  ASSUME IInv, [Next]_vars
  PROVE  IInv'
<1> USE ViewsAssumption DEF IInv, TypeOK, storeVars, sourceVars, readings, In, Becomes, Reads, ReadsErrors, Free
<1>1. ASSUME NEW t \in Changes, NEW v \in Values, Change(t, v) PROVE IInv'
  <2> USE <1>1 DEF Change, Observers
  <2>1. TypeOK'
    BY DEF StoreRoles, FormRoles, Live, ErrorSets
  <2>2. WatchCallsFirst'
    BY DEF WatchCallsFirst
  <2>3. StoreKnows'
    BY DEF StoreKnows, WillCall
  <2>4. SubscribersRead'
    BY DEF SubscribersRead, WillCall
  <2>5. ObserversRead'
    <3>1. CASE headless
      BY <3>1, RolesOfPages DEF ObserversRead
    <3>2. CASE ~headless
      <4>1. calls'[t] = In(Live)
        BY <3>2
      <4>2. \A c \in In({"plain", "left", "key", "form", "source"}) : c \in calls'[t]
        BY <4>1 DEF Live
      <4> QED
        BY <4>2 DEF ObserversRead, WillCall
    <3> QED
      BY <3>1, <3>2
  <2>6. StartersRead'
    BY DEF StartersRead
  <2> QED
    BY <2>1, <2>2, <2>3, <2>4, <2>5, <2>6
<1>2. ASSUME NEW t \in Changes, NEW v \in Values, Attach(t, v) PROVE IInv'
  <2> USE <1>2 DEF Attach
  <2>1. TypeOK'
    BY DEF StoreRoles, FormRoles, Live, ErrorSets
  <2>2. WatchCallsFirst'
    BY DEF WatchCallsFirst
  <2>3. StoreKnows'
    BY DEF StoreKnows, WillCall
  <2>4. SubscribersRead'
    BY DEF SubscribersRead, WillCall
  <2>5. ObserversRead'
    BY RolesOfPages DEF ObserversRead
  <2>6. StartersRead'
    BY RolesOfPages DEF StartersRead
  <2> QED
    BY <2>1, <2>2, <2>3, <2>4, <2>5, <2>6
<1>3. ASSUME NEW t \in Changes, Changed(t) PROVE IInv'
  <2> USE <1>3 DEF Changed
  <2>1. headless /\ calls[t] = {"changed"}
    BY DEF WatchCallsFirst
  <2>2. TypeOK'
    BY DEF StoreRoles, FormRoles, Live, ErrorSets
  <2>3. WatchCallsFirst'
    BY DEF WatchCallsFirst
  <2>4. StoreKnows'
    BY DEF StoreKnows, WillCall
  <2>5. SubscribersRead'
    <3>1. ASSUME NEW c \in In({"sub"})' PROVE WillCall(c)'
      BY <3>1 DEF WillCall
    <3>2. ASSUME NEW c \in In({"errSub"})', ~WillCall(c)' PROVE seenErrors'[c] = errors'
      <4>1. errors' = errors
        BY <3>2 DEF WillCall
      <4>2. ~WillCall(c)
        BY <2>1, <3>2 DEF WillCall
      <4> QED
        BY <2>1, <3>2, <4>1, <4>2 DEF SubscribersRead
    <3> QED
      BY <3>1, <3>2 DEF SubscribersRead
  <2>6. ObserversRead'
    BY <2>1, RolesOfPages DEF ObserversRead
  <2>7. StartersRead'
    BY DEF StartersRead
  <2> QED
    BY <2>2, <2>3, <2>4, <2>5, <2>6, <2>7
<1>4. ASSUME NEW t \in Changes, NEW c \in Callbacks, Call(t, c) PROVE IInv'
  <2> USE <1>4 DEF Call, GetSnapshot
  <2>1. WillCall("changed")' <=> WillCall("changed")
    BY DEF WillCall
  <2>2. \A d \in Callbacks : d # c => (WillCall(d)' <=> WillCall(d))
    BY DEF WillCall
  <2>3. UNCHANGED <<headless, model, role, bound, watched, errors>>
        /\ (bound /\ ~stale' /\ (stale \/ snapshot = model) => snapshot' = model)
        /\ (stale' => stale) /\ (~stale => snapshot' = snapshot)
    OBVIOUS
  <2>4. TypeOK'
    <3>1. UNCHANGED <<headless, model, role, bound, watched, errors, resolved>>
          /\ calls' \in [Changes -> SUBSET (Callbacks \cup {"changed"})]
      OBVIOUS
    <3>2. /\ snapshot' \in Values
          /\ seen' \in [Callbacks -> Values]
          /\ stale' \in BOOLEAN
      <4>1. snapshot' \in Values
        OBVIOUS
      <4>2. seen' \in [Callbacks -> Values]
        BY <4>1
      <4>3. (stale /\ ~bound) \in BOOLEAN /\ stale \in BOOLEAN
        BY Zenon
      <4>4. stale' = stale \/ stale' = (stale /\ ~bound)
        OBVIOUS
      <4>5. stale' \in BOOLEAN
        BY ONLY <4>3, <4>4
      <4> QED
        BY <4>1, <4>2, <4>5
    <3>3. state' \in ErrorSets /\ seenErrors' \in [Callbacks -> ErrorSets]
      BY DEF ErrorSets
    <3>4. missed' \subseteq Callbacks
      OBVIOUS
    <3> QED
      BY <3>1, <3>2, <3>3, <3>4
  <2>5. WatchCallsFirst'
    BY DEF WatchCallsFirst
  <2>6. StoreKnows'
    BY <2>1, <2>3 DEF StoreKnows
  <2>7. SubscribersRead'
    <3>1. ASSUME headless, watched, NEW d \in In({"sub"}), ~WillCall("changed"), ~WillCall(d)' PROVE seen'[d] = model
      <4>1. CASE d = c
        <5>1. bound /\ (stale \/ snapshot = model)
          BY <3>1 DEF StoreKnows
        <5> QED
          BY <3>1, <4>1, <5>1
      <4>2. CASE d # c
        BY <2>2, <3>1, <4>2 DEF SubscribersRead
      <4> QED
        BY <4>1, <4>2
    <3>2. ASSUME headless, NEW d \in In({"errSub"}), ~WillCall(d)' PROVE seenErrors'[d] = errors
      <4>1. CASE d = c
        BY <3>2, <4>1
      <4>2. CASE d # c
        BY <2>2, <3>2, <4>2 DEF SubscribersRead
      <4> QED
        BY <4>1, <4>2
    <3> QED
      BY <2>1, <2>3, <3>1, <3>2 DEF SubscribersRead
  <2>8. ObserversRead'
    BY DEF ObserversRead, WillCall, Live
  <2>9. StartersRead'
    BY DEF StartersRead
  <2> QED
    BY <2>4, <2>5, <2>6, <2>7, <2>8, <2>9
<1>5. CASE Lost
  <2> USE <1>5 DEF Lost
  <2>1. TypeOK'
    BY DEF StoreRoles, FormRoles, Live, ErrorSets
  <2>2. WatchCallsFirst'
    BY DEF WatchCallsFirst
  <2>3. StoreKnows'
    BY DEF StoreKnows, WillCall
  <2>4. SubscribersRead'
    BY DEF SubscribersRead, WillCall
  <2>5. ObserversRead'
    BY DEF ObserversRead, WillCall, Live
  <2>6. StartersRead'
    BY DEF StartersRead
  <2> QED
    BY <2>1, <2>2, <2>3, <2>4, <2>5, <2>6
<1>6. CASE Resolve
  <2> USE <1>6 DEF Resolve
  <2>1. TypeOK'
    BY DEF StoreRoles, FormRoles, Live, ErrorSets
  <2>2. WatchCallsFirst'
    BY DEF WatchCallsFirst
  <2>3. StoreKnows'
    BY DEF StoreKnows, WillCall
  <2>4. SubscribersRead'
    BY DEF SubscribersRead, WillCall
  <2>5. ObserversRead'
    BY DEF ObserversRead, WillCall, Live
  <2>6. StartersRead'
    BY DEF StartersRead
  <2> QED
    BY <2>1, <2>2, <2>3, <2>4, <2>5, <2>6
<1>7. ASSUME NEW c \in Callbacks, Subscribe(c) PROVE IInv'
  <2> USE <1>7 DEF Subscribe, GetSnapshot
  <2>1. TypeOK'
    BY DEF StoreRoles, FormRoles, Live, ErrorSets
  <2>2. WatchCallsFirst'
    BY DEF WatchCallsFirst
  <2>3. StoreKnows'
    BY DEF StoreKnows, WillCall
  <2>4. SubscribersRead'
    <3>1. \A d : WillCall(d)' <=> WillCall(d)
      BY DEF WillCall
    <3>2. watched => WillCall("changed") \/ seen'[c] = model
      BY DEF StoreKnows
    <3> QED
      BY <3>1, <3>2 DEF SubscribersRead
  <2>5. ObserversRead'
    BY DEF ObserversRead, WillCall, Live
  <2>6. StartersRead'
    BY DEF StartersRead
  <2> QED
    BY <2>1, <2>2, <2>3, <2>4, <2>5, <2>6
<1>8. ASSUME NEW c \in Callbacks, SubscribeErrors(c) PROVE IInv'
  <2> USE <1>8 DEF SubscribeErrors
  <2>1. TypeOK'
    BY DEF StoreRoles, FormRoles, Live, ErrorSets
  <2>2. WatchCallsFirst'
    BY DEF WatchCallsFirst
  <2>3. StoreKnows'
    BY DEF StoreKnows, WillCall
  <2>4. SubscribersRead'
    BY DEF SubscribersRead, WillCall
  <2>5. ObserversRead'
    BY DEF ObserversRead, WillCall, Live
  <2>6. StartersRead'
    BY DEF StartersRead
  <2> QED
    BY <2>1, <2>2, <2>3, <2>4, <2>5, <2>6
<1>9. ASSUME NEW c \in Callbacks, FormSubscribe(c) PROVE IInv'
  <2> USE <1>9 DEF FormSubscribe
  <2>1. TypeOK'
    BY DEF StoreRoles, FormRoles, Live, ErrorSets
  <2>2. WatchCallsFirst'
    BY DEF WatchCallsFirst
  <2>3. StoreKnows'
    BY DEF StoreKnows, WillCall
  <2>4. SubscribersRead'
    BY DEF SubscribersRead, WillCall
  <2>5. ObserversRead'
    BY DEF ObserversRead, WillCall, Live
  <2>6. StartersRead'
    BY DEF StartersRead
  <2> QED
    BY <2>1, <2>2, <2>3, <2>4, <2>5, <2>6
<1>10. ASSUME NEW c \in Callbacks, FormSubscribeErrors(c) PROVE IInv'
  <2> USE <1>10 DEF FormSubscribeErrors
  <2>1. TypeOK'
    BY DEF StoreRoles, FormRoles, Live, ErrorSets
  <2>2. WatchCallsFirst'
    BY DEF WatchCallsFirst
  <2>3. StoreKnows'
    BY DEF StoreKnows, WillCall
  <2>4. SubscribersRead'
    BY DEF SubscribersRead, WillCall
  <2>5. ObserversRead'
    BY DEF ObserversRead, WillCall, Live
  <2>6. StartersRead'
    BY DEF StartersRead
  <2> QED
    BY <2>1, <2>2, <2>3, <2>4, <2>5, <2>6
<1>11. ASSUME NEW c \in Callbacks, SourceSubscribe(c) PROVE IInv'
  <2> USE <1>11 DEF SourceSubscribe
  <2>1. TypeOK'
    BY DEF StoreRoles, FormRoles, Live, ErrorSets
  <2>2. WatchCallsFirst'
    BY DEF WatchCallsFirst
  <2>3. StoreKnows'
    BY DEF StoreKnows, WillCall
  <2>4. SubscribersRead'
    BY DEF SubscribersRead, WillCall
  <2>5. ObserversRead'
    BY DEF ObserversRead, WillCall, Live
  <2>6. StartersRead'
    BY DEF StartersRead
  <2> QED
    BY <2>1, <2>2, <2>3, <2>4, <2>5, <2>6
<1>12. ASSUME NEW c \in Callbacks, Started(c) PROVE IInv'
  <2> USE <1>12 DEF Started
  <2>1. TypeOK'
    BY DEF StoreRoles, FormRoles, Live, ErrorSets
  <2>2. WatchCallsFirst'
    BY DEF WatchCallsFirst
  <2>3. StoreKnows'
    BY DEF StoreKnows, WillCall
  <2>4. SubscribersRead'
    BY DEF SubscribersRead, WillCall
  <2>5. ObserversRead'
    BY DEF ObserversRead, WillCall, Live
  <2>6. StartersRead'
    BY DEF StartersRead
  <2> QED
    BY <2>1, <2>2, <2>3, <2>4, <2>5, <2>6
<1>13. ASSUME NEW c \in Callbacks, GiveUp(c) PROVE IInv'
  <2> USE <1>13 DEF GiveUp
  <2>1. TypeOK'
    BY DEF StoreRoles, FormRoles, Live, ErrorSets
  <2>2. WatchCallsFirst'
    BY DEF WatchCallsFirst
  <2>3. StoreKnows'
    BY DEF StoreKnows, WillCall
  <2>4. SubscribersRead'
    BY DEF SubscribersRead, WillCall
  <2>5. ObserversRead'
    BY DEF ObserversRead, WillCall, Live
  <2>6. StartersRead'
    BY DEF StartersRead
  <2> QED
    BY <2>1, <2>2, <2>3, <2>4, <2>5, <2>6
<1>14. ASSUME NEW c \in Callbacks, Observe(c) PROVE IInv'
  <2> USE <1>14 DEF Observe
  <2>1. TypeOK'
    BY DEF StoreRoles, FormRoles, Live, ErrorSets
  <2>2. WatchCallsFirst'
    BY DEF WatchCallsFirst
  <2>3. StoreKnows'
    BY DEF StoreKnows, WillCall
  <2>4. SubscribersRead'
    BY DEF SubscribersRead, WillCall
  <2>5. ObserversRead'
    <3>1. \A d : WillCall(d)' <=> WillCall(d)
      BY DEF WillCall
    <3>2. role' = [role EXCEPT ![c] = "form"] \/ (role' = [role EXCEPT ![c] = "source"] /\ role[c] = "startingSource")
      OBVIOUS
    <3>3. c \notin missed => seenErrors[c] = Errors[model] /\ (role[c] = "startingSource" => state = Errors[model])
      BY DEF StartersRead
    <3> QED
      BY <3>1, <3>2, <3>3 DEF ObserversRead
  <2>6. StartersRead'
    BY DEF StartersRead
  <2> QED
    BY <2>1, <2>2, <2>3, <2>4, <2>5, <2>6
<1>15. ASSUME NEW c \in Callbacks, Unsubscribe(c) PROVE IInv'
  <2> USE <1>15 DEF Unsubscribe
  <2>1. TypeOK'
    BY DEF StoreRoles, FormRoles, Live, ErrorSets
  <2>2. WatchCallsFirst'
    BY DEF WatchCallsFirst
  <2>3. StoreKnows'
    BY DEF StoreKnows, WillCall
  <2>4. SubscribersRead'
    BY DEF SubscribersRead, WillCall
  <2>5. ObserversRead'
    BY DEF ObserversRead, WillCall, Live
  <2>6. StartersRead'
    BY DEF StartersRead
  <2> QED
    BY <2>1, <2>2, <2>3, <2>4, <2>5, <2>6
<1>16. CASE UNCHANGED vars
  <2> USE <1>16 DEF vars
  <2>1. TypeOK'
    BY DEF StoreRoles, FormRoles, Live, ErrorSets
  <2>2. WatchCallsFirst'
    BY DEF WatchCallsFirst
  <2>3. StoreKnows'
    BY DEF StoreKnows, WillCall
  <2>4. SubscribersRead'
    BY DEF SubscribersRead, WillCall
  <2>5. ObserversRead'
    BY DEF ObserversRead, WillCall, Live
  <2>6. StartersRead'
    BY DEF StartersRead
  <2> QED
    BY <2>1, <2>2, <2>3, <2>4, <2>5, <2>6
<1> QED
  BY <1>1, <1>2, <1>3, <1>4, <1>5, <1>6, <1>7, <1>8, <1>9, <1>10, <1>11, <1>12, <1>13, <1>14, <1>15, <1>16
  DEF Next

\* The initial states satisfy the invariant.
LEMMA Initially == Init => IInv
BY ViewsAssumption DEF Init, IInv, TypeOK, WatchCallsFirst, StoreKnows, SubscribersRead, ObserversRead, StartersRead,
   In, StoreRoles, FormRoles, ErrorSets

\* So every reachable state satisfies it.
LEMMA Invariance == Spec => []IInv
<1>1. IInv /\ [Next]_vars => IInv'
  BY Step
<1> QED
  BY <1>1, Initially, PTL DEF Spec

-----------------------------------------------------------------------------
(* Theorems *)

\* The variables of stores, forms and errorSources hold what they are declared to
\* hold, and an errorSource calls only when it has a form.
THEOREM ViewTypes == Spec => []TypeOK
<1>1. IInv => TypeOK
  BY DEF IInv
<1> QED
  BY <1>1, Invariance, PTL

\* When every change of the model has been told, every subscriber of a store has read
\* the model and every error subscriber its errors: formStore.changed marks the snapshot
\* and compares the errors before it calls them, at every connection.
THEOREM StoresAreHeard == Spec => []StoreIsHeard
<1>1. IInv => StoreIsHeard
  <2> SUFFICES ASSUME IInv, headless, watched, Quiet PROVE
          /\ errors = Errors[model]
          /\ \A c \in In({"sub"}) : seen[c] = model
          /\ \A c \in In({"errSub"}) : seenErrors[c] = errors
    BY DEF StoreIsHeard
  <2>1. \A x : ~WillCall(x)
    BY DEF Quiet, WillCall
  <2> QED
    BY <2>1 DEF IInv, StoreKnows, SubscribersRead
<1> QED
  BY <1>1, Invariance, PTL

\* ... and so has every observer of a form's model and of an errorSource, but for those
\* that started while the errors changed: they are called before they observe.
THEOREM FormsAreHeard == Spec => []FormIsHeard
<1>1. IInv => FormIsHeard
  <2> SUFFICES ASSUME IInv, Quiet PROVE
          /\ \A c \in In({"plain", "left", "key"}) : seen[c] = model
          /\ \A c \in In({"form", "source"}) \ missed : seenErrors[c] = Errors[model]
          /\ In({"source"}) \ missed # {} => state = Errors[model]
    BY DEF FormIsHeard
  <2>1. \A x : ~WillCall(x)
    BY DEF Quiet, WillCall
  <2> QED
    BY <2>1 DEF IInv, ObserversRead
<1> QED
  BY <1>1, Invariance, PTL

-----------------------------------------------------------------------------
(* The window on a slice: the inductive invariant *)

\* A slot that is cached lies in the array, and, but where caches were left behind,
\* only positions of the slice have one.
SlotsAreThere ==
    /\ \A i \in Positions : keys[i] = Slot => i <= Len(array)
    /\ \A i \in Positions \ strayed : keys[i] # NoSlot => i <= len

\* The part about the slice and its caches ...
SliceInv ==
    /\ SliceTypeOK
    /\ SlotsAreThere
    /\ SourcesCurrent

\* ... and the whole.
ScrollInv ==
    /\ ScrollTypeOK
    /\ SlotsAreThere
    /\ SourcesCurrent
    /\ ReplicaAgrees
    /\ WindowIsShown

-----------------------------------------------------------------------------
(* The window on a slice: sequences *)

\* A function on 1..n is a sequence of length n.
LEMMA FunctionIsSeq ==
  ASSUME NEW S, NEW n \in Nat, NEW f \in [1..n -> S]
  PROVE  f \in Seq(S) /\ Len(f) = n
<1>1. f \in Seq(S)
  BY SeqDef
<1>2. Len(f) \in Nat /\ DOMAIN f = 1..Len(f) /\ DOMAIN f = 1..n
  BY <1>1, LenProperties
<1> QED
  BY <1>1, <1>2

\* InsertAt moves the elements from i on up.
LEMMA InsertAtProperties ==
  ASSUME NEW S, NEW s \in Seq(S), NEW i \in 1..(Len(s) + 1), NEW e \in S
  PROVE  /\ InsertAt(s, i, e) \in Seq(S) /\ Len(InsertAt(s, i, e)) = Len(s) + 1
         /\ \A j \in 1..(Len(s) + 1) :
                InsertAt(s, i, e)[j] = IF j < i THEN s[j] ELSE IF j = i THEN e ELSE s[j - 1]
<1> DEFINE above == SubSeq(s, 1, i - 1)
           below == SubSeq(s, i, Len(s))
<1>1. Len(s) \in Nat /\ \A j \in 1..Len(s) : s[j] \in S
  BY LenProperties, ElementOfSeq
<1>2. above \in Seq(S) /\ Len(above) = i - 1 /\ \A j \in 1..(i - 1) : above[j] = s[j]
  BY <1>1, SubSeqProperties
<1>3. below \in Seq(S) /\ Len(below) = Len(s) + 1 - i
      /\ \A j \in 1..(Len(s) + 1 - i) : below[j] = s[i + j - 1]
  BY <1>1, SubSeqProperties
<1>4. <<e>> \in Seq(S) /\ Len(<<e>>) = 1 /\ <<e>>[1] = e
  OBVIOUS
<1> HIDE DEF above, below
<1>5. above \o <<e>> \in Seq(S) /\ Len(above \o <<e>>) = i
      /\ \A j \in 1..i : (above \o <<e>>)[j] = IF j < i THEN s[j] ELSE e
  <2>1. /\ above \o <<e>> \in Seq(S) /\ Len(above \o <<e>>) = Len(above) + Len(<<e>>)
        /\ \A j \in 1..(Len(above) + Len(<<e>>)) :
              (above \o <<e>>)[j] = IF j <= Len(above) THEN above[j] ELSE <<e>>[j - Len(above)]
    BY <1>2, <1>4, ConcatProperties
  <2> QED
    BY <1>1, <1>2, <1>4, <2>1
<1>6. /\ InsertAt(s, i, e) \in Seq(S) /\ Len(InsertAt(s, i, e)) = i + Len(below)
      /\ \A j \in 1..(i + Len(below)) :
            InsertAt(s, i, e)[j] = IF j <= i THEN (above \o <<e>>)[j] ELSE below[j - i]
  <2> DEFINE t == above \o <<e>>
  <2>1. InsertAt(s, i, e) = t \o below
    BY DEF InsertAt, above, below
  <2>2. t \in Seq(S) /\ Len(t) = i
    BY <1>5
  <2> HIDE DEF t
  <2>3. /\ t \o below \in Seq(S) /\ Len(t \o below) = Len(t) + Len(below)
        /\ \A j \in 1..(Len(t) + Len(below)) :
              (t \o below)[j] = IF j <= Len(t) THEN t[j] ELSE below[j - Len(t)]
    BY <1>3, <2>2, ConcatProperties
  <2> QED
    BY <2>1, <2>2, <2>3 DEF t
<1> QED
  BY <1>1, <1>3, <1>5, <1>6

\* RemoveAt moves the elements after i down.
LEMMA RemoveAtProperties ==
  ASSUME NEW S, NEW s \in Seq(S), NEW i \in 1..Len(s)
  PROVE  /\ RemoveAt(s, i) \in Seq(S) /\ Len(RemoveAt(s, i)) = Len(s) - 1
         /\ \A j \in 1..(Len(s) - 1) : RemoveAt(s, i)[j] = IF j < i THEN s[j] ELSE s[j + 1]
<1> DEFINE above == SubSeq(s, 1, i - 1)
           below == SubSeq(s, i + 1, Len(s))
<1>1. Len(s) \in Nat /\ \A j \in 1..Len(s) : s[j] \in S
  BY LenProperties, ElementOfSeq
<1>2. above \in Seq(S) /\ Len(above) = i - 1 /\ \A j \in 1..(i - 1) : above[j] = s[j]
  BY <1>1, SubSeqProperties
<1>3. below \in Seq(S) /\ Len(below) = Len(s) - i
      /\ \A j \in 1..(Len(s) - i) : below[j] = s[i + j]
  BY <1>1, SubSeqProperties
<1> HIDE DEF above, below
<1>4. /\ RemoveAt(s, i) \in Seq(S) /\ Len(RemoveAt(s, i)) = Len(above) + Len(below)
      /\ \A j \in 1..(Len(above) + Len(below)) :
            RemoveAt(s, i)[j] = IF j <= Len(above) THEN above[j] ELSE below[j - Len(above)]
  BY <1>2, <1>3, ConcatProperties DEF RemoveAt, above, below
<1>5. Len(RemoveAt(s, i)) = Len(s) - 1
  BY <1>1, <1>2, <1>3, <1>4
<1>6. ASSUME NEW j \in 1..(Len(s) - 1)
      PROVE  RemoveAt(s, i)[j] = IF j < i THEN s[j] ELSE s[j + 1]
  <2>1. CASE j < i
    BY <1>1, <1>2, <1>3, <1>4, <2>1
  <2>2. CASE ~(j < i)
    <3>1. j - Len(above) \in 1..(Len(s) - i) /\ i + (j - Len(above)) = j + 1 /\ ~(j <= Len(above))
      BY <1>1, <1>2, <2>2
    <3>2. RemoveAt(s, i)[j] = below[j - Len(above)]
      BY <1>1, <1>2, <1>3, <1>4, <3>1
    <3> QED
      BY <1>3, <2>2, <3>1, <3>2
  <2> QED
    BY <2>1, <2>2
<1> QED
  BY <1>4, <1>5, <1>6

\* Padded cuts a sequence or fills it up with Nil.
LEMMA PaddedProperties ==
  ASSUME NEW s \in Seq(Pointers), NEW n \in Nat
  PROVE  /\ Padded(s, n) \in Seq(Pointers) /\ Len(Padded(s, n)) = n
         /\ Padded(s, n) \in [1..n -> Pointers]
         /\ \A j \in 1..n : Padded(s, n)[j] = IF j <= Len(s) THEN s[j] ELSE Nil
<1>1. \A j \in 1..Len(s) : s[j] \in Pointers
  BY ElementOfSeq
<1>2. Len(s) \in Nat
  BY LenProperties
<1>3. Padded(s, n) \in [1..n -> Pointers]
  BY <1>1, <1>2 DEF Padded, Pointers
<1>4. Padded(s, n) \in Seq(Pointers) /\ Len(Padded(s, n)) = n
  BY <1>3, FunctionIsSeq
<1> QED
  BY <1>3, <1>4 DEF Padded

-----------------------------------------------------------------------------
(* The window on a slice: what another Model makes of a change *)

LEMMA WasSetAtProperties ==
  ASSUME NEW s \in Seq(Pointers), NEW i \in Nat \ {0}, NEW v \in Pointers
  PROVE  /\ WasSetAt(s, i, v) \in Seq(Pointers)
         /\ Len(WasSetAt(s, i, v)) = IF i > Len(s) THEN i ELSE Len(s)
         /\ \A j \in 1..Len(WasSetAt(s, i, v)) :
                WasSetAt(s, i, v)[j] = IF j = i THEN v ELSE IF j <= Len(s) THEN s[j] ELSE Nil
<1> DEFINE n == IF i > Len(s) THEN i ELSE Len(s)
           t == Padded(s, n)
<1>1. Len(s) \in Nat /\ n \in Nat /\ i \in 1..n
  BY LenProperties
<1>2. t \in Seq(Pointers) /\ Len(t) = n /\ \A j \in 1..n : t[j] = IF j <= Len(s) THEN s[j] ELSE Nil
  BY <1>1, PaddedProperties
<1>3. WasSetAt(s, i, v) = [t EXCEPT ![i] = v]
  BY DEF WasSetAt
<1> HIDE DEF t, n
<1>4. /\ WasSetAt(s, i, v) \in Seq(Pointers) /\ Len(WasSetAt(s, i, v)) = n
      /\ \A j \in 1..n : WasSetAt(s, i, v)[j] = IF j = i THEN v ELSE t[j]
  BY <1>1, <1>2, <1>3, ExceptSeq
<1> QED
  BY <1>1, <1>2, <1>4 DEF n

LEMMA InsertedAtProperties ==
  ASSUME NEW s \in Seq(Pointers), NEW i \in Nat \ {0}, NEW v \in Pointers
  PROVE  /\ InsertedAt(s, i, v) \in Seq(Pointers)
         /\ Len(InsertedAt(s, i, v)) = IF i > Len(s) THEN i ELSE Len(s) + 1
         /\ \A j \in 1..Len(InsertedAt(s, i, v)) :
                InsertedAt(s, i, v)[j] =
                    IF j = i THEN v
                    ELSE IF j > i THEN s[j - 1] ELSE IF j <= Len(s) THEN s[j] ELSE Nil
<1>1. Len(s) \in Nat
  BY LenProperties
<1>2. CASE i > Len(s)
  <2>1. i - 1 \in Nat
    OBVIOUS
  <2>2. PICK t \in Seq(Pointers) :
            /\ t = Padded(s, i - 1) /\ Len(t) = i - 1
            /\ \A j \in 1..(i - 1) : t[j] = IF j <= Len(s) THEN s[j] ELSE Nil
    BY <2>1, PaddedProperties
  <2>3. InsertedAt(s, i, v) = InsertAt(t, i, v)
    BY <1>2, <2>2 DEF InsertedAt
  <2>4. i \in 1..(Len(t) + 1)
    BY <2>2
  <2>5. /\ InsertAt(t, i, v) \in Seq(Pointers) /\ Len(InsertAt(t, i, v)) = Len(t) + 1
        /\ \A j \in 1..(Len(t) + 1) :
              InsertAt(t, i, v)[j] = IF j < i THEN t[j] ELSE IF j = i THEN v ELSE t[j - 1]
    BY <2>4, InsertAtProperties
  <2>6. Len(InsertedAt(s, i, v)) = i /\ InsertedAt(s, i, v) \in Seq(Pointers)
    BY <2>2, <2>3, <2>5
  <2>7. ASSUME NEW j \in 1..i
        PROVE  InsertedAt(s, i, v)[j] = IF j = i THEN v ELSE IF j <= Len(s) THEN s[j] ELSE Nil
    <3>1. InsertedAt(s, i, v)[j] = IF j < i THEN t[j] ELSE v
      BY <2>2, <2>3, <2>5
    <3> QED
      BY <2>2, <3>1
  <2>8. \A j \in 1..i : ~(j > i)
    OBVIOUS
  <2> QED
    BY <1>2, <2>6, <2>7, <2>8
<1>3. CASE ~(i > Len(s))
  <2>1. i \in 1..(Len(s) + 1) /\ InsertedAt(s, i, v) = InsertAt(s, i, v)
    BY <1>1, <1>3 DEF InsertedAt
  <2>2. /\ InsertAt(s, i, v) \in Seq(Pointers) /\ Len(InsertAt(s, i, v)) = Len(s) + 1
        /\ \A j \in 1..(Len(s) + 1) :
              InsertAt(s, i, v)[j] = IF j < i THEN s[j] ELSE IF j = i THEN v ELSE s[j - 1]
    BY <2>1, InsertAtProperties
  <2> QED
    BY <1>1, <1>3, <2>1, <2>2
<1> QED
  BY <1>2, <1>3

LEMMA RemovedAtProperties ==
  ASSUME NEW s \in Seq(Pointers), Len(s) > 0, NEW i \in 1..(Len(s) + 1)
  PROVE  /\ RemovedAt(s, i) \in Seq(Pointers) /\ Len(RemovedAt(s, i)) = Len(s) - 1
         /\ \A j \in 1..(Len(s) - 1) : RemovedAt(s, i)[j] = IF j < i THEN s[j] ELSE s[j + 1]
<1> DEFINE k == IF i > Len(s) THEN Len(s) ELSE i
<1>1. Len(s) \in Nat /\ k \in 1..Len(s)
  BY LenProperties
<1>2. RemovedAt(s, i) = RemoveAt(s, k)
  BY DEF RemovedAt
<1>3. \A j \in 1..(Len(s) - 1) : j < i <=> j < k
  BY <1>1
<1> HIDE DEF k
<1> QED
  BY <1>1, <1>2, <1>3, RemoveAtProperties

-----------------------------------------------------------------------------
(* The window on a slice: operations on the slice and its caches *)

\* What kinds of entries the cache of slots has.
LEMMA SlotKinds ==
  /\ NoSlot.in = "none" /\ Slot.in = "array" /\ Slot # NoSlot
  /\ \A p : OldSlot(p).in = "old" /\ OldSlot(p).holds = p
  /\ \A p : OldSlot(p) # NoSlot /\ OldSlot(p) # Slot
BY DEF NoSlot, Slot, OldSlot

\* The array is a sequence of pointers, and the slice its beginning.
LEMMA ArrayIsSeq ==
  ASSUME SliceTypeOK
  PROVE  /\ array \in Seq(Pointers) /\ Len(array) \in 0..MaxCap /\ array \in [1..Len(array) -> Pointers]
         /\ DOMAIN array = 1..Len(array)
         /\ len \in Nat /\ len <= Len(array) /\ len <= MaxLen
         /\ slice \in Seq(Pointers) /\ Len(slice) = len /\ \A j \in 1..len : slice[j] = array[j]
<1>1. PICK c \in 0..MaxCap : array \in [1..c -> Pointers]
  BY DEF SliceTypeOK
<1>2. array \in Seq(Pointers) /\ Len(array) = c
  BY <1>1, SliceAssumption, FunctionIsSeq
<1>3. len \in 0..c /\ len <= MaxLen
  BY <1>2 DEF SliceTypeOK
<1>4. \A j \in 1..len : array[j] \in Pointers
  BY <1>1, <1>3
<1>5. slice \in Seq(Pointers) /\ Len(slice) = len /\ \A j \in 1..len : slice[j] = array[j]
  BY <1>3, <1>4, SubSeqProperties DEF slice
<1> QED
  BY <1>1, <1>2, <1>3, <1>5, SliceAssumption

\* grow leaves the elements, and the new positions hold nil.
LEMMA GrownProperties ==
  ASSUME SliceTypeOK, NEW n \in Nat, len + n <= MaxCap, NEW new \in Grown(n)
  PROVE  /\ new \in UNION {[1..c -> Pointers] : c \in 0..MaxCap}
         /\ Len(new) \in Len(array)..MaxCap /\ len + n <= Len(new) /\ new \in [1..Len(new) -> Pointers]
         /\ \A j \in 1..len : new[j] = array[j]
         /\ \A j \in (len + 1)..(len + n) : new[j] = Nil
<1>1. /\ Len(array) \in 0..MaxCap /\ array \in [1..Len(array) -> Pointers] /\ DOMAIN array = 1..Len(array)
      /\ len \in Nat /\ len <= Len(array)
      /\ slice \in Seq(Pointers) /\ Len(slice) = len /\ \A j \in 1..len : slice[j] = array[j]
  BY ArrayIsSeq
<1>2. CASE len + n <= Len(array)
  <2>1. new = [i \in 1..Len(array) |-> IF i \in (len + 1)..(len + n) THEN Nil ELSE array[i]]
    BY <1>1, <1>2 DEF Grown
  <2>2. new \in [1..Len(array) -> Pointers]
    BY <1>1, <2>1 DEF Pointers
  <2>3. Len(new) = Len(array)
    BY <1>1, <2>2, SliceAssumption, FunctionIsSeq
  <2>4. \A j \in 1..len : new[j] = array[j]
    BY <1>1, <2>1
  <2>5. \A j \in (len + 1)..(len + n) : new[j] = Nil
    BY <1>1, <1>2, <2>1
  <2>6. Len(array) \in Len(array)..MaxCap
    BY <1>1, SliceAssumption
  <2> QED
    BY <1>1, <1>2, <2>2, <2>3, <2>4, <2>5, <2>6
<1>3. CASE ~(len + n <= Len(array))
  <2>1. PICK c \in (len + n)..MaxCap : new = Padded(slice, c)
    BY <1>3 DEF Grown
  <2>2. c \in Nat /\ c \in 0..MaxCap
    BY <1>1, <2>1, SliceAssumption
  <2>3. /\ Len(new) = c /\ new \in [1..c -> Pointers]
        /\ \A j \in 1..c : new[j] = IF j <= Len(slice) THEN slice[j] ELSE Nil
    <3>1. \A q \in Seq(Pointers) :
            /\ Len(Padded(q, c)) = c /\ Padded(q, c) \in [1..c -> Pointers]
            /\ \A j \in 1..c : Padded(q, c)[j] = IF j <= Len(q) THEN q[j] ELSE Nil
      BY <2>2, PaddedProperties
    <3> QED
      BY <1>1, <2>1, <3>1
  <2> QED
    BY <1>1, <1>3, <2>1, <2>2, <2>3, SliceAssumption
<1> QED
  BY <1>2, <1>3

\* A slot in the cache stays where it was when growing makes a new array.
LEMMA KeysAfterProperties ==
  ASSUME SliceTypeOK, SlotsAreThere, NEW new, Len(new) \in Nat, Len(new) >= Len(array)
  PROVE  /\ KeysAfter(new) \in [Positions -> {NoSlot, Slot} \cup {OldSlot(p) : p \in Pointers}]
         /\ \A j \in Positions :
                /\ KeysAfter(new)[j] = keys[j]
                   \/ (keys[j] = Slot /\ j <= Len(array) /\ KeysAfter(new)[j] = OldSlot(array[j]))
                /\ KeysAfter(new)[j] = Slot => j <= Len(new)
<1> DEFINE Entries == {NoSlot, Slot} \cup {OldSlot(p) : p \in Pointers}
<1>1. keys \in [Positions -> Entries]
  BY DEF SliceTypeOK
<1>2. /\ Len(array) \in Nat /\ array \in [1..Len(array) -> Pointers]
  BY ArrayIsSeq
<1>3. \A j \in Positions : keys[j] = Slot => j \in 1..Len(array)
  BY <1>2, SliceAssumption DEF SlotsAreThere, Positions
<1>4. \A j \in Positions : keys[j] = Slot => OldSlot(array[j]) \in Entries
  BY <1>2, <1>3
<1>5. KeysAfter(new) =
        [i \in Positions |-> IF Len(new) > Len(array) /\ keys[i] = Slot THEN OldSlot(array[i]) ELSE keys[i]]
  BY DEF KeysAfter
<1>6. KeysAfter(new) \in [Positions -> Entries]
  BY <1>1, <1>4, <1>5
<1>7. ASSUME NEW j \in Positions
      PROVE  /\ KeysAfter(new)[j] = keys[j]
                \/ (keys[j] = Slot /\ j <= Len(array) /\ KeysAfter(new)[j] = OldSlot(array[j]))
             /\ KeysAfter(new)[j] = Slot => j <= Len(new)
  <2>1. j \in Nat
    BY SliceAssumption DEF Positions
  <2>2. CASE Len(new) > Len(array) /\ keys[j] = Slot
    BY <1>2, <1>3, <1>5, <2>1, <2>2, SlotKinds
  <2>3. CASE ~(Len(new) > Len(array) /\ keys[j] = Slot)
    BY <1>2, <1>3, <1>5, <2>1, <2>3
  <2> QED
    BY <2>2, <2>3
<1> QED
  BY <1>6, <1>7

\* SetValueAt, and SetValue of a position, put v at i and grow the slice if it is shorter.
LEMMA AssignProperties ==
  ASSUME SliceInv, NEW i \in Positions, NEW v \in Pointers, Assign(i, v)
  PROVE  /\ array' \in UNION {[1..c -> Pointers] : c \in 0..MaxCap}
         /\ len' = (IF i > len THEN i ELSE len) /\ len' \in 0..Len(array') /\ len' <= MaxLen
         /\ \A j \in 1..len' : array'[j] = IF j = i THEN v ELSE IF j <= len THEN array[j] ELSE Nil
         /\ keys' \in [Positions -> {NoSlot, Slot} \cup {OldSlot(p) : p \in Pointers}]
         /\ keys'[i] = NoSlot
         /\ \A j \in Positions \ {i} :
                keys'[j] = keys[j] \/ (keys[j] = Slot /\ keys'[j] = OldSlot(array[j]))
         /\ \A j \in Positions : keys'[j] = Slot => j <= Len(array')
<1> DEFINE n == IF i > len THEN i - len ELSE 0
<1>1. SliceTypeOK /\ SlotsAreThere
  BY DEF SliceInv
<1>2. len \in Nat /\ len <= MaxLen /\ Len(array) \in Nat /\ i \in 1..MaxLen
  BY <1>1, ArrayIsSeq DEF Positions
<1>3. n \in Nat /\ len + n <= MaxCap /\ len + n <= MaxLen /\ len + n = (IF i > len THEN i ELSE len)
  BY <1>2, SliceAssumption
<1>4. PICK new \in Grown(n) :
        /\ array' = [new EXCEPT ![i] = v]
        /\ len' = len + n
        /\ keys' = [KeysAfter(new) EXCEPT ![i] = NoSlot]
  BY DEF Assign
<1> HIDE DEF n
<1>5. /\ Len(new) \in Len(array)..MaxCap /\ len + n <= Len(new) /\ new \in [1..Len(new) -> Pointers]
      /\ \A j \in 1..len : new[j] = array[j]
      /\ \A j \in (len + 1)..(len + n) : new[j] = Nil
  BY <1>1, <1>3, <1>4, GrownProperties
<1>6. Len(new) \in Nat /\ Len(new) >= Len(array) /\ Len(new) <= MaxCap
  BY <1>2, <1>5, SliceAssumption
<1>7. array' \in [1..Len(new) -> Pointers]
  BY <1>4, <1>5
<1>8. Len(array') = Len(new)
  BY <1>6, <1>7, FunctionIsSeq
<1>9. array' \in UNION {[1..c -> Pointers] : c \in 0..MaxCap}
  BY <1>6, <1>7, SliceAssumption
<1>10. len' = (IF i > len THEN i ELSE len) /\ len' \in 0..Len(array') /\ len' <= MaxLen
  BY <1>2, <1>3, <1>4, <1>5, <1>6, <1>8
<1>11. ASSUME NEW j \in 1..len'
       PROVE  array'[j] = IF j = i THEN v ELSE IF j <= len THEN array[j] ELSE Nil
  <2>1. j \in 1..Len(new) /\ j \in Nat /\ j <= len + n
    BY <1>4, <1>6, <1>8, <1>10
  <2>2. array'[j] = IF j = i THEN v ELSE new[j]
    BY <1>4, <1>5, <2>1
  <2> QED
    BY <1>2, <1>5, <2>1, <2>2
<1>12. /\ KeysAfter(new) \in [Positions -> {NoSlot, Slot} \cup {OldSlot(p) : p \in Pointers}]
       /\ \A j \in Positions :
              /\ KeysAfter(new)[j] = keys[j]
                 \/ (keys[j] = Slot /\ j <= Len(array) /\ KeysAfter(new)[j] = OldSlot(array[j]))
              /\ KeysAfter(new)[j] = Slot => j <= Len(new)
  BY <1>1, <1>6, KeysAfterProperties
<1>13. \A j \in Positions : keys'[j] = IF j = i THEN NoSlot ELSE KeysAfter(new)[j]
  BY <1>4, <1>12
<1>14. keys' \in [Positions -> {NoSlot, Slot} \cup {OldSlot(p) : p \in Pointers}]
  BY <1>4, <1>12
<1> QED
  BY <1>8, <1>9, <1>10, <1>11, <1>12, <1>13, <1>14, SlotKinds

\* The caches stay in order if that of the position's source does.
LEMMA AssignKeepsCaches ==
  ASSUME SliceInv, NEW i \in Positions, NEW v \in Pointers, Assign(i, v),
         sources' \in [Positions -> Pointers], strayed' \subseteq Positions,
         \A j \in Positions \ {i} : sources'[j] = sources[j] /\ (j \in strayed' <=> j \in strayed),
         i \notin strayed' => sources'[i] = Nil
  PROVE  SliceInv'
<1>1. SliceTypeOK /\ SlotsAreThere /\ SourcesCurrent
  BY DEF SliceInv
<1>2. /\ array' \in UNION {[1..c -> Pointers] : c \in 0..MaxCap}
      /\ len' = (IF i > len THEN i ELSE len) /\ len' \in 0..Len(array') /\ len' <= MaxLen
      /\ \A j \in 1..len' : array'[j] = IF j = i THEN v ELSE IF j <= len THEN array[j] ELSE Nil
      /\ keys' \in [Positions -> {NoSlot, Slot} \cup {OldSlot(p) : p \in Pointers}]
      /\ keys'[i] = NoSlot
      /\ \A j \in Positions \ {i} :
             keys'[j] = keys[j] \/ (keys[j] = Slot /\ keys'[j] = OldSlot(array[j]))
      /\ \A j \in Positions : keys'[j] = Slot => j <= Len(array')
  BY AssignProperties
<1>3. SliceTypeOK'
  BY <1>2 DEF SliceTypeOK, Positions, Pointers, Elements, NoSlot, Slot, OldSlot
<1>4. len \in Nat /\ len <= len' /\ len' \in Nat /\ i <= len' /\ i \in Nat
  BY <1>1, <1>2, ArrayIsSeq, SliceAssumption DEF Positions
<1>5. ASSUME NEW j \in Positions \ strayed'
      PROVE  /\ keys'[j] # NoSlot => j <= len'
             /\ sources'[j] # Nil => j <= len' /\ sources'[j] = array'[j]
             /\ keys'[j].in = "old" => j <= len' /\ keys'[j].holds = array'[j]
  <2>1. CASE j = i
    BY <1>2, <1>4, <2>1, SlotKinds
  <2>2. CASE j # i
    <3>1. /\ j \in Positions \ strayed /\ sources'[j] = sources[j] /\ j \in Nat /\ j > 0
          /\ keys'[j] = keys[j] \/ (keys[j] = Slot /\ keys'[j] = OldSlot(array[j]))
      BY <1>2, <2>2, SliceAssumption DEF Positions
    <3>2. /\ keys[j] # NoSlot => j <= len
          /\ sources[j] # Nil => j <= len /\ sources[j] = array[j]
          /\ keys[j].in = "old" => j <= len /\ keys[j].holds = array[j]
      BY <1>1, <3>1 DEF SlotsAreThere, SourcesCurrent
    <3>3. j <= len => j <= len' /\ array'[j] = array[j]
      BY <1>2, <1>4, <2>2, <3>1
    <3>4. keys'[j] # NoSlot => keys[j] # NoSlot
      BY <3>1, SlotKinds
    <3>5. keys'[j].in = "old" => j <= len /\ keys'[j].holds = array[j]
      BY <3>1, <3>2, SlotKinds
    <3> QED
      BY <1>4, <3>1, <3>2, <3>3, <3>4, <3>5
  <2> QED
    BY <2>1, <2>2
<1>6. SlotsAreThere'
  BY <1>2, <1>5 DEF SlotsAreThere, Positions, NoSlot, Slot
<1>7. SourcesCurrent'
  BY <1>5 DEF SourcesCurrent, Positions
<1> QED
  BY <1>3, <1>6, <1>7 DEF SliceInv

LEMMA PutKeepsCaches ==
  ASSUME SliceInv, NEW i \in Positions, NEW v \in Pointers, Put(i, v) \/ PutAt(i, v)
  PROVE  SliceInv'
<1>1. sources \in [Positions -> Pointers] /\ strayed \subseteq Positions /\ Nil \in Pointers
  BY DEF SliceInv, SliceTypeOK, Pointers
<1>2. CASE Put(i, v)
  BY <1>1, <1>2, AssignKeepsCaches DEF Put
<1>3. CASE PutAt(i, v)
  <2>1. Assign(i, v) /\ sources' = sources /\ strayed' = IF sources[i] = Nil THEN strayed \ {i} ELSE strayed \cup {i}
    BY <1>3 DEF PutAt
  <2>2. strayed' \subseteq Positions /\ (i \notin strayed' => sources'[i] = Nil)
    BY <1>1, <2>1
  <2>3. \A j \in Positions \ {i} : sources'[j] = sources[j] /\ (j \in strayed' <=> j \in strayed)
    BY <2>1
  <2> QED
    BY <1>1, <2>1, <2>2, <2>3, AssignKeepsCaches
<1> QED
  BY <1>2, <1>3

\* InsertValueAt moves the elements from i on up, and forgets what it cached for them.
LEMMA InsertionProperties ==
  ASSUME SliceInv, NEW i \in Positions, NEW o \in Pointers, Insertion(i, o)
  PROVE  /\ SliceInv'
         /\ len' = (IF i > len THEN i ELSE len + 1)
         /\ \A j \in 1..len' :
                array'[j] = IF j = i THEN o
                            ELSE IF j > i THEN array[j - 1] ELSE IF j <= len THEN array[j] ELSE Nil
<1> DEFINE n == IF i > len THEN i - len ELSE 1
<1>1. SliceTypeOK /\ SlotsAreThere /\ SourcesCurrent
  BY DEF SliceInv
<1>2. len \in Nat /\ len <= MaxLen /\ Len(array) \in Nat /\ i \in 1..MaxLen
  BY <1>1, ArrayIsSeq DEF Positions
<1>3. n \in Nat /\ len + n <= MaxCap /\ len + n <= MaxLen /\ len + n = (IF i > len THEN i ELSE len + 1)
  BY <1>2, SliceAssumption DEF Insertion
<1>4. PICK new \in Grown(n) :
        /\ array' = [j \in DOMAIN new |->
                        IF j = i THEN o ELSE IF j \in (i + 1)..(len + 1) THEN new[j - 1] ELSE new[j]]
        /\ len' = len + n
        /\ Forget(KeysAfter(new), i, len')
        /\ strayed' = strayed \ (i..len')
  BY DEF Insertion
<1> HIDE DEF n
<1>5. /\ Len(new) \in Len(array)..MaxCap /\ len + n <= Len(new) /\ new \in [1..Len(new) -> Pointers]
      /\ \A j \in 1..len : new[j] = array[j]
      /\ \A j \in (len + 1)..(len + n) : new[j] = Nil
  BY <1>1, <1>3, <1>4, GrownProperties
<1>6. Len(new) \in Nat /\ Len(new) >= Len(array) /\ Len(new) <= MaxCap
  BY <1>2, <1>5, SliceAssumption
<1>7. array' \in [1..Len(new) -> Pointers]
  <2>1. DOMAIN new = 1..Len(new) /\ \A j \in 1..Len(new) : new[j] \in Pointers
    BY <1>5
  <2>2. \A j \in 1..Len(new) : j \in (i + 1)..(len + 1) => j - 1 \in 1..Len(new)
    BY <1>2, <1>6
  <2> QED
    BY <1>4, <2>1, <2>2
<1>8. Len(array') = Len(new)
  BY <1>6, <1>7, FunctionIsSeq
<1>9. len' = (IF i > len THEN i ELSE len + 1) /\ len' \in Nat /\ len' <= Len(array') /\ len' <= MaxLen
  BY <1>2, <1>3, <1>4, <1>5, <1>6, <1>8
<1>10. ASSUME NEW j \in 1..len'
       PROVE  array'[j] = IF j = i THEN o
                          ELSE IF j > i THEN array[j - 1] ELSE IF j <= len THEN array[j] ELSE Nil
  <2>1. j \in 1..Len(new) /\ j \in Nat /\ j <= len + n /\ DOMAIN new = 1..Len(new)
    BY <1>4, <1>5, <1>6, <1>8, <1>9
  <2>2. array'[j] = IF j = i THEN o ELSE IF j \in (i + 1)..(len + 1) THEN new[j - 1] ELSE new[j]
    BY <1>4, <2>1
  <2>3. CASE j = i
    BY <2>2, <2>3
  <2>4. CASE j < i
    <3>1. array'[j] = new[j]
      BY <1>2, <2>1, <2>2, <2>4
    <3> QED
      BY <1>2, <1>5, <2>1, <2>4, <3>1
  <2>5. CASE j > i
    <3>1. j \in (i + 1)..(len + 1) /\ j - 1 \in 1..len
      BY <1>2, <1>9, <2>1, <2>5
    <3>2. array'[j] = new[j - 1]
      BY <1>2, <2>1, <2>2, <2>5, <3>1
    <3> QED
      BY <1>2, <1>5, <2>1, <2>5, <3>1, <3>2
  <2> QED
    BY <1>2, <2>1, <2>3, <2>4, <2>5
<1>11. /\ KeysAfter(new) \in [Positions -> {NoSlot, Slot} \cup {OldSlot(p) : p \in Pointers}]
       /\ \A j \in Positions :
              /\ KeysAfter(new)[j] = keys[j]
                 \/ (keys[j] = Slot /\ j <= Len(array) /\ KeysAfter(new)[j] = OldSlot(array[j]))
              /\ KeysAfter(new)[j] = Slot => j <= Len(new)
  BY <1>1, <1>6, KeysAfterProperties
<1>12. /\ keys' = [j \in Positions |-> IF j \in i..len' THEN NoSlot ELSE KeysAfter(new)[j]]
       /\ sources' = [j \in Positions |-> IF j \in i..len' THEN Nil ELSE sources[j]]
  BY <1>4 DEF Forget
<1>13. SliceTypeOK'
  <2>1. keys' \in [Positions -> {NoSlot, Slot} \cup {OldSlot(p) : p \in Pointers}]
    BY <1>11, <1>12
  <2>2. sources' \in [Positions -> Pointers]
    BY <1>1, <1>12 DEF SliceTypeOK, Pointers
  <2>3. array' \in UNION {[1..c -> Pointers] : c \in 0..MaxCap}
    BY <1>6, <1>7, SliceAssumption
  <2>4. strayed' \subseteq Positions /\ len' \in 0..Len(array') /\ len' <= MaxLen
    BY <1>1, <1>4, <1>6, <1>8, <1>9 DEF SliceTypeOK
  <2> QED
    BY <2>1, <2>2, <2>3, <2>4 DEF SliceTypeOK, Positions, Pointers, Elements, NoSlot, Slot, OldSlot
<1>14. ASSUME NEW j \in Positions \ strayed'
       PROVE  /\ keys'[j] # NoSlot => j <= len'
              /\ sources'[j] # Nil => j <= len' /\ sources'[j] = array'[j]
              /\ keys'[j].in = "old" => j <= len' /\ keys'[j].holds = array'[j]
  <2>1. CASE j \in i..len'
    BY <1>12, <2>1, SlotKinds
  <2>2. CASE j \notin i..len'
    <3>1. /\ j \in Positions \ strayed /\ sources'[j] = sources[j] /\ j \in Nat /\ j > 0
          /\ keys'[j] = keys[j] \/ (keys[j] = Slot /\ keys'[j] = OldSlot(array[j]))
      BY <1>4, <1>11, <1>12, <2>2, SliceAssumption DEF Positions
    <3>2. /\ keys[j] # NoSlot => j <= len
          /\ sources[j] # Nil => j <= len /\ sources[j] = array[j]
          /\ keys[j].in = "old" => j <= len /\ keys[j].holds = array[j]
      BY <1>1, <3>1 DEF SlotsAreThere, SourcesCurrent
    <3>3. j <= len => j <= len' /\ array'[j] = array[j]
      BY <1>2, <1>9, <1>10, <2>2, <3>1
    <3>4. keys'[j] # NoSlot => keys[j] # NoSlot
      BY <3>1, SlotKinds
    <3>5. keys'[j].in = "old" => j <= len /\ keys'[j].holds = array[j]
      BY <3>1, <3>2, SlotKinds
    <3> QED
      BY <1>9, <3>1, <3>2, <3>3, <3>4, <3>5
  <2> QED
    BY <2>1, <2>2
<1>15. \A j \in Positions : keys'[j] = Slot => j <= Len(array')
  BY <1>8, <1>11, <1>12, SlotKinds
<1>16. SlotsAreThere'
  BY <1>14, <1>15 DEF SlotsAreThere, Positions, NoSlot, Slot
<1>17. SourcesCurrent'
  BY <1>14 DEF SourcesCurrent, Positions
<1> QED
  BY <1>9, <1>10, <1>13, <1>16, <1>17 DEF SliceInv

\* RemoveValueAt moves the elements after i down; the last goes if i is the position after it.
LEMMA RemovalProperties ==
  ASSUME SliceInv, NEW i \in Nat, Removal(i)
  PROVE  /\ SliceInv'
         /\ len > 0 /\ i \in 1..(len + 1) /\ len' = len - 1
         /\ \A j \in 1..len' : array'[j] = IF j < i THEN array[j] ELSE array[j + 1]
<1>1. SliceTypeOK /\ SlotsAreThere /\ SourcesCurrent
  BY DEF SliceInv
<1>2. /\ len \in Nat /\ len <= MaxLen /\ Len(array) \in 0..MaxCap /\ len <= Len(array) /\ Len(array) \in Nat
      /\ array \in [1..Len(array) -> Pointers] /\ DOMAIN array = 1..Len(array)
  BY <1>1, ArrayIsSeq, SliceAssumption
<1>3. /\ len > 0 /\ i \in 1..(len + 1)
      /\ array' = [j \in 1..Len(array) |-> IF j \in i..(len - 1) THEN array[j + 1] ELSE array[j]]
      /\ len' = len - 1
      /\ keys' = [j \in Positions |-> IF j \in i..len THEN NoSlot ELSE keys[j]]
      /\ sources' = [j \in Positions |-> IF j \in i..len THEN Nil ELSE sources[j]]
      /\ strayed' = IF i > len /\ (sources[len] # Nil \/ keys[len] # NoSlot)
                    THEN strayed \cup {len} ELSE strayed \ (i..len)
  BY <1>2 DEF Removal, Forget
<1>4. array' \in [1..Len(array) -> Pointers]
  <2>1. \A j \in 1..Len(array) : j \in i..(len - 1) => j + 1 \in 1..Len(array)
    BY <1>2, <1>3
  <2> QED
    BY <1>2, <1>3, <2>1
<1>5. Len(array') = Len(array)
  BY <1>2, <1>4, FunctionIsSeq
<1>6. ASSUME NEW j \in 1..len' PROVE array'[j] = IF j < i THEN array[j] ELSE array[j + 1]
  BY <1>2, <1>3
<1>7. SliceTypeOK'
  <2>1. keys' \in [Positions -> {NoSlot, Slot} \cup {OldSlot(p) : p \in Pointers}]
    BY <1>1, <1>3 DEF SliceTypeOK
  <2>2. sources' \in [Positions -> Pointers]
    BY <1>1, <1>3 DEF SliceTypeOK, Pointers
  <2>3. array' \in UNION {[1..c -> Pointers] : c \in 0..MaxCap}
    BY <1>2, <1>4
  <2>4. len' \in 0..Len(array') /\ len' <= MaxLen
    BY <1>2, <1>3, <1>5, SliceAssumption
  <2>5. strayed' \subseteq Positions
    <3>1. strayed \subseteq Positions
      BY <1>1 DEF SliceTypeOK
    <3>2. len \in 1..MaxLen
      BY <1>2, <1>3, SliceAssumption
    <3> QED
      BY <1>3, <3>1, <3>2 DEF Positions
  <2> QED
    BY <2>1, <2>2, <2>3, <2>4, <2>5 DEF SliceTypeOK, Positions, Pointers, Elements, NoSlot, Slot, OldSlot
<1>8. ASSUME NEW j \in Positions \ strayed'
      PROVE  /\ keys'[j] # NoSlot => j <= len'
             /\ sources'[j] # Nil => j <= len' /\ sources'[j] = array'[j]
             /\ keys'[j].in = "old" => j <= len' /\ keys'[j].holds = array'[j]
  <2>1. CASE j \in i..len
    BY <1>3, <2>1, SlotKinds
  <2>2. CASE j \notin i..len
    <3>1. j \in Positions \ strayed /\ sources'[j] = sources[j] /\ keys'[j] = keys[j] /\ j \in Nat /\ j > 0
      BY <1>3, <2>2, SliceAssumption DEF Positions
    <3>2. /\ keys[j] # NoSlot => j <= len
          /\ sources[j] # Nil => j <= len /\ sources[j] = array[j]
          /\ keys[j].in = "old" => j <= len /\ keys[j].holds = array[j]
      BY <1>1, <3>1 DEF SlotsAreThere, SourcesCurrent
    <3>3. CASE j = len
      <4>1. i > len /\ sources[j] = Nil /\ keys[j] = NoSlot
        BY <1>2, <1>3, <2>2, <3>3
      <4> QED
        BY <3>1, <4>1, SlotKinds
    <3>4. CASE j # len
      <4>1. j <= len => j \in 1..len' /\ j <= len' /\ j < i
        BY <1>2, <1>3, <2>2, <3>1, <3>4
      <4>2. j <= len => array'[j] = array[j]
        BY <1>6, <4>1
      <4> QED
        BY <3>1, <3>2, <4>1, <4>2
    <3> QED
      BY <3>3, <3>4
  <2> QED
    BY <2>1, <2>2
<1>9. \A j \in Positions : keys'[j] = Slot => j <= Len(array')
  BY <1>1, <1>3, <1>5, SlotKinds DEF SlotsAreThere
<1>10. SlotsAreThere'
  BY <1>8, <1>9 DEF SlotsAreThere, Positions, NoSlot, Slot
<1>11. SourcesCurrent'
  BY <1>8 DEF SourcesCurrent, Positions
<1> QED
  BY <1>3, <1>6, <1>7, <1>10, <1>11 DEF SliceInv

\* Value changes the slice only where it puts a zero element for a nil pointer.
LEMMA LookProperties ==
  ASSUME SliceInv, NEW i \in Positions, NEW o \in Blanks \cup {Nil}, Look(i, o)
  PROVE  /\ SliceInv' /\ len' = len
         /\ \A j \in 1..len : array'[j] = array[j] \/ (array[j] = Nil /\ array'[j] \in Blanks)
<1> DEFINE old == keys[i].in = "old"
           p == IF old THEN keys[i].holds ELSE array[i]
           e == IF p = Nil THEN o ELSE p
<1>1. SliceTypeOK /\ SlotsAreThere /\ SourcesCurrent
  BY DEF SliceInv
<1>2. /\ len \in Nat /\ len <= MaxLen /\ Len(array) \in 0..MaxCap /\ len <= Len(array) /\ Len(array) \in Nat
      /\ array \in [1..Len(array) -> Pointers]
  BY <1>1, ArrayIsSeq, SliceAssumption
<1>3. /\ sources[i] = Nil /\ (keys[i] # NoSlot \/ i <= len)
      /\ IF p = Nil THEN o \in Blanks /\ Fresh(o) ELSE o = Nil
      /\ sources' = [sources EXCEPT ![i] = e]
      /\ keys' = [keys EXCEPT ![i] = IF old THEN OldSlot(e) ELSE Slot]
      /\ array' = IF old THEN array ELSE [array EXCEPT ![i] = e]
      /\ strayed' = IF old /\ p = Nil THEN strayed \cup {i} ELSE strayed
      /\ len' = len
  BY DEF Look
<1>4. keys[i] \in {NoSlot, Slot} \cup {OldSlot(q) : q \in Pointers} /\ i \in Nat /\ i > 0
  BY <1>1, SliceAssumption DEF SliceTypeOK, Positions
<1>5. ~old => i \in 1..Len(array) /\ p \in Pointers
  <2>1. ~old => keys[i] = Slot \/ keys[i] = NoSlot
    BY <1>4, SlotKinds
  <2>2. ~old => i <= Len(array)
    BY <1>1, <1>2, <1>3, <1>4, <2>1 DEF SlotsAreThere
  <2> QED
    BY <1>2, <1>4, <2>2
<1>6. old => p \in Pointers
  BY <1>4, SlotKinds
<1>7. e \in Pointers /\ (p # Nil => e = p) /\ (p = Nil => e \in Blanks)
  BY <1>3, <1>5, <1>6 DEF Pointers, Elements
<1> HIDE DEF old, p, e
<1>8. array' \in [1..Len(array) -> Pointers]
  BY <1>2, <1>3, <1>7
<1>9. Len(array') = Len(array)
  BY <1>2, <1>8, FunctionIsSeq
<1>10. \A j \in Positions : j # i => keys'[j] = keys[j] /\ sources'[j] = sources[j] /\ array'[j] = array[j]
  BY <1>1, <1>2, <1>3 DEF SliceTypeOK
<1>11. keys'[i] = (IF old THEN OldSlot(e) ELSE Slot) /\ sources'[i] = e
  BY <1>1, <1>3 DEF SliceTypeOK
<1>12. array'[i] = IF old THEN array[i] ELSE e
  BY <1>2, <1>3, <1>5
<1>13. SliceTypeOK'
  <2>1. keys' \in [Positions -> {NoSlot, Slot} \cup {OldSlot(q) : q \in Pointers}]
    BY <1>1, <1>3, <1>7 DEF SliceTypeOK
  <2>2. sources' \in [Positions -> Pointers] /\ strayed' \subseteq Positions
    BY <1>1, <1>3, <1>7 DEF SliceTypeOK
  <2>3. array' \in UNION {[1..c -> Pointers] : c \in 0..MaxCap} /\ len' \in 0..Len(array') /\ len' <= MaxLen
    BY <1>2, <1>3, <1>8, <1>9
  <2> QED
    BY <2>1, <2>2, <2>3 DEF SliceTypeOK, Positions, Pointers, Elements, NoSlot, Slot, OldSlot
<1>14. ASSUME NEW j \in Positions \ strayed'
       PROVE  /\ keys'[j] # NoSlot => j <= len'
              /\ sources'[j] # Nil => j <= len' /\ sources'[j] = array'[j]
              /\ keys'[j].in = "old" => j <= len' /\ keys'[j].holds = array'[j]
  <2>1. /\ j \in Positions \ strayed
        /\ keys[j] # NoSlot => j <= len
        /\ sources[j] # Nil => j <= len /\ sources[j] = array[j]
        /\ keys[j].in = "old" => j <= len /\ keys[j].holds = array[j]
    BY <1>1, <1>3 DEF SlotsAreThere, SourcesCurrent
  <2>2. CASE j = i
    <3>1. i <= len
      BY <1>3, <2>1, <2>2
    <3>2. CASE old
      <4>1. p # Nil /\ e = p /\ p = array[i]
        BY <1>3, <1>7, <2>1, <2>2, <3>2 DEF old, p
      <4> QED
        BY <1>3, <1>11, <1>12, <2>2, <3>1, <3>2, <4>1, SlotKinds
    <3>3. CASE ~old
      BY <1>3, <1>11, <1>12, <2>2, <3>1, <3>3, SlotKinds
    <3> QED
      BY <3>2, <3>3
  <2>3. CASE j # i
    BY <1>3, <1>10, <2>1, <2>3
  <2> QED
    BY <2>2, <2>3
<1>15. \A j \in Positions : keys'[j] = Slot => j <= Len(array')
  BY <1>1, <1>2, <1>4, <1>5, <1>9, <1>10, <1>11, SlotKinds DEF SlotsAreThere
<1>16. SlotsAreThere'
  BY <1>14, <1>15 DEF SlotsAreThere, Positions, NoSlot, Slot
<1>17. SourcesCurrent'
  BY <1>14 DEF SourcesCurrent, Positions
<1>18. ASSUME NEW j \in 1..len PROVE array'[j] = array[j] \/ (array[j] = Nil /\ array'[j] \in Blanks)
  <2>1. j \in Positions
    BY <1>2, SliceAssumption DEF Positions
  <2>2. ~old => p = array[i]
    BY DEF p
  <2> QED
    BY <1>7, <1>10, <1>12, <2>1, <2>2
<1> QED
  BY <1>3, <1>13, <1>16, <1>17, <1>18 DEF SliceInv

-----------------------------------------------------------------------------
(* The window on a slice: what is shown of it *)

\* ValueAt(p)'.
NextValueAt(p) == IF p \in 1..len' THEN array'[p] ELSE Nil

\* What the invariant makes of the next state, with the primes where they are needed.
LEMMA NextInv ==
  ASSUME SliceInv', replica' \in Seq(Pointers), Len(replica') = len',
         \A j \in 1..len' : SameElement(replica'[j], array'[j]),
         offset' \in Nat, behind' \in BOOLEAN, unseen' \in BOOLEAN,
         shown' \in [rows : [Rows -> Pointers], up : BOOLEAN, down : BOOLEAN],
         offset' = 0 \/ offset' < len',
         ~behind' => \A r \in Rows : SameElement(shown'.rows[r], NextValueAt(offset' + r)),
         shown'.up = canUp(offset'), ~unseen' => shown'.down = canDown(offset', len')
  PROVE  ScrollInv'
<1>1. SliceTypeOK' /\ SlotsAreThere' /\ SourcesCurrent'
  BY DEF SliceInv
<1>2. ScrollTypeOK'
  BY <1>1 DEF ScrollTypeOK, Pointers, Elements, Rows
<1>3. ReplicaAgrees'
  BY DEF ReplicaAgrees, SameElement
<1>4. WindowIsShown'
  BY DEF WindowIsShown, SameElement, NextValueAt, ValueAt, Rows, canUp, canDown
<1> QED
  BY <1>1, <1>2, <1>3, <1>4 DEF ScrollInv

\* The values of the slice to come are pointers.
LEMMA NextValueType ==
  ASSUME SliceInv'
  PROVE  \A p : NextValueAt(p) \in Pointers
<1>1. PICK c \in 0..MaxCap : array' \in [1..c -> Pointers]
  BY DEF SliceInv, SliceTypeOK, Pointers, Elements
<1>2. Len(array') = c
  BY <1>1, SliceAssumption, FunctionIsSeq
<1>3. len' \in 0..c
  BY <1>2 DEF SliceInv, SliceTypeOK
<1> QED
  BY <1>1, <1>3 DEF NextValueAt, Pointers

\* What the invariant says of the state, spelled out.
LEMMA WindowFacts ==
  ASSUME ScrollInv
  PROVE  /\ SliceInv /\ len \in Nat /\ len <= MaxLen /\ Nil \in Pointers /\ Nil \notin Blanks
         /\ Capacity \in Nat /\ Capacity > 0 /\ Rows = 1..Capacity
         /\ replica \in Seq(Pointers) /\ Len(replica) = len
         /\ \A j \in 1..len : SameElement(replica[j], array[j])
         /\ offset \in Nat /\ (offset = 0 \/ offset < len) /\ behind \in BOOLEAN /\ unseen \in BOOLEAN
         /\ shown.rows \in [Rows -> Pointers] /\ shown.up \in BOOLEAN /\ shown.down \in BOOLEAN
         /\ shown = [rows |-> shown.rows, up |-> shown.up, down |-> shown.down]
         /\ ~behind => \A r \in Rows : SameElement(shown.rows[r], ValueAt(offset + r))
         /\ shown.up = canUp(offset) /\ (~unseen => shown.down = canDown(offset, len))
<1>1. ScrollTypeOK /\ ReplicaAgrees /\ WindowIsShown /\ SlotsAreThere /\ SourcesCurrent
  BY DEF ScrollInv
<1>2. SliceInv
  BY <1>1 DEF ScrollTypeOK, SliceInv
<1>3. len \in Nat /\ len <= MaxLen
  BY <1>2, ArrayIsSeq DEF SliceInv
<1>4. /\ shown.rows \in [Rows -> Pointers] /\ shown.up \in BOOLEAN /\ shown.down \in BOOLEAN
      /\ shown = [rows |-> shown.rows, up |-> shown.up, down |-> shown.down]
  BY <1>1 DEF ScrollTypeOK
<1>5. /\ replica \in Seq(Pointers) /\ offset \in Nat /\ behind \in BOOLEAN /\ unseen \in BOOLEAN
  BY <1>1 DEF ScrollTypeOK
<1> QED
  BY <1>1, <1>2, <1>3, <1>4, <1>5, SliceAssumption, CapacityAssumption
     DEF ReplicaAgrees, WindowIsShown, Rows, Pointers

-----------------------------------------------------------------------------
(* The window on a slice: every step preserves the invariant *)

LEMMA SetKeeps ==
  ASSUME ScrollInv, NEW i \in Positions, NEW v \in Pointers, Put(i, v) \/ PutAt(i, v), TellSet(i, v),
         unseen' = (unseen \/ len' > len), UNCHANGED behind
  PROVE  ScrollInv'
<1> USE WindowFacts
<1>1. Assign(i, v) /\ SliceInv'
  BY PutKeepsCaches DEF Put, PutAt
<1>2. /\ len' = (IF i > len THEN i ELSE len)
      /\ \A j \in 1..len' : array'[j] = IF j = i THEN v ELSE IF j <= len THEN array[j] ELSE Nil
  BY <1>1, AssignProperties
<1>3. i \in Nat \ {0} /\ len' \in Nat /\ len' >= len /\ i <= len'
  BY <1>2, SliceAssumption DEF Positions
<1>4. /\ replica' = WasSetAt(replica, i, v) /\ offset' = offset
      /\ shown' = [rows |-> KeySet(shown.rows, i, v), up |-> shown.up, down |-> shown.down]
  BY DEF TellSet
<1>5. /\ replica' \in Seq(Pointers) /\ Len(replica') = len'
      /\ \A j \in 1..len' : replica'[j] = IF j = i THEN v ELSE IF j <= len THEN replica[j] ELSE Nil
  <2>1. replica \in Seq(Pointers) /\ Len(replica) = len
    OBVIOUS
  <2>2. /\ WasSetAt(replica, i, v) \in Seq(Pointers)
        /\ Len(WasSetAt(replica, i, v)) = IF i > Len(replica) THEN i ELSE Len(replica)
        /\ \A j \in 1..Len(WasSetAt(replica, i, v)) :
                WasSetAt(replica, i, v)[j] = IF j = i THEN v ELSE IF j <= Len(replica) THEN replica[j] ELSE Nil
    BY ONLY <2>1, <1>3, v \in Pointers, WasSetAtProperties
  <2> QED
    BY <1>2, <1>4, <2>1, <2>2
<1>6. \A j \in 1..len' : SameElement(replica'[j], array'[j])
  BY <1>2, <1>3, <1>5 DEF SameElement
<1>7. KeySet(shown.rows, i, v) \in [Rows -> Pointers]
  BY DEF KeySet
<1>8. ASSUME ~behind, NEW r \in Rows
      PROVE  SameElement(KeySet(shown.rows, i, v)[r], NextValueAt(offset + r))
  <2>1. offset + r \in Nat /\ offset + r > 0
    OBVIOUS
  <2>2. KeySet(shown.rows, i, v)[r] = IF offset + r = i THEN v ELSE shown.rows[r]
    BY DEF KeySet
  <2>3. NextValueAt(offset + r) = IF offset + r = i THEN v ELSE ValueAt(offset + r)
    BY <1>2, <1>3, <2>1 DEF NextValueAt, ValueAt
  <2> QED
    BY <1>8, <2>2, <2>3 DEF SameElement
<1>9. offset' = 0 \/ offset' < len'
  BY <1>3, <1>4
<1>10. ~unseen' => len' = len /\ ~unseen
  <2>1. CASE len' > len
    BY <2>1
  <2>2. CASE ~(len' > len)
    BY <1>3, <2>2
  <2> QED
    BY <2>1, <2>2
<1> QED
  BY <1>1, <1>4, <1>5, <1>6, <1>7, <1>8, <1>9, <1>10, NextInv

LEMMA InsertKeeps ==
  ASSUME ScrollInv, NEW i \in Positions, NEW v \in Pointers, InsertValueAt(i, v)
  PROVE  ScrollInv'
<1> USE WindowFacts
<1>1. /\ SliceInv' /\ len' = (IF i > len THEN i ELSE len + 1)
      /\ \A j \in 1..len' :
            array'[j] = IF j = i THEN v
                        ELSE IF j > i THEN array[j - 1] ELSE IF j <= len THEN array[j] ELSE Nil
  BY InsertionProperties DEF InsertValueAt
<1>2. i \in Nat \ {0} /\ len' \in Nat /\ len' >= len /\ i <= len'
  BY <1>1, SliceAssumption DEF Positions
<1>3. /\ replica' = InsertedAt(replica, i, v) /\ offset' = offset /\ behind' = behind /\ unseen' = FALSE
      /\ shown' = [rows |-> UpdatedFrom(shown.rows, i, len'), up |-> shown.up, down |-> canDown(offset, len')]
  BY DEF InsertValueAt, TellInsert
<1>4. /\ replica' \in Seq(Pointers) /\ Len(replica') = len'
      /\ \A j \in 1..len' :
            replica'[j] = IF j = i THEN v
                          ELSE IF j > i THEN replica[j - 1] ELSE IF j <= len THEN replica[j] ELSE Nil
  <2>1. replica \in Seq(Pointers) /\ Len(replica) = len
    OBVIOUS
  <2>2. /\ InsertedAt(replica, i, v) \in Seq(Pointers)
        /\ Len(InsertedAt(replica, i, v)) = IF i > Len(replica) THEN i ELSE Len(replica) + 1
        /\ \A j \in 1..Len(InsertedAt(replica, i, v)) :
                InsertedAt(replica, i, v)[j] =
                    IF j = i THEN v
                    ELSE IF j > i THEN replica[j - 1] ELSE IF j <= Len(replica) THEN replica[j] ELSE Nil
    <3>1. \A q \in Seq(Pointers) :
            /\ InsertedAt(q, i, v) \in Seq(Pointers)
            /\ Len(InsertedAt(q, i, v)) = IF i > Len(q) THEN i ELSE Len(q) + 1
            /\ \A j \in 1..Len(InsertedAt(q, i, v)) :
                    InsertedAt(q, i, v)[j] =
                        IF j = i THEN v ELSE IF j > i THEN q[j - 1] ELSE IF j <= Len(q) THEN q[j] ELSE Nil
      BY ONLY <1>2, v \in Pointers, InsertedAtProperties
    <3> QED
      BY <2>1, <3>1
  <2> QED
    BY <1>1, <1>3, <2>1, <2>2
<1>5. ASSUME NEW j \in 1..len' PROVE SameElement(replica'[j], array'[j])
  <2>1. j \in Nat /\ j > 0 /\ j <= len'
    BY <1>2
  <2>2. j > i => j - 1 \in 1..len
    BY <1>1, <1>2, <2>1
  <2>3. j < i /\ j <= len => j \in 1..len
    BY <2>1
  <2> QED
    BY <1>1, <1>2, <1>4, <2>1, <2>2, <2>3 DEF SameElement
<1>6. \A r \in Rows :
        UpdatedFrom(shown.rows, i, len')[r] =
            IF offset + r \in i..len' THEN NextValueAt(offset + r) ELSE shown.rows[r]
  BY <1>3 DEF UpdatedFrom, NextValueAt, ValueAt
<1>7. UpdatedFrom(shown.rows, i, len') \in [Rows -> Pointers]
  BY <1>1, <1>6, NextValueType DEF UpdatedFrom
<1>8. ASSUME ~behind, NEW r \in Rows
      PROVE  SameElement(UpdatedFrom(shown.rows, i, len')[r], NextValueAt(offset + r))
  <2>1. offset + r \in Nat /\ offset + r > 0
    OBVIOUS
  <2>2. CASE offset + r \in i..len'
    BY <1>6, <2>2 DEF SameElement
  <2>3. CASE offset + r \notin i..len'
    <3>1. NextValueAt(offset + r) = ValueAt(offset + r)
      BY <1>1, <1>2, <2>1, <2>3 DEF NextValueAt, ValueAt
    <3> QED
      BY <1>6, <1>8, <2>3, <3>1
  <2> QED
    BY <2>2, <2>3
<1>9. offset' = 0 \/ offset' < len'
  BY <1>2, <1>3
<1>10. canDown(offset, len') \in BOOLEAN
  BY DEF canDown
<1> QED
  BY <1>1, <1>3, <1>4, <1>5, <1>7, <1>8, <1>9, <1>10, NextInv

LEMMA RemoveKeeps ==
  ASSUME ScrollInv, NEW i \in Nat, RemoveValueAt(i)
  PROVE  ScrollInv'
<1> USE WindowFacts
<1>1. /\ SliceInv' /\ len > 0 /\ i \in 1..(len + 1) /\ len' = len - 1
      /\ \A j \in 1..len' : array'[j] = IF j < i THEN array[j] ELSE array[j + 1]
  BY RemovalProperties DEF RemoveValueAt
<1>2. /\ replica' = RemovedAt(replica, i) /\ offset' = SlideBack(offset) /\ unseen' = FALSE
      /\ behind' = (behind \/ offset' # offset \/ i > len)
      /\ shown' = [rows |-> UpdatedFrom(KeySet(shown.rows, i, Nil), i, len),
                   up |-> canUp(offset'), down |-> canDown(offset', len')]
  BY DEF RemoveValueAt, TellRemove
<1>3. /\ replica' \in Seq(Pointers) /\ Len(replica') = len'
      /\ \A j \in 1..len' : replica'[j] = IF j < i THEN replica[j] ELSE replica[j + 1]
  <2>1. replica \in Seq(Pointers) /\ Len(replica) = len /\ Len(replica) > 0 /\ i \in 1..(Len(replica) + 1)
    BY <1>1
  <2>2. /\ RemovedAt(replica, i) \in Seq(Pointers) /\ Len(RemovedAt(replica, i)) = Len(replica) - 1
        /\ \A j \in 1..(Len(replica) - 1) :
                RemovedAt(replica, i)[j] = IF j < i THEN replica[j] ELSE replica[j + 1]
    BY ONLY <2>1, RemovedAtProperties
  <2> QED
    BY <1>1, <1>2, <2>1, <2>2
<1>4. ASSUME NEW j \in 1..len' PROVE SameElement(replica'[j], array'[j])
  <2>1. j \in 1..len /\ j + 1 \in 1..len
    BY <1>1
  <2> QED
    BY <1>1, <1>3, <2>1 DEF SameElement
<1>5. offset' \in Nat /\ (offset' = 0 \/ offset' < len')
  BY <1>1, <1>2 DEF SlideBack, AtLeast0, Lower
<1>6. KeySet(shown.rows, i, Nil) \in [Rows -> Pointers]
  BY DEF KeySet
<1>7. \A r \in Rows :
        UpdatedFrom(KeySet(shown.rows, i, Nil), i, len)[r] =
            IF offset' + r \in i..len THEN NextValueAt(offset' + r) ELSE KeySet(shown.rows, i, Nil)[r]
  BY DEF UpdatedFrom, NextValueAt, ValueAt
<1>8. UpdatedFrom(KeySet(shown.rows, i, Nil), i, len) \in [Rows -> Pointers]
  BY <1>1, <1>6, <1>7, NextValueType DEF UpdatedFrom
<1>9. ASSUME ~behind', NEW r \in Rows
      PROVE  SameElement(UpdatedFrom(KeySet(shown.rows, i, Nil), i, len)[r], NextValueAt(offset' + r))
  <2>1. ~behind /\ offset' = offset /\ i <= len
    <3>1. ~(behind \/ offset' # offset \/ i > len)
      BY <1>2, <1>9
    <3> QED
      BY <1>1, <3>1
  <2>2. offset + r \in Nat /\ offset + r > 0
    OBVIOUS
  <2>3. CASE offset + r \in i..len
    BY <1>7, <2>1, <2>3 DEF SameElement
  <2>4. CASE offset + r \notin i..len
    <3>1. offset + r # i
      BY <1>1, <2>1, <2>4
    <3>2. KeySet(shown.rows, i, Nil)[r] = shown.rows[r]
      BY <3>1 DEF KeySet
    <3>3. NextValueAt(offset + r) = ValueAt(offset + r)
      BY <1>1, <2>1, <2>2, <2>4 DEF NextValueAt, ValueAt
    <3> QED
      BY <1>7, <2>1, <2>4, <3>2, <3>3
  <2> QED
    BY <2>3, <2>4
<1>10. canUp(offset') \in BOOLEAN /\ canDown(offset', len') \in BOOLEAN /\ behind' \in BOOLEAN
  BY <1>2 DEF canUp, canDown
<1> QED
  BY <1>1, <1>2, <1>3, <1>4, <1>5, <1>8, <1>9, <1>10, NextInv

LEMMA LookKeeps ==
  ASSUME ScrollInv, NEW row \in Rows, NEW o \in Blanks \cup {Nil}, Value(row, o)
  PROVE  ScrollInv'
<1> USE WindowFacts
<1>1. /\ SliceInv' /\ len' = len
      /\ \A j \in 1..len : array'[j] = array[j] \/ (array[j] = Nil /\ array'[j] \in Blanks)
  BY LookProperties DEF Value
<1>2. UNCHANGED <<replica, offset, shown, behind, unseen>>
  BY DEF Value
<1>3. \A j \in 1..len' : SameElement(replica'[j], array'[j])
  BY <1>1, <1>2 DEF SameElement
<1>4. \A p : NextValueAt(p) = ValueAt(p) \/ (ValueAt(p) = Nil /\ NextValueAt(p) \in Blanks)
  BY <1>1 DEF NextValueAt, ValueAt
<1>5. \A r \in Rows : SameElement(shown.rows[r], ValueAt(offset + r))
                        => SameElement(shown.rows[r], NextValueAt(offset + r))
  BY <1>4 DEF SameElement
<1> QED
  BY <1>1, <1>2, <1>3, <1>5, NextInv

LEMMA MoveKeeps ==
  ASSUME ScrollInv, NEW off \in Nat, off = 0 \/ off < len, MoveTo(off)
  PROVE  ScrollInv'
<1> USE WindowFacts
<1>1. /\ offset' = off /\ behind' = FALSE /\ unseen' = FALSE
      /\ shown' = [rows |-> [r \in Rows |-> ValueAt(off + r)], up |-> canUp(off), down |-> canDown(off, len)]
      /\ array' = array /\ len' = len /\ keys' = keys /\ sources' = sources /\ strayed' = strayed
      /\ replica' = replica
  BY DEF MoveTo, Window, slots, caches
<1>2. SliceInv'
  <2>1. SliceTypeOK' /\ SlotsAreThere' /\ SourcesCurrent'
    BY <1>1 DEF SliceInv, SliceTypeOK, SlotsAreThere, SourcesCurrent, Positions, Pointers, Elements,
                NoSlot, Slot, OldSlot
  <2> QED
    BY <2>1 DEF SliceInv
<1>3. \A p : NextValueAt(p) = ValueAt(p)
  BY <1>1 DEF NextValueAt, ValueAt
<1>4. [r \in Rows |-> ValueAt(off + r)] \in [Rows -> Pointers]
  BY <1>2, <1>3, NextValueType
<1>5. canUp(off) \in BOOLEAN /\ canDown(off, len) \in BOOLEAN
  BY DEF canUp, canDown
<1>6. \A r \in Rows : SameElement([q \in Rows |-> ValueAt(off + q)][r], NextValueAt(off + r))
  BY <1>3 DEF SameElement
<1> QED
  BY <1>1, <1>2, <1>4, <1>5, <1>6, NextInv

LEMMA ScrollInitially == ScrollInit => ScrollInv
<1> SUFFICES ASSUME ScrollInit PROVE ScrollInv
  OBVIOUS
<1>1. PICK c \in 0..MaxLen : array \in [1..c -> Items]
  BY DEF ScrollInit, InitSlice
<1>2. c \in Nat /\ c \in 0..MaxCap /\ c <= MaxLen /\ array \in [1..c -> Pointers]
  BY <1>1, SliceAssumption DEF Pointers, Elements
<1>3. Len(array) = c /\ len = c
  BY <1>2, FunctionIsSeq DEF ScrollInit, InitSlice
<1>4. keys = [j \in Positions |-> NoSlot] /\ sources = [j \in Positions |-> Nil] /\ strayed = {}
  BY DEF ScrollInit, InitSlice
<1>5. SliceTypeOK
  BY <1>2, <1>3, <1>4 DEF SliceTypeOK, Pointers
<1>6. SlotsAreThere /\ SourcesCurrent
  BY <1>4, SlotKinds DEF SlotsAreThere, SourcesCurrent
<1>7. /\ offset = 0 /\ behind = FALSE /\ unseen = FALSE /\ replica = slice
      /\ shown = [rows |-> [r \in Rows |-> ValueAt(0 + r)], up |-> canUp(0), down |-> canDown(0, len)]
  BY DEF ScrollInit, Window
<1>8. replica \in Seq(Pointers) /\ ReplicaAgrees
  BY <1>5, <1>7, ArrayIsSeq DEF ReplicaAgrees, SameElement
<1>9. \A p : ValueAt(p) \in Pointers
  BY <1>2, <1>3 DEF ValueAt, Pointers
<1>10. shown \in [rows : [Rows -> Pointers], up : BOOLEAN, down : BOOLEAN]
  BY <1>7, <1>9 DEF canUp, canDown
<1>11. ScrollTypeOK
  BY <1>5, <1>7, <1>8, <1>10 DEF ScrollTypeOK
<1>12. WindowIsShown
  BY <1>7 DEF WindowIsShown, SameElement
<1> QED
  BY <1>6, <1>8, <1>11, <1>12 DEF ScrollInv

LEMMA ScrollStep ==
  ASSUME ScrollInv, [ScrollNext]_scrollVars
  PROVE  ScrollInv'
<1> USE WindowFacts
<1>1. ASSUME NEW i \in Positions, NEW v \in Items \cup {Nil}, SetValue(i, v) \/ SetValueAt(i, v) PROVE ScrollInv'
  BY <1>1, SetKeeps DEF SetValue, SetValueAt, Pointers, Elements
<1>2. ASSUME NEW i \in Positions, NEW v \in Items, InsertValueAt(i, v) PROVE ScrollInv'
  BY <1>2, InsertKeeps DEF Pointers, Elements
<1>3. ASSUME NEW i \in 1..(MaxLen + 1), RemoveValueAt(i) PROVE ScrollInv'
  BY <1>3, RemoveKeeps
<1>4. CASE Up
  <2>1. MoveTo(offset - 1) /\ offset - 1 \in Nat /\ (offset - 1 = 0 \/ offset - 1 < len)
    BY <1>4 DEF Up, canUp
  <2> QED
    BY <2>1, MoveKeeps
<1>5. CASE Down
  <2> DEFINE off == AtLeast0(Lower(len - Capacity, offset + 1))
  <2>1. MoveTo(off) /\ off \in Nat /\ (off = 0 \/ off < len)
    BY <1>5 DEF Down, canDown, AtLeast0, Lower
  <2> QED
    BY <2>1, MoveKeeps
<1>6. CASE PageUp
  <2> DEFINE off == AtLeast0(offset - Capacity)
  <2>1. MoveTo(off) /\ off \in Nat /\ (off = 0 \/ off < len)
    BY <1>6 DEF PageUp, canUp, AtLeast0
  <2> QED
    BY <2>1, MoveKeeps
<1>7. CASE PageDown
  <2> DEFINE off == AtLeast0(Lower(len - 1, offset + Capacity))
  <2>1. MoveTo(off) /\ off \in Nat /\ (off = 0 \/ off < len)
    BY <1>7 DEF PageDown, canDown, AtLeast0, Lower
  <2> QED
    BY <2>1, MoveKeeps
<1>8. ASSUME NEW o \in Blanks, Insert(o) PROVE ScrollInv'
  <2>1. offset + 1 \in Positions
    BY SliceAssumption DEF Positions
  <2> QED
    BY <1>8, <2>1, InsertKeeps DEF Insert, Pointers, Elements
<1>9. ASSUME NEW row \in Rows, NEW o \in Blanks \cup {Nil}, Value(row, o) PROVE ScrollInv'
  BY <1>9, LookKeeps
<1>10. ASSUME NEW row \in Rows, NEW v \in Items, SetRow(row, v) PROVE ScrollInv'
  BY <1>1, <1>10 DEF SetRow
<1>11. CASE UNCHANGED scrollVars
  <2>1. /\ array' = array /\ len' = len /\ keys' = keys /\ sources' = sources /\ strayed' = strayed
        /\ replica' = replica /\ offset' = offset /\ shown' = shown /\ behind' = behind /\ unseen' = unseen
    BY <1>11 DEF scrollVars, slots, caches
  <2>2. SliceInv'
    <3>1. SliceTypeOK' /\ SlotsAreThere' /\ SourcesCurrent'
      BY <2>1 DEF SliceInv, SliceTypeOK, SlotsAreThere, SourcesCurrent, Positions, Pointers, Elements,
                  NoSlot, Slot, OldSlot
    <3> QED
      BY <3>1 DEF SliceInv
  <2>3. \A p : NextValueAt(p) = ValueAt(p)
    BY <2>1 DEF NextValueAt, ValueAt
  <2> QED
    BY <2>1, <2>2, <2>3, NextInv
<1> QED
  BY <1>1, <1>2, <1>3, <1>4, <1>5, <1>6, <1>7, <1>8, <1>9, <1>10, <1>11
     DEF ScrollNext, Operate, Scrolling

-----------------------------------------------------------------------------
(* The window on a slice: the theorems *)

LEMMA ScrollInvariance == ScrollSpec => []ScrollInv
<1> QED
  BY ScrollInitially, ScrollStep, PTL DEF ScrollSpec

\* Every variable keeps its type, for elements, lengths and windows of any number and
\* size; so the offset of the window is never negative.
THEOREM ScrollTypes == ScrollSpec => []ScrollTypeOK
<1> QED
  BY ScrollInvariance, PTL DEF ScrollInv

\* A Model that observes another and makes the changes it is told of (SetValueAt,
\* InsertValueAt, RemoveValueAt) holds the same elements, whichever operations made them.
THEOREM ReplicaFollows == ScrollSpec => []ReplicaAgrees
<1> QED
  BY ScrollInvariance, PTL DEF ScrollInv

\* No source and no slot that a Model has cached for a position is that of an element
\* which is elsewhere by now, but at the positions the code leaves behind.
THEOREM SourcesAreCurrent == ScrollSpec => []SourcesCurrent
<1> QED
  BY ScrollInvariance, PTL DEF ScrollInv

\* The page shows the window's elements and its buttons work, however the slice is
\* changed under the window, but where the code does not tell it.
THEOREM WindowIsCurrent == ScrollSpec => []WindowIsShown
<1> QED
  BY ScrollInvariance, PTL DEF ScrollInv

=============================================================================
