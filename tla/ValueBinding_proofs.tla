-------------------------- MODULE ValueBinding_proofs --------------------------
(***************************************************************************)
(* Proofs about ValueBinding for any number of keys, goroutines and writes: *)
(* nothing is sent back to where it came from, and at rest the copies agree *)
(* on the keys whose last write met no other change.                       *)
(***************************************************************************)
EXTENDS ValueBinding, FiniteSetTheorems, TLAPS

-----------------------------------------------------------------------------
(* The inductive invariant *)

\* Each counter is the number of changes being applied on its side.
Counted ==
    /\ IsFiniteSet(serving) /\ updating.server = Cardinality(serving)
    /\ \/ applying = {} /\ updating.page = 0
       \/ \E c \in Change : applying = {c} /\ updating.page = 1

\* A set is on the wire or served, and served once; ids are those given so far.
ServedOnce ==
    /\ \A c \in sets : c.id <= Last /\ \A h \in serving : h.c # c
    /\ \A h \in serving : h.c.id <= Last /\ \A g \in serving : g.c = h.c => g = h
    /\ \A k \in Keys : model[k] <= Last /\ snapshot[k] <= Last

\* Goroutines of the application carry its own changes.
OwnChanges == \A w \in Workers : worker[w].at # "idle" => worker[w].c.by = "app"

\* Nothing is sent before there is somebody to receive it.
BeforeBinding ==
    /\ bind # "attached" => pushes = {} /\ applying = {}
    /\ bind \in {"observing", "requested"} => sets = {} /\ serving = {}

\* A change on its way that the application, or the page, has made.
AppChange(c) ==
    \/ \E w \in Workers : worker[w].at # "idle" /\ worker[w].c = c
    \/ c \in pushes \/ c \in applying
PageChange(c) == c \in sets \/ \E h \in serving : h.c = c

\* The changes on their way of a key that is not raced are all of one side, and
\* are what that side has.
OneSided == \A c, d \in Change : AppChange(c) /\ PageChange(d) /\ c.key = d.key => c.key \in raced
Newest ==
    \A c \in Change : c.key \notin raced =>
        (AppChange(c) => c.id = model[c.key]) /\ (PageChange(c) => c.id = copy[c.key])

\* The copies agree on such a key, or will: a change is on its way to the other
\* side, or the page has no copy yet and will get one that agrees.
WillAgree(k) ==
    \/ \E w \in Workers : worker[w].at = "wrote" /\ worker[w].c.key = k
    \/ \E c \in pushes : c.key = k
    \/ \E c \in sets : c.key = k
    \/ \E h \in serving : h.at = "begun" /\ h.c.key = k
    \/ bind = "observing"
    \/ bind = "requested" /\ model[k] = snapshot[k]
    \/ bind \in {"created", "attached"} /\ model[k] = copy[k]
Agreeing == \A k \in Keys \ raced : WillAgree(k)

\* A write that is in the snapshot, and not yet told, is in the copy.
InSnapshot ==
    bind = "created" => \A w \in Workers :
        worker[w].at = "wrote" /\ worker[w].c.key \notin raced
            /\ snapshot[worker[w].c.key] = worker[w].c.id
                => copy[worker[w].c.key] = worker[w].c.id

IInv ==
    /\ TypeOK
    /\ NoEcho
    /\ Counted
    /\ ServedOnce
    /\ OwnChanges
    /\ BeforeBinding
    /\ OneSided
    /\ Newest
    /\ Agreeing
    /\ InSnapshot

-----------------------------------------------------------------------------
(* Every step preserves it *)

\* The initial states satisfy the invariant.
LEMMA Initially == Init => IInv
<1> SUFFICES ASSUME Init PROVE IInv
  OBVIOUS
<1> USE ValueBindingAssumption DEF Init, Ids, Last, Idle
<1>1. TypeOK
  BY FS_EmptySet DEF TypeOK
<1>2. Counted
  BY FS_EmptySet DEF Counted
<1>3. NoEcho /\ ServedOnce /\ OwnChanges /\ BeforeBinding /\ InSnapshot
  BY DEF NoEcho, ServedOnce, OwnChanges, BeforeBinding, InSnapshot
<1>4. OneSided /\ Newest /\ Agreeing
  BY DEF OneSided, Newest, AppChange, PageChange, Agreeing, WillAgree
<1> QED
  BY <1>1, <1>2, <1>3, <1>4 DEF IInv

\* Every step of the system preserves the invariant.
LEMMA Step ==
  ASSUME IInv, [Next]_vars
  PROVE  IInv'
<1> USE ValueBindingAssumption DEF IInv, TypeOK, Ids, Last, Change, Idle, vars
<1>1. CASE RequestBinding
  <2> USE <1>1 DEF RequestBinding
  <2>1. TypeOK'
    BY DEF Counted
  <2>2. NoEcho' /\ OwnChanges' /\ BeforeBinding'
    BY DEF NoEcho, OwnChanges, BeforeBinding
  <2>3. Counted'
    BY DEF Counted
  <2>4. ServedOnce'
    BY DEF ServedOnce
  <2>5. OneSided'
    BY DEF OneSided, AppChange, PageChange
  <2>6. Newest'
    BY DEF Newest, AppChange, PageChange
  <2>7. Agreeing'
    BY DEF Agreeing, WillAgree
  <2>8. InSnapshot'
    BY DEF InSnapshot
  <2> QED
    BY <2>1, <2>2, <2>3, <2>4, <2>5, <2>6, <2>7, <2>8
<1>2. CASE NewValueBinding
  <2> USE <1>2 DEF NewValueBinding
  <2>1. sets = {} /\ serving = {} /\ pushes = {} /\ applying = {}
    BY DEF BeforeBinding
  <2>2. TypeOK' /\ NoEcho' /\ OwnChanges' /\ BeforeBinding' /\ Counted' /\ ServedOnce'
    BY DEF NoEcho, OwnChanges, BeforeBinding, Counted, ServedOnce
  <2>3. OneSided' /\ Newest'
    BY <2>1 DEF OneSided, Newest, AppChange, PageChange
  <2>4. Agreeing' /\ InSnapshot'
    BY <2>1 DEF Agreeing, WillAgree, InSnapshot
  <2> QED
    BY <2>2, <2>3, <2>4
<1>3. CASE AttachObserver
  <2> USE <1>3 DEF AttachObserver
  <2>1. TypeOK'
    BY DEF Counted
  <2>2. NoEcho' /\ OwnChanges' /\ BeforeBinding'
    BY DEF NoEcho, OwnChanges, BeforeBinding
  <2>3. Counted'
    BY DEF Counted
  <2>4. ServedOnce'
    BY DEF ServedOnce
  <2>5. OneSided'
    BY DEF OneSided, AppChange, PageChange
  <2>6. Newest'
    BY DEF Newest, AppChange, PageChange
  <2>7. Agreeing'
    BY DEF Agreeing, WillAgree
  <2>8. InSnapshot'
    BY DEF InSnapshot
  <2> QED
    BY <2>1, <2>2, <2>3, <2>4, <2>5, <2>6, <2>7, <2>8
<1>4. ASSUME NEW w \in Workers, AppNotify(w) PROVE IInv'
  <2> USE <1>4 DEF AppNotify, Heard
  <2> DEFINE c == worker[w].c
  <2>1. c \in Change /\ c.by = "app"
    BY DEF OwnChanges
  <2>2. TypeOK'
    OBVIOUS
  <2>3. /\ NoEcho' /\ OwnChanges' /\ BeforeBinding'
        /\ Counted'
        /\ ServedOnce'
    <3>1. NoEcho'
      BY <2>1 DEF NoEcho
    <3>2. OwnChanges'
      <4>1. worker'[w] = Idle \/ worker'[w].c = c
        <5>1. worker[w] \in [at : {"wrote", "pushing"}, c : Change] /\ w \in DOMAIN worker
          BY DEF Idle
        <5>2. worker'[w] = Idle \/ worker'[w] = [worker[w] EXCEPT !.at = "pushing"]
          BY <5>1
        <5> QED
          BY ONLY <5>1, <5>2
      <4>2. \A v \in Workers : v # w => worker'[v] = worker[v]
        OBVIOUS
      <4>3. Idle.at = "idle"
        BY DEF Idle
      <4> QED
        BY <2>1, <4>1, <4>2, <4>3 DEF OwnChanges
    <3>3. BeforeBinding'
      BY DEF BeforeBinding
    <3>4. Counted'
      BY DEF Counted
    <3>5. ServedOnce'
      BY DEF ServedOnce
    <3> QED
      BY <3>1, <3>2, <3>3, <3>4, <3>5
  <2>4. OneSided' /\ Newest'
    BY DEF OneSided, Newest, AppChange, PageChange
  <2>5. Agreeing'
    <3> SUFFICES ASSUME NEW k \in Keys \ raced' PROVE WillAgree(k)'
      BY DEF Agreeing
    <3>1. CASE k # c.key
      BY <3>1 DEF Agreeing, WillAgree
    <3>2. CASE k = c.key /\ bind = "attached"
      <4>1. serving = {} /\ updating.server = 0
        BY <3>2, FS_EmptySet DEF Counted
      <4> QED
        BY <3>2, <4>1 DEF WillAgree
    <3>3. CASE k = c.key /\ bind # "attached"
      <4>1. c.id = model[k]
        BY <2>1, <3>3 DEF Newest, AppChange
      <4>2. bind = "requested" => model[k] = snapshot[k]
        BY <3>3, <4>1
      <4>3. bind = "created" => model[k] = copy[k]
        BY <3>3, <4>1 DEF InSnapshot
      <4> QED
        BY <3>3, <4>2, <4>3 DEF WillAgree
    <3> QED
      BY <3>1, <3>2, <3>3
  <2>6. InSnapshot'
    BY DEF InSnapshot
  <2> QED
    BY <2>2, <2>3, <2>4, <2>5, <2>6
<1>5. ASSUME NEW w \in Workers, NEW k \in Keys, AppWrite(w, k) PROVE IInv'
  <2> USE <1>5 DEF AppWrite, Raced, Outstanding
  <2>1. TypeOK' /\ NoEcho' /\ OwnChanges' /\ BeforeBinding' /\ Counted' /\ ServedOnce'
    BY DEF NoEcho, OwnChanges, BeforeBinding, Counted, ServedOnce
  <2>2. OneSided'
    BY DEF OneSided, AppChange, PageChange
  <2>3. Newest'
    BY DEF Newest, AppChange, PageChange
  <2>4. Agreeing'
    BY DEF Agreeing, WillAgree
  <2>5. InSnapshot'
    <3> SUFFICES ASSUME bind = "created", NEW v \in Workers, worker'[v].at = "wrote",
                        worker'[v].c.key \notin raced', snapshot[worker'[v].c.key] = worker'[v].c.id
                 PROVE  copy[worker'[v].c.key] = worker'[v].c.id
      BY DEF InSnapshot
    <3>1. v # w
      BY DEF ServedOnce
    <3>2. worker'[v] = worker[v] /\ worker[v].c.key # k
      BY <3>1
    <3> QED
      BY <3>2 DEF InSnapshot
  <2> QED
    BY <2>1, <2>2, <2>3, <2>4, <2>5
<1>6. ASSUME NEW c \in pushes, ApplyPush(c) PROVE IInv'
  <2> USE <1>6 DEF ApplyPush, Heard
  <2>1. c \in Change /\ sets' = sets /\ updating' = [server |-> updating.server, page |-> updating.page + 1]
    OBVIOUS
  <2>2. updating.page = 0
    BY DEF Counted
  <2>3. TypeOK'
    <3>1. Cardinality({c}) = 1 /\ applying' = {c}
      BY FS_Singleton
    <3> QED
      BY <2>1, <3>1
  <2>4. NoEcho' /\ OwnChanges' /\ BeforeBinding' /\ ServedOnce' /\ Counted'
    BY <2>1, <2>2 DEF NoEcho, OwnChanges, BeforeBinding, ServedOnce, Counted
  <2>5. OneSided'
    BY <2>1 DEF OneSided, AppChange, PageChange
  <2>6. c.key \notin raced => c.id = model[c.key] /\ \A d \in Change : PageChange(d) => d.key # c.key
    BY <2>1 DEF OneSided, Newest, AppChange
  <2>7. Newest'
    <3> SUFFICES ASSUME NEW d \in Change, d.key \notin raced
                 PROVE  (AppChange(d)' => d.id = model[d.key]) /\ (PageChange(d) => d.id = copy'[d.key])
      BY <2>1 DEF Newest, PageChange
    <3>1. AppChange(d)' => AppChange(d)
      BY DEF AppChange
    <3>2. PageChange(d) => copy'[d.key] = copy[d.key]
      BY <2>1, <2>6
    <3> QED
      BY <3>1, <3>2 DEF Newest
  <2>8. Agreeing'
    <3> SUFFICES ASSUME NEW k \in Keys \ raced PROVE WillAgree(k)'
      BY DEF Agreeing
    <3>1. bind = "attached"
      BY DEF BeforeBinding
    <3>2. CASE k = c.key
      BY <2>1, <2>6, <3>1, <3>2 DEF WillAgree
    <3>3. CASE k # c.key
      <4>1. WillAgree(k) /\ copy'[k] = copy[k]
        BY <2>1, <3>3 DEF Agreeing
      <4> QED
        BY <2>1, <3>1, <3>3, <4>1 DEF WillAgree
    <3> QED
      BY <3>2, <3>3
  <2>9. InSnapshot'
    BY DEF InSnapshot, BeforeBinding
  <2> QED
    BY <2>3, <2>4, <2>5, <2>7, <2>8, <2>9
<1>7. ASSUME NEW c \in applying, PushApplied(c) PROVE IInv'
  <2> USE <1>7 DEF PushApplied
  <2>1. updating.page = 1 /\ updating' = [server |-> updating.server, page |-> 0] /\ applying' = {}
    BY DEF Counted
  <2>2. worker' \in [Workers -> {Idle} \cup [at : {"wrote", "pushing"}, c : Change]]
    OBVIOUS
  <2>3. TypeOK'
    BY <2>1, <2>2, FS_EmptySet
  <2>4. NoEcho' /\ OwnChanges' /\ BeforeBinding' /\ ServedOnce' /\ Counted'
    BY <2>1 DEF NoEcho, OwnChanges, BeforeBinding, ServedOnce, Counted
  <2>5. OneSided' /\ Newest'
    BY DEF OneSided, Newest, AppChange, PageChange
  <2>6. Agreeing' /\ InSnapshot'
    BY DEF Agreeing, WillAgree, InSnapshot
  <2> QED
    BY <2>3, <2>4, <2>5, <2>6
<1>8. ASSUME NEW k \in Keys, PageWrite(k) PROVE IInv'
  <2> USE <1>8 DEF PageWrite, Heard, Raced, Outstanding
  <2> DEFINE c == [key |-> k, id |-> Last + 1, by |-> "page"]
  <2>1. TypeOK' /\ NoEcho' /\ OwnChanges' /\ BeforeBinding' /\ Counted' /\ ServedOnce'
    BY DEF NoEcho, OwnChanges, BeforeBinding, Counted, ServedOnce
  <2>2. OneSided'
    BY DEF OneSided, AppChange, PageChange
  <2>3. Newest'
    BY DEF Newest, AppChange, PageChange
  <2>4. Agreeing'
    <3> SUFFICES ASSUME NEW j \in Keys \ raced' PROVE WillAgree(j)'
      BY DEF Agreeing
    <3>1. CASE j = k
      <4>1. applying = {} /\ updating.page = 0
        BY <3>1 DEF Counted
      <4>2. c \in sets' /\ c.key = j
        BY <3>1, <4>1
      <4> QED
        BY <4>2 DEF WillAgree
    <3>2. CASE j # k
      <4>1. WillAgree(j) /\ copy'[j] = copy[j]
        BY <3>2 DEF Agreeing
      <4> QED
        BY <4>1 DEF WillAgree
    <3> QED
      BY <3>1, <3>2
  <2>5. InSnapshot'
    BY DEF InSnapshot
  <2> QED
    BY <2>1, <2>2, <2>3, <2>4, <2>5
<1>9. ASSUME NEW c \in sets, ServeSet(c) PROVE IInv'
  <2> USE <1>9 DEF ServeSet
  <2> DEFINE h == [at |-> "begun", c |-> c]
  <2>1. h \notin serving /\ serving' = serving \cup {h}
    BY DEF ServedOnce
  <2>2. updating' = [server |-> updating.server + 1, page |-> updating.page]
    OBVIOUS
  <2>3. TypeOK' /\ NoEcho' /\ OwnChanges' /\ BeforeBinding' /\ ServedOnce'
    BY DEF NoEcho, OwnChanges, BeforeBinding, ServedOnce
  <2>4. Counted'
    BY <2>1, <2>2, FS_AddElement DEF Counted
  <2>5. OneSided' /\ Newest'
    BY DEF OneSided, Newest, AppChange, PageChange
  <2>6. Agreeing'
    <3> SUFFICES ASSUME NEW k \in Keys \ raced PROVE WillAgree(k)'
      BY DEF Agreeing
    <3>1. CASE k = c.key
      <4>1. h \in serving' /\ h.at = "begun" /\ h.c.key = k
        BY <2>1, <3>1
      <4> QED
        BY <4>1 DEF WillAgree
    <3>2. CASE k # c.key
      <4>1. WillAgree(k)
        BY DEF Agreeing
      <4> QED
        BY <2>1, <3>2, <4>1 DEF WillAgree
    <3> QED
      BY <3>1, <3>2
  <2>7. InSnapshot'
    BY DEF InSnapshot
  <2> QED
    BY <2>3, <2>4, <2>5, <2>6, <2>7
<1>10. ASSUME NEW h \in serving, StoreSet(h) PROVE IInv'
  <2> USE <1>10 DEF StoreSet, Heard
  <2> DEFINE g == [h EXCEPT !.at = "stored"]
             c == h.c
  <2>1. g \in [at : {"begun", "stored"}, c : Change] /\ g.at = "stored" /\ g.c = c /\ g # h /\ c \in Change
    OBVIOUS
  <2>2. g \notin serving /\ serving' = (serving \ {h}) \cup {g}
    BY <2>1 DEF ServedOnce
  <2>3. IsFiniteSet(serving') /\ Cardinality(serving') = Cardinality(serving) /\ Cardinality(serving) # 0
    <3>1. IsFiniteSet(serving \ {h}) /\ Cardinality(serving \ {h}) = Cardinality(serving) - 1
          /\ g \notin serving \ {h}
      BY <2>2, FS_RemoveElement DEF Counted
    <3>2. Cardinality(serving) \in Nat /\ Cardinality(serving) # 0
      BY FS_CardinalityType, FS_EmptySet DEF Counted
    <3> HIDE DEF g
    <3>3. IsFiniteSet((serving \ {h}) \cup {g})
          /\ Cardinality((serving \ {h}) \cup {g}) = Cardinality(serving \ {h}) + 1
      BY <3>1, FS_AddElement
    <3> QED
      BY ONLY <2>2, <3>1, <3>2, <3>3
  <2>4. pushes' = pushes
    BY <2>3, FS_CardinalityType DEF Counted
  <2> HIDE DEF g, c
  <2>5. TypeOK'
    BY <2>1, <2>2, <2>4 DEF c
  <2>6. NoEcho' /\ OwnChanges' /\ BeforeBinding' /\ Counted'
    BY <2>2, <2>3, <2>4 DEF NoEcho, OwnChanges, BeforeBinding, Counted
  <2>7. ServedOnce'
    BY <2>1, <2>2 DEF ServedOnce, c
  <2>8. \A d \in Change : (AppChange(d)' <=> AppChange(d)) /\ (PageChange(d)' <=> PageChange(d))
    BY <2>1, <2>2, <2>4 DEF AppChange, PageChange, c
  <2>9. PageChange(c) /\ (c.key \notin raced => c.id = copy[c.key])
    BY <2>1 DEF PageChange, Newest, c
  <2>10. OneSided'
    BY <2>8 DEF OneSided
  <2>11. Newest'
    <3> SUFFICES ASSUME NEW d \in Change, d.key \notin raced
                 PROVE  (AppChange(d) => d.id = model'[d.key]) /\ (PageChange(d) => d.id = copy[d.key])
      BY <2>8 DEF Newest
    <3>1. AppChange(d) => d.key # c.key
      BY <2>1, <2>9 DEF OneSided
    <3> QED
      BY <3>1 DEF Newest, c
  <2>12. Agreeing'
    <3> SUFFICES ASSUME NEW k \in Keys \ raced PROVE WillAgree(k)'
      BY DEF Agreeing
    <3>1. CASE k = c.key
      <4>1. bind \in {"created", "attached"}
        BY DEF BeforeBinding
      <4> QED
        BY <2>9, <3>1, <4>1 DEF WillAgree, c
    <3>2. CASE k # c.key
      <4>1. WillAgree(k) /\ model'[k] = model[k]
        BY <3>2 DEF Agreeing, c
      <4> QED
        BY <2>2, <2>4, <3>2, <4>1 DEF WillAgree, c
    <3> QED
      BY <3>1, <3>2
  <2>13. InSnapshot'
    BY DEF InSnapshot
  <2> QED
    BY <2>5, <2>6, <2>7, <2>10, <2>11, <2>12, <2>13
<1>11. ASSUME NEW h \in serving, SetServed(h) PROVE IInv'
  <2> USE <1>11 DEF SetServed
  <2>1. updating' = [server |-> updating.server - 1, page |-> updating.page]
    OBVIOUS
  <2>2. Counted'
    <3>1. IsFiniteSet(serving \ {h}) /\ Cardinality(serving \ {h}) = Cardinality(serving) - 1
      BY FS_RemoveElement DEF Counted
    <3>2. serving' = serving \ {h} /\ updating'.server = updating.server - 1 /\ updating'.page = updating.page
      BY <2>1
    <3> QED
      BY <3>1, <3>2 DEF Counted
  <2>3. updating'.server \in Nat
    BY <2>2, FS_CardinalityType DEF Counted
  <2>4. TypeOK'
    BY <2>1, <2>3
  <2>5. NoEcho' /\ OwnChanges' /\ BeforeBinding' /\ ServedOnce'
    BY DEF NoEcho, OwnChanges, BeforeBinding, ServedOnce
  <2>6. OneSided' /\ Newest'
    BY DEF OneSided, Newest, AppChange, PageChange
  <2>7. Agreeing' /\ InSnapshot'
    BY DEF Agreeing, WillAgree, InSnapshot
  <2> QED
    BY <2>2, <2>4, <2>5, <2>6, <2>7
<1>12. CASE UNCHANGED vars
  <2> USE <1>12
  <2>1. TypeOK'
    BY DEF Counted
  <2>2. NoEcho' /\ OwnChanges' /\ BeforeBinding'
    BY DEF NoEcho, OwnChanges, BeforeBinding
  <2>3. Counted'
    BY DEF Counted
  <2>4. ServedOnce'
    BY DEF ServedOnce
  <2>5. OneSided'
    BY DEF OneSided, AppChange, PageChange
  <2>6. Newest'
    BY DEF Newest, AppChange, PageChange
  <2>7. Agreeing'
    BY DEF Agreeing, WillAgree
  <2>8. InSnapshot'
    BY DEF InSnapshot
  <2> QED
    BY <2>1, <2>2, <2>3, <2>4, <2>5, <2>6, <2>7, <2>8
<1> QED
  BY <1>1, <1>2, <1>3, <1>4, <1>5, <1>6, <1>7, <1>8, <1>9, <1>10, <1>11, <1>12
  DEF Next, Binding, Pushing, Serving

\* So every reachable state satisfies it.
LEMMA Invariance == Spec => []IInv
<1> QED
  BY Initially, Step, PTL DEF Spec

-----------------------------------------------------------------------------
(* Results *)

\* The counters of the PathObservers never fall below zero, a set is served once
\* and the page applies one push at a time, for any number of keys and goroutines.
THEOREM BindingTypes == Spec => []TypeOK
<1> QED
  BY Invariance, PTL DEF IInv

\* Updating suppresses every change that came from the other side, and no change
\* that came from the other side gets past it, although it counts for all keys.
THEOREM NothingEchoes == Spec => []NoEcho
<1> QED
  BY Invariance, PTL DEF IInv

\* The invariant gives agreement once everything has been told.
LEMMA Convergence == IInv => ConvergesUnlessRaced
<1> SUFFICES ASSUME IInv, Quiet, NEW k \in Keys \ raced PROVE model[k] = copy[k]
  BY DEF ConvergesUnlessRaced
<1>1. WillAgree(k)
  BY DEF IInv, Agreeing
<1> QED
  BY <1>1 DEF WillAgree, Quiet, Idle

\* Once everything sent has been applied the copies agree on every key whose last
\* write met no other change, whatever was written and told while BindValues ran.
THEOREM CopiesConverge == Spec => []ConvergesUnlessRaced
<1> QED
  BY Invariance, Convergence, PTL
=============================================================================
