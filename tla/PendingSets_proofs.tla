-------------------------- MODULE PendingSets_proofs --------------------------
(***************************************************************************)
(* Proofs about PendingSets for any number of sets, actions and keys: the  *)
(* counter is exact, an action runs after every set made before it, and    *)
(* the module implements ActionFence.                                      *)
(***************************************************************************)
EXTENDS PendingSets, FiniteSetTheorems, TLAPS

-----------------------------------------------------------------------------
(* The inductive invariant *)

\* A set has been made exactly when its goroutine exists.
SetsMade == \A s \in Sets : s <= made <=> set[s] # "none"

\* A request is on the wire or handled only once its call has been made, and
\* the server handles no request twice.
SentSets == \A s \in Sets \cap (inbox \cup ran) : set[s] \in {"calling", "returned"}
SentActions ==
    \A a \in Actions \cap (inbox \cup ran) : act[a] \in {"calling", "answered", "failed"}
HandledOnce == inbox \cap ran = {}

\* While the connection is up, a call returns only with the server's answer.
ReturnedRan == alive => \A s \in Sets : set[s] = "returned" => s \in ran

\* The sets before an action have been made; they have returned by the time
\* wait lets the action go, and have run by the time it is on the wire.
BeforeMade == \A a \in Actions : before[a] \subseteq Made
ReadyReturned ==
    \A a \in Actions : act[a] = "ready" => \A s \in before[a] : set[s] = "returned"
SentRan == \A a \in Actions \cap (inbox \cup ran) : before[a] \subseteq ran

\* The sets of a key that never had two in flight are made, and handled, one
\* after the other, so the server has the newest that it handled.
Follows(s, t) == s < t /\ KeyOf[s] = KeyOf[t] /\ KeyOf[s] \notin overlapped
MadeInTurn == \A s, t \in Sets : Follows(s, t) /\ t \in Made => set[s] = "returned"
RanInTurn == \A s, t \in Sets : Follows(s, t) /\ t \in inbox \cup ran => s \in ran
ValueNewest == \A s \in Sets \cap ran : KeyOf[s] \notin overlapped => value[KeyOf[s]] >= s

SleeperCounted == \A a \in Actions : act[a] = "asleep" => n # 0

IInv ==
    /\ TypeOK
    /\ CounterExact
    /\ SetsMade
    /\ SentSets
    /\ SentActions
    /\ HandledOnce
    /\ ReturnedRan
    /\ BeforeMade
    /\ ReadyReturned
    /\ SentRan
    /\ SleeperCounted

NewestInv == MadeInTurn /\ RanInTurn /\ ValueNewest /\ ActionSeesNewest

-----------------------------------------------------------------------------
(* Type correctness *)

\* No step takes a variable out of its type, once the counter is known to stay
\* a natural number.
LEMMA TypeStep ==
  ASSUME TypeOK, n' \in Nat, [Next]_vars
  PROVE  TypeOK'
<1> USE PendingSetsAssumption DEF TypeOK, page, server, history
<1>1. ASSUME NEW s \in Sets, SetValue(s) PROVE TypeOK'
  BY <1>1 DEF SetValue, Added, Sets, SetStates
<1>2. ASSUME NEW s \in Sets, SendSet(s) PROVE TypeOK'
  BY <1>2 DEF SendSet, SetStates
<1>3. ASSUME NEW s \in Sets, SetReturns(s) PROVE TypeOK'
  BY <1>3 DEF SetReturns, SetStates, ActStates, Done, Woken
<1>4. ASSUME NEW s \in Sets, HandleSet(s) PROVE TypeOK'
  BY <1>4 DEF HandleSet
<1>5. ASSUME NEW m \in Sets \cup Actions, Lose(m) PROVE TypeOK'
  BY <1>5 DEF Lose
<1>6. ASSUME NEW a \in Actions, StartAction(a) PROVE TypeOK'
  BY <1>6 DEF StartAction, ActStates, Made, Sets
<1>7. ASSUME NEW a \in Actions, CheckIdle(a) PROVE TypeOK'
  BY <1>7 DEF CheckIdle, ActStates
<1>8. ASSUME NEW a \in Actions, SendAction(a) PROVE TypeOK'
  BY <1>8 DEF SendAction, ActStates
<1>9. ASSUME NEW a \in Actions, HandleAction(a) PROVE TypeOK'
  BY <1>9 DEF HandleAction
<1>10. ASSUME NEW a \in Actions, ActionReturns(a) PROVE TypeOK'
  BY <1>10 DEF ActionReturns, ActStates
<1>11. CASE Drop
  BY <1>11 DEF Drop
<1>12. CASE UNCHANGED vars
  BY <1>12 DEF vars
<1> QED
  BY <1>1, <1>2, <1>3, <1>4, <1>5, <1>6, <1>7, <1>8, <1>9, <1>10, <1>11, <1>12
  DEF Next, SetStep, ActStep

-----------------------------------------------------------------------------
(* The counter *)

\* The sets in flight are finitely many.
LEMMA InFlightFinite == IsFiniteSet(InFlight)
<1>1. IsFiniteSet(Sets)
  BY PendingSetsAssumption, FS_Interval DEF Sets
<1>2. InFlight \subseteq Sets
  BY DEF InFlight
<1> QED
  BY <1>1, <1>2, FS_Subset

\* With the counter exact, wait lets an action go when nothing is in flight.
LEMMA IdleIsEmpty == CounterExact => (Idle <=> InFlight = {})
  BY InFlightFinite, FS_EmptySet DEF CounterExact, Idle

\* add and done follow the set of calls in flight.
LEMMA CounterStep ==
  ASSUME TypeOK, CounterExact, SetsMade, [Next]_vars
  PROVE  CounterExact' /\ n' \in Nat
<1> USE PendingSetsAssumption DEF TypeOK, page, server, history
<1> USE DEF CounterExact
<1>1. ASSUME NEW s \in Sets, SetValue(s) PROVE CounterExact'
  <2>1. s \notin InFlight /\ InFlight' = InFlight \cup {s}
    BY <1>1 DEF SetValue, InFlight, SetsMade, Sets
  <2>2. Cardinality(InFlight') = Cardinality(InFlight) + 1
    BY <2>1, InFlightFinite, FS_AddElement
  <2> QED
    BY <1>1, <2>2 DEF SetValue, Added
<1>2. ASSUME NEW s \in Sets, SetReturns(s) PROVE CounterExact'
  <2>1. s \in InFlight /\ InFlight' = InFlight \ {s}
    BY <1>2 DEF SetReturns, InFlight
  <2>2. Cardinality(InFlight') = Cardinality(InFlight) - 1
    BY <2>1, InFlightFinite, FS_RemoveElement
  <2> QED
    BY <1>2, <2>2 DEF SetReturns, Done
<1>3. ASSUME NEW s \in Sets, SendSet(s) PROVE CounterExact'
  BY <1>3 DEF SendSet, InFlight
<1>4. CASE UNCHANGED <<n, set>>
  BY <1>4 DEF InFlight
<1>5. ASSUME NEW s \in Sets, HandleSet(s) PROVE CounterExact'
  BY <1>5, <1>4 DEF HandleSet
<1>6. ASSUME NEW m \in Sets \cup Actions, Lose(m) PROVE CounterExact'
  BY <1>6, <1>4 DEF Lose
<1>7. ASSUME NEW a \in Actions, StartAction(a) \/ ActStep(a) PROVE CounterExact'
  BY <1>7, <1>4 DEF StartAction, ActStep, CheckIdle, SendAction, HandleAction, ActionReturns
<1>8. CASE Drop \/ UNCHANGED vars
  BY <1>8, <1>4 DEF Drop, vars
<1>9. CounterExact'
  BY <1>1, <1>2, <1>3, <1>5, <1>6, <1>7, <1>8 DEF Next, SetStep
<1>10. n' \in Nat
  <2>1. IsFiniteSet(Sets) /\ InFlight' \subseteq Sets
    BY FS_Interval DEF Sets, InFlight
  <2>2. Cardinality(InFlight') \in Nat
    BY <2>1, FS_Subset, FS_CardinalityType
  <2> QED
    BY <1>9, <2>2
<1> QED
  BY <1>9, <1>10

-----------------------------------------------------------------------------
(* The inductive invariant holds *)

\* The initial states satisfy the invariant.
LEMMA Initially == Init => IInv
<1> SUFFICES ASSUME Init PROVE IInv
  OBVIOUS
<1> USE PendingSetsAssumption DEF Init
<1>1. TypeOK
  BY DEF TypeOK, Sets, SetStates, ActStates, NoSet
<1>2. CounterExact
  <2>1. InFlight = {}
    BY DEF InFlight
  <2> QED
    BY <2>1, FS_EmptySet DEF CounterExact
<1>3. SetsMade /\ SentSets /\ SentActions /\ HandledOnce /\ ReturnedRan
  BY DEF SetsMade, SentSets, SentActions, HandledOnce, ReturnedRan, Sets
<1>4. BeforeMade /\ ReadyReturned /\ SentRan /\ SleeperCounted
  BY DEF BeforeMade, ReadyReturned, SentRan, SleeperCounted
<1> QED
  BY <1>1, <1>2, <1>3, <1>4 DEF IInv

\* Steps of a set's goroutine and of its handler.
LEMMA SetSteps ==
  ASSUME IInv, TypeOK', CounterExact', NEW s \in Sets, SetValue(s) \/ SetStep(s)
  PROVE  IInv'
<1> USE PendingSetsAssumption DEF IInv, TypeOK, page, server, history
<1>1. CASE SetValue(s)
  <2> USE <1>1 DEF SetValue
  <2>1. SetsMade' /\ SentSets' /\ SentActions' /\ HandledOnce' /\ ReturnedRan'
    BY DEF SetsMade, SentSets, SentActions, HandledOnce, ReturnedRan, Sets
  <2>2. BeforeMade'
    BY DEF BeforeMade, Made
  <2>3. ReadyReturned'
    \* s is new: no action has it among the sets before it
    BY DEF ReadyReturned, BeforeMade, Made, SetsMade, Sets
  <2>4. SentRan'
    BY DEF SentRan
  <2>5. SleeperCounted'
    <3>1. n \in Nat
      BY InFlightFinite, FS_CardinalityType DEF CounterExact
    <3> QED
      BY <3>1 DEF SleeperCounted, Added
  <2> QED
    BY <2>1, <2>2, <2>3, <2>4, <2>5
<1>2. CASE SendSet(s)
  <2> USE <1>2 DEF SendSet
  <2>1. SetsMade' /\ SentSets' /\ SentActions' /\ HandledOnce' /\ ReturnedRan'
    BY DEF SetsMade, SentSets, SentActions, HandledOnce, ReturnedRan
  <2>2. BeforeMade' /\ ReadyReturned' /\ SentRan' /\ SleeperCounted'
    BY DEF BeforeMade, Made, ReadyReturned, SentRan, SleeperCounted
  <2> QED
    BY <2>1, <2>2
<1>3. CASE SetReturns(s)
  <2> USE <1>3 DEF SetReturns
  <2>1. SetsMade' /\ SentSets' /\ SentActions' /\ HandledOnce' /\ ReturnedRan'
    BY DEF SetsMade, SentSets, SentActions, HandledOnce, ReturnedRan, Woken
  <2>2. BeforeMade' /\ ReadyReturned' /\ SentRan'
    BY DEF BeforeMade, Made, ReadyReturned, SentRan, Woken
  <2>3. SleeperCounted'
    \* the last done wakes every sleeper
    BY DEF SleeperCounted, Woken, Done
  <2> QED
    BY <2>1, <2>2, <2>3
<1>4. CASE HandleSet(s)
  <2> USE <1>4 DEF HandleSet
  <2>1. SetsMade' /\ SentSets' /\ SentActions' /\ HandledOnce' /\ ReturnedRan'
    BY DEF SetsMade, SentSets, SentActions, HandledOnce, ReturnedRan
  <2>2. BeforeMade' /\ ReadyReturned' /\ SentRan' /\ SleeperCounted'
    BY DEF BeforeMade, Made, ReadyReturned, SentRan, SleeperCounted
  <2> QED
    BY <2>1, <2>2
<1> QED
  BY <1>1, <1>2, <1>3, <1>4 DEF SetStep

\* Steps of an action's goroutine and of its handler.
LEMMA ActionSteps ==
  ASSUME IInv, TypeOK', CounterExact', NEW a \in Actions, StartAction(a) \/ ActStep(a)
  PROVE  IInv'
<1> USE PendingSetsAssumption DEF IInv, TypeOK, page, server, history
<1>1. CASE StartAction(a)
  <2> USE <1>1 DEF StartAction
  <2>1. SetsMade' /\ SentSets' /\ SentActions' /\ HandledOnce' /\ ReturnedRan'
    BY DEF SetsMade, SentSets, SentActions, HandledOnce, ReturnedRan
  <2>2. BeforeMade' /\ ReadyReturned' /\ SentRan' /\ SleeperCounted'
    BY DEF BeforeMade, Made, ReadyReturned, SentRan, SentActions, SleeperCounted
  <2> QED
    BY <2>1, <2>2
<1>2. CASE CheckIdle(a)
  <2> USE <1>2 DEF CheckIdle
  <2>1. SetsMade' /\ SentSets' /\ SentActions' /\ HandledOnce' /\ ReturnedRan'
    BY DEF SetsMade, SentSets, SentActions, HandledOnce, ReturnedRan
  <2>2. BeforeMade' /\ SentRan'
    BY DEF BeforeMade, Made, SentRan
  <2>3. ReadyReturned'
    <3>1. ASSUME Idle, NEW s \in before[a] PROVE set[s] = "returned"
      BY <3>1, IdleIsEmpty DEF InFlight, BeforeMade, Made, SetsMade, SetStates, Sets
    <3> QED
      BY <3>1 DEF ReadyReturned
  <2>4. SleeperCounted'
    BY DEF SleeperCounted, Idle
  <2> QED
    BY <2>1, <2>2, <2>3, <2>4
<1>3. CASE SendAction(a)
  <2> USE <1>3 DEF SendAction
  <2>1. SetsMade' /\ SentSets' /\ SentActions' /\ HandledOnce' /\ ReturnedRan'
    BY DEF SetsMade, SentSets, SentActions, HandledOnce, ReturnedRan
  <2>2. BeforeMade' /\ ReadyReturned' /\ SleeperCounted'
    BY DEF BeforeMade, Made, ReadyReturned, SleeperCounted
  <2>3. SentRan'
    <3>1. alive => before[a] \subseteq ran
      BY DEF ReadyReturned, ReturnedRan
    <3> QED
      BY <3>1 DEF SentRan
  <2> QED
    BY <2>1, <2>2, <2>3
<1>4. CASE HandleAction(a)
  <2> USE <1>4 DEF HandleAction
  <2>1. SetsMade' /\ SentSets' /\ SentActions' /\ HandledOnce' /\ ReturnedRan'
    BY DEF SetsMade, SentSets, SentActions, HandledOnce, ReturnedRan
  <2>2. BeforeMade' /\ ReadyReturned' /\ SentRan' /\ SleeperCounted'
    BY DEF BeforeMade, Made, ReadyReturned, SentRan, SleeperCounted
  <2> QED
    BY <2>1, <2>2
<1>5. CASE ActionReturns(a)
  <2> USE <1>5 DEF ActionReturns
  <2>1. SetsMade' /\ SentSets' /\ SentActions' /\ HandledOnce' /\ ReturnedRan'
    BY DEF SetsMade, SentSets, SentActions, HandledOnce, ReturnedRan
  <2>2. BeforeMade' /\ ReadyReturned' /\ SentRan' /\ SleeperCounted'
    BY DEF BeforeMade, Made, ReadyReturned, SentRan, SleeperCounted
  <2> QED
    BY <2>1, <2>2
<1> QED
  BY <1>1, <1>2, <1>3, <1>4, <1>5 DEF ActStep

\* Steps of the connection.
LEMMA ConnectionSteps ==
  ASSUME IInv, TypeOK', CounterExact',
         Drop \/ (\E m \in Sets \cup Actions : Lose(m)) \/ UNCHANGED vars
  PROVE  IInv'
<1> USE PendingSetsAssumption DEF IInv, TypeOK, page, server, history
<1>1. CASE Drop \/ UNCHANGED vars
  <2> USE <1>1 DEF Drop, vars
  <2>1. SetsMade' /\ SentSets' /\ SentActions' /\ HandledOnce' /\ ReturnedRan'
    BY DEF SetsMade, SentSets, SentActions, HandledOnce, ReturnedRan
  <2>2. BeforeMade' /\ ReadyReturned' /\ SentRan' /\ SleeperCounted'
    BY DEF BeforeMade, Made, ReadyReturned, SentRan, SleeperCounted
  <2> QED
    BY <2>1, <2>2
<1>2. CASE \E m \in Sets \cup Actions : Lose(m)
  <2> USE <1>2 DEF Lose
  <2>1. SetsMade' /\ SentSets' /\ SentActions' /\ HandledOnce' /\ ReturnedRan'
    BY DEF SetsMade, SentSets, SentActions, HandledOnce, ReturnedRan
  <2>2. BeforeMade' /\ ReadyReturned' /\ SentRan' /\ SleeperCounted'
    BY DEF BeforeMade, Made, ReadyReturned, SentRan, SleeperCounted
  <2> QED
    BY <2>1, <2>2
<1> QED
  BY <1>1, <1>2

\* So every reachable state satisfies it.
LEMMA Invariance == Spec => []IInv
<1>1. Init => IInv
  BY Initially
<1>2. IInv /\ [Next]_vars => IInv'
  <2> SUFFICES ASSUME IInv, [Next]_vars PROVE IInv'
    OBVIOUS
  <2>1. CounterExact' /\ n' \in Nat
    BY CounterStep DEF IInv
  <2>2. TypeOK'
    BY <2>1, TypeStep DEF IInv
  <2> QED
    BY <2>1, <2>2, SetSteps, ActionSteps, ConnectionSteps DEF Next
<1> QED
  BY <1>1, <1>2, PTL DEF Spec

-----------------------------------------------------------------------------
(* The theorems *)

\* Every reachable state is type correct; in particular done never takes the
\* counter below zero.
THEOREM TypeCorrect == Spec => []TypeOK
<1>1. IInv => TypeOK
  BY DEF IInv
<1> QED
  BY <1>1, Invariance, PTL

\* pendingSets.n is the number of sets whose call has not returned, however
\* the calls end.
THEOREM CounterIsExact == Spec => []CounterExact
<1>1. IInv => CounterExact
  BY DEF IInv
<1> QED
  BY <1>1, Invariance, PTL

\* No action sleeps in pendingSets.wait with nobody left to wake it.
THEOREM NoWakeupIsLost == Spec => []NoLostWakeup
<1>1. IInv => NoLostWakeup
  BY IdleIsEmpty DEF IInv, SleeperCounted, NoLostWakeup, Idle
<1> QED
  BY <1>1, Invariance, PTL

\* The server runs an action only after every set made before the call.
THEOREM ActionsSeeEarlierSets == Spec => []ActionSeesEarlierSets
<1>1. IInv => ActionSeesEarlierSets
  BY DEF IInv, SentRan, ActionSeesEarlierSets
<1> QED
  BY <1>1, Invariance, PTL

-----------------------------------------------------------------------------
(* The newest value *)

\* The invariant about values holds at first,
LEMMA NewestInitially == Init => NewestInv
  BY PendingSetsAssumption
  DEF Init, NewestInv, MadeInTurn, RanInTurn, ValueNewest, ActionSeesNewest, Made, Sets

\* every step preserves it,
LEMMA NewestStep ==
  ASSUME IInv, NewestInv, [Next]_vars
  PROVE  NewestInv'
<1> USE PendingSetsAssumption DEF IInv, TypeOK, NewestInv, page, server, history
<1>1. ASSUME NEW s \in Sets, SetValue(s) PROVE NewestInv'
  <2> USE <1>1 DEF SetValue
  <2>1. MadeInTurn'
    <3> SUFFICES ASSUME NEW r \in Sets, NEW t \in Sets, Follows(r, t)', (t \in Made)'
                 PROVE  set'[r] = "returned"
      BY DEF MadeInTurn
    <3>1. Follows(r, t) /\ r # s
      BY DEF Follows, Made, Sets
    <3>2. CASE t = s
      \* s is new and its key is not overlapped: r is no longer in flight
      <4>1. set[r] # "none" /\ r \notin InFlight
        BY <3>1, <3>2 DEF Follows, SetsMade, Sets, InFlight
      <4> QED
        BY <3>1, <4>1 DEF InFlight, SetStates
    <3>3. CASE t # s
      BY <3>1, <3>3 DEF MadeInTurn, Made, Sets
    <3> QED
      BY <3>2, <3>3
  <2>2. RanInTurn' /\ ValueNewest' /\ ActionSeesNewest'
    BY DEF RanInTurn, Follows, ValueNewest, ActionSeesNewest
  <2> QED
    BY <2>1, <2>2
<1>2. ASSUME NEW s \in Sets, SendSet(s) PROVE NewestInv'
  <2> USE <1>2 DEF SendSet
  <2>1. MadeInTurn' /\ ValueNewest' /\ ActionSeesNewest'
    BY DEF MadeInTurn, Follows, Made, ValueNewest, ActionSeesNewest
  <2>2. RanInTurn'
    \* the sets before s have returned, on an open connection with an answer
    BY DEF RanInTurn, Follows, MadeInTurn, ReturnedRan, SetsMade, Made, Sets
  <2> QED
    BY <2>1, <2>2
<1>3. ASSUME NEW s \in Sets, SetReturns(s) PROVE NewestInv'
  BY <1>3 DEF SetReturns, MadeInTurn, RanInTurn, Follows, Made, ValueNewest, ActionSeesNewest
<1>4. ASSUME NEW s \in Sets, HandleSet(s) PROVE NewestInv'
  <2> USE <1>4 DEF HandleSet
  <2>1. MadeInTurn' /\ RanInTurn' /\ ActionSeesNewest'
    BY DEF MadeInTurn, RanInTurn, Follows, Made, ActionSeesNewest
  <2>2. ValueNewest'
    <3> SUFFICES ASSUME NEW t \in Sets \cap ran', KeyOf[t] \notin overlapped
                 PROVE  value'[KeyOf[t]] >= t
      BY DEF ValueNewest
    <3>1. CASE KeyOf[t] = KeyOf[s]
      \* a newer one cannot have been handled before s
      BY <3>1 DEF RanInTurn, Follows, HandledOnce, Sets
    <3>2. CASE KeyOf[t] # KeyOf[s]
      BY <3>2 DEF ValueNewest
    <3> QED
      BY <3>1, <3>2
  <2> QED
    BY <2>1, <2>2
<1>5. ASSUME NEW a \in Actions, StartAction(a) PROVE NewestInv'
  \* an action that has run has been called before
  BY <1>5 DEF StartAction, MadeInTurn, RanInTurn, Follows, Made, ValueNewest, ActionSeesNewest,
     SentActions
<1>6. ASSUME NEW a \in Actions, HandleAction(a) PROVE NewestInv'
  <2> USE <1>6 DEF HandleAction
  <2>1. MadeInTurn' /\ RanInTurn' /\ ValueNewest'
    BY DEF MadeInTurn, RanInTurn, Follows, Made, ValueNewest
  <2>2. ActionSeesNewest'
    BY DEF ActionSeesNewest, SentRan, ValueNewest
  <2> QED
    BY <2>1, <2>2
<1>7. ASSUME NEW a \in Actions, CheckIdle(a) \/ SendAction(a) \/ ActionReturns(a)
      PROVE  NewestInv'
  BY <1>7 DEF CheckIdle, SendAction, ActionReturns, MadeInTurn, RanInTurn, Follows, Made,
     ValueNewest, ActionSeesNewest
<1>8. ASSUME NEW m \in Sets \cup Actions, Lose(m) PROVE NewestInv'
  BY <1>8 DEF Lose, MadeInTurn, RanInTurn, Follows, Made, ValueNewest, ActionSeesNewest
<1>9. CASE Drop \/ UNCHANGED vars
  BY <1>9 DEF Drop, vars, MadeInTurn, RanInTurn, Follows, Made, ValueNewest, ActionSeesNewest
<1> QED
  BY <1>1, <1>2, <1>3, <1>4, <1>5, <1>6, <1>7, <1>8, <1>9 DEF Next, SetStep, ActStep

\* and so every reachable state satisfies it.
LEMMA NewestInvariance == Spec => []NewestInv
<1>1. Init => NewestInv
  BY NewestInitially
<1>2. IInv /\ NewestInv /\ [Next]_vars => NewestInv'
  BY NewestStep
<1> QED
  BY <1>1, <1>2, Invariance, PTL DEF Spec

\* An action finds each key at least as new as the page had set it, if the page
\* never set the key again with an earlier set of it in flight.
THEOREM ActionsSeeNewest == Spec => []ActionSeesNewest
<1>1. NewestInv => ActionSeesNewest
  BY DEF NewestInv
<1> QED
  BY <1>1, NewestInvariance, PTL

\* Once all sets are answered, the server has the page's values of those keys.
THEOREM QuietServerHasAgreed == Spec => []QuietServerAgrees
<1>1. IInv /\ NewestInv => QuietServerAgrees
  <2> SUFFICES ASSUME IInv, NewestInv, alive, InFlight = {}, NEW s \in Made,
                      KeyOf[s] \notin overlapped
               PROVE  value[KeyOf[s]] >= s
    BY DEF QuietServerAgrees
  <2> USE PendingSetsAssumption DEF IInv, TypeOK, NewestInv
  <2>1. s \in Sets /\ set[s] # "none"
    BY DEF Made, Sets, SetsMade
  <2>2. set[s] = "returned"
    BY <2>1 DEF InFlight, SetStates
  <2> QED
    BY <2>1, <2>2 DEF ReturnedRan, ValueNewest
<1> QED
  BY <1>1, Invariance, NewestInvariance, PTL

-----------------------------------------------------------------------------
(* PendingSets implements ActionFence *)

\* The initial states map to the initial state of the promise.
LEMMA FenceInit == Init => Fence!Init
  BY PendingSetsAssumption
  DEF Init, Fence!Init, Made, Outcome

\* Only making, handling and failing are visible to the abstract promise; a
\* step that sends, counts, sleeps or wakes is a stutter of it.
LEMMA FenceStep == IInv /\ [Next]_vars => [Fence!Next]_Fence!vars
<1> SUFFICES ASSUME IInv, [Next]_vars PROVE [Fence!Next]_Fence!vars
  OBVIOUS
<1> USE PendingSetsAssumption DEF IInv, TypeOK, page, server, history
<1> DEFINE Out == [a \in Actions |-> Outcome(a)]
<1>1. ASSUME NEW s \in Sets, SetValue(s) PROVE Fence!Issue(s)
  <2>1. s \notin Made /\ Made' = Made \cup {s}
    BY <1>1 DEF SetValue, Made, Sets
  <2>2. UNCHANGED Out
    BY <1>1 DEF SetValue, Outcome
  <2> QED
    BY <1>1, <2>1, <2>2 DEF SetValue, Fence!Issue
<1>2. ASSUME NEW s \in Sets, HandleSet(s) PROVE Fence!Apply(s)
  <2>1. s \in Made /\ s \notin ran
    BY <1>2 DEF HandleSet, SentSets, SetsMade, HandledOnce, Made, Sets
  <2>2. UNCHANGED <<Out, Made>>
    BY <1>2 DEF HandleSet, Outcome, Made
  <2>3. (ran \cap Sets)' = (ran \cap Sets) \cup {s} /\ UNCHANGED (ran \cap Actions)
    BY <1>2 DEF HandleSet
  <2> QED
    BY <1>2, <2>1, <2>2, <2>3 DEF HandleSet, Fence!Apply
<1>3. ASSUME NEW a \in Actions, StartAction(a) PROVE Fence!Call(a)
  <2>1. Out[a] = "idle" /\ Out' = [Out EXCEPT ![a] = "pending"]
    BY <1>3 DEF StartAction, Outcome
  <2> QED
    BY <1>3, <2>1 DEF StartAction, Fence!Call, Made
<1>4. ASSUME NEW a \in Actions, HandleAction(a) PROVE Fence!Deliver(a)
  <2>1. a \notin ran /\ before[a] \subseteq ran \cap Sets /\ act[a] # "idle"
    BY <1>4 DEF HandleAction, HandledOnce, SentRan, SentActions
  <2>2. UNCHANGED <<Out, Made>> /\ Out[a] # "idle"
    BY <1>4, <2>1 DEF HandleAction, Outcome, Made
  <2>3. (ran \cap Actions)' = (ran \cap Actions) \cup {a} /\ UNCHANGED (ran \cap Sets)
    BY <1>4 DEF HandleAction
  <2> QED
    BY <1>4, <2>1, <2>2, <2>3 DEF HandleAction, Fence!Deliver
<1>5. ASSUME NEW a \in Actions, ActionReturns(a) PROVE Fence!Answer(a) \/ Fence!Fail(a)
  <2>1. Out[a] = "pending"
    BY <1>5 DEF ActionReturns, Outcome
  <2>2. CASE alive
    <3>1. Out' = [Out EXCEPT ![a] = "answered"]
      BY <1>5, <2>2 DEF ActionReturns, Outcome
    <3> QED
      BY <1>5, <2>1, <2>2, <3>1 DEF ActionReturns, Fence!Answer, Made
  <2>3. CASE ~alive
    <3>1. Out' = [Out EXCEPT ![a] = "failed"]
      BY <1>5, <2>3 DEF ActionReturns, Outcome
    <3> QED
      BY <1>5, <2>1, <2>3, <3>1 DEF ActionReturns, Fence!Fail, Made
  <2> QED
    BY <2>2, <2>3
<1>6. ASSUME Drop PROVE Fence!Break
  BY <1>6 DEF Drop, Fence!Break, Made, Outcome
<1>7. ASSUME UNCHANGED <<alive, made, ran, before, Out>> PROVE UNCHANGED Fence!vars
  BY <1>7 DEF Fence!vars, Made
<1>8. ASSUME NEW s \in Sets, SendSet(s) \/ SetReturns(s) PROVE UNCHANGED Fence!vars
  BY <1>8, <1>7 DEF SendSet, SetReturns, Woken, Outcome
<1>9. ASSUME NEW a \in Actions, CheckIdle(a) \/ SendAction(a) PROVE UNCHANGED Fence!vars
  BY <1>9, <1>7 DEF CheckIdle, SendAction, Outcome
<1>10. ASSUME NEW m \in Sets \cup Actions, Lose(m) PROVE UNCHANGED Fence!vars
  BY <1>10, <1>7 DEF Lose, Outcome
<1>11. CASE UNCHANGED vars
  BY <1>11, <1>7 DEF vars, Outcome
<1> QED
  BY <1>1, <1>2, <1>3, <1>4, <1>5, <1>6, <1>8, <1>9, <1>10, <1>11
  DEF Next, SetStep, ActStep, Fence!Next

\* The calls, the counter and the condition variable implement the promise:
\* every behaviour of the connection is one the promise allows.
THEOREM FenceIsImplemented == Spec => ImplementsFence
<1> QED
  BY FenceInit, FenceStep, Invariance, PTL DEF ImplementsFence, Spec, Fence!Spec
=============================================================================
