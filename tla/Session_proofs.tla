----------------------------- MODULE Session_proofs -----------------------------
(***************************************************************************)
(* Proofs about Session for any number of subscribers, actions and          *)
(* connections: subscribers know the state of the session, its delays       *)
(* double, and an open one accepts actions.                                *)
(***************************************************************************)
EXTENDS Session, SequenceTheorems, TLAPS

-----------------------------------------------------------------------------
(* The inductive invariant *)

Frame == [state : States, left : SUBSET Subs, inside : BOOLEAN]

\* Calls of setState nest only where a subscriber calls close, which it does once.
Nesting == /\ nested => once # "no"
           /\ ~nested => Len(stack) <= 1

\* Who has been told a state will be told the next, until the session is closed; and
\* while setState calls the subscribers, those that are left are the ones who have
\* yet to hear of the present state.
Hearing ==
    ~nested =>
        /\ \A s \in Subs : heard[s] \in States => s \in subs \/ state = "closed"
        /\ stack # <<>> => Top.state = state /\ \A s \in Subs : s \in Top.left => s \in subs \/ heard[s] = "left"
        /\ \A s \in Subs : \/ heard[s] \in {state, "nothing", "left"}
                           \/ stack # <<>> /\ s \in Top.left

\* Only a closed session is cancelled, and an open one has a connection.
Connections == /\ cancelled => state = "closed"
               /\ state = "open" => server # 0

IInv ==
    /\ TypeOK
    /\ Nesting
    /\ Hearing
    /\ Connections

-----------------------------------------------------------------------------
(* Every step preserves it *)

\* setState pushes a frame for the subscribers of the moment, or leaves all as it is.
LEMMA StateSet ==
  ASSUME stack \in Seq(Frame), subs \in SUBSET Subs, state \in States, NEW to \in States, SetState(to)
  PROVE  /\ state' \in States /\ stack' \in Seq(Frame)
         /\ state' = IF state = "closed" THEN state ELSE to
         /\ IF state' = state
            THEN stack' = stack
            ELSE /\ stack' # <<>> /\ Len(stack') = Len(stack) + 1
                 /\ stack'[Len(stack')] = [state |-> to, left |-> subs, inside |-> FALSE]
<1> DEFINE f == [state |-> to, left |-> subs, inside |-> FALSE]
<1>1. f \in Frame
  BY DEF Frame
<1>2. CASE state = to \/ state = "closed"
  BY <1>2 DEF SetState
<1>3. CASE ~(state = to \/ state = "closed")
  <2>1. state' = to /\ stack' = Append(stack, f)
    BY <1>3 DEF SetState
  <2> HIDE DEF f
  <2>2. stack' \in Seq(Frame) /\ stack' # <<>> /\ Len(stack') = Len(stack) + 1 /\ stack'[Len(stack')] = f
    BY <1>1, <2>1
  <2> QED
    BY <1>3, <2>1, <2>2 DEF f
<1> QED
  BY <1>2, <1>3

\* The innermost frame, and what is left when it is popped.
LEMMA Frames ==
  ASSUME stack \in Seq(Frame), stack # <<>>
  PROVE  /\ Len(stack) \in Nat \ {0} /\ Top \in Frame
         /\ SubSeq(stack, 1, Len(stack) - 1) \in Seq(Frame)
         /\ Len(SubSeq(stack, 1, Len(stack) - 1)) = Len(stack) - 1
<1>1. Len(stack) \in Nat \ {0}
  BY EmptySeq
<1>2. \A i \in 1..Len(stack) : stack[i] \in Frame
  BY <1>1, ElementOfSeq
<1>3. Top \in Frame
  BY <1>1, <1>2 DEF Top
<1> DEFINE n == Len(stack) - 1
<1>4. n \in Int /\ 1 \in Int /\ \A i \in 1..n : stack[i] \in Frame
  BY <1>1, <1>2
<1> HIDE DEF n
<1>5. SubSeq(stack, 1, n) \in Seq(Frame) /\ Len(SubSeq(stack, 1, n)) = IF 1 <= n THEN n - 1 + 1 ELSE 0
  BY <1>4, SubSeqProperties
<1>6. n \in Nat /\ n = Len(stack) - 1
  BY <1>1 DEF n
<1>7. Len(SubSeq(stack, 1, n)) = n
  BY <1>5, <1>6
<1> QED
  BY <1>1, <1>3, <1>5, <1>6, <1>7

\* The initial states satisfy the invariant.
LEMMA Initially == Init => IInv
<1> SUFFICES ASSUME Init PROVE IInv
  OBVIOUS
<1> USE SessionAssumption DEF Init, Uncalled, States, minRedial, maxRedial
<1>1. {up, cancelled, nested} \subseteq BOOLEAN
  OBVIOUS
<1>2. TypeOK
  BY <1>1 DEF TypeOK
<1>3. Nesting /\ Hearing /\ Connections
  BY DEF Nesting, Hearing, Connections
<1> QED
  BY <1>2, <1>3 DEF IInv

\* Every step of the system preserves the invariant.
LEMMA Step ==
  ASSUME IInv, [Next]_vars
  PROVE  IInv'
<1> USE SessionAssumption DEF IInv, TypeOK, States, minRedial, maxRedial, life, telling, vars
<1>1. CASE Connected
  <2> USE <1>1 DEF Connected
  <2>1. {up', cancelled', nested'} \subseteq BOOLEAN
    OBVIOUS
  <2>2. \/ UNCHANGED <<state, stack>>
        \/ \E to \in States : SetState(to)
    OBVIOUS
  <2>3. state' \in States /\ stack' \in Seq(Frame)
    BY <2>2, StateSet DEF Frame
  <2>4. conns' \in 0..MaxConns /\ server' \in {0, conns'} /\ delay' \in minRedial..maxRedial /\ failures' \in Nat
    OBVIOUS
  <2>5. call' \in [Calls -> [at : {"idle", "calling", "answered", "disconnected"}, conn : 0..conns']]
    BY <2>4
  <2>6. TypeOK'
    BY <2>1, <2>3, <2>4, <2>5 DEF Frame
  <2>7. Nesting'
    BY <2>2, StateSet DEF Nesting, RunRuns, Frame
  <2>8. state' = IF state = "closed" THEN state ELSE "open"
    BY DEF SetState
  <2>9. Connections'
    BY <2>8 DEF Connections
  <2>10. Hearing'
    <3>1. CASE stack = <<>>
      <4>1. state' # state => /\ stack' # <<>> /\ Len(stack') = Len(stack) + 1 /\ state # "closed"
                              /\ Top' = [state |-> state', left |-> subs, inside |-> FALSE]
        BY <2>2, StateSet DEF Frame, Top
      <4>2. state' = state => stack' = stack
        BY <2>2, StateSet DEF Frame
      <4>3. CASE state' = state
        BY <3>1, <4>2, <4>3 DEF Hearing, Nesting, PageRuns
      <4>4. CASE state' # state
        BY <3>1, <4>1, <4>4 DEF Hearing, Nesting, PageRuns
      <4> QED
        BY <4>3, <4>4
    <3>2. CASE stack # <<>>
      BY <3>2 DEF Hearing, RunRuns
    <3> QED
      BY <3>1, <3>2
  <2> QED
    BY <2>6, <2>7, <2>9, <2>10
<1>2. CASE DialFails
  <2> USE <1>2 DEF DialFails, AfterConnection
  <2>1. {up', cancelled', nested'} \subseteq BOOLEAN
    OBVIOUS
  <2>2. \/ UNCHANGED <<state, stack>>
        \/ \E to \in States : SetState(to)
    OBVIOUS
  <2>3. state' \in States /\ stack' \in Seq(Frame)
    BY <2>2, StateSet DEF Frame
  <2>4. conns' \in 0..MaxConns /\ server' \in {0, conns'} /\ delay' \in minRedial..maxRedial /\ failures' \in Nat
    OBVIOUS
  <2>5. call' \in [Calls -> [at : {"idle", "calling", "answered", "disconnected"}, conn : 0..conns']]
    BY <2>4
  <2>6. TypeOK'
    BY <2>1, <2>3, <2>4, <2>5 DEF Frame
  <2>7. Nesting'
    BY <2>2, StateSet DEF Nesting, RunRuns, Frame
  <2>8. IF opened = "none" THEN state' = "closed"
       ELSE UNCHANGED <<state, cancelled>> \/ (~cancelled /\ ~cancelled' /\ state' = "reconnecting")
    BY DEF SetState
  <2>9. Connections'
    BY <2>8 DEF Connections
  <2>10. Hearing'
    <3>1. CASE stack = <<>>
      <4>1. state' # state => /\ stack' # <<>> /\ Len(stack') = Len(stack) + 1 /\ state # "closed"
                              /\ Top' = [state |-> state', left |-> subs, inside |-> FALSE]
        BY <2>2, StateSet DEF Frame, Top
      <4>2. state' = state => stack' = stack
        BY <2>2, StateSet DEF Frame
      <4>3. CASE state' = state
        BY <3>1, <4>2, <4>3 DEF Hearing, Nesting, PageRuns
      <4>4. CASE state' # state
        BY <3>1, <4>1, <4>4 DEF Hearing, Nesting, PageRuns
      <4> QED
        BY <4>3, <4>4
    <3>2. CASE stack # <<>>
      BY <3>2 DEF Hearing, RunRuns
    <3> QED
      BY <3>1, <3>2
  <2> QED
    BY <2>6, <2>7, <2>9, <2>10
<1>3. CASE ServeEnds
  <2> USE <1>3 DEF ServeEnds
  <2>1. TypeOK'
    BY DEF SetState, Top
  <2>2. Nesting' /\ Connections'
    BY DEF Nesting, Connections, SetState, PageRuns, RunRuns, Top
  <2>3. Hearing'
    BY DEF Hearing, SetState, PageRuns, RunRuns, Nesting, Top
  <2> QED
    BY <2>1, <2>2, <2>3
<1>4. CASE ConnectionEnds
  <2> USE <1>4 DEF ConnectionEnds, AfterConnection
  <2>1. {up', cancelled', nested'} \subseteq BOOLEAN
    OBVIOUS
  <2>2. \/ UNCHANGED <<state, stack>>
        \/ \E to \in States : SetState(to)
    OBVIOUS
  <2>3. state' \in States /\ stack' \in Seq(Frame)
    BY <2>2, StateSet DEF Frame
  <2>4. conns' \in 0..MaxConns /\ server' \in {0, conns'} /\ delay' \in minRedial..maxRedial /\ failures' \in Nat
    OBVIOUS
  <2>5. call' \in [Calls -> [at : {"idle", "calling", "answered", "disconnected"}, conn : 0..conns']]
    BY <2>4
  <2>6. TypeOK'
    BY <2>1, <2>3, <2>4, <2>5 DEF Frame
  <2>7. Nesting'
    BY <2>2, StateSet DEF Nesting, RunRuns, Frame
  <2>8. IF opened = "none" THEN state' = "closed"
       ELSE (UNCHANGED <<state, cancelled>> /\ (cancelled \/ state # "open")) \/ (~cancelled /\ ~cancelled' /\ state' = "reconnecting")
    BY DEF SetState
  <2>9. Connections'
    BY <2>8 DEF Connections
  <2>10. Hearing'
    <3>1. CASE stack = <<>>
      <4>1. state' # state => /\ stack' # <<>> /\ Len(stack') = Len(stack) + 1 /\ state # "closed"
                              /\ Top' = [state |-> state', left |-> subs, inside |-> FALSE]
        BY <2>2, StateSet DEF Frame, Top
      <4>2. state' = state => stack' = stack
        BY <2>2, StateSet DEF Frame
      <4>3. CASE state' = state
        BY <3>1, <4>2, <4>3 DEF Hearing, Nesting, PageRuns
      <4>4. CASE state' # state
        BY <3>1, <4>1, <4>4 DEF Hearing, Nesting, PageRuns
      <4> QED
        BY <4>3, <4>4
    <3>2. CASE stack # <<>>
      BY <3>2 DEF Hearing, RunRuns
    <3> QED
      BY <3>1, <3>2
  <2> QED
    BY <2>6, <2>7, <2>9, <2>10
<1>5. CASE Redial
  <2> USE <1>5 DEF Redial
  <2>1. delay' \in minRedial..maxRedial
    <3>1. delay \in 1..30
      OBVIOUS
    <3>2. delay' = delay \/ delay' = IF 2 * delay < 30 THEN 2 * delay ELSE 30
      OBVIOUS
    <3>3. delay' \in 1..30
      BY ONLY <3>1, <3>2
    <3> QED
      BY <3>3
  <2>2. TypeOK'
    BY <2>1
  <2>3. Nesting' /\ Connections' /\ Hearing'
    BY DEF Nesting, Connections, Hearing, Top
  <2> QED
    BY <2>2, <2>3
<1>6. CASE Told
  <2> USE <1>6 DEF Told, ReleaseAll
  <2>1. Len(stack) \in Nat \ {0} /\ stack' \in Seq(Frame) /\ Len(stack') = Len(stack) - 1
    BY Frames DEF Frame
  <2>2. TypeOK'
    BY <2>1 DEF Frame
  <2>3. Nesting' /\ Connections'
    BY <2>1 DEF Nesting, Connections
  <2>4. Hearing'
    <3>1. CASE ~nested
      <4>1. stack' = <<>>
        BY <2>1, <3>1, EmptySeq DEF Nesting
      <4> QED
        BY <3>1, <4>1 DEF Hearing
    <3>2. CASE nested
      BY <3>2 DEF Hearing
    <3> QED
      BY <3>1, <3>2
  <2> QED
    BY <2>2, <2>3, <2>4
<1>7. ASSUME NEW s \in Subs, Tell(s) PROVE IInv'
  <2> USE <1>7 DEF Tell
  <2> DEFINE f == [Top EXCEPT !.left = Top.left \ {s}, !.inside = TRUE]
  <2>1. Len(stack) \in 1..Len(stack) /\ Top \in Frame
    BY Frames DEF Frame
  <2>2. f \in Frame /\ f.left = Top.left \ {s} /\ f.state = Top.state
    BY <2>1 DEF Frame
  <2>3. stack' = [stack EXCEPT ![Len(stack)] = f]
    BY ONLY <1>7 DEF Tell, Top, f
  <2> HIDE DEF f
  <2>4. stack' \in Seq(Frame) /\ Len(stack') = Len(stack) /\ Top' = f
    <3>1. stack \in Seq(Frame)
      BY DEF Frame
    <3>2. [stack EXCEPT ![Len(stack)] = f] \in Seq(Frame) /\ Len([stack EXCEPT ![Len(stack)] = f]) = Len(stack)
          /\ [stack EXCEPT ![Len(stack)] = f][Len(stack)] = f
      BY ONLY <2>1, <2>2, <3>1, ExceptSeq
    <3> QED
      BY ONLY <2>3, <3>2 DEF Top
  <2>5. heard' \in [Subs -> States \cup {"nothing", "left"}]
    BY <2>1 DEF Frame
  <2>6. TypeOK'
    BY <2>4, <2>5 DEF Frame
  <2>7. Nesting' /\ Connections'
    BY <2>4 DEF Nesting, Connections
  <2>8. Hearing'
    <3>1. stack' # <<>>
      BY <2>1, <2>4
    <3>2. \A r \in Subs \ {s} : heard'[r] = heard[r]
      OBVIOUS
    <3>3. heard'[s] = "left" \/ heard'[s] = Top.state
      OBVIOUS
    <3> SUFFICES ASSUME ~nested PROVE Hearing'
      BY DEF Hearing
    <3>4. Top.state = state /\ s \in Subs /\ (s \in subs \/ heard[s] = "left")
      BY DEF Hearing
    <3>5. Top'.state = state
      BY <2>2, <2>4, <3>4
    <3>6. \A r \in Subs : heard'[r] \in {state, "nothing", "left"} \/ r \in Top'.left
      BY <2>2, <2>4, <3>2, <3>3, <3>4 DEF Hearing
    <3>7. s \in subs \/ heard'[s] = "left"
      BY <3>4
    <3>8. \A r \in Subs : heard'[r] \in States => r \in subs \/ state = "closed"
      BY <3>2, <3>7 DEF Hearing
    <3>9. \A r \in Subs : r \in Top'.left => r \in subs \/ heard'[r] = "left"
      BY <2>2, <2>4, <3>2 DEF Hearing
    <3> QED
      BY <3>1, <3>5, <3>6, <3>8, <3>9 DEF Hearing
  <2> QED
    BY <2>6, <2>7, <2>8
<1>8. CASE Drop
  <2> USE <1>8 DEF Drop
  <2>1. TypeOK'
    BY DEF SetState, Top
  <2>2. Nesting' /\ Connections'
    BY DEF Nesting, Connections, SetState, PageRuns, RunRuns, Top
  <2>3. Hearing'
    BY DEF Hearing, SetState, PageRuns, RunRuns, Nesting, Top
  <2> QED
    BY <2>1, <2>2, <2>3
<1>9. ASSUME NEW s \in Subs, Subscribe(s) PROVE IInv'
  <2> USE <1>9 DEF Subscribe
  <2>1. TypeOK'
    BY DEF SetState, Top
  <2>2. Nesting' /\ Connections'
    BY DEF Nesting, Connections, SetState, PageRuns, RunRuns, Top
  <2>3. Hearing'
    BY DEF Hearing, SetState, PageRuns, RunRuns, Nesting, Top
  <2> QED
    BY <2>1, <2>2, <2>3
<1>10. ASSUME NEW s \in Subs, Unsubscribe(s) PROVE IInv'
  <2> USE <1>10 DEF Unsubscribe
  <2>1. TypeOK'
    BY DEF SetState, Top
  <2>2. Nesting' /\ Connections'
    BY DEF Nesting, Connections, SetState, PageRuns, RunRuns, Top
  <2>3. Hearing'
    BY DEF Hearing, SetState, PageRuns, RunRuns, Nesting, Top
  <2> QED
    BY <2>1, <2>2, <2>3
<1>11. CASE Close
  <2> USE <1>11 DEF Close
  <2>1. {up', cancelled', nested'} \subseteq BOOLEAN
    OBVIOUS
  <2>2. \/ UNCHANGED <<state, stack>>
        \/ \E to \in States : SetState(to)
    OBVIOUS
  <2>3. state' \in States /\ stack' \in Seq(Frame)
    BY <2>2, StateSet DEF Frame
  <2>4. conns' \in 0..MaxConns /\ server' \in {0, conns'} /\ delay' \in minRedial..maxRedial /\ failures' \in Nat
    OBVIOUS
  <2>5. call' \in [Calls -> [at : {"idle", "calling", "answered", "disconnected"}, conn : 0..conns']]
    BY <2>4
  <2>6. TypeOK'
    BY <2>1, <2>3, <2>4, <2>5 DEF Frame
  <2>7. Nesting'
    <3>1. CASE stack = <<>>
      <4>1. Len(stack') <= 1
        BY <2>2, <3>1, StateSet DEF Frame
      <4> QED
        BY <4>1 DEF Nesting
    <3>2. CASE stack # <<>>
      BY <3>2 DEF Nesting
    <3> QED
      BY <3>1, <3>2
  <2>8. state' = "closed"
    BY DEF SetState
  <2>9. Connections'
    BY <2>8 DEF Connections
  <2>10. Hearing'
    <3>1. CASE stack = <<>>
      <4>1. state' # state => /\ stack' # <<>> /\ Len(stack') = Len(stack) + 1 /\ state # "closed"
                              /\ Top' = [state |-> state', left |-> subs, inside |-> FALSE]
        BY <2>2, StateSet DEF Frame, Top
      <4>2. state' = state => stack' = stack
        BY <2>2, StateSet DEF Frame
      <4>3. CASE state' = state
        BY <3>1, <4>2, <4>3 DEF Hearing, Nesting, PageRuns
      <4>4. CASE state' # state
        BY <3>1, <4>1, <4>4 DEF Hearing, Nesting, PageRuns
      <4> QED
        BY <4>3, <4>4
    <3>2. CASE stack # <<>>
      BY <3>2 DEF Hearing, RunRuns
    <3> QED
      BY <3>1, <3>2
  <2> QED
    BY <2>6, <2>7, <2>9, <2>10
<1>12. ASSUME NEW c \in Calls, Action(c) PROVE IInv'
  <2> USE <1>12 DEF Action, Uncalled
  <2>1. TypeOK'
    BY DEF SetState, Top
  <2>2. Nesting' /\ Connections'
    BY DEF Nesting, Connections, SetState, PageRuns, RunRuns, Top
  <2>3. Hearing'
    BY DEF Hearing, SetState, PageRuns, RunRuns, Nesting, Top
  <2> QED
    BY <2>1, <2>2, <2>3
<1>13. ASSUME NEW c \in Calls, ActionResolves(c) PROVE IInv'
  <2> USE <1>13 DEF ActionResolves
  <2>1. TypeOK'
    BY DEF SetState, Top
  <2>2. Nesting' /\ Connections'
    BY DEF Nesting, Connections, SetState, PageRuns, RunRuns, Top
  <2>3. Hearing'
    BY DEF Hearing, SetState, PageRuns, RunRuns, Nesting, Top
  <2> QED
    BY <2>1, <2>2, <2>3
<1>14. CASE UNCHANGED vars
  <2> USE <1>14
  <2>1. TypeOK'
    BY DEF SetState, Top
  <2>2. Nesting' /\ Connections'
    BY DEF Nesting, Connections, SetState, PageRuns, RunRuns, Top
  <2>3. Hearing'
    BY DEF Hearing, SetState, PageRuns, RunRuns, Nesting, Top
  <2> QED
    BY <2>1, <2>2, <2>3
<1> QED
  BY <1>1, <1>2, <1>3, <1>4, <1>5, <1>6, <1>7, <1>8, <1>9, <1>10, <1>11, <1>12, <1>13, <1>14
  DEF Next, Run, Telling

\* So every reachable state satisfies it.
LEMMA Invariance == Spec => []IInv
<1> QED
  BY Initially, Step, PTL DEF Spec

-----------------------------------------------------------------------------
(* The backoff *)

\* The delay is that of the failures there were, but for a redial's, which is that of
\* the failure it may end in; while connected there are none.
Backoff ==
    /\ run = "waiting" => delay = DelayAfter(failures)
    /\ run = "dialing" /\ opened # "none" => delay = DelayAfter(failures + 1)
    /\ run \in {"serving", "ending"} => failures = 0 /\ delay = minRedial /\ opened = "ok"

\* One more failure doubles the delay, up to maxRedial.
LEMMA DelayDoubles ==
  ASSUME NEW n \in Nat
  PROVE  DelayAfter(n + 1) = IF 2 * DelayAfter(n) < maxRedial THEN 2 * DelayAfter(n) ELSE maxRedial
<1>1. CASE n \in 0..4
  <2>1. n = 0 \/ n = 1 \/ n = 2 \/ n = 3 \/ n = 4
    BY <1>1
  <2> QED
    BY <2>1 DEF DelayAfter, maxRedial
<1>2. CASE n > 4
  BY <1>2 DEF DelayAfter, maxRedial
<1> QED
  BY <1>1, <1>2

\* Every step keeps to it.
LEMMA BackoffStep ==
  ASSUME TypeOK, Backoff, [Next]_vars
  PROVE  Backoff'
<1> USE DEF Backoff
<1>1. failures \in Nat /\ DelayAfter(0) = minRedial
  BY DEF TypeOK, DelayAfter, minRedial
<1>2. CASE Connected
  BY <1>2 DEF Connected
<1>3. CASE DialFails
  BY <1>3 DEF DialFails, AfterConnection
<1>4. CASE ServeEnds
  BY <1>4 DEF ServeEnds
<1>5. CASE ConnectionEnds
  BY <1>1, <1>5 DEF ConnectionEnds, AfterConnection
<1>6. CASE Redial
  <2>1. DelayAfter(failures + 1) = IF 2 * DelayAfter(failures) < maxRedial THEN 2 * DelayAfter(failures) ELSE maxRedial
    BY <1>1, DelayDoubles
  <2> QED
    BY <1>6, <2>1 DEF Redial
<1>7. ASSUME UNCHANGED <<run, delay, failures, opened>> PROVE Backoff'
  BY <1>7
<1>8. CASE Telling
  BY <1>7, <1>8 DEF Telling, Tell, Told, life
<1>9. CASE Drop
  BY <1>7, <1>9 DEF Drop
<1>10. ASSUME NEW s \in Subs, Subscribe(s) \/ Unsubscribe(s) PROVE Backoff'
  BY <1>7, <1>10 DEF Subscribe, Unsubscribe, life
<1>11. CASE Close
  BY <1>7, <1>11 DEF Close, life
<1>12. ASSUME NEW c \in Calls, Action(c) \/ ActionResolves(c) PROVE Backoff'
  BY <1>7, <1>12 DEF Action, ActionResolves, life
<1>13. CASE UNCHANGED vars
  BY <1>7, <1>13 DEF vars
<1> QED
  BY <1>2, <1>3, <1>4, <1>5, <1>6, <1>8, <1>9, <1>10, <1>11, <1>12, <1>13 DEF Next, Run

-----------------------------------------------------------------------------
(* The end of a session *)

\* A frame of setState is still there that will let the subscribers go.
CloseIsTold == once = "closing" => \E i \in 1..Len(stack) : stack[i].state = "closed"

\* A session that is being closed has its context cancelled, which ends run wherever
\* it is, and stays closed; run gives up for no other reason.
CloseIsFinal ==
    /\ state = "closed" <=> once # "no"
    /\ cancelled <=> once # "no"
    /\ run = "stopped" => cancelled
    /\ once = "closed" => subs = {}

\* Only run closes the session before it was ever open, and then it is done.
Unopened == opened = "none" => once = "no"

\* Only closing it tells of a closed session.
ClosedFrames == \A i \in 1..Len(stack) : stack[i].state = "closed" => once # "no"

Closing == CloseIsTold /\ CloseIsFinal /\ Unopened /\ ClosedFrames

\* A frame that setState pushes is the last, and leaves the others as they are.
LEMMA FramePushed ==
  ASSUME stack \in Seq(Frame), subs \in SUBSET Subs, state \in States, NEW to \in States, SetState(to)
  PROVE  /\ \A i \in 1..Len(stack) : i \in 1..Len(stack') /\ stack'[i] = stack[i]
         /\ \A i \in 1..Len(stack') : \/ i \in 1..Len(stack) /\ stack'[i] = stack[i]
                                      \/ stack'[i].state = to
         /\ to = "closed" /\ state # "closed" => \E i \in 1..Len(stack') : stack'[i].state = "closed"
<1> DEFINE f == [state |-> to, left |-> subs, inside |-> FALSE]
<1>1. f \in Frame /\ f.state = to /\ Len(stack) \in Nat
  BY DEF Frame
<1>2. CASE state = to \/ state = "closed"
  BY <1>2 DEF SetState
<1>3. CASE ~(state = to \/ state = "closed")
  <2>1. stack' = Append(stack, f)
    BY <1>3 DEF SetState
  <2> HIDE DEF f
  <2>2. /\ Len(stack') = Len(stack) + 1 /\ stack'[Len(stack) + 1] = f
        /\ \A i \in 1..Len(stack) : stack'[i] = stack[i]
    BY <1>1, <2>1
  <2>3. /\ Len(stack) + 1 \in 1..Len(stack') /\ \A i \in 1..Len(stack) : i \in 1..Len(stack')
        /\ \A i \in 1..Len(stack') : i \in 1..Len(stack) \/ i = Len(stack) + 1
    BY <1>1, <2>2
  <2> QED
    BY <1>1, <2>2, <2>3
<1> QED
  BY <1>2, <1>3

\* A step that sets no state, or one that is not "closed", leaves a session as open or
\* as closed as it was.
LEMMA KeepsClosing ==
  ASSUME IInv, Closing, UNCHANGED <<cancelled, once>>, opened' \in {opened, "ok"},
         subs' = subs \/ once = "no", run' = "stopped" => run = "stopped" \/ cancelled,
         \/ UNCHANGED <<state, stack>>
         \/ SetState("open")
         \/ SetState("reconnecting")
  PROVE  Closing'
<1>1. stack \in Seq(Frame) /\ subs \in SUBSET Subs /\ state \in States
  BY DEF IInv, TypeOK, Frame
<1>2. \A i \in 1..Len(stack) : i \in 1..Len(stack') /\ stack'[i] = stack[i]
  BY <1>1, FramePushed DEF States
<1>3. state' = "closed" <=> state = "closed"
  BY DEF SetState
<1>4. \A i \in 1..Len(stack') : stack'[i].state = "closed" => i \in 1..Len(stack) /\ stack'[i] = stack[i]
  BY <1>1, FramePushed DEF States
<1> QED
  BY <1>2, <1>3, <1>4 DEF Closing, CloseIsTold, CloseIsFinal, Unopened, ClosedFrames

\* Every step of the system keeps to it.
LEMMA ClosingStep ==
  ASSUME IInv, Closing, [Next]_vars
  PROVE  Closing'
<1>1. stack \in Seq(Frame) /\ subs \in SUBSET Subs /\ state \in States /\ Len(stack) \in Nat
  BY DEF IInv, TypeOK, Frame
<1>2. ASSUME SetState("closed"), cancelled', once' = "closing", once = "no", opened' # "none",
             run' \in {run, "stopped"}
      PROVE  Closing'
  <2>1. state # "closed" /\ state' = "closed"
    BY <1>2 DEF Closing, CloseIsFinal, SetState
  <2>2. \E i \in 1..Len(stack') : stack'[i].state = "closed"
    BY <1>1, <1>2, <2>1, FramePushed DEF States
  <2> QED
    BY <1>2, <2>1, <2>2 DEF Closing, CloseIsTold, CloseIsFinal, Unopened, ClosedFrames
<1>3. ASSUME AfterConnection, UNCHANGED subs, run # "stopped" PROVE Closing'
  <2>1. CASE opened = "none"
    BY <1>2, <1>3, <2>1 DEF AfterConnection, Closing, Unopened
  <2>2. CASE opened # "none"
    BY <1>3, <2>2, KeepsClosing DEF AfterConnection
  <2> QED
    BY <2>1, <2>2
<1>4. CASE Connected
  BY <1>4, KeepsClosing DEF Connected
<1>5. CASE DialFails
  BY <1>3, <1>5 DEF DialFails
<1>6. CASE ServeEnds
  BY <1>6, KeepsClosing DEF ServeEnds, telling
<1>7. CASE ConnectionEnds
  BY <1>3, <1>7 DEF ConnectionEnds
<1>8. CASE Redial
  BY <1>8, KeepsClosing DEF Redial, telling
<1>9. CASE Told
  <2>1. /\ Len(stack) \in Nat \ {0} /\ stack' = SubSeq(stack, 1, Len(stack) - 1)
        /\ Len(stack') = Len(stack) - 1
    BY <1>1, <1>9, Frames DEF Told
  <2>2. \A i \in 1..(Len(stack) - 1) : stack'[i] = stack[i]
    <3> DEFINE n == Len(stack) - 1
    <3>1. n \in Int /\ 1 \in Int /\ stack' = SubSeq(stack, 1, n)
      BY <2>1
    <3> HIDE DEF n
    <3>2. \A i \in 1..n : stack[i] \in Frame
      <4>1. \A i \in 1..Len(stack) : stack[i] \in Frame
        BY <1>1, ElementOfSeq
      <4>2. \A i \in 1..n : i \in 1..Len(stack)
        BY <2>1 DEF n
      <4> QED
        BY <4>1, <4>2
    <3>3. \A i \in 1..n : stack'[i] = stack[i]
      BY <2>1, <3>1
    <3> QED
      BY <3>3 DEF n
  <2>3. UNCHANGED <<run, opened, cancelled, state>>
    BY <1>9 DEF Told, life
  <2>4. CASE Top.state = "closed"
    <3>1. once' = "closed" /\ subs' = {}
      BY <1>9, <2>4 DEF Told, ReleaseAll
    <3>2. once # "no"
      BY <2>1, <2>4 DEF Closing, ClosedFrames, Top
    <3> QED
      BY <2>3, <3>1, <3>2 DEF Closing, CloseIsTold, CloseIsFinal, Unopened, ClosedFrames
  <2>5. CASE Top.state # "closed"
    <3>1. UNCHANGED <<once, subs>>
      BY <1>9, <2>5 DEF Told
    <3>2. CloseIsTold'
      <4> SUFFICES ASSUME once = "closing" PROVE \E i \in 1..Len(stack') : stack'[i].state = "closed"
        BY <3>1 DEF CloseIsTold
      <4>1. PICK i \in 1..Len(stack) : stack[i].state = "closed"
        BY DEF Closing, CloseIsTold
      <4>2. i # Len(stack)
        BY <2>5, <4>1 DEF Top
      <4>3. i \in 1..Len(stack') /\ stack'[i] = stack[i]
        BY <2>1, <2>2, <4>2
      <4> QED
        BY <4>1, <4>3
    <3>3. ClosedFrames'
      <4>1. \A i \in 1..Len(stack') : i \in 1..Len(stack) /\ stack'[i] = stack[i]
        BY <2>1, <2>2
      <4> QED
        BY <3>1, <4>1 DEF Closing, ClosedFrames
    <3> QED
      BY <2>3, <3>1, <3>2, <3>3 DEF Closing, CloseIsFinal, Unopened
  <2> QED
    BY <2>4, <2>5
<1>10. ASSUME NEW s \in Subs, Tell(s) PROVE Closing'
  <2>1. Len(stack) \in 1..Len(stack) /\ Top \in Frame
    BY <1>1, <1>10, Frames DEF Tell
  <2> DEFINE f == [Top EXCEPT !.left = Top.left \ {s}, !.inside = TRUE]
  <2>2. stack' = [stack EXCEPT ![Len(stack)] = f] /\ f \in Frame /\ f.state = Top.state
    BY <1>10, <2>1 DEF Tell, Frame
  <2> HIDE DEF f
  <2>3. /\ Len(stack') = Len(stack)
        /\ \A i \in 1..Len(stack) : stack'[i] = IF i = Len(stack) THEN f ELSE stack[i]
    BY ONLY <1>1, <2>1, <2>2, ExceptSeq
  <2>4. \A i \in 1..Len(stack) : stack'[i].state = stack[i].state
    BY <2>2, <2>3 DEF Top
  <2>5. UNCHANGED <<run, opened, cancelled, state, once, subs>>
    BY <1>10 DEF Tell, life
  <2> QED
    BY <2>3, <2>4, <2>5 DEF Closing, CloseIsTold, CloseIsFinal, Unopened, ClosedFrames
<1>11. CASE Drop
  BY <1>11, KeepsClosing DEF Drop, telling
<1>12. ASSUME NEW s \in Subs, Subscribe(s) \/ Unsubscribe(s) PROVE Closing'
  BY <1>12, KeepsClosing DEF Subscribe, Unsubscribe, life, PageRuns
<1>13. CASE Close
  BY <1>2, <1>13 DEF Close, PageRuns, life
<1>14. ASSUME NEW c \in Calls, Action(c) \/ ActionResolves(c) PROVE Closing'
  BY <1>14, KeepsClosing DEF Action, ActionResolves, life, telling
<1>15. CASE UNCHANGED vars
  BY <1>15, KeepsClosing DEF vars, life, telling
<1> QED
  BY <1>4, <1>5, <1>6, <1>7, <1>8, <1>9, <1>10, <1>11, <1>12, <1>13, <1>14, <1>15
  DEF Next, Run, Telling

-----------------------------------------------------------------------------
(* Results *)

\* The session's variables keep their types; its server is the connection of the
\* moment or none, and the delay stays between minRedial and maxRedial.
THEOREM SessionTypes == Spec => []TypeOK
<1> QED
  BY Invariance, PTL DEF IInv

\* Once all calls of setState have returned, every subscriber was last told the state
\* that the session is in, unless a subscriber called close.
THEOREM SubscribersKnowState == Spec => []HeardIsState
<1>1. IInv => HeardIsState
  BY DEF IInv, Hearing, HeardIsState
<1> QED
  BY <1>1, Invariance, PTL

\* Each wait before a redial is twice the one before, from minRedial up to maxRedial,
\* and starts over once a connection was open, also when a subscriber closes meanwhile.
THEOREM WaitsDouble == Spec => []BackoffFollowsFailures
<1>1. Init => Backoff
  BY DEF Init, Backoff
<1>2. TypeOK /\ Backoff /\ [Next]_vars => Backoff'
  BY BackoffStep
<1>3. Backoff => BackoffFollowsFailures
  BY DEF Backoff, BackoffFollowsFailures
<1> QED
  BY <1>1, <1>2, <1>3, SessionTypes, PTL DEF Spec

\* While the session reports itself open no action is refused for want of a
\* connection, even one that a subscriber calls.
THEOREM OpenServes == Spec => OpenAcceptsActions
<1>1. ASSUME IInv, [Next]_vars
      PROVE  [\A c \in Calls : Action(c) /\ state = "open" => call'[c].at = "calling"]_vars
  <2>1. ASSUME NEW c \in Calls, Action(c), state = "open" PROVE call'[c].at = "calling"
    <3>1. server # 0 /\ c \in DOMAIN call
      BY <1>1, <2>1 DEF IInv, Connections, TypeOK
    <3> QED
      BY <2>1, <3>1 DEF Action
  <2> QED
    BY <2>1
<1> QED
  BY <1>1, Invariance, PTL DEF Spec, OpenAcceptsActions

\* close is final: from the moment it is called the session's context is cancelled and
\* its state stays "closed", what it has begun to tell is there to be finished, and then
\* no subscriber is left; and run stops for no other reason than a session closed.
THEOREM ClosingIsFinal == Spec => [](CloseIsTold /\ CloseIsFinal)
<1>1. Init => Closing
  BY DEF Init, Closing, CloseIsTold, CloseIsFinal, Unopened, ClosedFrames
<1>2. IInv /\ Closing /\ [Next]_vars => Closing'
  BY ClosingStep
<1>3. Closing => CloseIsTold /\ CloseIsFinal
  BY DEF Closing
<1> QED
  BY <1>1, <1>2, <1>3, Invariance, PTL DEF Spec
=============================================================================
