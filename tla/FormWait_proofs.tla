---------------------------- MODULE FormWait_proofs ----------------------------
(***************************************************************************)
(* Proofs about FormWait for any number of names, bindings and calls: a     *)
(* name stands for its latest binding, the queue is the blocked calls, and  *)
(* a call that is alone finds its form.                                    *)
(***************************************************************************)
EXTENDS FormWait, TLAPS

-----------------------------------------------------------------------------
(* The inductive invariant *)

\* The calls, and what they look for or have found.
Waiting ==
    [at : {"idle"}] \cup [at : {"checking", "blocked", "closing"}, name : Names]
        \cup [at : {"resolved"}, name : Names, form : Bindings]

Shapes ==
    /\ made \in Seq(Bindings) /\ queue \in Seq(Waiters)
    /\ waiter \in [Waiters -> Waiting]
    /\ forgotten \subseteq Names

\* A call is in the queue once.
QueuedOnce == \A i, j \in 1..Len(queue) : queue[i] = queue[j] => i = j

\* A binding is made once, and before it is bound.
MadeOnce ==
    /\ \A i, j \in 1..Len(made) : made[i] = made[j] => i = j
    /\ \A b \in handles : \E i \in 1..Len(made) : made[i] = b

\* The places of the bindings of a name in the order they were made, and the last.
Under(s, n) == {i \in 1..Len(s) : NameOf[s[i]] = n}
Top(S) == CHOOSE i \in S : \A j \in S : j <= i

HasLatest ==
    \A n \in Names : Under(made, n) # {} =>
        \E i \in Under(made, n) : \A j \in Under(made, n) : j <= i

\* No call that is alone is blocked on a form that is there.
OnlyCallFinds == \A w \in Waiters : FindsAlone(w)

IInv ==
    /\ TypeOK
    /\ Shapes
    /\ QueuedOnce
    /\ MadeOnce
    /\ HasLatest
    /\ NameIsLatest
    /\ OnlyCallFinds

-----------------------------------------------------------------------------
(* The queue and the places of bindings *)

\* The head of the queue goes, and the others stay.
LEMMA TailOnce ==
  ASSUME NEW q \in Seq(Waiters), q # <<>>, \A i, j \in 1..Len(q) : q[i] = q[j] => i = j
  PROVE  /\ Head(q) \in Waiters /\ Head(q) \in {q[i] : i \in 1..Len(q)}
         /\ Tail(q) \in Seq(Waiters)
         /\ \A i, j \in 1..Len(Tail(q)) : Tail(q)[i] = Tail(q)[j] => i = j
         /\ {Tail(q)[i] : i \in 1..Len(Tail(q))} = {q[i] : i \in 1..Len(q)} \ {Head(q)}
<1>1. Len(q) \in Nat \ {0} /\ Head(q) = q[1] /\ Tail(q) \in Seq(Waiters) /\ Len(Tail(q)) = Len(q) - 1
  OBVIOUS
<1>2. \A i \in 1..Len(Tail(q)) : Tail(q)[i] = q[i + 1]
  BY <1>1
<1>3. \A i, j \in 1..Len(Tail(q)) : Tail(q)[i] = Tail(q)[j] => i = j
  BY <1>1, <1>2
<1>4. ASSUME NEW x PROVE x \in {Tail(q)[i] : i \in 1..Len(Tail(q))} <=> x \in {q[i] : i \in 1..Len(q)} \ {Head(q)}
  <2>1. ASSUME NEW i \in 1..Len(Tail(q)), x = Tail(q)[i] PROVE x = q[i + 1] /\ i + 1 \in 1..Len(q) /\ x # q[1]
    BY <1>1, <1>2, <2>1
  <2>2. ASSUME NEW i \in 1..Len(q), x = q[i], x # q[1] PROVE x = Tail(q)[i - 1] /\ i - 1 \in 1..Len(Tail(q))
    BY <1>1, <1>2, <2>2
  <2> QED
    BY <1>1, <2>1, <2>2
<1> QED
  BY <1>1, <1>3, <1>4

\* A call that was not in the queue is added to it.
LEMMA AppendOnce ==
  ASSUME NEW q \in Seq(Waiters), \A i, j \in 1..Len(q) : q[i] = q[j] => i = j,
         NEW w \in Waiters, w \notin {q[i] : i \in 1..Len(q)}
  PROVE  /\ Append(q, w) \in Seq(Waiters)
         /\ \A i, j \in 1..Len(Append(q, w)) : Append(q, w)[i] = Append(q, w)[j] => i = j
         /\ {Append(q, w)[i] : i \in 1..Len(Append(q, w))} = {q[i] : i \in 1..Len(q)} \cup {w}
<1>1. Len(q) \in Nat /\ Len(Append(q, w)) = Len(q) + 1 /\ Append(q, w)[Len(q) + 1] = w
  OBVIOUS
<1>2. \A i \in 1..Len(q) : Append(q, w)[i] = q[i]
  OBVIOUS
<1>3. \A i, j \in 1..Len(Append(q, w)) : Append(q, w)[i] = Append(q, w)[j] => i = j
  BY <1>1, <1>2
<1>4. {Append(q, w)[i] : i \in 1..Len(Append(q, w))} = {q[i] : i \in 1..Len(q)} \cup {w}
  BY <1>1, <1>2
<1> QED
  BY <1>3, <1>4

\* A signal leaves the queue the blocked calls; another call than a blocked one has
\* been made.
LEMMA Signalled ==
  ASSUME TypeOK, Shapes, QueuedOnce, SignalAdded
  PROVE  /\ queue' \in Seq(Waiters) /\ waiter' \in [Waiters -> Waiting] /\ token' \in BOOLEAN /\ QueuedOnce'
         /\ {queue'[i] : i \in 1..Len(queue')} = {w \in Waiters : waiter'[w].at = "blocked"}
         /\ \A w \in Waiters : waiter'[w].at = "blocked" =>
                waiter[w].at = "blocked" /\ \E v \in Waiters \ {w} : waiter'[v] # Idle
<1> DEFINE Blocked == {w \in Waiters : waiter[w].at = "blocked"}
<1>1. CASE queue # <<>>
  <2> DEFINE h == Head(queue)
  <2>1. queue' = Tail(queue) /\ waiter' = [waiter EXCEPT ![h].at = "checking"] /\ token' = token
    BY <1>1 DEF SignalAdded, Wake
  <2>2. queue \in Seq(Waiters) /\ \A i, j \in 1..Len(queue) : queue[i] = queue[j] => i = j
    BY DEF Shapes, QueuedOnce
  <2>3. /\ h \in {queue[i] : i \in 1..Len(queue)} /\ Tail(queue) \in Seq(Waiters)
        /\ \A i, j \in 1..Len(Tail(queue)) : Tail(queue)[i] = Tail(queue)[j] => i = j
        /\ {Tail(queue)[i] : i \in 1..Len(Tail(queue))} = {queue[i] : i \in 1..Len(queue)} \ {h}
    BY <1>1, <2>2, TailOnce
  <2>4. {queue[i] : i \in 1..Len(queue)} = Blocked
    BY DEF TypeOK
  <2>5. h \in Blocked /\ queue' \in Seq(Waiters) /\ QueuedOnce' /\ {queue'[i] : i \in 1..Len(queue')} = Blocked \ {h}
    <3>1. {queue'[i] : i \in 1..Len(queue')} = {Tail(queue)[i] : i \in 1..Len(Tail(queue))}
      BY <2>1
    <3>2. QueuedOnce'
      BY <2>1, <2>3 DEF QueuedOnce
    <3> HIDE DEF h, Blocked
    <3> QED
      BY <2>1, <2>3, <2>4, <3>1, <3>2
  <2>6. waiter[h] \in [at : {"checking", "blocked", "closing"}, name : Names]
    BY <2>5 DEF Shapes, Waiting
  <2>7. [waiter[h] EXCEPT !.at = "checking"] \in Waiting /\ [waiter[h] EXCEPT !.at = "checking"].at = "checking"
    BY <2>6 DEF Waiting
  <2> HIDE DEF h
  <2>8. waiter' \in [Waiters -> Waiting] /\ waiter'[h].at = "checking" /\ \A w \in Waiters \ {h} : waiter'[w] = waiter[w]
    BY <2>1, <2>5, <2>7 DEF Shapes
  <2>9. {w \in Waiters : waiter'[w].at = "blocked"} = Blocked \ {h}
    BY <2>8
  <2>10. waiter'[h] # Idle /\ h \in Waiters
    BY <2>5, <2>8 DEF Idle
  <2> QED
    BY <2>1, <2>2, <2>5, <2>8, <2>9, <2>10 DEF TypeOK
<1>2. CASE queue = <<>>
  <2>1. Blocked = {}
    BY <1>2 DEF TypeOK
  <2>2. queue' = queue /\ waiter' = waiter /\ token' = TRUE
    BY <1>2 DEF SignalAdded
  <2> QED
    BY <2>1, <2>2 DEF TypeOK, Shapes, QueuedOnce
<1> QED
  BY <1>1, <1>2

\* The last place of a set that has one.
LEMMA TopIs ==
  ASSUME NEW S \in SUBSET Int, NEW m \in S, \A j \in S : j <= m
  PROVE  Top(S) = m
<1>1. \E i \in S : \A j \in S : j <= i
  OBVIOUS
<1>2. Top(S) \in S /\ \A j \in S : j <= Top(S)
  BY <1>1 DEF Top
<1>3. Top(S) <= m /\ m <= Top(S) /\ Top(S) \in Int /\ m \in Int
  BY <1>2
<1> QED
  BY <1>3

\* The binding that was made last is the latest of its name, and of no other.
LEMMA LatestAppended ==
  ASSUME made \in Seq(Bindings), HasLatest, NEW b \in Bindings, made' = Append(made, b)
  PROVE  /\ HasLatest'
         /\ \A n \in Names : Latest(n)' = IF n = NameOf[b] THEN b ELSE Latest(n)
<1>1. ASSUME NEW n \in Names
      PROVE  Under(made', n) = IF n = NameOf[b] THEN Under(made, n) \cup {Len(made) + 1} ELSE Under(made, n)
  BY <1>1 DEF Under
<1>2. ASSUME NEW n \in Names
      PROVE  /\ Latest(n) = IF Under(made, n) = {} THEN None ELSE made[Top(Under(made, n))]
             /\ Latest(n)' = IF Under(made', n) = {} THEN None ELSE made'[Top(Under(made', n))]
  BY DEF Latest, Under, Top
<1>3. ASSUME NEW n \in Names, n = NameOf[b]
      PROVE  /\ \A j \in Under(made', n) : j <= Len(made) + 1
             /\ Len(made) + 1 \in Under(made', n) /\ Latest(n)' = b
  <2>1. Under(made', n) \in SUBSET Int /\ Len(made) + 1 \in Under(made', n)
        /\ \A j \in Under(made', n) : j <= Len(made) + 1
    BY <1>1, <1>3 DEF Under
  <2>2. Top(Under(made', n)) = Len(made) + 1 /\ made'[Len(made) + 1] = b
    BY <2>1, TopIs
  <2> QED
    BY <1>2, <2>1, <2>2
<1>4. ASSUME NEW n \in Names, n # NameOf[b]
      PROVE  Under(made', n) = Under(made, n) /\ Latest(n)' = Latest(n)
  <2>1. Under(made', n) = Under(made, n)
    BY <1>1, <1>4
  <2>2. ASSUME Under(made, n) # {} PROVE made'[Top(Under(made, n))] = made[Top(Under(made, n))]
    <3>1. PICK m \in Under(made, n) : \A j \in Under(made, n) : j <= m
      BY <2>2 DEF HasLatest
    <3>2. Under(made, n) \in SUBSET Int /\ m \in 1..Len(made)
      BY DEF Under
    <3>3. Top(Under(made, n)) = m
      BY <3>1, <3>2, TopIs
    <3> QED
      BY <3>2, <3>3
  <2> QED
    BY <1>2, <2>1, <2>2
<1>5. HasLatest'
  BY <1>3, <1>4 DEF HasLatest
<1> QED
  BY <1>3, <1>4, <1>5

\* The latest binding of a name has it.
LEMMA LatestNamed ==
  ASSUME made \in Seq(Bindings), HasLatest, NEW n \in Names
  PROVE  Latest(n) = None \/ (Latest(n) \in Bindings /\ NameOf[Latest(n)] = n)
<1>1. Latest(n) = IF Under(made, n) = {} THEN None ELSE made[Top(Under(made, n))]
  BY DEF Latest, Under, Top
<1>2. CASE Under(made, n) # {}
  <2>1. PICK m \in Under(made, n) : \A j \in Under(made, n) : j <= m
    BY <1>2 DEF HasLatest
  <2>2. Under(made, n) \in SUBSET Int /\ m \in 1..Len(made) /\ NameOf[made[m]] = n
    BY DEF Under
  <2>3. Top(Under(made, n)) = m
    BY <2>1, <2>2, TopIs
  <2>4. Latest(n) = made[m]
    BY <1>1, <1>2, <2>3
  <2> QED
    BY <2>2, <2>4
<1>3. ASSUME Under(made, n) = {} PROVE Latest(n) = None
  BY <1>1, <1>3
<1> QED
  BY <1>2, <1>3

\* A step that makes no binding keeps the latest ones.
LEMMA LatestKept ==
  ASSUME UNCHANGED made
  PROVE  (HasLatest' <=> HasLatest) /\ \A n \in Names : Latest(n)' = Latest(n)
BY DEF HasLatest, Under, Latest

\* A call becomes x, and the others stay.
LEMMA WaiterBecomes ==
  ASSUME Shapes, NEW w \in Waiters, NEW x \in Waiting, waiter' = [waiter EXCEPT ![w] = x]
  PROVE  /\ waiter' \in [Waiters -> Waiting] /\ waiter'[w] = x
         /\ \A v \in Waiters \ {w} : waiter'[v] = waiter[v]
BY DEF Shapes

\* A call that is looking or waiting has a name, and is not idle.
LEMMA WaitingAt ==
  ASSUME NEW x \in Waiting
  PROVE  x.at \in {"idle", "checking", "blocked", "resolved", "closing"}
         /\ (x.at \in {"checking", "blocked", "closing"} => x \in [at : {"checking", "blocked", "closing"}, name : Names])
         /\ (x.at # "idle" => x # Idle)
BY DEF Waiting, Idle

-----------------------------------------------------------------------------
(* Every step preserves it *)

\* The initial states satisfy the invariant.
LEMMA Initially == Init => IInv
<1> SUFFICES ASSUME Init PROVE IInv
  OBVIOUS
<1> USE FormWaitAssumption DEF Init, Idle
<1>1. waiter \in [Waiters -> Waiting] /\ \A w \in Waiters : waiter[w].at = "idle"
  BY DEF Waiting
<1>2. TypeOK /\ Shapes
  <2>1. formIDs \in [Names -> Bindings \cup {None}]
    OBVIOUS
  <2>2. {queue[i] : i \in 1..Len(queue)} = {w \in Waiters : waiter[w].at = "blocked"}
    BY <1>1
  <2>3. {token, closed, rebinding} \subseteq BOOLEAN
    OBVIOUS
  <2> QED
    BY <1>1, <2>1, <2>2, <2>3 DEF TypeOK, Shapes
<1>3. QueuedOnce /\ MadeOnce /\ HasLatest
  BY DEF QueuedOnce, MadeOnce, HasLatest, Under
<1>4. NameIsLatest /\ OnlyCallFinds
  BY <1>1 DEF NameIsLatest, OnlyCallFinds, FindsAlone
<1> QED
  BY <1>2, <1>3, <1>4 DEF IInv

\* Every step of the system preserves the invariant.
LEMMA Step ==
  ASSUME IInv, [Next]_vars
  PROVE  IInv'
<1> USE FormWaitAssumption DEF IInv, TypeOK, vars
<1>1. ASSUME NEW b \in Bindings, NewValueBinding(b) PROVE IInv'
  <2> USE <1>1 DEF NewValueBinding
  <2>1. Append(made, b) \in Seq(Bindings) /\ made' = Append(made, b)
    BY DEF Shapes
  <2>2. /\ queue' \in Seq(Waiters) /\ waiter' \in [Waiters -> Waiting] /\ token' \in BOOLEAN /\ QueuedOnce'
        /\ {queue'[i] : i \in 1..Len(queue')} = {w \in Waiters : waiter'[w].at = "blocked"}
        /\ \A w \in Waiters : waiter'[w].at = "blocked" =>
                waiter[w].at = "blocked" /\ \E v \in Waiters \ {w} : waiter'[v] # Idle
    BY Signalled
  <2>3. TypeOK' /\ Shapes'
    <3>1. \A w \in Waiters : waiter'[w].at \in {"idle", "checking", "blocked", "resolved", "closing"}
      BY <2>2 DEF Waiting
    <3> QED
      BY <2>1, <2>2, <3>1 DEF Shapes
  <2>4. MadeOnce'
    <3>1. Len(made') = Len(made) + 1 /\ made'[Len(made) + 1] = b
          /\ \A i \in 1..Len(made) : made'[i] = made[i]
      BY <2>1 DEF Shapes
    <3>2. Len(made) \in Nat
      BY DEF Shapes
    <3>3. \A i, j \in 1..Len(made') : made'[i] = made'[j] => i = j
      BY <3>1, <3>2 DEF MadeOnce
    <3>4. \A d \in handles' : \E i \in 1..Len(made') : made'[i] = d
      BY <3>1, <3>2 DEF MadeOnce
    <3> QED
      BY <3>3, <3>4 DEF MadeOnce
  <2>5. HasLatest' /\ \A n \in Names : Latest(n)' = IF n = NameOf[b] THEN b ELSE Latest(n)
    BY <2>1, LatestAppended DEF Shapes
  <2>6. NameIsLatest'
    <3> SUFFICES ASSUME NEW n \in Names
                 PROVE  IF Latest(n)' \in handles' /\ n \notin forgotten'
                        THEN formIDs'[n] = Latest(n)' ELSE formIDs'[n] = None
      BY DEF NameIsLatest
    <3>1. CASE n = NameOf[b]
      BY <2>5, <3>1
    <3>2. CASE n # NameOf[b]
      <4>1. Latest(n) # b
        BY <3>2, LatestNamed DEF Shapes
      <4> QED
        BY <2>5, <3>2, <4>1 DEF NameIsLatest
    <3> QED
      BY <3>1, <3>2
  <2>7. OnlyCallFinds'
    BY <2>2 DEF OnlyCallFinds, FindsAlone
  <2> QED
    BY <2>2, <2>3, <2>4, <2>5, <2>6, <2>7
<1>2. ASSUME NEW b \in Bindings, Unbind(b) PROVE IInv'
  <2> USE <1>2 DEF Unbind
  <2>1. HasLatest' /\ \A n \in Names : Latest(n)' = Latest(n)
    BY LatestKept
  <2>2. TypeOK' /\ Shapes' /\ QueuedOnce' /\ MadeOnce'
    BY DEF FormIDsWithout, Shapes, QueuedOnce, MadeOnce
  <2>3. NameIsLatest'
    BY <2>1 DEF NameIsLatest, FormIDsWithout
  <2>4. OnlyCallFinds'
    BY DEF OnlyCallFinds, FindsAlone, Found, FormIDsWithout, Shapes, Waiting
  <2> QED
    BY <2>1, <2>2, <2>3, <2>4
<1>3. CASE AskRebind
  <2> USE <1>3 DEF AskRebind, ClearForms
  <2>1. HasLatest' /\ \A n \in Names : Latest(n)' = Latest(n)
    BY LatestKept
  <2>2. TypeOK' /\ Shapes' /\ QueuedOnce' /\ MadeOnce'
    BY DEF Shapes, QueuedOnce, MadeOnce
  <2>3. NameIsLatest'
    <3>1. ASSUME NEW n \in Names, n \notin forgotten' PROVE Latest(n) = None
      BY <3>1 DEF Latest
    <3> QED
      BY <2>1, <3>1 DEF NameIsLatest
  <2>4. OnlyCallFinds'
    BY DEF OnlyCallFinds, FindsAlone, Found, Shapes, Waiting
  <2> QED
    BY <2>1, <2>2, <2>3, <2>4
<1>4. CASE Rebind
  <2> USE <1>4 DEF Rebind, ClearForms
  <2>1. HasLatest' /\ \A n \in Names : Latest(n)' = Latest(n)
    BY LatestKept
  <2>2. TypeOK' /\ Shapes' /\ QueuedOnce' /\ MadeOnce'
    <3>1. formIDs' \in [Names -> Bindings \cup {None}] /\ forgotten' \subseteq Names
      OBVIOUS
    <3>2. {token', closed', rebinding'} \subseteq BOOLEAN
      OBVIOUS
    <3> QED
      BY <3>1, <3>2 DEF Shapes, QueuedOnce, MadeOnce
  <2>3. NameIsLatest'
    <3>1. ASSUME NEW n \in Names, n \notin forgotten' PROVE Latest(n) = None
      BY <3>1 DEF Latest
    <3> QED
      BY <2>1, <3>1 DEF NameIsLatest
  <2>4. OnlyCallFinds'
    BY DEF OnlyCallFinds, FindsAlone, Found, Shapes, Waiting
  <2> QED
    BY <2>1, <2>2, <2>3, <2>4
<1>5. ASSUME NEW w \in Waiters, NEW n \in Names, Ask(w, n) PROVE IInv'
  <2> USE <1>5 DEF Ask
  <2> DEFINE x == [at |-> "checking", name |-> n]
  <2>1. x \in Waiting /\ x.at = "checking" /\ waiter[w].at # "blocked"
    BY DEF Waiting, Idle
  <2> HIDE DEF x
  <2>2. waiter' \in [Waiters -> Waiting] /\ waiter'[w] = x /\ \A v \in Waiters \ {w} : waiter'[v] = waiter[v]
    BY <2>1, WaiterBecomes DEF x
  <2>3. TypeOK' /\ Shapes'
    <3>1. {v \in Waiters : waiter'[v].at = "blocked"} = {v \in Waiters : waiter[v].at = "blocked"}
      BY <2>1, <2>2
    <3>2. \A v \in Waiters : waiter'[v].at \in {"idle", "checking", "blocked", "resolved", "closing"}
      BY <2>2, WaitingAt
    <3> QED
      BY <2>2, <3>1, <3>2 DEF Shapes
  <2>4. QueuedOnce' /\ MadeOnce'
    BY DEF QueuedOnce, MadeOnce
  <2>5. HasLatest' /\ NameIsLatest'
    BY LatestKept DEF NameIsLatest
  <2>6. OnlyCallFinds'
    BY <2>1, <2>2, WaitingAt DEF OnlyCallFinds, FindsAlone, Found
  <2> QED
    BY <2>3, <2>4, <2>5, <2>6
<1>6. ASSUME NEW w \in Waiters, Resolve(w) PROVE IInv'
  <2> USE <1>6 DEF Resolve
  <2> DEFINE x == [at |-> "resolved", name |-> waiter[w].name, form |-> formIDs[waiter[w].name]]
  <2>1. x \in Waiting /\ x.at = "resolved" /\ waiter[w].at # "blocked"
    <3>1. waiter[w].name \in Names
      BY DEF Shapes, Waiting
    <3>2. formIDs[waiter[w].name] \in Bindings
      BY <3>1 DEF Found
    <3> QED
      BY <3>1, <3>2 DEF Waiting
  <2>2. waiter' = [waiter EXCEPT ![w] = x]
    OBVIOUS
  <2> HIDE DEF x
  <2>3. waiter' \in [Waiters -> Waiting] /\ waiter'[w] = x /\ \A v \in Waiters \ {w} : waiter'[v] = waiter[v]
    BY <2>1, <2>2, WaiterBecomes
  <2>4. TypeOK' /\ Shapes'
    <3>1. {v \in Waiters : waiter'[v].at = "blocked"} = {v \in Waiters : waiter[v].at = "blocked"}
      BY <2>1, <2>3
    <3>2. \A v \in Waiters : waiter'[v].at \in {"idle", "checking", "blocked", "resolved", "closing"}
      BY <2>3, WaitingAt
    <3> QED
      BY <2>3, <3>1, <3>2 DEF Shapes
  <2>5. QueuedOnce' /\ MadeOnce'
    BY DEF QueuedOnce, MadeOnce
  <2>6. HasLatest' /\ NameIsLatest'
    BY LatestKept DEF NameIsLatest
  <2>7. OnlyCallFinds'
    BY <2>1, <2>3, WaitingAt DEF OnlyCallFinds, FindsAlone, Found
  <2> QED
    BY <2>4, <2>5, <2>6, <2>7
<1>7. ASSUME NEW w \in Waiters, Block(w) PROVE IInv'
  <2> USE <1>7 DEF Block
  <2> DEFINE x == [waiter[w] EXCEPT !.at = IF closed THEN "closing" ELSE "blocked"]
  <2>1. waiter[w] \in [at : {"checking", "blocked", "closing"}, name : Names]
    BY WaitingAt DEF Shapes
  <2>2. x \in Waiting /\ x.at = (IF closed THEN "closing" ELSE "blocked") /\ x.name = waiter[w].name
    BY <2>1 DEF Waiting
  <2>3. waiter' = [waiter EXCEPT ![w] = x]
    OBVIOUS
  <2> HIDE DEF x
  <2>4. waiter' \in [Waiters -> Waiting] /\ waiter'[w] = x /\ \A v \in Waiters \ {w} : waiter'[v] = waiter[v]
    BY <2>2, <2>3, WaiterBecomes
  <2>5. \A v \in Waiters : waiter'[v].at \in {"idle", "checking", "blocked", "resolved", "closing"}
    BY <2>4, WaitingAt
  <2>6. TypeOK' /\ Shapes' /\ QueuedOnce'
    <3>1. CASE closed
      <4>1. {v \in Waiters : waiter'[v].at = "blocked"} = {v \in Waiters : waiter[v].at = "blocked"}
        BY <2>2, <2>4, <3>1
      <4>2. {token', closed', rebinding'} \subseteq BOOLEAN
        OBVIOUS
      <4>3. queue' = queue
        BY <3>1
      <4>4. {queue'[i] : i \in 1..Len(queue')} = {v \in Waiters : waiter'[v].at = "blocked"}
        BY <4>1, <4>3
      <4> QED
        BY <2>4, <2>5, <4>2, <4>3, <4>4 DEF Shapes, QueuedOnce
    <3>2. CASE ~closed
      <4>1. {v \in Waiters : waiter'[v].at = "blocked"} = {v \in Waiters : waiter[v].at = "blocked"} \cup {w}
        BY <2>2, <2>4, <3>2
      <4>2. w \notin {queue[i] : i \in 1..Len(queue)} /\ queue' = Append(queue, w) /\ queue \in Seq(Waiters)
        BY <3>2 DEF Shapes
      <4>3. queue' \in Seq(Waiters) /\ {queue'[i] : i \in 1..Len(queue')} = {queue[i] : i \in 1..Len(queue)} \cup {w}
            /\ \A i, j \in 1..Len(queue') : queue'[i] = queue'[j] => i = j
        BY <4>2, AppendOnce DEF QueuedOnce
      <4> QED
        BY <2>4, <2>5, <4>1, <4>3 DEF Shapes, QueuedOnce
    <3> QED
      BY <3>1, <3>2
  <2>7. MadeOnce' /\ HasLatest' /\ NameIsLatest'
    BY LatestKept DEF MadeOnce, NameIsLatest
  <2>8. OnlyCallFinds'
    <3> SUFFICES ASSUME NEW v \in Waiters, waiter'[v].at = "blocked", Found(v)'
                 PROVE  \E u \in Waiters \ {v} : waiter'[u] # Idle
      BY DEF OnlyCallFinds, FindsAlone
    <3>1. v # w
      BY <2>2, <2>4 DEF Found
    <3>2. waiter'[w] # Idle
      BY <2>2, <2>4, WaitingAt
    <3> QED
      BY <3>1, <3>2
  <2> QED
    BY <2>6, <2>7, <2>8
<1>8. CASE Release
  <2> USE <1>8 DEF Release
  <2>1. \A w \in Waiters : IF waiter[w].at = "blocked"
                           THEN waiter'[w] \in Waiting /\ waiter'[w].at = "closing"
                           ELSE waiter'[w] = waiter[w]
    <3> SUFFICES ASSUME NEW w \in Waiters, waiter[w].at = "blocked"
                 PROVE  [waiter[w] EXCEPT !.at = "closing"] \in Waiting
                        /\ [waiter[w] EXCEPT !.at = "closing"].at = "closing"
      OBVIOUS
    <3>1. waiter[w] \in [at : {"checking", "blocked", "closing"}, name : Names]
      BY WaitingAt DEF Shapes
    <3> QED
      BY <3>1 DEF Waiting
  <2>2. waiter' \in [Waiters -> Waiting] /\ \A w \in Waiters : waiter'[w].at # "blocked"
    BY <2>1 DEF Shapes
  <2>3. \A w \in Waiters : waiter'[w].at \in {"idle", "checking", "blocked", "resolved", "closing"}
    BY <2>2, WaitingAt
  <2>4. TypeOK' /\ Shapes' /\ QueuedOnce'
    BY <2>2, <2>3 DEF Shapes, QueuedOnce
  <2>5. MadeOnce' /\ HasLatest' /\ NameIsLatest'
    BY LatestKept DEF MadeOnce, NameIsLatest
  <2>6. OnlyCallFinds'
    BY <2>2 DEF OnlyCallFinds, FindsAlone
  <2> QED
    BY <2>4, <2>5, <2>6
<1>9. CASE UNCHANGED vars
  <2> USE <1>9
  <2>1. TypeOK' /\ Shapes' /\ QueuedOnce' /\ MadeOnce'
    BY DEF Shapes, QueuedOnce, MadeOnce
  <2>2. HasLatest' /\ NameIsLatest'
    BY LatestKept DEF NameIsLatest
  <2>3. OnlyCallFinds'
    BY DEF OnlyCallFinds, FindsAlone, Found
  <2> QED
    BY <2>1, <2>2, <2>3
<1> QED
  BY <1>1, <1>2, <1>3, <1>4, <1>5, <1>6, <1>7, <1>8, <1>9
  DEF Next, Look

\* So every reachable state satisfies it.
LEMMA Invariance == Spec => []IInv
<1> QED
  BY Initially, Step, PTL DEF Spec

-----------------------------------------------------------------------------
(* Results *)

\* The calls blocked on formAdded are those in its queue, each once.
THEOREM WaitTypes == Spec => []TypeOK
<1> QED
  BY Invariance, PTL DEF IInv

\* While the latest binding of a name is bound the name stands for it, whatever older
\* ones are unbound meanwhile, for any number of bindings and names.
THEOREM NamesFollowBindings == Spec => []NameIsLatest
<1> QED
  BY Invariance, PTL DEF IInv

\* A call that is the only one is never blocked on a form that is there.
THEOREM NoAdditionIsLost == Spec => []OnlyCallFinds
<1> QED
  BY Invariance, PTL DEF IInv
=============================================================================
