--------------------------- MODULE PathTree_proofs ---------------------------
(***************************************************************************)
(* Proofs about PathTree for a list and a window of any size: the trees    *)
(* follow their sources, and what is told of the paths is what they show.  *)
(***************************************************************************)
EXTENDS PathTree, FiniteSetTheorems, FunctionTheorems, TLAPS

-----------------------------------------------------------------------------
(* The inductive invariant *)

\* No element is in the list twice: the keeper of the copy that sets a path is told
\* nothing of it, and so nothing of another row with the same element.
Distinct == \A i, j \in 1..Size : data[i] = data[j] /\ data[i] # Nil => i = j

\* The binding's observer has a node for its row alone, and none once it is released.
BoundNodes == \A t \in attached : t[1] = "bound" => bound /\ t[2] = Bound

IInv ==
    /\ TypeOK
    /\ Distinct
    /\ BoundNodes
    /\ TreeFollowsSource
    /\ PathsShowFields

-----------------------------------------------------------------------------
(* Rows and their elements *)

\* In the window there are elements, and each is in one row.
LEMMA ElementsInRows ==
  ASSUME TypeOK, TreeFollowsSource
  PROVE  \A k \in Rows : offset + k \in 1..Size /\ At(k) \in Elements
<1> SUFFICES ASSUME NEW k \in Rows PROVE offset + k \in 1..Size /\ At(k) \in Elements
  OBVIOUS
<1>1. offset + k \in 1..Size
  BY PathAssumption DEF TypeOK, Rows
<1>2. <<"up", k, At(k)>> \in {"up", "bound"} \X Rows \X Elements
  BY DEF TypeOK, TreeFollowsSource
<1> QED
  BY <1>1, <1>2

\* Nodes and observers are for an element below a row.
LEMMA NodeParts ==
  ASSUME NEW t \in {"up", "bound"} \X Rows \X Elements
  PROVE  t = <<t[1], t[2], t[3]>> /\ t[1] \in {"up", "bound"} /\ t[2] \in Rows /\ t[3] \in Elements
OBVIOUS

\* A path is set in the element of its row, whether or not there is a node for it.
LEMMA BelowIsAt ==
  ASSUME TreeFollowsSource, NEW o, NEW k
  PROVE  Below(o, k) = At(k)
<1>1. CASE \E t \in attached : t[1] = o /\ t[2] = k
  <2> DEFINE t == CHOOSE t \in attached : t[1] = o /\ t[2] = k
  <2>1. t \in attached /\ t[2] = k
    BY <1>1
  <2>2. t[3] = At(k)
    BY <2>1 DEF TreeFollowsSource
  <2> QED
    BY <1>1, <2>2 DEF Below
<1>2. CASE ~\E t \in attached : t[1] = o /\ t[2] = k
  BY <1>2 DEF Below
<1> QED
  BY <1>1, <1>2

\* A source that is moved over at most one nil pointer has one new element.
LEMMA AtMostOne ==
  ASSUME NEW S \in SUBSET Rows, Cardinality(S) <= 1, NEW j \in S, NEW k \in S
  PROVE  j = k
<1>1. IsFiniteSet(Rows)
  BY PathAssumption, FS_Interval DEF Rows
<1>2. IsFiniteSet(S) /\ IsFiniteSet({j})
  BY <1>1, FS_Subset, FS_Singleton
<1>3. SUFFICES ASSUME j # k PROVE FALSE
  OBVIOUS
<1>4. Cardinality({j} \cup {k}) = 2
  <2>1. Cardinality({j}) = 1 /\ k \notin {j}
    BY <1>3, FS_Singleton
  <2>2. Cardinality({j} \cup {k}) = Cardinality({j}) + 1
    BY <1>2, <2>1, FS_AddElement
  <2> QED
    BY <2>1, <2>2
<1>5. Cardinality({j} \cup {k}) <= Cardinality(S)
  BY <1>2, FS_Subset
<1>6. Cardinality(S) \in Nat
  BY <1>2, FS_CardinalityType
<1> QED
  BY <1>4, <1>5, <1>6

-----------------------------------------------------------------------------
(* The rows' source changes *)

\* What a change of the rows' source leaves: in the window there are elements, the
\* rows that are not told show what they did, and elements but one stay in the list.
Moved(rows, left) ==
    /\ \A k \in Rows : offset' + k \in 1..Size /\ data'[offset' + k] \in Elements
    /\ \A k \in Rows \ rows : data'[offset' + k] = data[offset + k]
    /\ \A j \in 1..Size : data[j] \in Elements /\ data[j] # left => \E m \in 1..Size : data'[m] = data[j]
    /\ bound' = bound

\* setValue moves the nodes of the rows it tells to their new elements.
LEMMA TreesMove ==
  ASSUME TypeOK, TreeFollowsSource, BoundNodes, NEW rows \in SUBSET Rows, NEW deaf \in SUBSET {"bound"},
         NEW left, Moved(rows, left), Reattach(rows, deaf, left)
  PROVE  /\ attached' \subseteq {"up", "bound"} \X Rows \X Elements
         /\ watching' \subseteq {"up", "bound"} \X Rows \X Elements
         /\ TreeFollowsSource'
         /\ BoundNodes'
         /\ \A t \in attached' : (t \in attached /\ t[2] \notin rows) \/ (t[1] \notin deaf /\ t[2] \in rows)
<1> DEFINE new == {<<o, k, data'[offset' + k]>> : o \in {"up", "bound"}, k \in rows}
           old == {t \in attached : t[2] \notin rows}
           fresh == {t \in new : t[1] \in Listeners(t[2]) \ deaf}
<1>1. attached' = old \cup fresh /\ watching' = {t \in watching : t[3] # left} \cup attached'
  BY DEF Reattach, At
<1>2. \A t \in old : t \in {"up", "bound"} \X Rows \X Elements /\ t[3] = data'[offset' + t[2]] /\ t \in attached
  <2> SUFFICES ASSUME NEW t \in old
               PROVE  t \in {"up", "bound"} \X Rows \X Elements /\ t[3] = data'[offset' + t[2]] /\ t \in attached
    OBVIOUS
  <2>1. t \in {"up", "bound"} \X Rows \X Elements /\ t \in attached /\ t[2] \in Rows \ rows
    BY NodeParts DEF TypeOK
  <2>2. t[3] = data[offset + t[2]]
    BY <2>1 DEF TreeFollowsSource, At
  <2> QED
    BY <2>1, <2>2 DEF Moved
<1>3. \A t \in fresh : /\ t \in {"up", "bound"} \X Rows \X Elements /\ t[3] = data'[offset' + t[2]]
                       /\ t[2] \in rows /\ t[1] \notin deaf /\ (t[1] = "bound" => bound /\ t[2] = Bound)
  <2> SUFFICES ASSUME NEW t \in fresh
               PROVE  /\ t \in {"up", "bound"} \X Rows \X Elements /\ t[3] = data'[offset' + t[2]]
                      /\ t[2] \in rows /\ t[1] \notin deaf /\ (t[1] = "bound" => bound /\ t[2] = Bound)
    OBVIOUS
  <2>1. PICK o \in {"up", "bound"}, k \in rows : t = <<o, k, data'[offset' + k]>>
    OBVIOUS
  <2>2. t[1] = o /\ t[2] = k /\ t[3] = data'[offset' + k] /\ data'[offset' + k] \in Elements
    BY <2>1 DEF Moved
  <2> QED
    BY <2>1, <2>2 DEF Listeners
<1>4. \A k \in Rows : <<"up", k, data'[offset' + k]>> \in attached'
  <2> SUFFICES ASSUME NEW k \in Rows PROVE <<"up", k, data'[offset' + k]>> \in attached'
    OBVIOUS
  <2>1. CASE k \in rows
    BY <1>1, <2>1 DEF Listeners
  <2>2. CASE k \notin rows
    <3>1. <<"up", k, data[offset + k]>> \in attached /\ data'[offset' + k] = data[offset + k]
      BY <2>2 DEF TreeFollowsSource, Moved, At
    <3> QED
      BY <1>1, <2>2, <3>1
  <2> QED
    BY <2>1, <2>2
<1> HIDE DEF new, old, fresh
<1>5. attached' \subseteq {"up", "bound"} \X Rows \X Elements
  BY <1>1, <1>2, <1>3
<1>6. watching' \subseteq {"up", "bound"} \X Rows \X Elements
  BY <1>1, <1>5 DEF TypeOK
<1>7. \A t \in attached' : t[3] = data'[offset' + t[2]] /\ t \in watching'
  BY <1>1, <1>2, <1>3
<1>8. \A t \in watching' : \E m \in 1..Size : data'[m] = t[3]
  <2> SUFFICES ASSUME NEW t \in watching' PROVE \E m \in 1..Size : data'[m] = t[3]
    OBVIOUS
  <2>1. CASE t \in attached'
    <3>1. t[2] \in Rows
      BY <1>5, <2>1, NodeParts
    <3> QED
      BY <1>7, <2>1, <3>1 DEF Moved
  <2>2. CASE t \in watching /\ t[3] # left
    <3>1. t[3] \in Elements
      BY <2>2, NodeParts DEF TypeOK
    <3>2. PICK j \in 1..Size : data[j] = t[3]
      BY <2>2 DEF TreeFollowsSource, Unused
    <3> QED
      BY <2>2, <3>1, <3>2 DEF Moved
  <2> QED
    BY <1>1, <2>1, <2>2
<1>9. TreeFollowsSource'
  BY <1>4, <1>7, <1>8 DEF TreeFollowsSource, Unused, At
<1>10. BoundNodes'
  <2>1. \A t \in attached' : t[1] = "bound" => bound /\ t[2] = Bound
    BY <1>1, <1>2, <1>3 DEF BoundNodes
  <2> QED
    BY <2>1 DEF BoundNodes, Moved
<1>11. \A t \in attached' : (t \in attached /\ t[2] \notin rows) \/ (t[1] \notin deaf /\ t[2] \in rows)
  BY <1>1, <1>2, <1>3 DEF old
<1> QED
  BY <1>5, <1>6, <1>9, <1>10, <1>11

\* New nodes tell the fields of their elements; what the other rows show stays.
LEMMA FieldsAreRetold ==
  ASSUME PathsShowFields, NEW rows \in SUBSET Rows, NEW left, Moved(rows, left), Retold(rows),
         \A k \in Rows \ rows : field'[data[offset + k]] = field[data[offset + k]],
         <<"bound", Bound, data'[offset' + Bound]>> \in attached' =>
            IF Bound \in rows THEN input' = field'[data'[offset' + Bound]]
            ELSE input' = input /\ <<"bound", Bound, data[offset + Bound]>> \in attached
  PROVE  PathsShowFields'
<1>1. /\ \A k \in Rows : copy'[k] = IF k \in rows THEN field'[data'[offset' + k]] ELSE copy[k]
      /\ misled' = {t \in misled : t[2] \notin rows}
  BY DEF Retold, At
<1>2. ASSUME NEW k \in Rows, <<"up", k>> \notin misled' PROVE copy'[k] = field'[data'[offset' + k]]
  <2>1. CASE k \in rows
    BY <1>1, <2>1
  <2>2. CASE k \notin rows
    <3>1. <<"up", k>>[2] = k /\ <<"up", k>> \notin misled
      BY <1>1, <1>2, <2>2
    <3>2. copy[k] = field[data[offset + k]]
      BY <3>1 DEF PathsShowFields, At
    <3> QED
      BY <1>1, <2>2, <3>2 DEF Moved
  <2> QED
    BY <2>1, <2>2
<1>3. ASSUME <<"bound", Bound>> \notin misled', <<"bound", Bound, data'[offset' + Bound]>> \in attached'
      PROVE  input' = field'[data'[offset' + Bound]]
  <2>1. CASE Bound \in rows
    BY <1>3, <2>1
  <2>2. CASE Bound \notin rows
    <3>1. <<"bound", Bound>>[2] = Bound /\ <<"bound", Bound>> \notin misled
      BY <1>1, <1>3, <2>2
    <3>2. input' = input /\ input = field[data[offset + Bound]]
      BY <1>3, <2>2, <3>1 DEF PathsShowFields, At
    <3> QED
      BY <2>2, <3>2, PathAssumption DEF Moved
  <2> QED
    BY <2>1, <2>2
<1> QED
  BY <1>2, <1>3 DEF PathsShowFields, At

-----------------------------------------------------------------------------
(* A field changes *)

\* Whoever listens to the element is told, and so is every row that shows it.
LEMMA FieldIsTold ==
  ASSUME TypeOK, BoundNodes, PathsShowFields, NEW e \in Elements, NEW v \in Values,
         NEW told \in SUBSET ({"up", "bound"} \X Rows), Assign(e, v, told), UNCHANGED <<data, offset>>,
         \A k \in Rows : data[offset + k] \in Elements /\ (data[offset + k] = e => <<"up", k>> \in told),
         <<"bound", Bound, data[offset + Bound]>> \in attached' =>
            bound /\ (\/ <<"bound", Bound>> \in told
                      \/ data[offset + Bound] # e /\ <<"bound", Bound, data[offset + Bound]>> \in attached)
  PROVE  PathsShowFields' /\ misled' \subseteq {"up", "bound"} \X Rows
                          /\ copy' \in [Rows -> Values] /\ input' \in Values \cup {Nil} /\ field' \in [Elements -> Values]
<1>1. /\ field' = [field EXCEPT ![e] = v]
      /\ copy' = [k \in Rows |-> IF <<"up", k>> \in told THEN v ELSE copy[k]]
      /\ input' = IF bound /\ <<"bound", Bound>> \in told THEN v ELSE input
      /\ misled' = (misled \ told) \cup {w \in told : data[offset + w[2]] # e}
  BY DEF Assign, At
<1>2. /\ misled' \subseteq {"up", "bound"} \X Rows /\ copy' \in [Rows -> Values]
      /\ input' \in Values \cup {Nil} /\ field' \in [Elements -> Values]
  <2>1. misled' \subseteq {"up", "bound"} \X Rows
    BY <1>1 DEF TypeOK
  <2>2. copy' \in [Rows -> Values]
    BY <1>1 DEF TypeOK
  <2>3. input' \in Values \cup {Nil} /\ field' \in [Elements -> Values]
    BY <1>1 DEF TypeOK
  <2> QED
    BY <2>1, <2>2, <2>3
<1>3. \A x \in Elements : field'[x] = IF x = e THEN v ELSE field[x]
  BY <1>1 DEF TypeOK
<1>4. ASSUME NEW k \in Rows, NEW o \in {"up", "bound"}, <<o, k>> \notin misled', <<o, k>> \in told
      PROVE  data[offset + k] = e
  <2>1. <<o, k>>[2] = k
    OBVIOUS
  <2> QED
    BY <1>1, <1>4, <2>1
<1>5. ASSUME NEW k \in Rows, <<"up", k>> \notin misled' PROVE copy'[k] = field'[data[offset + k]]
  <2>1. CASE <<"up", k>> \in told
    BY <1>1, <1>3, <1>4, <1>5, <2>1
  <2>2. CASE <<"up", k>> \notin told
    <3>1. <<"up", k>> \notin misled /\ data[offset + k] # e
      BY <1>1, <1>5, <2>2
    <3>2. copy[k] = field[data[offset + k]]
      BY <3>1 DEF PathsShowFields, At
    <3> QED
      BY <1>1, <1>3, <2>2, <3>1, <3>2
  <2> QED
    BY <2>1, <2>2
<1>6. ASSUME <<"bound", Bound>> \notin misled', <<"bound", Bound, data[offset + Bound]>> \in attached'
      PROVE  input' = field'[data[offset + Bound]]
  <2>1. CASE <<"bound", Bound>> \in told
    BY <1>1, <1>3, <1>4, <1>6, <2>1, PathAssumption
  <2>2. CASE <<"bound", Bound>> \notin told
    <3>1. /\ <<"bound", Bound>> \notin misled /\ data[offset + Bound] # e
          /\ <<"bound", Bound, data[offset + Bound]>> \in attached
      BY <1>1, <1>6, <2>2
    <3>2. input = field[data[offset + Bound]]
      BY <3>1 DEF PathsShowFields, At
    <3> QED
      BY <1>1, <1>3, <2>2, <3>1, <3>2, PathAssumption
  <2> QED
    BY <2>1, <2>2
<1>7. PathsShowFields'
  BY <1>5, <1>6 DEF PathsShowFields, At
<1> QED
  BY <1>2, <1>7

\* A path that is set is told to the trees that hear the element, but to the one that
\* sets it.
LEMMA PathIsSet ==
  ASSUME IInv, NEW o \in {"up", "bound"}, NEW k \in Rows, NEW v \in Values, Through(o, k, v),
         o = "bound" => bound /\ k = Bound
  PROVE  IInv'
<1> DEFINE e == data[offset + k]
           told == {w \in Watchers(e) : w[1] # o} \cup {<<o, k>>}
<1>1. e \in Elements /\ \A j \in Rows : offset + j \in 1..Size /\ data[offset + j] \in Elements
  BY ElementsInRows DEF IInv, At
<1>2. /\ Assign(e, v, told) /\ attached' = attached \cup {<<o, k, e>>}
      /\ watching' = watching \cup {<<o, k, e>>} /\ UNCHANGED <<data, offset, bound>>
  BY BelowIsAt DEF IInv, Through, At
<1>3. told \in SUBSET ({"up", "bound"} \X Rows)
  <2>1. \A t \in watching : <<t[1], t[2]>> \in {"up", "bound"} \X Rows
    BY NodeParts DEF IInv, TypeOK
  <2> QED
    BY <2>1 DEF Watchers
<1>4. ASSUME NEW p \in {"up", "bound"}, NEW j \in Rows, <<p, j, e>> \in watching, p # o
      PROVE  <<p, j>> \in told
  <2>1. <<p, j>> \in Watchers(e)
    <3>1. <<p, j, e>>[1] = p /\ <<p, j, e>>[2] = j /\ <<p, j, e>>[3] = e
      OBVIOUS
    <3> QED
      BY <1>4, <3>1 DEF Watchers
  <2>2. <<p, j>>[1] = p
    OBVIOUS
  <2> QED
    BY <1>4, <2>1, <2>2
<1>5. ASSUME NEW j \in Rows, data[offset + j] = e PROVE <<"up", j>> \in told
  <2>1. <<"up", j, e>> \in watching
    BY <1>5 DEF IInv, TreeFollowsSource, At
  <2>2. CASE o = "bound"
    BY <1>4, <2>1, <2>2
  <2>3. CASE o = "up"
    <3>1. offset + j = offset + k
      BY <1>1, <1>5, PathAssumption DEF IInv, Distinct
    <3>2. j = k
      BY <3>1 DEF IInv, TypeOK, Rows
    <3> QED
      BY <2>3, <3>2
  <2> QED
    BY <2>2, <2>3
<1>6. ASSUME <<"bound", Bound, data[offset + Bound]>> \in attached'
      PROVE  bound /\ (\/ <<"bound", Bound>> \in told
                       \/ data[offset + Bound] # e /\ <<"bound", Bound, data[offset + Bound]>> \in attached)
  <2>1. CASE o = "bound"
    BY <2>1
  <2>2. CASE o = "up"
    <3>1. <<"bound", Bound, data[offset + Bound]>> \in attached
      BY <1>2, <1>6, <2>2
    <3>2. bound
      <4>1. <<"bound", Bound, data[offset + Bound]>>[1] = "bound"
        OBVIOUS
      <4> QED
        BY <3>1, <4>1 DEF IInv, BoundNodes
    <3>3. <<"bound", Bound, data[offset + Bound]>> \in watching
      BY <3>1 DEF IInv, TreeFollowsSource
    <3> QED
      BY <1>4, <2>2, <3>1, <3>2, <3>3, PathAssumption
  <2> QED
    BY <2>1, <2>2
<1> HIDE DEF told, e
<1>7. PathsShowFields' /\ misled' \subseteq {"up", "bound"} \X Rows
                       /\ copy' \in [Rows -> Values] /\ input' \in Values \cup {Nil} /\ field' \in [Elements -> Values]
  BY <1>1, <1>2, <1>3, <1>5, <1>6, FieldIsTold DEF IInv
<1>8. <<o, k, e>>[1] = o /\ <<o, k, e>>[2] = k /\ <<o, k, e>>[3] = e /\ <<o, k, e>> \in {"up", "bound"} \X Rows \X Elements
  BY <1>1
<1>9. TypeOK'
  BY <1>2, <1>7, <1>8 DEF IInv, TypeOK
<1>10. Distinct' /\ BoundNodes'
  BY <1>2, <1>8 DEF IInv, Distinct, BoundNodes
<1>11. TreeFollowsSource'
  BY <1>1, <1>2, <1>8 DEF IInv, TreeFollowsSource, Unused, At, e
<1> QED
  BY <1>7, <1>9, <1>10, <1>11 DEF IInv

-----------------------------------------------------------------------------
(* Every step preserves the invariant *)

\* Every step of the system preserves the invariant.
LEMMA Step ==
  ASSUME IInv, [Next]_vars
  PROVE  IInv'
<1> USE DEF IInv
<1>1. \A k \in Rows : offset + k \in 1..Size /\ data[offset + k] \in Elements
  BY ElementsInRows DEF At
<1>2. Size \in Nat /\ Capacity \in 1..Size /\ offset \in 0..(Size - Capacity) /\ data \in [1..Size -> Elements \cup {Nil}]
      /\ Nil \notin Elements /\ field \in [Elements -> Values] /\ Zero \in Values /\ Bound \in Rows
      /\ copy \in [Rows -> Values]
  BY PathAssumption DEF TypeOK
<1>3. ASSUME NEW i \in 1..Size, NEW e \in Elements, NEW v \in Values, SetElement(i, e, v) PROVE IInv'
  <2> DEFINE row == {i - offset} \cap Rows
  <2>1. /\ \A j \in 1..Size : data[j] # e
        /\ data' = [data EXCEPT ![i] = e] /\ field' = [field EXCEPT ![e] = v] /\ UNCHANGED <<offset, bound>>
        /\ Reattach(row, {}, data[i]) /\ Retold(row) /\ input' = IF bound /\ Bound \in row THEN v ELSE input
    BY <1>3 DEF SetElement, Unused
  <2>2. \A k \in Rows : k \in row <=> offset + k = i
    BY <1>2 DEF Rows
  <2> HIDE DEF row
  <2>3. row \in SUBSET Rows
    BY DEF row
  <2>4. /\ data' \in [1..Size -> Elements \cup {Nil}] /\ field' \in [Elements -> Values] /\ field'[e] = v
        /\ \A j \in 1..Size : data'[j] = IF j = i THEN e ELSE data[j]
        /\ \A x \in Elements : x # e => field'[x] = field[x]
    BY <1>2, <2>1
  <2>5. Moved(row, data[i])
    BY <1>1, <2>1, <2>2, <2>4 DEF Moved
  <2>6. Distinct'
    BY <2>1, <2>4 DEF Distinct
  <2>7. /\ attached' \subseteq {"up", "bound"} \X Rows \X Elements
        /\ watching' \subseteq {"up", "bound"} \X Rows \X Elements
        /\ TreeFollowsSource' /\ BoundNodes'
        /\ \A t \in attached' : (t \in attached /\ t[2] \notin row) \/ (t[1] \notin {} /\ t[2] \in row)
    BY <2>1, <2>3, <2>5, TreesMove
  <2>8. \A k \in Rows \ row : field'[data[offset + k]] = field[data[offset + k]]
    BY <1>1, <2>1, <2>4
  <2>9. <<"bound", Bound, data'[offset' + Bound]>> \in attached' =>
            IF Bound \in row THEN input' = field'[data'[offset' + Bound]]
            ELSE input' = input /\ <<"bound", Bound, data[offset + Bound]>> \in attached
    <3> DEFINE t == <<"bound", Bound, data'[offset' + Bound]>>
    <3>1. SUFFICES ASSUME t \in attached'
                   PROVE  IF Bound \in row THEN input' = field'[data'[offset' + Bound]]
                          ELSE input' = input /\ <<"bound", Bound, data[offset + Bound]>> \in attached
      OBVIOUS
    <3>2. t[1] = "bound" /\ t[2] = Bound
      OBVIOUS
    <3>3. bound
      BY <2>1, <2>7, <3>1, <3>2 DEF BoundNodes
    <3>4. CASE Bound \in row
      BY <1>1, <1>2, <2>1, <2>2, <2>4, <3>3, <3>4
    <3>5. CASE Bound \notin row
      <4>1. data'[offset' + Bound] = data[offset + Bound]
        BY <1>1, <1>2, <2>1, <2>2, <2>4, <3>5
      <4>2. t \in attached
        BY <2>7, <3>1, <3>2, <3>5
      <4> QED
        BY <2>1, <3>5, <4>1, <4>2
    <3> QED
      BY <3>4, <3>5
  <2>10. PathsShowFields'
    BY <2>1, <2>3, <2>5, <2>8, <2>9, FieldsAreRetold
  <2>11. copy' \in [Rows -> Values] /\ misled' \subseteq misled
    BY <1>2, <2>1, <2>4, <2>5 DEF Retold, Moved, At
  <2>12. input' \in Values \cup {Nil}
    BY <2>1 DEF TypeOK
  <2>13. TypeOK'
    BY <2>1, <2>4, <2>7, <2>11, <2>12 DEF TypeOK
  <2> QED
    BY <2>6, <2>7, <2>10, <2>13

<1>4. ASSUME NEW i \in 1..Size, NEW e \in Elements, SetNil(i, e) PROVE IInv'
  <2> DEFINE row == {i - offset} \cap Rows
             x == IF row = {} THEN Nil ELSE e
  <2>1. /\ \A j \in 1..Size : data[j] # e
        /\ data' = [data EXCEPT ![i] = x] /\ field' = [field EXCEPT ![e] = Zero] /\ UNCHANGED <<offset, bound>>
        /\ Reattach(row, {"bound"}, data[i]) /\ Retold(row) /\ input' = IF bound /\ Bound \in row THEN Nil ELSE input
    BY <1>4 DEF SetNil, Unused
  <2>2. \A k \in Rows : k \in row <=> offset + k = i
    BY <1>2 DEF Rows
  <2>3. row \in SUBSET Rows /\ x \in {Nil, e} /\ (row # {} => x = e)
    OBVIOUS
  <2> HIDE DEF row, x
  <2>4. /\ data' \in [1..Size -> Elements \cup {Nil}] /\ field' \in [Elements -> Values]
        /\ \A j \in 1..Size : data'[j] = IF j = i THEN x ELSE data[j]
        /\ \A y \in Elements : y # e => field'[y] = field[y]
    BY <1>2, <2>1, <2>3
  <2>5. Moved(row, data[i])
    <3>1. \A k \in Rows : data'[offset' + k] = IF k \in row THEN e ELSE data[offset + k]
      BY <1>1, <2>1, <2>2, <2>3, <2>4
    <3>2. \A j \in 1..Size : data[j] # data[i] => data'[j] = data[j]
      BY <2>4
    <3> QED
      BY <1>1, <2>1, <3>1, <3>2 DEF Moved
  <2>6. Distinct'
    BY <2>1, <2>3, <2>4 DEF Distinct
  <2>7. /\ attached' \subseteq {"up", "bound"} \X Rows \X Elements
        /\ watching' \subseteq {"up", "bound"} \X Rows \X Elements
        /\ TreeFollowsSource' /\ BoundNodes'
        /\ \A t \in attached' : (t \in attached /\ t[2] \notin row) \/ (t[1] \notin {"bound"} /\ t[2] \in row)
    BY <2>1, <2>3, <2>5, TreesMove
  <2>8. \A k \in Rows \ row : field'[data[offset + k]] = field[data[offset + k]]
    BY <1>1, <2>1, <2>4
  <2>9. <<"bound", Bound, data'[offset' + Bound]>> \in attached' =>
            IF Bound \in row THEN input' = field'[data'[offset' + Bound]]
            ELSE input' = input /\ <<"bound", Bound, data[offset + Bound]>> \in attached
    <3> DEFINE t == <<"bound", Bound, data'[offset' + Bound]>>
    <3>1. SUFFICES ASSUME t \in attached'
                   PROVE  Bound \notin row /\ input' = input /\ <<"bound", Bound, data[offset + Bound]>> \in attached
      OBVIOUS
    <3>2. t[1] = "bound" /\ t[2] = Bound
      OBVIOUS
    <3>3. t \in attached /\ Bound \notin row
      BY <2>7, <3>1, <3>2
    <3>4. data'[offset' + Bound] = data[offset + Bound]
      BY <1>2, <2>5, <3>3 DEF Moved
    <3> QED
      BY <2>1, <3>3, <3>4
  <2>10. PathsShowFields'
    BY <2>1, <2>3, <2>5, <2>8, <2>9, FieldsAreRetold
  <2>11. copy' \in [Rows -> Values] /\ misled' \subseteq misled
    BY <1>2, <2>1, <2>4, <2>5 DEF Retold, Moved, At
  <2>12. input' \in Values \cup {Nil}
    BY <2>1 DEF TypeOK
  <2>13. TypeOK'
    BY <2>1, <2>4, <2>7, <2>11, <2>12 DEF TypeOK
  <2> QED
    BY <2>6, <2>7, <2>10, <2>13
<1>5. ASSUME NEW off \in 0..Size, NEW e \in Elements, Scroll(off, e) PROVE IInv'
  <2>1. /\ \A j \in 1..Size : data[j] # e
        /\ off \in 0..(Size - Capacity) /\ offset' = off /\ bound' = bound
        /\ Cardinality({k \in Rows : data[off + k] = Nil}) <= 1
        /\ data' = [i \in 1..Size |-> IF data[i] = Nil /\ i - off \in Rows THEN e ELSE data[i]]
        /\ field' = [field EXCEPT ![e] = Zero]
        /\ Reattach(Rows, {}, Nil) /\ Retold(Rows) /\ input' = IF bound THEN field'[data'[offset' + Bound]] ELSE input
    BY <1>5 DEF Scroll, Unused, At
  <2>2. \A k \in Rows : off + k \in 1..Size /\ (off + k) - off = k
    BY <1>2, <2>1 DEF Rows
  <2>3. /\ data' \in [1..Size -> Elements \cup {Nil}] /\ field' \in [Elements -> Values]
        /\ \A j \in 1..Size : data'[j] = IF data[j] = Nil /\ j - off \in Rows THEN e ELSE data[j]
    BY <1>2, <2>1
  <2>4. Moved(Rows, Nil)
    <3>1. \A k \in Rows : data'[off + k] \in Elements
      BY <1>2, <2>2, <2>3
    <3>2. \A j \in 1..Size : data[j] # Nil => data'[j] = data[j]
      BY <2>3
    <3> QED
      BY <2>1, <2>2, <3>1, <3>2 DEF Moved
  <2>5. Distinct'
    <3> SUFFICES ASSUME NEW a \in 1..Size, NEW b \in 1..Size, data'[a] = data'[b], data'[a] # Nil PROVE a = b
      BY DEF Distinct
    <3>1. CASE data[a] = Nil /\ a - off \in Rows /\ data[b] = Nil /\ b - off \in Rows
      <4> DEFINE S == {k \in Rows : data[off + k] = Nil}
      <4>1. off + (a - off) = a /\ off + (b - off) = b
        BY <2>1
      <4>2. a - off \in S /\ b - off \in S
        BY <3>1, <4>1
      <4>3. S \in SUBSET Rows /\ Cardinality(S) <= 1
        BY <2>1
      <4> HIDE DEF S
      <4>4. a - off = b - off
        BY <4>2, <4>3, AtMostOne
      <4> QED
        BY <2>1, <4>4
    <3>2. CASE data'[a] = data[a] /\ data'[b] = data[b]
      BY <3>2 DEF Distinct
    <3> QED
      BY <2>1, <2>3, <3>1, <3>2
  <2>6. /\ attached' \subseteq {"up", "bound"} \X Rows \X Elements
        /\ watching' \subseteq {"up", "bound"} \X Rows \X Elements
        /\ TreeFollowsSource' /\ BoundNodes'
    <3>1. Rows \in SUBSET Rows /\ {} \in SUBSET {"bound"}
      OBVIOUS
    <3> QED
      BY <2>1, <2>4, <3>1, TreesMove
  <2>7. <<"bound", Bound, data'[offset' + Bound]>> \in attached' => input' = field'[data'[offset' + Bound]]
    <3>1. <<"bound", Bound, data'[offset' + Bound]>>[1] = "bound"
      OBVIOUS
    <3> QED
      BY <2>1, <2>6, <3>1 DEF BoundNodes
  <2>8. PathsShowFields'
    BY <1>2, <2>1, <2>4, <2>7, FieldsAreRetold
  <2>9. copy' \in [Rows -> Values] /\ misled' \subseteq misled
    BY <1>2, <2>1, <2>3, <2>4 DEF Retold, Moved, At
  <2>10. input' \in Values \cup {Nil}
    BY <1>2, <2>1, <2>3, <2>4 DEF TypeOK, Moved
  <2>11. TypeOK'
    BY <2>1, <2>3, <2>6, <2>9, <2>10 DEF TypeOK
  <2> QED
    BY <2>5, <2>6, <2>8, <2>11
<1>6. ASSUME NEW e \in Elements, NEW v \in Values, SetField(e, v) PROVE IInv'
  <2>1. Assign(e, v, Watchers(e)) /\ UNCHANGED <<data, offset, attached, watching, bound>>
    BY <1>6 DEF SetField
  <2>2. Watchers(e) \in SUBSET ({"up", "bound"} \X Rows)
    <3>1. \A t \in watching : <<t[1], t[2]>> \in {"up", "bound"} \X Rows
      BY NodeParts DEF TypeOK
    <3> QED
      BY <3>1 DEF Watchers
  <2>3. ASSUME NEW o \in {"up", "bound"}, NEW k \in Rows, <<o, k, e>> \in attached PROVE <<o, k>> \in Watchers(e)
    <3>1. <<o, k, e>>[1] = o /\ <<o, k, e>>[2] = k /\ <<o, k, e>>[3] = e /\ <<o, k, e>> \in watching
      BY <2>3 DEF TreeFollowsSource
    <3> QED
      BY <3>1 DEF Watchers
  <2>4. \A k \in Rows : data[offset + k] = e => <<"up", k>> \in Watchers(e)
    BY <2>3 DEF TreeFollowsSource, At
  <2>5. ASSUME <<"bound", Bound, data[offset + Bound]>> \in attached
        PROVE  bound /\ (<<"bound", Bound>> \in Watchers(e) \/ data[offset + Bound] # e)
    <3>1. <<"bound", Bound, data[offset + Bound]>>[1] = "bound"
      OBVIOUS
    <3> QED
      BY <1>2, <2>3, <2>5, <3>1 DEF BoundNodes
  <2>6. PathsShowFields' /\ misled' \subseteq {"up", "bound"} \X Rows
                         /\ copy' \in [Rows -> Values] /\ input' \in Values \cup {Nil} /\ field' \in [Elements -> Values]
    BY <1>1, <2>1, <2>2, <2>4, <2>5, FieldIsTold
  <2> QED
    BY <2>1, <2>6 DEF TypeOK, Distinct, BoundNodes, TreeFollowsSource, Unused, At
<1>7. ASSUME NEW k \in Rows, NEW v \in Values, PushField(k, v) PROVE IInv'
  BY <1>7, PathIsSet DEF PushField
<1>8. ASSUME NEW v \in Values, Input(v) PROVE IInv'
  BY <1>2, <1>8, PathIsSet DEF Input
<1>9. CASE Release
  BY <1>9 DEF Release, TypeOK, Distinct, BoundNodes, TreeFollowsSource, PathsShowFields, Unused, At
<1>10. CASE UNCHANGED vars
  BY <1>10 DEF vars, TypeOK, Distinct, BoundNodes, TreeFollowsSource, PathsShowFields, Unused, At
<1> QED
  BY <1>3, <1>4, <1>5, <1>6, <1>7, <1>8, <1>9, <1>10 DEF Next

\* The list is of different elements, and both observers attach to every row they are for.
LEMMA Initially == Init => IInv
<1> SUFFICES ASSUME Init PROVE IInv
  OBVIOUS
<1>1. /\ data \in [1..Size -> Elements] /\ offset = 0 /\ bound = TRUE /\ watching = attached
      /\ field = [e \in Elements |-> Zero] /\ copy = [k \in Rows |-> Zero] /\ input = Zero /\ misled = {}
      /\ attached = {<<o, k, data[offset + k]>> : o \in {"up"}, k \in Rows} \cup {<<"bound", Bound, data[offset + Bound]>>}
      /\ Cardinality({data[i] : i \in 1..Size}) = Size
  BY DEF Init, At
<1>2. \A k \in Rows : offset + k \in 1..Size /\ data[offset + k] \in Elements /\ offset + k = k
  <2>1. \A k \in Rows : k \in 1..Size /\ 0 + k = k
    BY PathAssumption DEF Rows
  <2> QED
    BY <1>1, <2>1
<1>3. Bound \in Rows /\ Nil \notin Elements /\ Zero \in Values /\ Size \in Nat /\ Capacity \in 1..Size
  BY PathAssumption
<1>4. Distinct
  <2> DEFINE T == {data[i] : i \in 1..Size}
  <2>1. data \in Surjection(1..Size, T)
    <3>1. data \in [1..Size -> T] /\ \A t \in T : \E i \in 1..Size : data[i] = t
      BY <1>1
    <3> QED
      BY <3>1, Fun_IsSurj
  <2>2. IsFiniteSet(1..Size) /\ Cardinality(1..Size) = Size
    BY <1>3, FS_Interval
  <2>3. Cardinality(T) = Cardinality(1..Size)
    BY <1>1, <2>2
  <2> HIDE DEF T
  <2>4. data \in Injection(1..Size, T)
    BY <2>1, <2>2, <2>3, FS_Surjection
  <2> QED
    BY <2>4, Fun_InjectionProperties DEF Distinct
<1>5. ASSUME NEW t \in attached
      PROVE  /\ t \in {"up", "bound"} \X Rows \X Elements /\ t[3] = data[offset + t[2]]
             /\ (t[1] = "bound" => t[2] = Bound) /\ \E i \in 1..Size : data[i] = t[3]
  <2>1. PICK o \in {"up", "bound"}, k \in Rows : t = <<o, k, data[offset + k]>> /\ (o = "bound" => k = Bound)
    BY <1>1, <1>3
  <2> QED
    BY <1>2, <2>1
<1>6. BoundNodes /\ TreeFollowsSource
  BY <1>1, <1>5 DEF BoundNodes, TreeFollowsSource, Unused, At
<1>7. PathsShowFields
  BY <1>1, <1>2, <1>3 DEF PathsShowFields, At
<1>8. TypeOK
  <2>1. attached \subseteq {"up", "bound"} \X Rows \X Elements
    BY <1>5
  <2> QED
    BY <1>1, <1>3, <2>1 DEF TypeOK
<1> QED
  BY <1>4, <1>6, <1>7, <1>8 DEF IInv

\* So every reachable state satisfies it.
LEMMA Invariance == Spec => []IInv
<1>1. IInv /\ [Next]_vars => IInv'
  BY Step
<1> QED
  BY <1>1, Initially, PTL DEF Spec

-----------------------------------------------------------------------------
(* Theorems *)

\* Nodes and observers are for elements of rows, and what is told are values of fields.
THEOREM PathTypes == Spec => []TypeOK
<1>1. IInv => TypeOK
  BY DEF IInv
<1> QED
  BY <1>1, Invariance, PTL

\* However the elements of the rows change, the trees have a node for the element of
\* every row and for no other, which hears it: setValue releases the old node before
\* it attaches the new one.
THEOREM TreesFollow == Spec => []TreeFollowsSource
<1>1. IInv => TreeFollowsSource
  BY DEF IInv
<1> QED
  BY <1>1, Invariance, PTL

\* What a path observer has told of a row, and the input bound to one, is the field the
\* row has, but for what nodes told that were released when the window moved.
THEOREM PathsAreShown == Spec => []PathsShowFields
<1>1. IInv => PathsShowFields
  BY DEF IInv
<1> QED
  BY <1>1, Invariance, PTL
=============================================================================
