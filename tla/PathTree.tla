------------------------------- MODULE PathTree -------------------------------
(***************************************************************************)
(* PathObservers on a source of sources: rows, each with an element that    *)
(* has one field.  The rows are a window on a list (a Scroll over a Model)  *)
(* that may move, and the elements may be replaced.                         *)
(*                                                                         *)
(* One PathObserver, "up", observes every path and a copy of all fields     *)
(* is kept from what it tells; one, "bound", observes the field of one row  *)
(* for a Binding to an input.  Each has a tree: a node at the rows' source  *)
(* and below it one for the element of a row ("attached").  A node adds an  *)
(* observer to its source that it never removes; it goes when the source is *)
(* released.  "watching" is those observers, of nodes that are released too.*)
(***************************************************************************)
EXTENDS Integers, FiniteSets

CONSTANTS
    Elements,   \* elements of the list
    Size,       \* bound: length of the list
    Capacity,   \* rows of the window
    Bound,      \* the row whose field is bound to the input
    Values,     \* values of the field
    Zero,       \* its zero value
    Nil

Rows == 1..Capacity

ASSUME PathAssumption ==
    /\ Size \in Nat /\ Capacity \in 1..Size /\ Bound \in Rows
    /\ Zero \in Values /\ Nil \notin Elements \cup Values

VARIABLES
    data,       \* the list: an element or a nil pointer at each position
    offset,     \* of the window
    field,      \* the field of each element
    attached,   \* <<observer, row, element>>: nodes in the trees, below the first
    watching,   \* <<observer, row, element>>: observers that nodes added
    copy,       \* what "up" has told of each row's field
    input,      \* the value of the bound input
    bound,      \* the Binding has not been released
    misled      \* history: <<observer, row>> last told of an element of no or another row

vars == <<data, offset, field, attached, watching, copy, input, bound, misled>>

At(k) == data[offset + k]
Unused(e) == \A i \in 1..Size : data[i] # e
Listeners(k) == {"up"} \cup (IF bound /\ k = Bound THEN {"bound"} ELSE {})

\* NewPathObserver("*"), and NewBinding, which sets the input.
Init ==
    /\ data \in [1..Size -> Elements] /\ Cardinality({data[i] : i \in 1..Size}) = Size
    /\ offset = 0
    /\ field = [e \in Elements |-> Zero]
    /\ bound = TRUE
    /\ attached = {<<o, k, At(k)>> : o \in {"up"}, k \in Rows} \cup {<<"bound", Bound, At(Bound)>>}
    /\ watching = attached
    /\ copy = [k \in Rows |-> Zero]
    /\ input = Zero
    /\ misled = {}

-----------------------------------------------------------------------------
(* The rows' source changes *)

\* Mutant: a node that is there already stays.
ReattachOnce(rows, deaf, left) ==
    LET gone == {t \in attached : t[2] \in rows /\ t[1] \in deaf}
        new == {<<o, k, At(k)'>> : o \in {"up", "bound"}, k \in rows}
    IN /\ attached' = (attached \ gone) \cup
                {t \in new : t[1] \in Listeners(t[2]) \ deaf /\ ~\E u \in attached : u[1] = t[1] /\ u[2] = t[2]}
       /\ watching' = {t \in watching : t[3] # left} \cup attached'

\* pathObserverObserver.setValue for each of the rows and observers, but the
\* deaf ones: the node below goes, one for the new element comes.  The element
\* that left the list, if one did, has had its source released.
Reattach(rows, deaf, left) ==
    LET new == {<<o, k, At(k)'>> : o \in {"up", "bound"}, k \in rows}
    IN /\ attached' = {t \in attached : t[2] \notin rows}
                        \cup {t \in new : t[1] \in Listeners(t[2]) \ deaf}
       /\ watching' = {t \in watching : t[3] # left} \cup attached'

\* Mutant: a new node tells nothing.
RetoldNot(rows) ==
    /\ UNCHANGED copy
    /\ misled' = {t \in misled : t[2] \notin rows}

\* The new nodes tell the fields.
Retold(rows) ==
    /\ copy' = [k \in Rows |-> IF k \in rows THEN field'[At(k)'] ELSE copy[k]]
    /\ misled' = {t \in misled : t[2] \notin rows}

\* Model.SetValue at a position, with a new element ...
SetElement(i, e, v) ==
    LET row == {i - offset} \cap Rows IN
    /\ Unused(e)
    /\ data' = [data EXCEPT ![i] = e]
    /\ field' = [field EXCEPT ![e] = v]
    /\ UNCHANGED <<offset, bound>>
    /\ Reattach(row, {}, data[i])
    /\ Retold(row)
    /\ input' = IF bound /\ Bound \in row THEN v ELSE input

\* Mutant: the wildcard stops at nil as well.
SetNilUnmade(i, e) ==
    LET row == {i - offset} \cap Rows IN
    /\ Unused(e)
    /\ data' = [data EXCEPT ![i] = Nil]
    /\ UNCHANGED <<offset, bound, field>>
    /\ Reattach(row, {"bound", "up"}, data[i])
    /\ UNCHANGED <<copy, misled>>
    /\ input' = IF bound /\ Bound \in row THEN Nil ELSE input

\* ... and with nil.  The wildcard looks at the row, which makes a zero element,
\* e, and observes it; an observer of a path tells nil and looks no further.
SetNil(i, e) ==
    LET row == {i - offset} \cap Rows IN
    /\ Unused(e)
    /\ data' = [data EXCEPT ![i] = IF row = {} THEN Nil ELSE e]
    /\ field' = [field EXCEPT ![e] = Zero]
    /\ UNCHANGED <<offset, bound>>
    /\ Reattach(row, {"bound"}, data[i])
    /\ Retold(row)
    /\ input' = IF bound /\ Bound \in row THEN Nil ELSE input

\* Scroll.updateAll tells every row.  A nil pointer in it is replaced.
Scroll(off, e) ==
    /\ off # offset /\ off \in 0..(Size - Capacity)
    /\ Unused(e)
    /\ Cardinality({k \in Rows : data[off + k] = Nil}) <= 1
    /\ offset' = off
    /\ data' = [i \in 1..Size |-> IF data[i] = Nil /\ i - off \in Rows THEN e ELSE data[i]]
    /\ field' = [field EXCEPT ![e] = Zero]
    /\ UNCHANGED bound
    /\ Reattach(Rows, {}, Nil)
    /\ Retold(Rows)
    /\ input' = IF bound THEN field'[At(Bound)'] ELSE input

-----------------------------------------------------------------------------
(* A field changes *)

Watchers(e) == {<<t[1], t[2]>> : t \in {u \in watching : u[3] = e}}

\* The observers of the element tell the roots of their trees, of nodes that are
\* released too.
Assign(e, v, told) ==
    /\ field' = [field EXCEPT ![e] = v]
    /\ copy' = [k \in Rows |-> IF <<"up", k>> \in told THEN v ELSE copy[k]]
    /\ input' = IF bound /\ <<"bound", Bound>> \in told THEN v ELSE input
    /\ misled' = (misled \ told) \cup {w \in told : At(w[2]) # e}

\* The application sets the field of an element, in the window or not.
SetField(e, v) ==
    /\ \E i \in 1..Size : data[i] = e
    /\ Assign(e, v, Watchers(e))
    /\ UNCHANGED <<data, offset, attached, watching, bound>>

\* atPrefix: the element below a row is that of the node, or a new node's.
Below(o, k) ==
    IF \E t \in attached : t[1] = o /\ t[2] = k
    THEN (CHOOSE t \in attached : t[1] = o /\ t[2] = k)[3]
    ELSE At(k)

\* One side sets a path: its PathObserver is Updating and tells it nothing.
Through(o, k, v) ==
    LET e == Below(o, k) IN
    /\ Assign(e, v, {w \in Watchers(e) : w[1] # o} \cup {<<o, k>>})
    /\ attached' = attached \cup {<<o, k, e>>}
    /\ watching' = watching \cup {<<o, k, e>>}
    /\ UNCHANGED <<data, offset, bound>>

\* The keeper of the copy sets the field of a row.
PushField(k, v) == Through("up", k, v)

\* The user sets the input and the Binding the field.
Input(v) == bound /\ Through("bound", Bound, v)

\* Binding.Release: nothing listens at its roots any more.
Release ==
    /\ bound
    /\ bound' = FALSE
    /\ attached' = {t \in attached : t[1] # "bound"}
    /\ UNCHANGED <<data, offset, field, watching, copy, input, misled>>

Next ==
    \/ \E i \in 1..Size, e \in Elements, v \in Values : SetElement(i, e, v)
    \/ \E i \in 1..Size, e \in Elements : SetNil(i, e)
    \/ \E off \in 0..Size, e \in Elements : Scroll(off, e)
    \/ \E e \in Elements, v \in Values : SetField(e, v)
    \/ \E k \in Rows, v \in Values : PushField(k, v)
    \/ \E v \in Values : Input(v)
    \/ Release

Spec == Init /\ [][Next]_vars

-----------------------------------------------------------------------------
(* Properties *)

\* The variables hold what they are declared to hold.
TypeOK ==
    /\ data \in [1..Size -> Elements \cup {Nil}] /\ offset \in 0..(Size - Capacity)
    /\ field \in [Elements -> Values]
    /\ attached \subseteq {"up", "bound"} \X Rows \X Elements
    /\ watching \subseteq {"up", "bound"} \X Rows \X Elements
    /\ copy \in [Rows -> Values] /\ input \in Values \cup {Nil}
    /\ bound \in BOOLEAN /\ misled \subseteq {"up", "bound"} \X Rows

\* However elements are replaced, cleared and scrolled, the trees follow: the
\* wildcard has a node for the element of every row, no node is for an element
\* of another row, and every node hears its element.  An element that was
\* replaced is heard by nobody.
TreeFollowsSource ==
    /\ \A k \in Rows : <<"up", k, At(k)>> \in attached
    /\ \A t \in attached : t[3] = At(t[2]) /\ t \in watching
    /\ \A t \in watching : ~Unused(t[3])

\* The copy, and the input while its path has a node, show the fields of the rows
\* they are for, unless the last they were told was by a released node of an
\* element that has left the row.  (Replacing an element never leaves one, moving
\* the window does: setValue releases the node, which goes on telling.)
PathsShowFields ==
    /\ \A k \in Rows : <<"up", k>> \notin misled => copy[k] = field[At(k)]
    /\ <<"bound", Bound>> \notin misled /\ <<"bound", Bound, At(Bound)>> \in attached
            => input = field[At(Bound)]
=============================================================================
