-------------------------------- MODULE Scroll --------------------------------
(***************************************************************************)
(* The scroll controller: a window of Capacity rows on a slice, SliceModel. *)
(* It observes all keys of the model and passes on, under the row's number,*)
(* the values of positions in the window; the page binds its rows, and the *)
(* buttons that scroll to canUp and canDown.                               *)
(*                                                                         *)
(* Names that FormViews has too begin with that of this module.             *)
(***************************************************************************)
EXTENDS SliceModel

CONSTANT Capacity   \* rows of the window

ASSUME CapacityAssumption == Capacity \in Nat \ {0}

VARIABLES
    replica,    \* another Model, observing the slice's changes
    offset,     \* s.offset: the positions above the window
    shown,      \* what the page was told: its rows, canUp and canDown
    behind,     \* history: a removal moved rows untold, and the window has not moved since
    unseen      \* history: the slice grew by an assignment and canDown was not told since

scrollVars == <<slots, caches, replica, offset, shown, behind, unseen>>

Rows == 1..Capacity
Lower(a, b) == IF a < b THEN a ELSE b
AtLeast0(a) == IF a > 0 THEN a ELSE 0

canUp(off) == off > 0
canDown(off, n) == off < n - Capacity

Window(off, n) ==
    [rows |-> [r \in Rows |-> ValueAt(off + r)], up |-> canUp(off), down |-> canDown(off, n)]

\* NewScroll, and the page's first reading of it.
ScrollInit ==
    /\ InitSlice
    /\ replica = slice
    /\ offset = 0
    /\ shown = Window(0, len)
    /\ behind = FALSE
    /\ unseen = FALSE

-----------------------------------------------------------------------------
(* scrollObserver *)

\* Mutant: the capacity is forgotten.
SlideBackLate(off) == Lower(len', off)

\* RemoveValueAt keeps the window on the data.
SlideBack(off) == AtLeast0(Lower(len' - Capacity, off))

KeySet(rows, i, v) == [r \in Rows |-> IF offset + r = i THEN v ELSE rows[r]]

\* updateFrom sets the keys of the positions in from..to, at the window's offset by then.
UpdatedFrom(rows, from, to) ==
    [r \in Rows |-> IF offset' + r \in from..to THEN ValueAt(offset + r)' ELSE rows[r]]

\* Mutant: the key only is told.
TellSetKey(i, v) ==
    /\ shown' = [shown EXCEPT !.rows = KeySet(@, i, v)]
    /\ UNCHANGED <<replica, offset>>

\* Both observers are told of what an operation did: the replica of the change
\* of the slice, the window of it and of the keys.
TellSet(i, v) ==
    /\ replica' = WasSetAt(replica, i, v)
    /\ shown' = [shown EXCEPT !.rows = KeySet(@, i, v)]
    /\ UNCHANGED offset

TellInsert(i, v) ==
    /\ replica' = InsertedAt(replica, i, v)
    /\ UNCHANGED offset
    /\ shown' = [shown EXCEPT !.rows = UpdatedFrom(@, i, len'), !.down = canDown(offset, len')]

TellRemove(i) ==
    /\ replica' = RemovedAt(replica, i)
    /\ offset' = SlideBack(offset)
    /\ shown' = [rows |-> UpdatedFrom(KeySet(shown.rows, i, Nil), i, len),
                 up |-> canUp(offset'), down |-> canDown(offset', len')]

-----------------------------------------------------------------------------
(* The application's operations on the model *)

SetValue(i, v) ==
    /\ v # Nil => Fresh(v)
    /\ Put(i, v)
    /\ TellSet(i, v)
    /\ unseen' = (unseen \/ len' > len)
    /\ UNCHANGED behind

SetValueAt(i, v) ==
    /\ v # Nil => Fresh(v)
    /\ PutAt(i, v)
    /\ TellSet(i, v)
    /\ unseen' = (unseen \/ len' > len)
    /\ UNCHANGED behind

InsertValueAt(i, v) ==
    /\ Fresh(v)
    /\ Insertion(i, v)
    /\ TellInsert(i, v)
    /\ unseen' = FALSE
    /\ UNCHANGED behind

RemoveValueAt(i) ==
    /\ Removal(i)
    /\ TellRemove(i)
    /\ unseen' = FALSE
    /\ behind' = (behind \/ offset' # offset \/ i > len)

-----------------------------------------------------------------------------
(* The page's operations on the window *)

\* Moving the window tells all of it.
MoveTo(off) ==
    /\ offset' = off
    /\ shown' = Window(off, len)
    /\ behind' = FALSE
    /\ unseen' = FALSE
    /\ UNCHANGED <<slots, caches, replica>>

Up == canUp(offset) /\ MoveTo(offset - 1)

Down == canDown(offset, len) /\ MoveTo(AtLeast0(Lower(len - Capacity, offset + 1)))

\* Mutant: the window may start above the data.
PageUpFar == canUp(offset) /\ MoveTo(offset - Capacity)

PageUp == canUp(offset) /\ MoveTo(AtLeast0(offset - Capacity))

PageDown == canDown(offset, len) /\ MoveTo(AtLeast0(Lower(len - 1, offset + Capacity)))

\* Insert puts a zero element at the top of the window.
Insert(o) == o \in Blanks /\ InsertValueAt(offset + 1, o)

\* Reading a row makes the source of its element.
Value(row, o) ==
    /\ offset + row \in Positions
    /\ Look(offset + row, o)
    /\ UNCHANGED <<replica, offset, shown, behind, unseen>>

\* Writing a row subtracts the offset where reading adds it.
SetRow(row, v) == row - offset \in Rows \cap Positions /\ SetValue(row - offset, v)

Operate ==
    \/ \E i \in Positions, v \in Items \cup {Nil} : SetValue(i, v) \/ SetValueAt(i, v)
    \/ \E i \in Positions, v \in Items : InsertValueAt(i, v)
    \/ \E i \in 1..(MaxLen + 1) : RemoveValueAt(i)

Scrolling == Up \/ Down \/ PageUp \/ PageDown

ScrollNext ==
    \/ Operate
    \/ Scrolling
    \/ \E o \in Blanks : Insert(o)
    \/ \E row \in Rows, o \in Blanks \cup {Nil} : Value(row, o)
    \/ \E row \in Rows, v \in Items : SetRow(row, v)

ScrollSpec == ScrollInit /\ [][ScrollNext]_scrollVars

-----------------------------------------------------------------------------
(* Properties *)

\* The variables hold what they are declared to hold.
ScrollTypeOK ==
    /\ SliceTypeOK
    /\ replica \in Seq(Pointers)
    /\ offset \in Nat /\ behind \in BOOLEAN /\ unseen \in BOOLEAN
    /\ shown \in [rows : [Rows -> Pointers], up : BOOLEAN, down : BOOLEAN]

\* Looking at a nil pointer replaces it by a zero element and tells nobody.
SameElement(heard, p) == heard = p \/ (heard = Nil /\ p \in Blanks)

\* An observer that makes every change of the slice it is told of holds the
\* same elements at the same positions, whatever the slice grew by or lost.
ReplicaAgrees ==
    /\ Len(replica) = len
    /\ \A i \in 1..len : SameElement(replica[i], array[i])

\* The source a model hands out for a position is that of the element there:
\* growing, shifting and assigning leave no cached source or slot behind.
\* "strayed" is where the code does leave one: SetValueAt, the removal of the
\* position after the last, and a nil pointer filled in an array grow replaced.
SourcesCurrent ==
    \A i \in Positions \ strayed :
        /\ sources[i] # Nil => i <= len /\ sources[i] = array[i]
        /\ keys[i].in = "old" => i <= len /\ keys[i].holds = array[i]

\* The page shows the elements in the window, nothing below the data, and
\* buttons that work, however the data moved under it.  The code does not tell
\* the rows when a removal pulls the window back or names the position after
\* the last, nor canDown when an assignment makes the slice longer; "behind"
\* and "unseen" hold from then until the user scrolls.
WindowIsShown ==
    /\ offset = 0 \/ offset < len
    /\ ~behind => \A r \in Rows : SameElement(shown.rows[r], ValueAt(offset + r))
    /\ shown.up = canUp(offset)
    /\ ~unseen => shown.down = canDown(offset, len)
=============================================================================
