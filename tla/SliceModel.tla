------------------------------ MODULE SliceModel ------------------------------
(***************************************************************************)
(* A controllers.Model over a slice of pointers to structs, the kind of     *)
(* slice that forms bind their lists to.                                   *)
(*                                                                         *)
(* The slice is a length and an array that growing may replace by a new    *)
(* one.  The model caches, by position, the slot it has looked at (m.keys) *)
(* and the source it has made for the element there (m.sources).  Every    *)
(* operation tells the observers what it did, twice over: as a change of   *)
(* the slice and as new values of positions (Scroll has both observers).   *)
(*                                                                         *)
(* Positions count from 1, those of the code from 0.  Operations run in    *)
(* one goroutine: Model has no lock.                                       *)
(***************************************************************************)
EXTENDS Integers, Sequences, SequencesExt

CONSTANTS
    Items,      \* elements the application puts into the slice
    Blanks,     \* zero elements that are made for it
    Nil,        \* a nil pointer
    MaxLen,     \* bound: the length of the slice
    MaxCap      \* bound: the capacity of its array

ASSUME SliceAssumption ==
    /\ MaxLen \in Nat \ {0} /\ MaxCap \in Nat /\ MaxLen <= MaxCap
    /\ Nil \notin Items \cup Blanks /\ Items \cap Blanks = {}

VARIABLES
    array,      \* the pointers in the slice's array, as many as its capacity
    len,        \* the length of the slice
    keys,       \* m.keys: for each position no slot, its slot, or one of an old array
    sources,    \* m.sources: the element whose source is cached, or Nil
    strayed     \* history: positions whose caches were left behind (see SourcesCurrent)

slots == <<array, len>>
caches == <<keys, sources, strayed>>

Elements == Items \cup Blanks
Pointers == Elements \cup {Nil}
Positions == 1..MaxLen
NoSlot == [in |-> "none", holds |-> Nil]
Slot == [in |-> "array", holds |-> Nil]
OldSlot(p) == [in |-> "old", holds |-> p]

slice == SubSeq(array, 1, len)
ValueAt(i) == IF i \in 1..len THEN array[i] ELSE Nil

\* A pointer that nothing refers to yet.
Fresh(o) ==
    /\ \A i \in DOMAIN array : array[i] # o
    /\ \A i \in Positions : sources[i] # o /\ keys[i].holds # o

InitSlice ==
    /\ array \in UNION {[1..c -> Items] : c \in 0..MaxLen} /\ IsInjective(array)
    /\ len = Len(array)
    /\ keys = [i \in Positions |-> NoSlot]
    /\ sources = [i \in Positions |-> Nil]
    /\ strayed = {}

-----------------------------------------------------------------------------
(* What another Model, observing "value", makes of the change it is told of *)

Padded(s, n) == [i \in 1..n |-> IF i <= Len(s) THEN s[i] ELSE Nil]

WasSetAt(s, i, v) == [Padded(s, IF i > Len(s) THEN i ELSE Len(s)) EXCEPT ![i] = v]

InsertedAt(s, i, v) == InsertAt(IF i > Len(s) THEN Padded(s, i - 1) ELSE s, i, v)

RemovedAt(s, i) == RemoveAt(s, IF i > Len(s) THEN Len(s) ELSE i)

-----------------------------------------------------------------------------
(* Operations on the slice and the caches *)

\* grow(n): the new positions hold nil.  A new array may be larger than needed ...
Grown(n) ==
    IF len + n <= Len(array)
    THEN {[i \in DOMAIN array |-> IF i \in (len + 1)..(len + n) THEN Nil ELSE array[i]]}
    ELSE {Padded(slice, c) : c \in (len + n)..MaxCap}

\* ... and a slot in the cache stays where it was.
KeysAfter(new) ==
    [i \in Positions |-> IF Len(new) > Len(array) /\ keys[i] = Slot THEN OldSlot(array[i]) ELSE keys[i]]

\* Mutant: updateFrom forgets the slots only.
ForgetSlots(cached, from, to) ==
    /\ keys' = [i \in Positions |-> IF i \in from..to THEN NoSlot ELSE cached[i]]
    /\ UNCHANGED sources

\* updateFrom forgets the slots and the sources of the positions it tells of.
Forget(cached, from, to) ==
    /\ keys' = [i \in Positions |-> IF i \in from..to THEN NoSlot ELSE cached[i]]
    /\ sources' = [i \in Positions |-> IF i \in from..to THEN Nil ELSE sources[i]]

\* Value makes a source for the element and a zero element, o, for a nil pointer.
\* It stores that in the slot it has cached, which an old array may own.
Look(i, o) ==
    LET old == keys[i].in = "old"
        p == IF old THEN keys[i].holds ELSE array[i]
        e == IF p = Nil THEN o ELSE p
    IN /\ sources[i] = Nil /\ (keys[i] # NoSlot \/ i <= len)
       /\ IF p = Nil THEN o \in Blanks /\ Fresh(o) ELSE o = Nil
       /\ sources' = [sources EXCEPT ![i] = e]
       /\ keys' = [keys EXCEPT ![i] = IF old THEN OldSlot(e) ELSE Slot]
       /\ array' = IF old THEN array ELSE [array EXCEPT ![i] = e]
       /\ strayed' = IF old /\ p = Nil THEN strayed \cup {i} ELSE strayed
       /\ UNCHANGED len

\* What SetValueAt does to the slice and the slots.
Assign(i, v) ==
    LET n == IF i > len THEN i - len ELSE 0 IN
    \E new \in Grown(n) :
        /\ array' = [new EXCEPT ![i] = v]
        /\ len' = len + n
        /\ keys' = [KeysAfter(new) EXCEPT ![i] = NoSlot]

\* SetValueAt leaves the source of the element that was there ...
PutAt(i, v) ==
    /\ Assign(i, v)
    /\ strayed' = IF sources[i] = Nil THEN strayed \ {i} ELSE strayed \cup {i}
    /\ UNCHANGED sources

\* ... SetValue, with a position as its key, has released it.
Put(i, v) ==
    /\ Assign(i, v)
    /\ sources' = [sources EXCEPT ![i] = Nil]
    /\ strayed' = strayed \ {i}

Insertion(i, o) ==
    LET n == IF i > len THEN i - len ELSE 1 IN
    /\ len + n <= MaxLen
    /\ \E new \in Grown(n) :
        /\ array' = [j \in DOMAIN new |->
                        IF j = i THEN o ELSE IF j \in (i + 1)..(len + 1) THEN new[j - 1] ELSE new[j]]
        /\ len' = len + n
        /\ Forget(KeysAfter(new), i, len')
        /\ strayed' = strayed \ (i..len')

\* The position after the last is accepted too: the last element goes, its caches stay.
\* (With an empty slice the code panics: not modelled.)
Removal(i) ==
    /\ len > 0 /\ i \in 1..(len + 1)
    /\ array' = [j \in DOMAIN array |-> IF j \in i..(len - 1) THEN array[j + 1] ELSE array[j]]
    /\ len' = len - 1
    /\ Forget(keys, i, len)
    /\ strayed' = IF i > len /\ (sources[len] # Nil \/ keys[len] # NoSlot)
                  THEN strayed \cup {len} ELSE strayed \ (i..len)

-----------------------------------------------------------------------------

\* The part of the type invariant that is about the slice and its caches.
SliceTypeOK ==
    /\ array \in UNION {[1..c -> Pointers] : c \in 0..MaxCap} /\ len \in 0..Len(array) /\ len <= MaxLen
    /\ keys \in [Positions -> {NoSlot, Slot} \cup {OldSlot(p) : p \in Pointers}]
    /\ sources \in [Positions -> Pointers] /\ strayed \subseteq Positions
=============================================================================
