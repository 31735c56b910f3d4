-------------------------------- MODULE Inputs --------------------------------
(***************************************************************************)
(* The inputs of an element-binding page and the Bindings between them and  *)
(* the fields of a model: input.Input, input.ValueBindings and the rules of *)
(* observable.Binding.                                                     *)
(*                                                                         *)
(* A binding of the property "value" goes both ways; one of "hidden" has    *)
(* the transformer isZero, which goes one way.  An event "input" puts one   *)
(* element into a channel of size 1, and a goroutine that takes it reads    *)
(* the input and sleeps a second; an event "change" reads the input at once.*)
(* In the page a goroutine runs until it blocks, so each of these is a step.*)
(*                                                                         *)
(* Names that ClickActions has too begin with those of this module.         *)
(***************************************************************************)
EXTENDS Integers

CONSTANTS
    InputIDs,   \* elements that have an Input
    Fields,     \* fields of the model
    Values,     \* of a field
    Zero,       \* the zero value among them
    Layouts     \* the bindings that the page's documents give

InputBinding == [input : InputIDs, prop : {"value", "hidden"}, field : Fields]

ASSUME InputsAssumption ==
    /\ Zero \in Values
    /\ \A bs \in Layouts : bs \subseteq InputBinding
    /\ \A bs \in Layouts : \A p, q \in bs : p.input = q.input /\ p.prop = q.prop => p = q

VARIABLES
    valueBindings,  \* vb.bindings: those of the document that is shown
    field,          \* the model
    text,           \* the value of each element
    hidden,         \* its other property
    signal,         \* inputCh holds an element
    loop,           \* the goroutine: waiting for inputCh, or asleep
    typed,          \* the text was typed, and nothing has read or replaced it
    wedged          \* a goroutine waits for a lock it holds

inputsVars == <<valueBindings, field, text, hidden, signal, loop, typed, wedged>>

InputsInit ==
    /\ valueBindings \in Layouts
    /\ field = [f \in Fields |-> Zero]
    /\ text = [i \in InputIDs |-> Zero]
    /\ hidden = [i \in InputIDs |-> \E b \in valueBindings : b.input = i /\ b.prop = "hidden"]
    /\ signal = [i \in InputIDs |-> FALSE]
    /\ loop = [i \in InputIDs |-> "waiting"]
    /\ typed = [i \in InputIDs |-> FALSE]
    /\ wedged = FALSE

ValueBinding(i) == {b \in valueBindings : b.input = i /\ b.prop = "value"}
Bound(i) == ValueBinding(i) # {}
Quiet == [i \in InputIDs |-> FALSE]

-----------------------------------------------------------------------------
(* Bindings *)

\* Mutant: the transformer is not applied.
ShowRaw(f, v, bs) ==
    LET shows(i, p) == \E b \in bs : b.field = f /\ b.input = i /\ b.prop = p
    IN /\ text' = [i \in InputIDs |-> IF shows(i, "value") THEN v ELSE text[i]]
       /\ typed' = [i \in InputIDs |-> typed[i] /\ ~shows(i, "value")]
       /\ hidden' = [i \in InputIDs |-> IF shows(i, "hidden") THEN v ELSE hidden[i]]

\* The bindings bs of a field set the inputs at their other end.
Show(f, v, bs) ==
    LET shows(i, p) == \E b \in bs : b.field = f /\ b.input = i /\ b.prop = p
    IN /\ text' = [i \in InputIDs |-> IF shows(i, "value") THEN v ELSE text[i]]
       /\ typed' = [i \in InputIDs |-> typed[i] /\ ~shows(i, "value")]
       /\ hidden' = [i \in InputIDs |-> IF shows(i, "hidden") THEN v = Zero ELSE hidden[i]]

\* changeHandler sets the field, and the other bindings of the field set their
\* inputs, all while the input's lock is held for reading.  One that sets this
\* input, another property of it, asks for the lock and never gets it; what else
\* the page does would wait for that goroutine.
ChangeHandler(i) ==
    \/ /\ ~Bound(i)
       /\ UNCHANGED <<field, text, hidden, typed, wedged>>
    \/ \E b \in ValueBinding(i) :
        LET f == b.field
            others == {o \in valueBindings \ {b} : o.field = f}
        IN /\ field' = [field EXCEPT ![f] = text[i]]
           /\ IF \E o \in others : o.input = i
              THEN wedged' = TRUE /\ UNCHANGED <<text, hidden, typed>>
              ELSE /\ Show(f, text[i], others \cup {b})
                   /\ UNCHANGED wedged

-----------------------------------------------------------------------------
(* The page *)

\* Mutant: a channel without a buffer.
RaisedAwake(i) == [signal EXCEPT ![i] = loop[i] = "waiting"]

\* inputHandler puts an element into the channel, if it is not full.
Raised(i) == [signal EXCEPT ![i] = TRUE]

\* The user types: an event "input".
Type(i, v) ==
    /\ ~wedged
    /\ text' = [text EXCEPT ![i] = v]
    /\ IF Bound(i)
       THEN typed' = [typed EXCEPT ![i] = TRUE] /\ signal' = Raised(i)
       ELSE UNCHANGED <<typed, signal>>
    /\ UNCHANGED <<valueBindings, field, hidden, loop, wedged>>

\* The user leaves the input: an event "change".
Change(i) ==
    /\ ~wedged /\ Bound(i) /\ typed[i]
    /\ ChangeHandler(i)
    /\ UNCHANGED <<valueBindings, signal, loop>>

\* The goroutine takes the element, reads the input and goes to sleep ...
Throttled(i) ==
    /\ ~wedged /\ signal[i] /\ loop[i] = "waiting"
    /\ signal' = [signal EXCEPT ![i] = FALSE]
    /\ loop' = [loop EXCEPT ![i] = "asleep"]
    /\ ChangeHandler(i)
    /\ UNCHANGED valueBindings

\* ... for a second.
Awake(i) ==
    /\ ~wedged /\ loop[i] = "asleep"
    /\ loop' = [loop EXCEPT ![i] = "waiting"]
    /\ UNCHANGED <<valueBindings, field, text, hidden, signal, typed, wedged>>

\* The server sets a field.
Push(f, v) ==
    /\ ~wedged
    /\ field' = [field EXCEPT ![f] = v]
    /\ Show(f, v, valueBindings)
    /\ UNCHANGED <<valueBindings, signal, loop, wedged>>

\* Mutant: the new bindings do not set their inputs.
RebindUnset(bs) ==
    /\ ~wedged
    /\ valueBindings' = bs
    /\ UNCHANGED <<field, text, hidden, wedged>>
    /\ signal' = Quiet /\ typed' = Quiet
    /\ loop' = [i \in InputIDs |-> "waiting"]

\* Rebind releases the inputs, with what they have not sent, and binds those of the
\* document as it is now: new Inputs, each set to its field.
RebindInputs(bs) ==
    LET of(i, p) == {b \in bs : b.input = i /\ b.prop = p} IN
    /\ ~wedged
    /\ valueBindings' = bs
    /\ text' = [i \in InputIDs |->
            IF of(i, "value") = {} THEN text[i] ELSE field[(CHOOSE b \in of(i, "value") : TRUE).field]]
    /\ hidden' = [i \in InputIDs |->
            IF of(i, "hidden") = {} THEN hidden[i]
            ELSE field[(CHOOSE b \in of(i, "hidden") : TRUE).field] = Zero]
    /\ signal' = Quiet /\ typed' = Quiet
    /\ loop' = [i \in InputIDs |-> "waiting"]
    /\ UNCHANGED <<field, wedged>>

InputsNext ==
    \/ \E i \in InputIDs, v \in Values : Type(i, v)
    \/ \E i \in InputIDs : Change(i) \/ Throttled(i) \/ Awake(i)
    \/ \E f \in Fields, v \in Values : Push(f, v)
    \/ \E bs \in Layouts : RebindInputs(bs)

\* A goroutine that can go on does, and a second passes.
Fairness == \A i \in InputIDs : WF_inputsVars(Throttled(i)) /\ WF_inputsVars(Awake(i))

InputsSpec == InputsInit /\ [][InputsNext]_inputsVars /\ Fairness

-----------------------------------------------------------------------------
(* Properties *)

\* The variables hold what they are declared to hold.
InputsTypeOK ==
    /\ valueBindings \in Layouts /\ field \in [Fields -> Values]
    /\ text \in [InputIDs -> Values] /\ hidden \in [InputIDs -> BOOLEAN]
    /\ signal \in [InputIDs -> BOOLEAN] /\ typed \in [InputIDs -> BOOLEAN]
    /\ loop \in [InputIDs -> {"waiting", "asleep"}]
    /\ wedged \in BOOLEAN

\* Every input shows its field, in the value unless the user has typed another
\* that nothing has read yet, however typing, pushes and other inputs of the
\* field cross; and with text to read there is an element in the channel for it.
InputsShowFields ==
    ~wedged => \A b \in valueBindings :
        /\ b.prop = "value" /\ ~typed[b.input] => text[b.input] = field[b.field]
        /\ b.prop = "hidden" => hidden[b.input] = (field[b.field] = Zero)
        /\ typed[b.input] => signal[b.input]

\* What the user types last is read, in spite of the events dropped meanwhile,
\* if it is not replaced before.
TypedIsRead == \A i \in InputIDs : typed[i] ~> (~typed[i] \/ wedged)
=============================================================================
