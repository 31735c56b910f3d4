------------------------------- MODULE MCInputs -------------------------------
(* Inputs for TLC: two inputs, two fields and documents that bind them       *)
(* apart, to one field, one input for a property of the other, one input     *)
(* twice, and not at all.                                                   *)
EXTENDS Inputs

CONSTANTS a, b, name, mail, x, y

MCInputIDs == {a, b}
MCFields == {name, mail}
MCValues == {Zero, x, y}

To(i, p, k) == [input |-> i, prop |-> p, field |-> k]
MCLayouts == {
    {},
    {To(a, "value", name), To(b, "value", mail), To(b, "hidden", name)},
    {To(a, "value", name), To(b, "value", name)},
    {To(a, "value", name), To(a, "hidden", name)}}
=============================================================================
