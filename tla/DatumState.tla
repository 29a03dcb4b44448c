------------------------------ MODULE DatumState ------------------------------
(***************************************************************************)
(* VRDatumSpecialized: one datum with its saved states, a record of        *)
(*    value                    the stack, its front first; attributes are  *)
(*                             saved with values                           *)
(*    needPush, pushed, stackFrame                                         *)
(***************************************************************************)
EXTENDS Integers, Sequences

New(v) == [value |-> <<v>>, needPush |-> FALSE, pushed |-> FALSE, stackFrame |-> 1]

\* (Faulty: the value of the state below is overwritten.)
ForgetsPush(d, v) == [d EXCEPT !.value = <<v>> \o Tail(@)]
SetValue(d, v) ==
    IF d.needPush
    THEN [d EXCEPT !.value = <<v>> \o @, !.needPush = FALSE, !.pushed = TRUE]
    ELSE [d EXCEPT !.value = <<v>> \o Tail(@)]

\* VRDatumContainer::addToValue; it needs no new value to copy the old one.
AddToValue(d, name) == SetValue(d, Head(d.value) \cup {name})

DatumPush(d) == [d EXCEPT !.needPush = TRUE, !.stackFrame = @ + 1]

\* (Faulty: a value is dropped although none was pushed.)
PopsAlways(d) == d.stackFrame > 1
PopsValue(d)  == d.pushed /\ d.stackFrame > 1
DatumPop(d) ==
    IF PopsValue(d)
    THEN [d EXCEPT !.stackFrame = @ - 1, !.value = Tail(@), !.pushed = FALSE]
    ELSE [d EXCEPT !.stackFrame = @ - 1]

\* The last name to be popped decides, of a datum with several names.
Expired(d) == d.stackFrame <= 0

\* setAttributeValue, on values that have attributes: the state is not saved first.
SetAttribute(d, attr, v) ==
    LET front == Head(d.value)
        attrs == [a \in DOMAIN front.attrs \cup {attr} |-> IF a = attr THEN v ELSE front.attrs[a]]
    IN  [d EXCEPT !.value = <<[front EXCEPT !.attrs = attrs]>> \o Tail(@)]
=============================================================================
