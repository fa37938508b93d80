------------------------------ MODULE MCBilling ------------------------------
(* Small instances of Billing for TLC. *)
EXTENDS Billing, TLC

CONSTANTS r1, r2, r3, r4, plain, serial, unit

MCTwo        == {r1, r2}
MCThree      == {r1, r2, r3}
MCFour       == {r1, r2, r3, r4}
MCProducts   == {plain, serial}
MCOneProduct == {plain}

\* The second product costs twice the first and has one serialized unit.
MCPrice    == [p \in Products |-> IF p = serial THEN 2 ELSE 1]
MCOpening  == [p \in Products |-> IF p = serial THEN 1 ELSE 2]
MCSerials  == [p \in Products |-> IF p = serial THEN {unit} ELSE {}]

\* Requests are interchangeable.
MCSymmetry == Permutations(Requests)
=============================================================================
