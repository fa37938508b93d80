---------------------------- MODULE MCBranchFloor ----------------------------
(* A small branch for TLC. *)
EXTENDS BranchFloor, TLC

CONSTANTS
    a1, a2,             \* requests of the control plane, and apps that print
    b1, b2,             \* spokes, and the timers of an app
    ann, bob, till1,    \* staff and tills
    i1, i2, holder,     \* installations, and whoever holds both
    k1, k2, s1, s2, rec1, rec2     \* pushes, offline sales, records

MCAssigned == [t \in Tills |-> ann]
MCPolicies == {DefaultDayPolicy, [needsShift |-> TRUE, needsAssigned |-> FALSE]}
MCSurface  == i1 :> "store_desktop" @@ i2 :> "store_mobile"
MCHolder   == [i \in Installations |-> holder]
MCBatch    == k1 :> <<rec1, rec2>> @@ k2 :> <<rec1>>

\* Each pair stands for two sets whose members are interchangeable: the parts that use them never
\* move in one behaviour, so one permutation may swap both.
MCSymmetry == Permutations(Desks) \cup Permutations(Spokes)
=============================================================================
