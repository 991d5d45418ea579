---------------------------- MODULE MCNousedFlat ----------------------------
(***************************************************************************)
(* A plain use p, and a use x of a cast or a getelementptr on it.          *)
(***************************************************************************)
EXTENDS NousedFlat, TLC

CONSTANTS p, x, s1, s2

MCUses == {p, x}
MCSlots == {s1, s2}
Nothing == {}
JustOther == {Other}
MCPointer == [u \in {x} |-> p]

(* answer is a history *)
View == <<RC1, RC2, RC3, live, undefs, visits, form>>

Symmetry == Permutations(MCSlots)
============================================================================
