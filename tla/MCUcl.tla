------------------------------- MODULE MCUcl -------------------------------
(* Ucl with five cells, an array, two maps and two nodes of a basic type. *)
EXTENDS Ucl, TLC

CONSTANTS c1, c2, c3, c4, c5, a1, m1, m2, x1, x2

MCCell == {c1, c2, c3, c4, c5}
MCArray == {a1}
MCMap == {m1, m2}
MCNode == {a1, m1, m2, x1, x2}

\* Cells differ by their state alone, and nodes of one kind do.
MCSymmetry == Permutations(MCCell) \cup Permutations(MCMap) \cup Permutations({x1, x2})
=============================================================================
