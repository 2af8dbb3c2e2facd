----------------------------- MODULE MCTempfile -----------------------------
(* Tempfile with two processes. *)
EXTENDS Tempfile

CONSTANTS p1, p2, o1, o2, n1, n2, f1, f2

MCProc == {p1, p2}
MCObj == {o1, o2}
MCName == {n1, n2}
MCFile == {f1, f2}
=============================================================================
