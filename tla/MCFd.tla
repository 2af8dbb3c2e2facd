------------------------------- MODULE MCFd -------------------------------
(* Fd with three objects and four numbers, of which 0 is inherited. *)
EXTENDS Fd, TLC

CONSTANTS o1, o2, o3

MCObj == {o1, o2, o3}
MCFileno == 0..3
MCInherited == {0}

\* The objects are interchangeable: nothing but m_fileno and phase names one.
MCSymmetry == Permutations(MCObj)
=============================================================================
