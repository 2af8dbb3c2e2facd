----------------------------- MODULE MCProcess -----------------------------
(* Process with three objects and four process ids. *)
EXTENDS Process, TLC

CONSTANTS o1, o2, o3, p1, p2, p3, p4

MCObj == {o1, o2, o3}
MCPid == {p1, p2, p3, p4}

\* The objects are interchangeable, and so are the pids.
MCSymmetry == Permutations(MCObj) \cup Permutations(MCPid)
=============================================================================
