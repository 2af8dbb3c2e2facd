----------------------------- MODULE MCConfig -----------------------------
(* Two options, and files with an unknown key and with a wrong type. *)
EXTENDS Config

CONSTANTS p1, a, b, u, v

MCProg == {p1}
MCNames == <<a, b>>
MCValue == {u, v}

E(k, x) == [key |-> k, value |-> x]

MCEdits == {<<E(a, v)>>, <<E(a, v), E(b, Other)>>, <<E(b, v), E(Foreign, u), E(a, u)>>}
=============================================================================
