---------------------------- MODULE MCCommands ----------------------------
(* Commands with five commands: one path is a beginning of another, one is *)
(* deep below a stub, and one is there twice.                              *)
EXTENDS Commands

MCCommand == 1 .. 5

MCWord == {"a", "b", "c"}

MCPath == <<<<"a">>, <<"a", "b">>, <<"a", "b">>, <<"b", "a", "c">>, <<"b", "c">>>>

MCArgs == UNION {[1 .. n -> MCWord] : n \in 0 .. 4}
=============================================================================
