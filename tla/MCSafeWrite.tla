---------------------------- MODULE MCSafeWrite ----------------------------
(* Three writers of a short and a long range. *)
EXTENDS SafeWrite, TLC

CONSTANTS w1, w2, w3, a, b, o

MCWriter == {w1, w2, w3}
MCBlock == {a, b, o}
MCPayload == {<<a>>, <<b, b>>}
MCOriginal == {<<o>>, None}

\* The writers are interchangeable.
MCSymmetry == Permutations(MCWriter)
=============================================================================
