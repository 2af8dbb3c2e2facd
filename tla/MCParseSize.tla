---------------------------- MODULE MCParseSize ----------------------------
(* ParseSize with the types of eight bits, signed and unsigned, every number *)
(* of up to three digits, zeros in front included, and multipliers from 4 to *)
(* 4^5, which is more than fits.                                             *)
EXTENDS ParseSize, SequencesExt

MCLimits == {127, 255}
MCInputs == BoundedSeq(0 .. 9, 3)
=============================================================================
