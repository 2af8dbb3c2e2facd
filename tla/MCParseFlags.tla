---------------------------- MODULE MCParseFlags ----------------------------
(* ParseFlags with a flag of each type, an argument that is required and one *)
(* that is not, and every vector of up to four of a dozen words.             *)
EXTENDS ParseFlags, SequencesExt

MCFlags == [v |-> "bool", s |-> "string", n |-> "unsigned"]
MCArguments == <<[type |-> "string", required |-> TRUE], [type |-> "unsigned", required |-> FALSE]>>
MCChar == {"-", "v", "s", "n", "1"}
MCDigit == {"1"}

\* Flags with their value, with the next word as their value and without one,
\* an unknown flag, what looks like a flag and is none, numbers that fit or not.
MCWords ==
  { <<>>, <<"-">>, <<"-", "-">>, <<"-", "-", "v">>, <<"-", "v">>, <<"-", "s">>,
    <<"-", "v", "n">>, <<"-", "n", "1">>, <<"-", "s", "1">>, <<"-", "1">>, <<"1">>,
    <<"1", "1", "v">> }

MCArgvs == BoundedSeq(MCWords, 4)
=============================================================================
