----------------------------- MODULE ParseFlags -----------------------------
(***************************************************************************)
(* nihil.cli:parse_flags: posix_parse(), which reads an argument vector    *)
(* into the fields of a struct.                                            *)
(*                                                                         *)
(* A word is a sequence of characters, because it may be a cluster of      *)
(* flags with the value of the last one behind it.  An integer is the      *)
(* digits that it was read from.                                           *)
(***************************************************************************)
EXTENDS Naturals, Sequences

CONSTANTS
  Char,      \* the characters
  Argvs,     \* the argument vectors: sequences of words
  Flags,     \* Flags[c]: the type of flag c: "bool", "string" or "unsigned"
  Arguments, \* the arguments: a sequence of [type, required]
  Digit,     \* the characters that are digits
  MaxDigits, \* an integer of more digits does not fit into its field
  None       \* no value

\* What a field that is not bool is read as.
ValueTypes == {"string", "unsigned"}

ASSUME ParseFlagsAssumption ==
  /\ Argvs \subseteq Seq(Seq(Char))
  /\ "-" \notin DOMAIN Flags \cup Digit
  /\ \A c \in DOMAIN Flags : Flags[c] \in {"bool"} \cup ValueTypes
  /\ Arguments \in Seq([type : ValueTypes, required : BOOLEAN])
  \* "This doesn't handle optional arguments followed by required arguments."
  /\ \A i, j \in DOMAIN Arguments :
       i < j /\ Arguments[j].required => Arguments[i].required
  /\ MaxDigits \in Nat
  /\ None # TRUE
  /\ None \notin Seq(Char)

VARIABLES
  argv,
  pc,        \* what is read next: "flags", the rest of a "cluster", "arguments"
  first,     \* the word that is read next, or the one that has the cluster
  arg1,      \* the rest of the cluster
  flag,      \* flag[c]: the field of flag c, None if nothing was stored in it
  argument,  \* argument[i]: the field of argument i, of those that were given
  error      \* "none", or why posix_parse() failed

flagVars == <<argv, pc, first, arg1, flag, argument, error>>

ValueErrors == {"expected an integer", "expected a non-negative integer", "value too large"}

Errors == ValueErrors \cup {"none", "unknown option", "argument required",
                            "too many arguments", "not enough arguments"}

FlagsTypeOK ==
  /\ argv \in Argvs
  /\ pc \in {"flags", "cluster", "arguments", "done"}
  /\ first \in 1 .. Len(argv) + 1
  /\ pc = "cluster" =>
       /\ first \in DOMAIN argv
       /\ \E n \in 2 .. Len(argv[first]) + 1 : arg1 = SubSeq(argv[first], n, Len(argv[first]))
  /\ DOMAIN flag = DOMAIN Flags
  /\ \A c \in DOMAIN flag :
       flag[c] # None => IF Flags[c] = "bool" THEN flag[c] = TRUE ELSE flag[c] \in Seq(Char)
  /\ argument \in Seq(Seq(Char))
  /\ Len(argument) <= Len(Arguments)
  /\ error \in Errors
  /\ error # "none" => pc = "done"

FlagsInit ==
  /\ argv \in Argvs
  /\ pc = "flags"
  /\ first = 1
  /\ arg1 = <<>>
  /\ flag = [c \in DOMAIN Flags |-> None]
  /\ argument = <<>>
  /\ error = "none"

----------------------------------------------------------------------------
(* The values of flags and arguments *)

\* The digits that w begins with.
Leading(w) ==
  LET n == CHOOSE i \in 0 .. Len(w) :
             /\ \A j \in 1 .. i : w[j] \in Digit
             /\ i < Len(w) => w[i + 1] \notin Digit
  IN SubSeq(w, 1, n)

\* What parse() of an option of this type says of w: "none" or an error.
ErrorIn(type, w) ==
  IF type = "string" THEN "none"
  ELSE IF w # <<>> /\ w[1] = "-" THEN "expected a non-negative integer"
  ELSE IF Leading(w) = <<>> THEN "expected an integer"
  ELSE IF Len(Leading(w)) > MaxDigits THEN "value too large"
  ELSE "none"

\* What it stores in the field.
Stored(type, w) == IF type = "string" THEN w ELSE Leading(w)

----------------------------------------------------------------------------
(* Flags *)

Fail(e) ==
  /\ error' = e
  /\ pc' = "done"
  /\ UNCHANGED <<argv, first, arg1, flag, argument>>

Goto(l) == pc' = l

\* A '-' by itself is no flag.
IsFlag(w) == Len(w) > 1 /\ w[1] = "-"

\* A word of flags.
Cluster ==
  /\ pc = "flags"
  /\ first <= Len(argv)
  /\ IsFlag(argv[first])
  /\ argv[first][2] # "-"
  /\ Goto("cluster")
  /\ arg1' = Tail(argv[first])
  /\ UNCHANGED <<argv, first, flag, argument, error>>

\* Two '-' end the flags, whatever is behind them.
Terminator ==
  /\ pc = "flags"
  /\ first <= Len(argv)
  /\ IsFlag(argv[first])
  /\ argv[first][2] = "-"
  /\ first' = first + 1
  /\ Goto("arguments")
  /\ UNCHANGED <<argv, arg1, flag, argument, error>>

\* Neither flags nor '--'.
EndOfFlags ==
  /\ pc = "flags"
  /\ first <= Len(argv) => ~ IsFlag(argv[first])
  /\ Goto("arguments")
  /\ UNCHANGED <<argv, first, arg1, flag, argument, error>>

Unknown ==
  /\ pc = "cluster"
  /\ arg1 # <<>>
  /\ Head(arg1) \notin DOMAIN Flags
  /\ Fail("unknown option")

Known ==
  /\ pc = "cluster"
  /\ arg1 # <<>>
  /\ Head(arg1) \in DOMAIN Flags

\* has_argument(): flag c needs a value.
IsValued(c) == c \in DOMAIN Flags /\ Flags[c] # "bool"

BoolFlag ==
  /\ Known
  /\ ~ IsValued(Head(arg1))
  /\ flag' = [flag EXCEPT ![Head(arg1)] = TRUE]
  /\ arg1' = Tail(arg1)
  /\ UNCHANGED <<argv, pc, first, argument, error>>

\* Mutant: first is not moved on to the word that the value was.
StoreFrom(i, w) ==
  LET type == Flags[Head(arg1)]
  IN IF ErrorIn(type, w) # "none"
     THEN Fail(ErrorIn(type, w))
     ELSE /\ flag' = [flag EXCEPT ![Head(arg1)] = Stored(type, w)]
          /\ first' = first + 1
          /\ arg1' = <<>>
          /\ Goto("flags")
          /\ UNCHANGED <<argv, argument, error>>

\* Word i has the value w of the flag.  The words after it are read next.
Store(i, w) ==
  LET type == Flags[Head(arg1)]
  IN IF ErrorIn(type, w) # "none"
     THEN Fail(ErrorIn(type, w))
     ELSE /\ flag' = [flag EXCEPT ![Head(arg1)] = Stored(type, w)]
          /\ first' = i + 1
          /\ arg1' = <<>>
          /\ Goto("flags")
          /\ UNCHANGED <<argv, argument, error>>

\* The value is the rest of the word.
ValueHere ==
  /\ Known
  /\ IsValued(Head(arg1))
  /\ Tail(arg1) # <<>>
  /\ Store(first, Tail(arg1))

\* The value is the next word, whatever it looks like.
ValueNext ==
  /\ Known
  /\ IsValued(Head(arg1))
  /\ Tail(arg1) = <<>>
  /\ IF first = Len(argv)
     THEN Fail("argument required")
     ELSE Store(first + 1, argv[first + 1])

\* Mutant: first is moved on in the inner loop too.
EndOfClusterTwice ==
  /\ pc = "cluster"
  /\ arg1 = <<>>
  /\ first' = first + 2
  /\ Goto("flags")
  /\ UNCHANGED <<argv, arg1, flag, argument, error>>

EndOfCluster ==
  /\ pc = "cluster"
  /\ arg1 = <<>>
  /\ first' = first + 1
  /\ Goto("flags")
  /\ UNCHANGED <<argv, arg1, flag, argument, error>>

----------------------------------------------------------------------------
(* Arguments *)

Argument ==
  /\ pc = "arguments"
  /\ first <= Len(argv)
  /\ IF Len(argument) = Len(Arguments)
     THEN Fail("too many arguments")
     ELSE LET type == Arguments[Len(argument) + 1].type
          IN IF ErrorIn(type, argv[first]) # "none"
             THEN Fail(ErrorIn(type, argv[first]))
             ELSE /\ argument' = Append(argument, Stored(type, argv[first]))
                  /\ first' = first + 1
                  /\ UNCHANGED <<argv, pc, arg1, flag, error>>

\* Of the arguments that are missing the first one is looked at.
ReturnFlags ==
  /\ pc = "arguments"
  /\ first > Len(argv)
  /\ IF Len(argument) < Len(Arguments) /\ Arguments[Len(argument) + 1].required
     THEN Fail("not enough arguments")
     ELSE Goto("done") /\ UNCHANGED <<argv, first, arg1, flag, argument, error>>

FlagsNext ==
  \/ Cluster \/ Terminator \/ EndOfFlags
  \/ Unknown \/ BoolFlag \/ ValueHere \/ ValueNext \/ EndOfCluster
  \/ Argument \/ ReturnFlags

FlagsSpec == FlagsInit /\ [][FlagsNext]_flagVars

----------------------------------------------------------------------------
(* What the POSIX utility syntax guidelines make of an argument vector *)

\* Where in word w the flag is that has a value: behind all others, as what is
\* behind it is the value.  Len(w) + 1 if there is none.
ValuedAt(w) ==
  CHOOSE j \in 2 .. Len(w) + 1 :
    /\ j <= Len(w) => IsValued(w[j])
    /\ \A i \in 2 .. j - 1 : ~ IsValued(w[i])

IsTerminator(w) == w = <<"-", "-">>

\* The word that is read after word i, when that is a word of flags.
After(i) == IF ValuedAt(argv[i]) = Len(argv[i]) THEN i + 2 ELSE i + 1

LooksLikeFlags == {i \in DOMAIN argv : IsFlag(argv[i]) /\ ~ IsTerminator(argv[i])}

\* S has the first word, and with each word the one that is read after it, if
\* they look like flags.
Closed(S) == \A i \in LooksLikeFlags : i = 1 \/ (\E j \in S : After(j) = i) => i \in S

\* The words of flags: no more than what has to be one.  The value of a flag is
\* no such word.
FlagWords == {i \in LooksLikeFlags : \A S \in SUBSET LooksLikeFlags : Closed(S) => i \in S}

\* The arguments: what is behind the flags and their values, and a '--'.
Operands ==
  LET rest == IF FlagWords = {} THEN 1
              ELSE After(CHOOSE i \in FlagWords : \A j \in FlagWords : j <= i)
      ended == rest <= Len(argv) /\ IsTerminator(argv[rest])
  IN SubSeq(argv, IF ended THEN rest + 1 ELSE rest, Len(argv))

\* The flags of word i, but not what is in the word as a value.
FlagsOf(i) == {argv[i][j] : j \in DOMAIN argv[i] \cap 2 .. ValuedAt(argv[i])}

\* The words that give flag c a value, and the value.
Giving(c) ==
  {i \in FlagWords : LET j == ValuedAt(argv[i]) IN j \in DOMAIN argv[i] /\ argv[i][j] = c}

Given(i) ==
  LET j == ValuedAt(argv[i])
  IN IF j < Len(argv[i]) THEN SubSeq(argv[i], j + 1, Len(argv[i])) ELSE argv[i + 1]

Lacking(i) == After(i) > Len(argv) + 1

\* There is nothing wrong with the argument vector.
WellFormed ==
  /\ \A i \in FlagWords : FlagsOf(i) \subseteq DOMAIN Flags /\ ~ Lacking(i)
  /\ \A c \in DOMAIN Flags : \A i \in Giving(c) : ErrorIn(Flags[c], Given(i)) = "none"
  /\ Len(Operands) <= Len(Arguments)
  /\ \A i \in DOMAIN Operands : ErrorIn(Arguments[i].type, Operands[i]) = "none"
  /\ \A i \in DOMAIN Arguments : Arguments[i].required => i <= Len(Operands)

\* The fields of the flags say what the argument vector does, the last word of
\* those that give a flag a value being the one that counts.
FlagFieldsMatch ==
  \A c \in DOMAIN Flags :
    IF Flags[c] = "bool"
    THEN flag[c] = TRUE <=> \E i \in FlagWords : c \in FlagsOf(i)
    ELSE flag[c] = IF Giving(c) = {} THEN None
                   ELSE Stored(Flags[c], Given(CHOOSE i \in Giving(c) :
                                                 \A j \in Giving(c) : j <= i))

\* And so do those of the arguments.
FieldsMatch ==
  /\ FlagFieldsMatch
  /\ argument = [i \in DOMAIN Operands |-> Stored(Arguments[i].type, Operands[i])]

----------------------------------------------------------------------------
(* Properties *)

\* A word that the guidelines have no place for: a long flag, such as the usage
\* statement names.
LongFlag == \E i \in FlagWords : argv[i][2] = "-"

\* posix_parse() succeeds if and only if the argument vector is well-formed, and
\* then every word has ended up where the guidelines put it, clusters taken
\* apart, values told from flags and from arguments.
FollowsGuidelines ==
  pc = "done" /\ ~ LongFlag =>
    /\ error = "none" <=> WellFormed
    /\ error = "none" => FieldsMatch

\* What the usage statement and flag_name say, "--{}" of a flag's long name: a
\* long flag is a flag, or at least not passed over.
LongFlagsNoticed == pc = "done" /\ LongFlag => error # "none"
=============================================================================
