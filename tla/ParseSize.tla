----------------------------- MODULE ParseSize -----------------------------
(***************************************************************************)
(* nihil.core:parse_size: parse_size<T>(), which reads a number with a     *)
(* suffix for kilo, mega, giga, tera or peta into an integer of type T,    *)
(* and refuses what does not fit.                                          *)
(*                                                                         *)
(* A step is one pass of the loop over the digits.  Arithmetic is that of  *)
(* T: what is greater than the largest value wraps around.  Of the         *)
(* characters after the digits only what they make of the number matters.  *)
(***************************************************************************)
EXTENDS Naturals, Sequences

CONSTANTS
  Limits,    \* the largest values of the types T
  Inputs,    \* the digits that strings may begin with: sequences over 0 .. 9
  Kilo       \* what one step of the multipliers is, 1024

ASSUME ParseSizeAssumption ==
  /\ Limits \subseteq Nat
  /\ \A n \in Limits : n >= 9
  /\ Inputs \subseteq Seq(0 .. 9)
  /\ Kilo \in Nat \ {0}

VARIABLES
  max,    \* std::numeric_limits<T>::max()
  num,    \* num_str: the digits that are to be read
  suffix, \* what follows the digits
  ret,    \* the number so far, of type T
  result, \* "none" before parse_size() returns, then "value" or the error
  exact,  \* history: the number that was read so far, as long as it may be
  wrapped \* history: has some result of the arithmetic not fitted into T?

sizeVars == <<max, num, suffix, ret, result, exact, wrapped>>

Units == {"k", "m", "g", "t", "p"}

\* Nothing, a unit, another character, or more than one.
Endings == Units \cup {"", "other", "long"}

Results == {"none", "value", "empty_string", "result_out_of_range", "invalid_unit"}

SizeInit ==
  /\ max \in Limits
  /\ num \in Inputs
  /\ suffix \in Endings
  /\ ret = 0
  /\ result = IF num = <<>> THEN "empty_string" ELSE "none"
  /\ exact = 0
  /\ wrapped = FALSE

----------------------------------------------------------------------------

Wrap(n) == n % (max + 1)

\* get_multiplier(): each case falls through to the next smaller one.
Multiplier ==
  [u \in Units |-> CASE u = "k" -> Kilo
                     [] u = "m" -> Kilo * Kilo
                     [] u = "g" -> Kilo * Kilo * Kilo
                     [] u = "t" -> Kilo * Kilo * Kilo * Kilo
                     [] u = "p" -> Kilo * Kilo * Kilo * Kilo * Kilo]

Refuse(error) == result' = error /\ UNCHANGED ret

\* The results of the arithmetic in a step, of which T keeps what fits.
Computes(numbers) == wrapped' = (wrapped \/ \E n \in numbers : n > max)

\* Mutant: one check before the multiplication is held to be enough.
ReadDigitOneCheck ==
  /\ result = "none"
  /\ num # <<>>
  /\ num' = Tail(num)
  /\ exact' = exact * 10 + Head(num)
  /\ LET ten == Wrap(ret * 10)
         sum == ten + Head(num)
     IN \/ /\ ret > max \div 10
           /\ Computes({})
           /\ Refuse("result_out_of_range")
        \/ /\ ret <= max \div 10
           /\ Computes({ret * 10, sum})
           /\ ret' = Wrap(sum)
           /\ UNCHANGED result
  /\ UNCHANGED <<max, suffix>>

\* One digit: whether ret * 10 and then whether adding the digit would overflow
\* is found out by dividing and by subtracting from the largest value.
ReadDigit ==
  /\ result = "none"
  /\ num # <<>>
  /\ num' = Tail(num)
  /\ exact' = exact * 10 + Head(num)
  /\ LET ten == Wrap(ret * 10)
         sum == ten + Head(num)
     IN \/ /\ ret > max \div 10
           /\ Computes({})
           /\ Refuse("result_out_of_range")
        \/ /\ ret <= max \div 10
           /\ max - Head(num) < ten
           /\ Computes({ret * 10})
           /\ Refuse("result_out_of_range")
        \/ /\ ret <= max \div 10
           /\ max - Head(num) >= ten
           /\ Computes({ret * 10, sum})
           /\ ret' = Wrap(sum)
           /\ UNCHANGED result
  /\ UNCHANGED <<max, suffix>>

\* No multiplier.
Plain ==
  /\ result = "none"
  /\ num = <<>>
  /\ suffix = ""
  /\ result' = "value"
  /\ UNCHANGED <<max, num, suffix, ret, exact, wrapped>>

BadUnit ==
  /\ result = "none"
  /\ num = <<>>
  /\ suffix \in {"other", "long"}
  /\ Refuse("invalid_unit")
  /\ UNCHANGED <<max, num, suffix, exact, wrapped>>

\* Mutant: a product that is just the largest value is refused.
ScaleStrict ==
  /\ result = "none"
  /\ num = <<>>
  /\ suffix \in Units
  /\ \/ /\ ret >= max \div Multiplier[suffix]
        /\ Computes({})
        /\ Refuse("result_out_of_range")
     \/ /\ ret < max \div Multiplier[suffix]
        /\ Computes({ret * Multiplier[suffix]})
        /\ ret' = Wrap(ret * Multiplier[suffix])
        /\ result' = "value"
  /\ UNCHANGED <<max, num, suffix, exact>>

\* The number is multiplied, unless that would overflow.
Scale ==
  /\ result = "none"
  /\ num = <<>>
  /\ suffix \in Units
  /\ \/ /\ ret > max \div Multiplier[suffix]
        /\ Computes({})
        /\ Refuse("result_out_of_range")
     \/ /\ ret <= max \div Multiplier[suffix]
        /\ Computes({ret * Multiplier[suffix]})
        /\ ret' = Wrap(ret * Multiplier[suffix])
        /\ result' = "value"
  /\ UNCHANGED <<max, num, suffix, exact>>

SizeNext == ReadDigit \/ Plain \/ BadUnit \/ Scale

SizeSpec == SizeInit /\ [][SizeNext]_sizeVars

----------------------------------------------------------------------------
(* Properties *)

\* No multiplication and no addition has a result that does not fit into T, on
\* the way to an error either: for int, and larger signed types, that would be
\* undefined whatever is returned.
NothingWraps == ~ wrapped

\* The number times what its suffix stands for.
Meant == exact * (IF suffix \in Units THEN Multiplier[suffix] ELSE 1)

\* parse_size() returns the number that the string means, for every type:
\* nothing is lost by wrapping around.  It refuses a number for its size only
\* if it does not fit into T.
Correct ==
  /\ result = "value" => ret = Meant /\ num = <<>> /\ suffix \in Units \cup {""}
  /\ result = "result_out_of_range" => Meant > max
=============================================================================
