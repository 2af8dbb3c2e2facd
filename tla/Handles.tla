------------------------------ MODULE Handles ------------------------------
(***************************************************************************)
(* What exclusive ownership of a kernel resource promises, with nothing    *)
(* about how an owner keeps it.  A resource is known by a number: a file   *)
(* descriptor, or the id of a child process that has not been waited for.  *)
(* Every live number has exactly one holder: an owner, or the program      *)
(* itself (a bare int).  A holder gets a number when the number comes to   *)
(* life, hands it on, or ends its life.  There is no step by which a live  *)
(* number loses its holder, or a holder gets a second number, or anyone    *)
(* but its holder ends its life.                                           *)
(***************************************************************************)
CONSTANTS
  Obj,     \* the owners
  Handle,  \* the numbers
  None     \* no number

VARIABLES
  live,     \* the numbers that name a resource
  owns,     \* owns[o]: the number o must dispose of, or None
  program   \* the numbers the program holds as bare ints

vars == <<live, owns, program>>

Init ==
  /\ live \subseteq Handle
  /\ owns = [o \in Obj |-> None]
  /\ program = live

\* A number comes to life in the hands of o.
Acquire(o, n) ==
  /\ n \notin live
  /\ owns[o] = None
  /\ live' = live \cup {n}
  /\ owns' = [owns EXCEPT ![o] = n]
  /\ UNCHANGED program

\* Two numbers come to life together.
AcquirePair(o, p, m, n) ==
  /\ o # p
  /\ m # n
  /\ {m, n} \cap live = {}
  /\ owns[o] = None
  /\ owns[p] = None
  /\ live' = live \cup {m, n}
  /\ owns' = [owns EXCEPT ![o] = m, ![p] = n]
  /\ UNCHANGED program

AcquireBare(n) ==
  /\ n \notin live
  /\ live' = live \cup {n}
  /\ program' = program \cup {n}
  /\ UNCHANGED owns

\* The program hands one of its numbers to o.
Adopt(o, n) ==
  /\ n \in program
  /\ owns[o] = None
  /\ owns' = [owns EXCEPT ![o] = n]
  /\ program' = program \ {n}
  /\ UNCHANGED live

\* o hands its number to the program.
Surrender(o) ==
  /\ owns[o] # None
  /\ program' = program \cup {owns[o]}
  /\ owns' = [owns EXCEPT ![o] = None]
  /\ UNCHANGED live

\* p hands its number to o, which had none.
Give(o, p) ==
  /\ o # p
  /\ owns[p] # None
  /\ owns[o] = None
  /\ owns' = [owns EXCEPT ![o] = owns[p], ![p] = None]
  /\ UNCHANGED <<live, program>>

\* A number dies by the hand of its holder.
Dispose(o) ==
  /\ owns[o] # None
  /\ live' = live \ {owns[o]}
  /\ owns' = [owns EXCEPT ![o] = None]
  /\ UNCHANGED program

DisposeBare(n) ==
  /\ n \in program
  /\ live' = live \ {n}
  /\ program' = program \ {n}
  /\ UNCHANGED owns

Next ==
  \/ \E o \in Obj, n \in Handle : Acquire(o, n) \/ Adopt(o, n)
  \/ \E o, p \in Obj, m, n \in Handle : AcquirePair(o, p, m, n)
  \/ \E n \in Handle : AcquireBare(n) \/ DisposeBare(n)
  \/ \E o \in Obj : Surrender(o) \/ Dispose(o)
  \/ \E o, p \in Obj : Give(o, p)

Spec == Init /\ [][Next]_vars
=============================================================================
