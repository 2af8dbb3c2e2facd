-------------------------------- MODULE Fd --------------------------------
(***************************************************************************)
(* nihil.posix:fd, nihil.posix:open: struct fd, the move-only owner of a   *)
(* file descriptor, and the functions that make one.                       *)
(*                                                                         *)
(* The objects may live in different threads of one process: every action  *)
(* is one system call together with the assignments the calling thread     *)
(* makes to its own objects, except close(), whose system call and whose   *)
(* reset of m_fileno are two steps, because another thread may be given    *)
(* the number in between.  A call that fails leaves everything as it was,  *)
(* so it is a stuttering step; ::close() frees the number even when it     *)
(* reports an error.                                                       *)
(***************************************************************************)
EXTENDS Naturals, FiniteSets

CONSTANTS
  Obj,           \* the variables of type fd
  Fileno,        \* descriptor numbers
  Inherited,     \* the numbers open when the program starts
  Invalid,       \* fd::invalid_fileno
  Dead,          \* the variable holds no object: not constructed, or destroyed
  OverwritesOpen \* may the program move-assign to an fd that still is open?

ASSUME FdAssumption ==
  /\ Inherited \subseteq Fileno
  /\ Invalid \notin Fileno
  /\ Dead \notin Fileno
  /\ Invalid # Dead
  /\ OverwritesOpen \in BOOLEAN

VARIABLES
  open,      \* kernel: the numbers in use in the process's descriptor table
  m_fileno,  \* m_fileno[o]: what the object holds, or Dead
  phase,     \* phase[o]: is o between ::close() and the reset of m_fileno?
  bare       \* the numbers the program holds as plain ints and must close

vars == <<open, m_fileno, phase, bare>>

Phases == {"idle", "closing", "destroying"}

TypeOK ==
  /\ open \subseteq Fileno
  /\ m_fileno \in [Obj -> Fileno \cup {Invalid, Dead}]
  /\ phase \in [Obj -> Phases]
  /\ bare \subseteq Fileno

Idle(o) == phase[o] = "idle"

\* fd::operator bool, for an object no thread is closing.
Valid(o) == Idle(o) /\ m_fileno[o] \in Fileno

Alive(o) == Idle(o) /\ m_fileno[o] # Dead

Unborn(o) == Idle(o) /\ m_fileno[o] = Dead

Managed(n) == \E o \in Obj : Valid(o) /\ m_fileno[o] = n

Init ==
  /\ open = Inherited
  /\ m_fileno = [o \in Obj |-> Dead]
  /\ phase = [o \in Obj |-> "idle"]
  /\ bare = Inherited

----------------------------------------------------------------------------
(* Construction *)

\* Mutant: no default member initializer, so m_fileno is some stray number.
ConstructUninitialised(o) ==
  /\ Unborn(o)
  /\ m_fileno' = [m_fileno EXCEPT ![o] = Cardinality(Fileno)]
  /\ UNCHANGED <<open, phase, bare>>

\* fd(): an empty object.
ConstructEmpty(o) ==
  /\ Unborn(o)
  /\ m_fileno' = [m_fileno EXCEPT ![o] = Invalid]
  /\ UNCHANGED <<open, phase, bare>>

\* explicit fd(int): takes ownership of a number the program holds.
Construct(o, n) ==
  /\ Unborn(o)
  /\ n \in bare
  /\ m_fileno' = [m_fileno EXCEPT ![o] = n]
  /\ bare' = bare \ {n}
  /\ UNCHANGED <<open, phase>>

\* open(), openat(), dup(fd): the kernel gives a number that is not in use.
Open(o, n) ==
  /\ Unborn(o)
  /\ n \notin open
  /\ open' = open \cup {n}
  /\ m_fileno' = [m_fileno EXCEPT ![o] = n]
  /\ UNCHANGED <<phase, bare>>

Dup(o, p, n) ==
  /\ Valid(p)
  /\ Open(o, n)

\* pipe(): both ends, each in an fd of its own.
Pipe(o, p, m, n) ==
  /\ o # p
  /\ Unborn(o)
  /\ Unborn(p)
  /\ m # n
  /\ m \notin open
  /\ n \notin open
  /\ open' = open \cup {m, n}
  /\ m_fileno' = [m_fileno EXCEPT ![o] = m, ![p] = n]
  /\ UNCHANGED <<phase, bare>>

\* dup(fd, newfd): dup2(), which closes newfd first if it is open.  The new
\* object takes newfd over from the program if the program held it.  The
\* comment on the function rules out a newfd that an fd already manages.
Dup2(o, p, n) ==
  /\ Valid(p)
  /\ Unborn(o)
  /\ ~ Managed(n)
  /\ open' = open \cup {n}
  /\ m_fileno' = [m_fileno EXCEPT ![o] = n]
  /\ bare' = bare \ {n}
  /\ UNCHANGED phase

\* raw_dup(fd): the caller gets a plain int.
RawDup(p, n) ==
  /\ Valid(p)
  /\ n \notin open
  /\ open' = open \cup {n}
  /\ bare' = bare \cup {n}
  /\ UNCHANGED <<m_fileno, phase>>

\* raw_dup(fd, newfd): allowed on a number that an fd manages, which then goes
\* on managing it; any other number is the caller's.
RawDup2(p, n) ==
  /\ Valid(p)
  /\ open' = open \cup {n}
  /\ bare' = IF Managed(n) THEN bare ELSE bare \cup {n}
  /\ UNCHANGED <<m_fileno, phase>>

----------------------------------------------------------------------------
(* Transfer *)

\* Mutant: the move copies m_fileno.
NotEmptied(p) == m_fileno

\* What a move takes out of the object it moves from: std::exchange(other, -1).
Emptied(p) == [m_fileno EXCEPT ![p] = Invalid]

MoveConstruct(o, p) ==
  /\ Unborn(o)
  /\ Alive(p)
  /\ m_fileno' = [Emptied(p) EXCEPT ![o] = m_fileno[p]]
  /\ UNCHANGED <<open, phase, bare>>

\* operator=(fd &&): whatever self held is overwritten, not closed.
MoveAssign(o, p) ==
  /\ o # p
  /\ Alive(o)
  /\ Alive(p)
  /\ OverwritesOpen \/ ~ Valid(o)
  /\ m_fileno' = [Emptied(p) EXCEPT ![o] = m_fileno[p]]
  /\ UNCHANGED <<open, phase, bare>>

\* Mutant: release() returns the number and keeps it.
ReleaseKeeps(p) ==
  /\ Valid(p)
  /\ bare' = bare \cup {m_fileno[p]}
  /\ UNCHANGED <<open, m_fileno, phase>>

\* release() &&: the caller must close the number.
Release(p) ==
  /\ Valid(p)
  /\ bare' = bare \cup {m_fileno[p]}
  /\ m_fileno' = Emptied(p)
  /\ UNCHANGED <<open, phase>>

----------------------------------------------------------------------------
(* Closing *)

\* ::close(self.get()), called by close() or by the destructor.
SysClose(o, p) ==
  /\ Valid(o)
  /\ open' = open \ {m_fileno[o]}
  /\ phase' = [phase EXCEPT ![o] = p]
  /\ UNCHANGED <<m_fileno, bare>>

\* Mutant: close() returns without resetting m_fileno.
FinishCloseKeeps(o) ==
  /\ phase[o] = "closing"
  /\ phase' = [phase EXCEPT ![o] = "idle"]
  /\ UNCHANGED <<open, m_fileno, bare>>

\* The rest of close(): m_fileno is reset whatever ::close() returned.
FinishClose(o) ==
  /\ phase[o] = "closing"
  /\ m_fileno' = [m_fileno EXCEPT ![o] = Invalid]
  /\ phase' = [phase EXCEPT ![o] = "idle"]
  /\ UNCHANGED <<open, bare>>

\* The same at the end of the destructor, after which the object is gone.
FinishDestroy(o) ==
  /\ phase[o] = "destroying"
  /\ m_fileno' = [m_fileno EXCEPT ![o] = Dead]
  /\ phase' = [phase EXCEPT ![o] = "idle"]
  /\ UNCHANGED <<open, bare>>

\* Mutant: a destructor that never closes.
DestroyOpen(o) ==
  /\ Alive(o)
  /\ m_fileno' = [m_fileno EXCEPT ![o] = Dead]
  /\ UNCHANGED <<open, phase, bare>>

\* ~fd() of an object that is not valid has nothing to close.
DestroyEmpty(o) ==
  /\ Alive(o)
  /\ ~ Valid(o)
  /\ m_fileno' = [m_fileno EXCEPT ![o] = Dead]
  /\ UNCHANGED <<open, phase, bare>>

\* The program closes a number it holds as an int.
CloseBare(n) ==
  /\ n \in bare
  /\ open' = open \ {n}
  /\ bare' = bare \ {n}
  /\ UNCHANGED <<m_fileno, phase>>

----------------------------------------------------------------------------

Next ==
  \/ \E o \in Obj :
       \/ ConstructEmpty(o) \/ Release(o) \/ FinishClose(o)
       \/ FinishDestroy(o) \/ DestroyEmpty(o)
       \/ SysClose(o, "closing") \/ SysClose(o, "destroying")
  \/ \E o \in Obj, n \in Fileno : Construct(o, n) \/ Open(o, n)
  \/ \E o, p \in Obj, n \in Fileno : Dup(o, p, n) \/ Dup2(o, p, n)
  \/ \E p \in Obj, n \in Fileno : RawDup(p, n) \/ RawDup2(p, n)
  \/ \E o, p \in Obj : MoveConstruct(o, p) \/ MoveAssign(o, p)
  \/ \E o, p \in Obj, m, n \in Fileno : Pipe(o, p, m, n)
  \/ \E n \in Fileno : CloseBare(n)

Spec == Init /\ [][Next]_vars

----------------------------------------------------------------------------
(* Properties *)

\* No number has two holders: two fds, or an fd and the program.  Whoever of
\* two holders closes second closes a descriptor that belongs to someone else
\* by then.  This must survive a close() in one thread that races with an
\* open() or a dup2() in another.
OneHolder ==
  \A o \in Obj : Valid(o) =>
    /\ m_fileno[o] \notin bare
    /\ \A p \in Obj : Valid(p) /\ m_fileno[p] = m_fileno[o] => p = o

\* A valid fd names an open descriptor: get() never returns a number that was
\* closed behind the object's back.
HeldIsOpen == \A o \in Obj : Valid(o) => m_fileno[o] \in open

\* Every open descriptor has a holder that will close it.
NoLeak == \A n \in open : n \in bare \/ Managed(n)

\* struct fd implements exclusive ownership of descriptors, as long as no open
\* fd is overwritten.  An object gives its number up at ::close(), before
\* m_fileno says so.
Holding(o) == IF Valid(o) THEN m_fileno[o] ELSE Invalid

Owned == [o \in Obj |-> Holding(o)]

H == INSTANCE Handles WITH
  Handle <- Fileno, None <- Invalid, live <- open, owns <- Owned, program <- bare

ImplementsHandles == H!Spec
=============================================================================
