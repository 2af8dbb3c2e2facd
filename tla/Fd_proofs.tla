----------------------------- MODULE Fd_proofs -----------------------------
(***************************************************************************)
(* Proofs about Fd, for any set of objects and of descriptor numbers.      *)
(***************************************************************************)
EXTENDS Fd, TLAPS

\* The inductive invariant.  Beside the checked properties it needs only that
\* the numbers the program holds are open: otherwise open() could hand one of
\* them to an object.
BareOpen == bare \subseteq open

IInv == TypeOK /\ OneHolder /\ HeldIsOpen /\ BareOpen

----------------------------------------------------------------------------

\* The program starts with its inherited descriptors in hand and no object.
LEMMA InitIInv == Init => IInv
  BY FdAssumption
  DEF Init, IInv, TypeOK, OneHolder, HeldIsOpen, BareOpen, Valid, Idle, Phases

\* Every step preserves the invariant: one case for each operation.
LEMMA StepIInv == IInv /\ [Next]_vars => IInv'
<1> SUFFICES ASSUME IInv, [Next]_vars
             PROVE  IInv'
  OBVIOUS
<1> USE FdAssumption
    DEF IInv, TypeOK, OneHolder, HeldIsOpen, BareOpen, Valid, Idle, Phases
<1>1. ASSUME NEW o \in Obj, ConstructEmpty(o)
      PROVE  IInv'
  BY <1>1 DEF ConstructEmpty, Unborn
<1>2. ASSUME NEW o \in Obj, NEW n \in Fileno, Construct(o, n)
      PROVE  IInv'
  BY <1>2 DEF Construct, Unborn
<1>3. ASSUME NEW o \in Obj, NEW n \in Fileno, Open(o, n)
      PROVE  IInv'
  BY <1>3 DEF Open, Unborn
<1>4. ASSUME NEW o \in Obj, NEW p \in Obj, NEW n \in Fileno, Dup(o, p, n)
      PROVE  IInv'
  BY <1>4, <1>3 DEF Dup
<1>5. ASSUME NEW o \in Obj, NEW p \in Obj, NEW n \in Fileno, Dup2(o, p, n)
      PROVE  IInv'
  BY <1>5 DEF Dup2, Unborn, Managed
<1>6. ASSUME NEW p \in Obj, NEW n \in Fileno, RawDup(p, n)
      PROVE  IInv'
  BY <1>6 DEF RawDup
<1>7. ASSUME NEW p \in Obj, NEW n \in Fileno, RawDup2(p, n)
      PROVE  IInv'
  BY <1>7 DEF RawDup2, Managed
<1>8. ASSUME NEW o \in Obj, NEW p \in Obj, NEW m \in Fileno, NEW n \in Fileno,
             Pipe(o, p, m, n)
      PROVE  IInv'
  BY <1>8 DEF Pipe, Unborn
<1>9. ASSUME NEW o \in Obj, NEW p \in Obj, MoveConstruct(o, p)
      PROVE  IInv'
  BY <1>9 DEF MoveConstruct, Unborn, Alive, Emptied
<1>10. ASSUME NEW o \in Obj, NEW p \in Obj, MoveAssign(o, p)
       PROVE  IInv'
  BY <1>10 DEF MoveAssign, Alive, Emptied
<1>11. ASSUME NEW p \in Obj, Release(p)
       PROVE  IInv'
  BY <1>11 DEF Release, Emptied
<1>12. ASSUME NEW o \in Obj, NEW p \in {"closing", "destroying"}, SysClose(o, p)
       PROVE  IInv'
  BY <1>12 DEF SysClose
<1>13. ASSUME NEW o \in Obj, FinishClose(o)
       PROVE  IInv'
  BY <1>13 DEF FinishClose
<1>14. ASSUME NEW o \in Obj, FinishDestroy(o)
       PROVE  IInv'
  BY <1>14 DEF FinishDestroy
<1>15. ASSUME NEW o \in Obj, DestroyEmpty(o)
       PROVE  IInv'
  BY <1>15 DEF DestroyEmpty, Alive
<1>16. ASSUME NEW n \in Fileno, CloseBare(n)
       PROVE  IInv'
  BY <1>16 DEF CloseBare
<1>17. CASE UNCHANGED vars
  BY <1>17 DEF vars
<1> QED
  BY <1>1, <1>2, <1>3, <1>4, <1>5, <1>6, <1>7, <1>8, <1>9, <1>10, <1>11,
     <1>12, <1>13, <1>14, <1>15, <1>16, <1>17 DEF Next

\* The invariant holds in every reachable state.
THEOREM Invariance == Spec => []IInv
<1>1. IInv /\ [Next]_vars => IInv'
  BY StepIInv
<1> QED
  BY InitIInv, <1>1, PTL DEF Spec

\* An object has the number of a descriptor, or -1, whatever close() is half
\* through with.
THEOREM TypeCorrect == Spec => []TypeOK
<1>1. IInv => TypeOK
  BY DEF IInv
<1> QED
  BY <1>1, Invariance, PTL

\* No descriptor number ever has two holders, whatever the threads of the
\* program do and even if open fds are overwritten.
THEOREM OneHolderAlways == Spec => []OneHolder
<1>1. IInv => OneHolder
  BY DEF IInv
<1> QED
  BY <1>1, Invariance, PTL

\* get() on a valid fd always names an open descriptor.
THEOREM HeldIsOpenAlways == Spec => []HeldIsOpen
<1>1. IInv => HeldIsOpen
  BY DEF IInv
<1> QED
  BY <1>1, Invariance, PTL

----------------------------------------------------------------------------
(* No descriptor is lost, when no open fd is overwritten. *)

\* The program starts with its inherited descriptors in hand.
LEMMA InitNoLeak == Init => NoLeak
  BY DEF Init, NoLeak

\* An operation that opens a number gives it a holder, one that takes it from
\* a holder gives it to another one or closes it.  Only the assignment needs
\* the assumption.
LEMMA StepNoLeak ==
  ASSUME OverwritesOpen = FALSE, IInv, NoLeak, [Next]_vars
  PROVE  NoLeak'
<1> USE FdAssumption
    DEF IInv, TypeOK, OneHolder, HeldIsOpen, BareOpen, NoLeak, Managed, Valid,
        Idle, Phases
<1>1. ASSUME NEW o \in Obj, ConstructEmpty(o)
      PROVE  NoLeak'
  BY <1>1 DEF ConstructEmpty, Unborn
<1>2. ASSUME NEW o \in Obj, NEW n \in Fileno, Construct(o, n)
      PROVE  NoLeak'
  BY <1>2 DEF Construct, Unborn
<1>3. ASSUME NEW o \in Obj, NEW n \in Fileno, Open(o, n)
      PROVE  NoLeak'
  BY <1>3 DEF Open, Unborn
<1>4. ASSUME NEW o \in Obj, NEW p \in Obj, NEW n \in Fileno, Dup(o, p, n)
      PROVE  NoLeak'
  BY <1>4, <1>3 DEF Dup
<1>5. ASSUME NEW o \in Obj, NEW p \in Obj, NEW n \in Fileno, Dup2(o, p, n)
      PROVE  NoLeak'
  BY <1>5 DEF Dup2, Unborn
<1>6. ASSUME NEW p \in Obj, NEW n \in Fileno, RawDup(p, n)
      PROVE  NoLeak'
  BY <1>6 DEF RawDup
<1>7. ASSUME NEW p \in Obj, NEW n \in Fileno, RawDup2(p, n)
      PROVE  NoLeak'
  BY <1>7 DEF RawDup2
<1>8. ASSUME NEW o \in Obj, NEW p \in Obj, NEW m \in Fileno, NEW n \in Fileno,
             Pipe(o, p, m, n)
      PROVE  NoLeak'
  BY <1>8 DEF Pipe, Unborn
<1>9. ASSUME NEW o \in Obj, NEW p \in Obj, MoveConstruct(o, p)
      PROVE  NoLeak'
  BY <1>9 DEF MoveConstruct, Unborn, Alive, Emptied
<1>10. ASSUME NEW o \in Obj, NEW p \in Obj, MoveAssign(o, p)
       PROVE  NoLeak'
  BY <1>10 DEF MoveAssign, Alive, Emptied
<1>11. ASSUME NEW p \in Obj, Release(p)
       PROVE  NoLeak'
  BY <1>11 DEF Release, Emptied
<1>12. ASSUME NEW o \in Obj, NEW p \in {"closing", "destroying"}, SysClose(o, p)
       PROVE  NoLeak'
  BY <1>12 DEF SysClose
<1>13. ASSUME NEW o \in Obj, FinishClose(o)
       PROVE  NoLeak'
  BY <1>13 DEF FinishClose
<1>14. ASSUME NEW o \in Obj, FinishDestroy(o)
       PROVE  NoLeak'
  BY <1>14 DEF FinishDestroy
<1>15. ASSUME NEW o \in Obj, DestroyEmpty(o)
       PROVE  NoLeak'
  BY <1>15 DEF DestroyEmpty, Alive
<1>16. ASSUME NEW n \in Fileno, CloseBare(n)
       PROVE  NoLeak'
  BY <1>16 DEF CloseBare
<1>17. CASE UNCHANGED vars
  BY <1>17 DEF vars
<1> QED
  BY <1>1, <1>2, <1>3, <1>4, <1>5, <1>6, <1>7, <1>8, <1>9, <1>10, <1>11,
     <1>12, <1>13, <1>14, <1>15, <1>16, <1>17 DEF Next

\* Every open descriptor has a holder that will close it.
THEOREM NoLeakAlways ==
  ASSUME OverwritesOpen = FALSE
  PROVE  Spec => []NoLeak
<1>1. IInv /\ NoLeak /\ [Next]_vars => NoLeak'
  BY StepNoLeak
<1> QED
  BY InitNoLeak, <1>1, Invariance, PTL DEF Spec

----------------------------------------------------------------------------
(* struct fd implements Handles. *)

\* At the start every open number is in the program's hands.
LEMMA InitHandles == Init => H!Init
  BY FdAssumption DEF Init, H!Init, Owned, Holding, Valid, Idle

\* How a step that changes what no object, one object or two objects hold
\* looks through the refinement mapping.
LEMMA OwnedSame ==
  ASSUME \A q \in Obj : Holding(q)' = Holding(q)
  PROVE  Owned' = Owned
BY DEF Owned

\* A step that changes what one object holds changes Owned at that object.
LEMMA OwnedOne ==
  ASSUME NEW o \in Obj, NEW v, Holding(o)' = v,
         \A q \in Obj \ {o} : Holding(q)' = Holding(q)
  PROVE  Owned' = [Owned EXCEPT ![o] = v]
BY DEF Owned

\* The same for two objects, as pipe() and a move have it.
LEMMA OwnedTwo ==
  ASSUME NEW o \in Obj, NEW p \in Obj, NEW v, NEW w, o # p,
         Holding(o)' = v, Holding(p)' = w,
         \A q \in Obj \ {o, p} : Holding(q)' = Holding(q)
  PROVE  Owned' = [Owned EXCEPT ![o] = v, ![p] = w]
BY DEF Owned

\* Each operation is one step of Handles or, when it only changes the life of
\* an object that holds nothing, none.
LEMMA StepHandles ==
  ASSUME OverwritesOpen = FALSE, IInv, NoLeak, [Next]_vars
  PROVE  [H!Next]_(H!vars)
<1> USE FdAssumption
    DEF IInv, TypeOK, OneHolder, HeldIsOpen, BareOpen, NoLeak, Managed, Valid,
        Idle, Phases, Holding
<1> DEFINE Stutter == UNCHANGED H!vars
<1>0. \A o \in Obj : Owned[o] = Holding(o)
  BY DEF Owned
<1>1. ASSUME NEW o \in Obj,
             ConstructEmpty(o) \/ FinishClose(o) \/ FinishDestroy(o)
               \/ DestroyEmpty(o)
      PROVE  Stutter
  <2>1. \A q \in Obj : Holding(q)' = Holding(q)
    BY <1>1 DEF ConstructEmpty, FinishClose, FinishDestroy, DestroyEmpty,
                Unborn, Alive
  <2>2. UNCHANGED <<open, bare>>
    BY <1>1 DEF ConstructEmpty, FinishClose, FinishDestroy, DestroyEmpty
  <2> QED
    BY <2>1, <2>2, OwnedSame DEF H!vars
<1>2. ASSUME NEW o \in Obj, NEW n \in Fileno, Construct(o, n)
      PROVE  H!Adopt(o, n)
  <2>1. Holding(o)' = n /\ \A q \in Obj \ {o} : Holding(q)' = Holding(q)
    BY <1>2 DEF Construct, Unborn
  <2>2. Owned' = [Owned EXCEPT ![o] = n]
    BY <2>1, OwnedOne
  <2> QED
    BY <1>0, <1>2, <2>2 DEF Construct, Unborn, H!Adopt
<1>3. ASSUME NEW o \in Obj, NEW n \in Fileno, Open(o, n)
      PROVE  H!Acquire(o, n)
  <2>1. Holding(o)' = n /\ \A q \in Obj \ {o} : Holding(q)' = Holding(q)
    BY <1>3 DEF Open, Unborn
  <2>2. Owned' = [Owned EXCEPT ![o] = n]
    BY <2>1, OwnedOne
  <2> QED
    BY <1>0, <1>3, <2>2 DEF Open, Unborn, H!Acquire
<1>4. ASSUME NEW o \in Obj, NEW p \in Obj, NEW n \in Fileno, Dup(o, p, n)
      PROVE  H!Acquire(o, n)
  BY <1>4, <1>3 DEF Dup
<1>5. ASSUME NEW o \in Obj, NEW p \in Obj, NEW n \in Fileno, Dup2(o, p, n)
      PROVE  H!Acquire(o, n) \/ H!Adopt(o, n)
  <2>1. Holding(o)' = n /\ \A q \in Obj \ {o} : Holding(q)' = Holding(q)
    BY <1>5 DEF Dup2, Unborn
  <2>2. Owned' = [Owned EXCEPT ![o] = n]
    BY <2>1, OwnedOne
  <2>3. Owned[o] = Invalid
    BY <1>0, <1>5 DEF Dup2, Unborn
  <2>4. CASE n \in open
    <3>1. n \in bare
      BY <1>5, <2>4 DEF Dup2
    <3>2. open' = open /\ bare' = bare \ {n}
      BY <1>5, <2>4 DEF Dup2
    <3> QED
      BY <2>2, <2>3, <3>1, <3>2 DEF H!Adopt
  <2>5. CASE n \notin open
    <3>1. open' = open \cup {n} /\ bare' = bare
      BY <1>5, <2>5 DEF Dup2
    <3> QED
      BY <2>2, <2>3, <2>5, <3>1 DEF H!Acquire
  <2> QED
    BY <2>4, <2>5
<1>6. ASSUME NEW p \in Obj, NEW n \in Fileno, RawDup(p, n)
      PROVE  H!AcquireBare(n)
  <2>1. \A q \in Obj : Holding(q)' = Holding(q)
    BY <1>6 DEF RawDup
  <2> QED
    BY <1>6, <2>1, OwnedSame DEF RawDup, H!AcquireBare
<1>7. ASSUME NEW p \in Obj, NEW n \in Fileno, RawDup2(p, n)
      PROVE  H!AcquireBare(n) \/ Stutter
  <2>1. \A q \in Obj : Holding(q)' = Holding(q)
    BY <1>7 DEF RawDup2
  <2>2. Owned' = Owned
    BY <2>1, OwnedSame
  <2>3. CASE n \in open
    <3>1. open' = open /\ bare' = bare
      BY <1>7, <2>3 DEF RawDup2
    <3> QED
      BY <2>2, <3>1 DEF H!vars
  <2>4. CASE n \notin open
    <3>1. open' = open \cup {n} /\ bare' = bare \cup {n}
      BY <1>7, <2>4 DEF RawDup2
    <3> QED
      BY <2>2, <2>4, <3>1 DEF H!AcquireBare
  <2> QED
    BY <2>3, <2>4
<1>8. ASSUME NEW o \in Obj, NEW p \in Obj, NEW m \in Fileno, NEW n \in Fileno,
             Pipe(o, p, m, n)
      PROVE  H!AcquirePair(o, p, m, n)
  <2>1. /\ Holding(o)' = m
        /\ Holding(p)' = n
        /\ \A q \in Obj \ {o, p} : Holding(q)' = Holding(q)
    BY <1>8 DEF Pipe, Unborn
  <2>2. Owned' = [Owned EXCEPT ![o] = m, ![p] = n]
    BY <1>8, <2>1, OwnedTwo DEF Pipe
  <2>3. Owned[o] = Invalid /\ Owned[p] = Invalid
    BY <1>0, <1>8 DEF Pipe, Unborn
  <2> QED
    BY <1>8, <2>2, <2>3 DEF Pipe, H!AcquirePair
<1>9. ASSUME NEW o \in Obj, NEW p \in Obj,
             MoveConstruct(o, p) \/ MoveAssign(o, p)
      PROVE  H!Give(o, p) \/ Stutter
  <2>1. /\ o # p
        /\ Holding(o) = Invalid
        /\ Holding(o)' = Holding(p)
        /\ Holding(p)' = Invalid
        /\ \A q \in Obj \ {o, p} : Holding(q)' = Holding(q)
    BY <1>9 DEF MoveConstruct, MoveAssign, Unborn, Alive, Emptied
  <2>2. UNCHANGED <<open, bare>>
    BY <1>9 DEF MoveConstruct, MoveAssign
  <2>3. CASE Holding(p) # Invalid
    <3>1. Owned' = [Owned EXCEPT ![o] = Holding(p), ![p] = Invalid]
      BY <2>1, OwnedTwo DEF Holding
    <3> QED
      BY <1>0, <2>1, <2>2, <2>3, <3>1 DEF H!Give
  <2>4. CASE Holding(p) = Invalid
    <3>1. \A q \in Obj : Holding(q)' = Holding(q)
      BY <2>1, <2>4
    <3> QED
      BY <2>2, <3>1, OwnedSame DEF H!vars
  <2> QED
    BY <2>3, <2>4
<1>10. ASSUME NEW p \in Obj, Release(p)
       PROVE  H!Surrender(p)
  <2>1. /\ Holding(p)' = Invalid
        /\ \A q \in Obj \ {p} : Holding(q)' = Holding(q)
    BY <1>10 DEF Release, Emptied
  <2>2. Owned' = [Owned EXCEPT ![p] = Invalid]
    BY <2>1, OwnedOne
  <2>3. Owned[p] = m_fileno[p] /\ m_fileno[p] # Invalid
    BY <1>0, <1>10 DEF Release
  <2> QED
    BY <1>10, <2>2, <2>3 DEF Release, H!Surrender
<1>11. ASSUME NEW o \in Obj, NEW p \in {"closing", "destroying"}, SysClose(o, p)
       PROVE  H!Dispose(o)
  <2>1. /\ Holding(o)' = Invalid
        /\ \A q \in Obj \ {o} : Holding(q)' = Holding(q)
    BY <1>11 DEF SysClose
  <2>2. Owned' = [Owned EXCEPT ![o] = Invalid]
    BY <2>1, OwnedOne
  <2>3. Owned[o] = m_fileno[o] /\ m_fileno[o] # Invalid
    BY <1>0, <1>11 DEF SysClose
  <2> QED
    BY <1>11, <2>2, <2>3 DEF SysClose, H!Dispose
<1>12. ASSUME NEW n \in Fileno, CloseBare(n)
       PROVE  H!DisposeBare(n)
  <2>1. \A q \in Obj : Holding(q)' = Holding(q)
    BY <1>12 DEF CloseBare
  <2> QED
    BY <1>12, <2>1, OwnedSame DEF CloseBare, H!DisposeBare
<1>13. CASE UNCHANGED vars
  <2>1. \A q \in Obj : Holding(q)' = Holding(q)
    BY <1>13 DEF vars
  <2> QED
    BY <1>13, <2>1, OwnedSame DEF vars, H!vars
<1> QED
  BY <1>1, <1>2, <1>3, <1>4, <1>5, <1>6, <1>7, <1>8, <1>9, <1>10, <1>11,
     <1>12, <1>13 DEF Next, H!Next

\* Exclusive ownership: a descriptor comes to life with one holder, is handed
\* from holder to holder, and dies by the hand of the one that has it.
THEOREM FdImplementsHandles ==
  ASSUME OverwritesOpen = FALSE
  PROVE  Spec => ImplementsHandles
<1>1. IInv /\ NoLeak /\ [Next]_vars => [H!Next]_(H!vars)
  BY StepHandles
<1> QED
  BY InitHandles, <1>1, Invariance, NoLeakAlways, PTL
  DEF Spec, ImplementsHandles, H!Spec
=============================================================================
