-------------------------- MODULE Process_proofs --------------------------
(***************************************************************************)
(* Proofs about Process, for any set of objects and of process ids.        *)
(***************************************************************************)
EXTENDS Process, TLAPS

\* An object whose child was waited for by wait() names no child any more, as
\* long as the kernel keeps away from the pids that the objects hold: the
\* second waitpid() of its destructor then fails.  This is what the other
\* invariants rest on.
StaleIsHarmless == \A o \in waited : m_pid[o] \notin Children

IInv == TypeOK /\ OneHolder /\ HeldIsChild /\ StaleIsHarmless

----------------------------------------------------------------------------

\* The program starts with no object and no child.
LEMMA InitIInv == Init => IInv
  BY ProcessAssumption
  DEF Init, IInv, TypeOK, OneHolder, HeldIsChild, StaleIsHarmless, Holds,
      HasPid, Children

\* Every step preserves the invariant, if fork() keeps away from the pids that
\* objects hold: one case for each operation.
LEMMA StepIInv ==
  ASSUME ReusesPid = FALSE
  PROVE  IInv /\ [Next]_vars => IInv'
<1> SUFFICES ASSUME IInv, [Next]_vars
             PROVE  IInv'
  OBVIOUS
<1> USE ProcessAssumption
    DEF IInv, TypeOK, OneHolder, HeldIsChild, StaleIsHarmless, Holds, HasPid,
        Children
<1>1. ASSUME NEW o \in Obj, NEW p \in Pid, Spawn(o, p)
      PROVE  IInv'
  BY <1>1 DEF Spawn, Forked, Alive
<1>2. ASSUME NEW o \in Obj, NEW p \in Pid, Construct(o, p)
      PROVE  IInv'
  BY <1>2 DEF Construct, Alive
<1>3. ASSUME NEW p \in Pid, Fork(p)
      PROVE  IInv'
  BY <1>3 DEF Fork, Forked
<1>4. ASSUME NEW p \in Pid, Exit(p)
      PROVE  IInv'
  BY <1>4 DEF Exit
<1>5. ASSUME NEW p \in Pid, ReapBare(p)
      PROVE  IInv'
  BY <1>5 DEF ReapBare, Reap
<1>6. ASSUME NEW o \in Obj, NEW p \in Obj, MoveConstruct(o, p)
      PROVE  IInv'
  BY <1>6 DEF MoveConstruct, Alive, Emptied, Moved
<1>7. ASSUME NEW o \in Obj, NEW p \in Obj, MoveAssign(o, p)
      PROVE  IInv'
  BY <1>7 DEF MoveAssign, Alive, Emptied, Moved
<1>8. ASSUME NEW p \in Obj, Release(p)
      PROVE  IInv'
  BY <1>8 DEF Release, Emptied
<1>9. ASSUME NEW o \in Obj, Wait(o)
      PROVE  IInv'
  BY <1>9 DEF Wait, Reap
<1>10. ASSUME NEW o \in Obj, DestroyEmpty(o)
       PROVE  IInv'
  BY <1>10 DEF DestroyEmpty
<1>11. ASSUME NEW o \in Obj, Destroy(o)
       PROVE  IInv'
  BY <1>11 DEF Destroy, Reap
<1>12. CASE UNCHANGED vars
  BY <1>12 DEF vars
<1> QED
  BY <1>1, <1>2, <1>3, <1>4, <1>5, <1>6, <1>7, <1>8, <1>9, <1>10, <1>11,
     <1>12 DEF Next

\* The invariant holds throughout.
LEMMA Invariance ==
  ASSUME ReusesPid = FALSE
  PROVE  Spec => []IInv
<1>1. IInv /\ [Next]_vars => IInv'
  BY StepIInv
<1> QED
  BY InitIInv, <1>1, PTL DEF Spec

\* An object has the pid of a child, or -1, and only such pids are waited for.
THEOREM TypeCorrect ==
  ASSUME ReusesPid = FALSE
  PROVE  Spec => []TypeOK
<1>1. IInv => TypeOK
  BY DEF IInv
<1> QED
  BY <1>1, Invariance, PTL

\* No two holders answer for the same child.
THEOREM OneHolderAlways ==
  ASSUME ReusesPid = FALSE
  PROVE  Spec => []OneHolder
<1>1. IInv => OneHolder
  BY DEF IInv
<1> QED
  BY Invariance, <1>1, PTL

\* What a holder waits for is its own child, which nobody else has waited for,
\* although every wait() leaves an object behind that will call waitpid() for
\* the same pid again.
THEOREM HeldIsChildAlways ==
  ASSUME ReusesPid = FALSE
  PROVE  Spec => []HeldIsChild
<1>1. IInv => HeldIsChild
  BY DEF IInv
<1> QED
  BY Invariance, <1>1, PTL

----------------------------------------------------------------------------
(* Every child has a holder *)

\* The program starts with no child.
LEMMA InitNoLeak == Init => NoLeak
  BY DEF Init, NoLeak, Children

\* Every step leaves every child with a holder: one case for each operation.
LEMMA StepNoLeak ==
  ASSUME ReusesPid = FALSE, OverwritesHeld = FALSE, Interrupts = FALSE
  PROVE  IInv /\ NoLeak /\ [Next]_vars => NoLeak'
<1> SUFFICES ASSUME IInv, NoLeak, [Next]_vars,
                    NEW q \in Pid, child'[q] # "none"
             PROVE  q \in bare' \/ \E o \in Obj : Holds(o)' /\ m_pid'[o] = q
  BY DEF NoLeak, Children
<1>0. child[q] # "none" =>
        q \in bare \/ \E o \in Obj : Holds(o) /\ m_pid[o] = q
  BY DEF NoLeak, Children
<1> USE ProcessAssumption, <1>0
    DEF IInv, TypeOK, HeldIsChild, StaleIsHarmless, Holds, HasPid, Children
<1>1. ASSUME NEW o \in Obj, NEW p \in Pid, Spawn(o, p) \/ Construct(o, p)
      PROVE  q \in bare' \/ \E r \in Obj : Holds(r)' /\ m_pid'[r] = q
  BY <1>1 DEF Spawn, Construct, Forked, Alive
<1>2. ASSUME NEW p \in Pid, Fork(p) \/ Exit(p) \/ ReapBare(p)
      PROVE  q \in bare' \/ \E r \in Obj : Holds(r)' /\ m_pid'[r] = q
  BY <1>2 DEF Fork, Forked, Exit, ReapBare, Reap
<1>3. ASSUME NEW o \in Obj, NEW p \in Obj, MoveConstruct(o, p)
      PROVE  q \in bare' \/ \E r \in Obj : Holds(r)' /\ m_pid'[r] = q
  BY <1>3 DEF MoveConstruct, Alive, Emptied, Moved
<1>4. ASSUME NEW o \in Obj, NEW p \in Obj, MoveAssign(o, p)
      PROVE  q \in bare' \/ \E r \in Obj : Holds(r)' /\ m_pid'[r] = q
  BY <1>4 DEF MoveAssign, Alive, Emptied, Moved
<1>5. ASSUME NEW p \in Obj, Release(p)
      PROVE  q \in bare' \/ \E r \in Obj : Holds(r)' /\ m_pid'[r] = q
  BY <1>5 DEF Release, Emptied
<1>6. ASSUME NEW o \in Obj, Wait(o) \/ DestroyEmpty(o) \/ Destroy(o)
      PROVE  q \in bare' \/ \E r \in Obj : Holds(r)' /\ m_pid'[r] = q
  BY <1>6 DEF Wait, DestroyEmpty, Destroy, Reap
<1>7. CASE UNCHANGED vars
  BY <1>7 DEF vars
<1> QED
  BY <1>1, <1>2, <1>3, <1>4, <1>5, <1>6, <1>7 DEF Next

\* No zombie is forgotten, if no object with a child is overwritten and no
\* signal interrupts a destructor's wait.
THEOREM NoLeakAlways ==
  ASSUME ReusesPid = FALSE, OverwritesHeld = FALSE, Interrupts = FALSE
  PROVE  Spec => []NoLeak
<1>1. IInv /\ NoLeak /\ [Next]_vars => NoLeak'
  BY StepNoLeak
<1> QED
  BY InitNoLeak, <1>1, Invariance, PTL DEF Spec

----------------------------------------------------------------------------
(* The refinement *)

\* The initial state is one of Handles: no child, and nobody who holds one.
LEMMA InitHandles == Init => H!Init
<1> SUFFICES ASSUME Init
             PROVE  H!Init
  OBVIOUS
<1>1. Children = {}
  BY DEF Init, Children
<1>2. Owned = [o \in Obj |-> None]
  BY ProcessAssumption DEF Init, Owned, Holding, Holds, HasPid
<1> QED
  BY <1>1, <1>2 DEF Init, H!Init

\* What a step does to Owned follows from what it does to each object.
LEMMA OwnedSame ==
  (\A o \in Obj : Holding(o)' = Holding(o)) => Owned' = Owned
  BY DEF Owned

\* A step that changes what one object holds changes Owned at that object.
LEMMA OwnedOne ==
  ASSUME NEW o \in Obj, NEW x,
         Holding(o)' = x,
         \A q \in Obj \ {o} : Holding(q)' = Holding(q)
  PROVE  Owned' = [Owned EXCEPT ![o] = x]
  BY DEF Owned

\* The same for two objects.
LEMMA OwnedTwo ==
  ASSUME NEW o \in Obj, NEW p \in Obj, o # p, NEW x, NEW y,
         Holding(o)' = x, Holding(p)' = y,
         \A q \in Obj \ {o, p} : Holding(q)' = Holding(q)
  PROVE  Owned' = [Owned EXCEPT ![o] = x, ![p] = y]
  BY DEF Owned

\* Every step is a step of Handles or changes nothing that Handles sees: an
\* exit, or the destructor of an object that has nothing to wait for.
LEMMA StepHandles ==
  ASSUME ReusesPid = FALSE, OverwritesHeld = FALSE, Interrupts = FALSE
  PROVE  IInv /\ [Next]_vars => [H!Next]_(H!vars)
<1> SUFFICES ASSUME IInv, [Next]_vars
             PROVE  H!Next \/ UNCHANGED H!vars
  OBVIOUS
<1> USE ProcessAssumption
    DEF IInv, TypeOK, HeldIsChild, StaleIsHarmless, Holds, HasPid
<1> DEFINE Stutter == UNCHANGED H!vars
<1>0. \A o \in Obj : Owned[o] = Holding(o)
  BY DEF Owned
<1> USE DEF Holding
<1>1. ASSUME NEW o \in Obj, NEW p \in Pid, Spawn(o, p)
      PROVE  H!Acquire(o, p)
  <2>1. /\ Holding(o)' = p
        /\ \A q \in Obj \ {o} : Holding(q)' = Holding(q)
    BY <1>1 DEF Spawn, Alive
  <2>2. Owned' = [Owned EXCEPT ![o] = p]
    BY <2>1, OwnedOne
  <2>3. Children' = Children \cup {p} /\ p \notin Children
    BY <1>1 DEF Spawn, Forked, Children
  <2>4. Owned[o] = None
    BY <1>0, <1>1 DEF Spawn, Alive
  <2> QED
    BY <1>1, <2>2, <2>3, <2>4 DEF Spawn, H!Acquire
<1>2. ASSUME NEW o \in Obj, NEW p \in Pid, Construct(o, p)
      PROVE  H!Adopt(o, p)
  <2>1. /\ Holding(o)' = p
        /\ \A q \in Obj \ {o} : Holding(q)' = Holding(q)
    BY <1>2 DEF Construct, Alive
  <2>2. Owned' = [Owned EXCEPT ![o] = p]
    BY <2>1, OwnedOne
  <2>3. Owned[o] = None
    BY <1>0, <1>2 DEF Construct, Alive
  <2> QED
    BY <1>2, <2>2, <2>3 DEF Construct, Children, H!Adopt
<1>3. ASSUME NEW p \in Pid, Fork(p)
      PROVE  H!AcquireBare(p)
  <2>1. \A q \in Obj : Holding(q)' = Holding(q)
    BY <1>3 DEF Fork
  <2>2. Children' = Children \cup {p} /\ p \notin Children
    BY <1>3 DEF Fork, Forked, Children
  <2> QED
    BY <1>3, <2>1, <2>2, OwnedSame DEF Fork, H!AcquireBare
<1>4. ASSUME NEW p \in Pid, Exit(p)
      PROVE  Stutter
  <2>1. \A q \in Obj : Holding(q)' = Holding(q)
    BY <1>4 DEF Exit
  <2>2. Children' = Children
    BY <1>4 DEF Exit, Children
  <2> QED
    BY <1>4, <2>1, <2>2, OwnedSame DEF Exit, H!vars
<1>5. ASSUME NEW p \in Pid, ReapBare(p)
      PROVE  H!DisposeBare(p)
  <2>1. \A q \in Obj : Holding(q)' = Holding(q)
    BY <1>5 DEF ReapBare
  <2>2. Children' = Children \ {p}
    BY <1>5 DEF ReapBare, Reap, Children
  <2> QED
    BY <1>5, <2>1, <2>2, OwnedSame DEF ReapBare, H!DisposeBare
<1>6. ASSUME NEW o \in Obj, NEW p \in Obj,
             MoveConstruct(o, p) \/ MoveAssign(o, p)
      PROVE  H!Give(o, p) \/ Stutter
  <2>1. /\ o # p
        /\ Holding(o) = None
        /\ Holding(o)' = Holding(p)
        /\ Holding(p)' = None
        /\ \A q \in Obj \ {o, p} : Holding(q)' = Holding(q)
    BY <1>6 DEF MoveConstruct, MoveAssign, Alive, Emptied, Moved
  <2>2. UNCHANGED <<Children, bare>>
    BY <1>6 DEF MoveConstruct, MoveAssign, Children
  <2>3. CASE Holding(p) # None
    <3>1. Owned' = [Owned EXCEPT ![o] = Holding(p), ![p] = None]
      BY <2>1, OwnedTwo
    <3> QED
      BY <1>0, <2>1, <2>2, <2>3, <3>1 DEF H!Give
  <2>4. CASE Holding(p) = None
    <3>1. \A q \in Obj : Holding(q)' = Holding(q)
      BY <2>1, <2>4
    <3> QED
      BY <2>2, <3>1, OwnedSame DEF H!vars
  <2> QED
    BY <2>3, <2>4
<1>7. ASSUME NEW p \in Obj, Release(p)
      PROVE  H!Surrender(p) \/ Stutter
  <2>1. /\ Holding(p)' = None
        /\ \A q \in Obj \ {p} : Holding(q)' = Holding(q)
    BY <1>7 DEF Release, Emptied
  <2>2. Children' = Children
    BY <1>7 DEF Release, Children
  <2>3. CASE Holds(p)
    <3>1. Owned' = [Owned EXCEPT ![p] = None]
      BY <2>1, OwnedOne
    <3>2. Owned[p] = m_pid[p] /\ m_pid[p] # None
      BY <1>0, <2>3
    <3>3. bare' = bare \cup {m_pid[p]}
      BY <1>7, <2>3 DEF Release
    <3> QED
      BY <2>2, <3>1, <3>2, <3>3 DEF H!Surrender
  <2>4. CASE ~ Holds(p)
    <3>1. \A q \in Obj : Holding(q)' = Holding(q)
      BY <2>1, <2>4
    <3>2. bare' = bare
      BY <1>7, <2>4 DEF Release
    <3> QED
      BY <2>2, <3>1, <3>2, OwnedSame DEF H!vars
  <2> QED
    BY <2>3, <2>4
<1>8. ASSUME NEW o \in Obj, Wait(o)
      PROVE  H!Dispose(o)
  <2>1. /\ Holding(o)' = None
        /\ \A q \in Obj \ {o} : Holding(q)' = Holding(q)
    BY <1>8 DEF Wait
  <2>2. Owned' = [Owned EXCEPT ![o] = None]
    BY <2>1, OwnedOne
  <2>3. Owned[o] = m_pid[o] /\ m_pid[o] # None
    BY <1>0, <1>8 DEF Wait
  <2>4. Children' = Children \ {m_pid[o]}
    BY <1>8 DEF Wait, Reap, Children
  <2> QED
    BY <1>8, <2>2, <2>3, <2>4 DEF Wait, H!Dispose
<1>9. ASSUME NEW o \in Obj, DestroyEmpty(o)
      PROVE  Stutter
  <2>1. \A q \in Obj : Holding(q)' = Holding(q)
    BY <1>9 DEF DestroyEmpty
  <2> QED
    BY <1>9, <2>1, OwnedSame DEF DestroyEmpty, Children, H!vars
<1>10. ASSUME NEW o \in Obj, Destroy(o)
       PROVE  H!Dispose(o) \/ Stutter
  <2>1. /\ Holding(o)' = None
        /\ \A q \in Obj \ {o} : Holding(q)' = Holding(q)
    BY <1>10 DEF Destroy
  <2>2. CASE Holds(o)
    <3>1. Owned' = [Owned EXCEPT ![o] = None]
      BY <2>1, OwnedOne
    <3>2. Owned[o] = m_pid[o] /\ m_pid[o] # None
      BY <1>0, <2>2
    <3>3. Children' = Children \ {m_pid[o]}
      BY <1>10, <2>2 DEF Destroy, Reap, Children
    <3> QED
      BY <1>10, <3>1, <3>2, <3>3 DEF Destroy, H!Dispose
  <2>3. CASE ~ Holds(o)
    <3>1. \A q \in Obj : Holding(q)' = Holding(q)
      BY <2>1, <2>3
    <3>2. UNCHANGED child
      BY <1>10, <2>3 DEF Destroy, Reap, Children
    <3> QED
      BY <1>10, <3>1, <3>2, OwnedSame DEF Destroy, Children, H!vars
  <2> QED
    BY <2>2, <2>3
<1>11. CASE UNCHANGED vars
  <2>1. \A q \in Obj : Holding(q)' = Holding(q)
    BY <1>11 DEF vars
  <2> QED
    BY <1>11, <2>1, OwnedSame DEF vars, Children, H!vars
<1> QED
  BY <1>1, <1>2, <1>3, <1>4, <1>5, <1>6, <1>7, <1>8, <1>9, <1>10, <1>11
  DEF Next, H!Next

\* Exclusive ownership of children: each is forked into the hands of one
\* holder, is handed from holder to holder, and is waited for by the one that
\* has it.
THEOREM ProcessImplementsHandles ==
  ASSUME ReusesPid = FALSE, OverwritesHeld = FALSE, Interrupts = FALSE
  PROVE  Spec => ImplementsHandles
<1>1. IInv /\ [Next]_vars => [H!Next]_(H!vars)
  BY StepHandles
<1> QED
  BY InitHandles, <1>1, Invariance, PTL DEF Spec, ImplementsHandles, H!Spec
=============================================================================
