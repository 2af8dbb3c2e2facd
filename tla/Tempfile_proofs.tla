-------------------------- MODULE Tempfile_proofs --------------------------
(***************************************************************************)
(* Proofs about Tempfile, for any processes, objects, names and files.     *)
(***************************************************************************)
EXTENDS Tempfile, TLAPS

\* A file is in one object of a process at most.
OneObject ==
  \A p \in Proc, o, q \in Obj : file[p][o] # None /\ file[p][o] = file[p][q] => o = q

\* Two processes hold one file only when one of them held it when it forked.
SharedByFork ==
  \A p, q \in Proc, o, r \in Obj :
    p # q /\ file[p][o] = file[q][r] /\ path[p][o] # None /\ path[q][r] # None
      => file[p][o] \in forked

\* All objects of one file, copies made by fork(), know it under one name.
OneName ==
  \A p, q \in Proc, o, r \in Obj :
    file[p][o] = file[q][r] /\ path[p][o] # None /\ path[q][r] # None => path[p][o] = path[q][r]

\* The inductive invariant.
IInv == TypeOK /\ NamesOwnFile /\ NoLitter /\ OneObject /\ SharedByFork /\ OneName

----------------------------------------------------------------------------

\* Nobody has a file at the start.
LEMMA InitIInv == Init => IInv
<1> SUFFICES ASSUME Init
             PROVE  IInv
  OBVIOUS
<1> USE TempfileAssumption DEF Init, Empty
<1>1. \A p \in Proc, o \in Obj : file[p][o] = None /\ path[p][o] = None
  OBVIOUS
<1>2. TypeOK
  BY <1>1 DEF TypeOK, PCs
<1>3. NoLitter
  BY DEF NoLitter
<1> QED
  BY <1>1, <1>2, <1>3 DEF IInv, NamesOwnFile, OneObject, SharedByFork, OneName

\* A call that begins or goes on to another name touches no file.
LEMMA CallInv ==
  ASSUME IInv, NEW p \in Proc, NEW n \in Name, Call(p, n) \/ OpenExists(p, n)
  PROVE  IInv'
<1> USE TempfileAssumption DEF IInv, TypeOK, Holds, Call, OpenExists, Goto, history
<1>1. TypeOK'
  <2>1. CASE Call(p, n)
    BY <2>1 DEF PCs
  <2>2. CASE OpenExists(p, n)
    BY <2>2 DEF PCs
  <2> QED
    BY <2>1, <2>2
<1>2. NamesOwnFile'
  BY DEF NamesOwnFile
<1>3. NoLitter'
  BY DEF NoLitter
<1>4. OneObject'
  BY DEF OneObject
<1>5. SharedByFork'
  BY DEF SharedByFork
<1>6. OneName'
  BY DEF OneName
<1> QED
  BY <1>1, <1>2, <1>3, <1>4, <1>5, <1>6

\* Nor does a call that fails, or the start of a process.
LEMMA IdleInv ==
  ASSUME IInv, NEW p \in Proc, OpenFails(p) \/ Start(p)
  PROVE  IInv'
<1> USE TempfileAssumption DEF IInv, TypeOK, Holds, OpenFails, Start, Goto, history
<1>1. TypeOK'
  <2>1. CASE OpenFails(p)
    BY <2>1 DEF PCs
  <2>2. CASE Start(p)
    BY <2>2 DEF PCs
  <2> QED
    BY <2>1, <2>2
<1>2. NamesOwnFile'
  BY DEF NamesOwnFile
<1>3. NoLitter'
  BY DEF NoLitter
<1>4. OneObject'
  BY DEF OneObject
<1>5. SharedByFork'
  BY DEF SharedByFork
<1>6. OneName'
  BY DEF OneName
<1> QED
  BY <1>1, <1>2, <1>3, <1>4, <1>5, <1>6

\* Other programs leave the files of the processes alone.
LEMMA OthersInv ==
  ASSUME IInv, NEW n \in Name, Others(n)
  PROVE  IInv'
<1> USE TempfileAssumption DEF IInv, TypeOK, Holds, Others, history
<1>1. TypeOK'
  OBVIOUS
<1>2. NamesOwnFile'
  BY DEF NamesOwnFile
<1>3. NoLitter'
  BY DEF NoLitter
<1>4. OneObject'
  BY DEF OneObject
<1>5. SharedByFork'
  BY DEF SharedByFork
<1>6. OneName'
  BY DEF OneName
<1> QED
  BY <1>1, <1>2, <1>3, <1>4, <1>5, <1>6

\* A file that open() creates is in one object, under the name that it was given.
LEMMA OpenNewInv ==
  ASSUME IInv, NEW p \in Proc, NEW f \in File, NEW o \in Obj,
         NEW u \in BOOLEAN, OpenNew(p, f, o, u)
  PROVE  IInv'
<1> USE TempfileAssumption DEF IInv, TypeOK, Holds, OpenNew, Opened, Unused, Goto
<1>1. TypeOK'
  BY DEF PCs
<1>2. NamesOwnFile'
  BY DEF NamesOwnFile
<1>3. NoLitter'
  <2>1. SUFFICES ASSUME NEW n \in Name, dir'[n] \in File, dir'[n] \notin left'
                 PROVE  \E q \in Proc, r \in Obj : file'[q][r] = dir'[n] /\ path'[q][r] = n
    BY DEF NoLitter
  <2>2. CASE n = name[p]
    <3>1. file'[p][o] = f /\ path'[p][o] = n /\ dir'[n] = f
      BY <2>2
    <3> QED
      BY <3>1
  <2>3. CASE n # name[p]
    <3>1. dir[n] = dir'[n] /\ dir[n] # f
      BY <2>3
    <3>2. PICK q \in Proc, r \in Obj : file[q][r] = dir[n] /\ path[q][r] = n
      BY <2>1, <3>1 DEF NoLitter
    <3>3. q # p \/ r # o
      BY <2>1, <3>1, <3>2
    <3>4. file'[q][r] = file[q][r] /\ path'[q][r] = path[q][r]
      BY <3>3
    <3> QED
      BY <3>1, <3>2, <3>4
  <2> QED
    BY <2>2, <2>3
<1>4. OneObject'
  BY DEF OneObject
<1>5. SharedByFork'
  BY DEF SharedByFork
<1>6. OneName'
  BY DEF OneName
<1> QED
  BY <1>1, <1>2, <1>3, <1>4, <1>5, <1>6

\* What unlink() of an object's path leaves to be said of the other objects: each
\* still has its name, unless a copy that fork() made was destroyed, and every
\* file that still has a name is left behind or has one of them.
LEMMA UnlinkOthers ==
  ASSUME IInv, NEW p \in Proc, NEW o \in Obj, path[p][o] # None, Unlink(p, o)
  PROVE  /\ dir' \in [Name -> File \cup {Foreign, None}]
         /\ unwound' \in BOOLEAN
         /\ left' \subseteq File
         /\ unwound' \/ \A q \in Proc, r \in Obj :
                         (q # p \/ r # o) /\ path[q][r] # None
                           => dir'[path[q][r]] = file[q][r]
         /\ \A n \in Name :
              dir'[n] \in File =>
                \/ dir'[n] \in left'
                \/ \E q \in Proc, r \in Obj :
                     (q # p \/ r # o) /\ file[q][r] = dir'[n] /\ path[q][r] = n
<1> USE TempfileAssumption DEF IInv, TypeOK
<1> DEFINE f == file[p][o]
<1>0. f \in File
  OBVIOUS
<1>1. dir' \in [Name -> File \cup {Foreign, None}] /\ unwound' \in BOOLEAN /\ left' \subseteq File
  BY <1>0 DEF Unlink
<1>2. ASSUME ~ unwound', NEW q \in Proc, NEW r \in Obj, q # p \/ r # o, path[q][r] # None
      PROVE  dir'[path[q][r]] = file[q][r]
  <2>1. ~ unwound
    BY <1>2 DEF Unlink
  <2>2. dir[path[q][r]] = file[q][r] /\ dir[path[p][o]] = f
    BY <2>1, <1>2 DEF NamesOwnFile
  <2>3. CASE UNCHANGED <<dir, unwound>>
    BY <2>2, <2>3
  <2>4. CASE /\ dir' = [dir EXCEPT ![path[p][o]] = None]
             /\ unwound' = (unwound \/ (f \in forked /\ \E x \in Proc \ {p} : Holds(x, f)))
    <3>1. ASSUME path[q][r] = path[p][o]
          PROVE  FALSE
      <4>1. file[q][r] = f
        BY <2>2, <3>1
      <4>2. q # p
        BY <4>1, <1>0, <1>2 DEF OneObject
      <4>3. f \in forked
        BY <4>1, <4>2, <1>2 DEF SharedByFork
      <4>4. Holds(q, f)
        BY <4>1, <1>2 DEF Holds
      <4> QED
        BY <4>2, <4>3, <4>4, <2>4, <1>2
    <3> QED
      BY <3>1, <2>2, <2>4
  <2> QED
    BY <2>3, <2>4 DEF Unlink
<1>3. ASSUME NEW n \in Name, dir'[n] \in File, dir'[n] \notin left'
      PROVE  \E q \in Proc, r \in Obj :
               (q # p \/ r # o) /\ file[q][r] = dir'[n] /\ path[q][r] = n
  <2>1. dir'[n] = dir[n] /\ left \subseteq left'
    BY <1>3 DEF Unlink
  <2>2. PICK q \in Proc, r \in Obj : file[q][r] = dir[n] /\ path[q][r] = n
    BY <1>3, <2>1 DEF NoLitter
  <2>3. q # p \/ r # o
    BY <1>3, <2>1, <2>2 DEF Unlink
  <2> QED
    BY <2>1, <2>2, <2>3
<1> QED
  BY <1>1, <1>2, <1>3

\* tempfile_unlink removes the name that was just created.
LEMMA DiscardInv ==
  ASSUME IInv, NEW p \in Proc, Discard(p)
  PROVE  IInv'
<1> USE TempfileAssumption DEF IInv, TypeOK, Discard, Goto
<1> DEFINE o == obj[p]
<1>0. o \in Obj /\ path[p][o] # None
  OBVIOUS
<1>a. path' = [path EXCEPT ![p][o] = None] /\ file' = file
  OBVIOUS
<1>b. Unlink(p, o)
  OBVIOUS
<1> HIDE DEF o
<1>1. TypeOK'
  BY <1>0, <1>a, <1>b, UnlinkOthers DEF PCs, o
<1>2. NamesOwnFile'
  BY <1>0, <1>a, <1>b, UnlinkOthers DEF NamesOwnFile
<1>3. NoLitter'
  BY <1>0, <1>a, <1>b, UnlinkOthers DEF NoLitter
<1>4. OneObject'
  BY <1>0, <1>a DEF OneObject
<1>5. SharedByFork'
  BY <1>0, <1>a DEF SharedByFork
<1>6. OneName'
  BY <1>0, <1>a DEF OneName
<1> QED
  BY <1>1, <1>2, <1>3, <1>4, <1>5, <1>6

\* An object that is released removes the name of its own file.
LEMMA ReleaseInv ==
  ASSUME IInv, NEW p \in Proc, NEW o \in Obj, Release(p, o)
  PROVE  IInv'
<1> USE TempfileAssumption DEF IInv, TypeOK, Release
<1>a. /\ path' = [path EXCEPT ![p][o] = None]
      /\ file' = [file EXCEPT ![p][o] = None]
  OBVIOUS
<1>1. CASE path[p][o] # None
  <2>0. Unlink(p, o)
    BY <1>1
  <2>1. TypeOK'
    BY <1>1, <1>a, <2>0, UnlinkOthers DEF PCs
  <2>2. NamesOwnFile'
    BY <1>1, <1>a, <2>0, UnlinkOthers DEF NamesOwnFile
  <2>3. NoLitter'
    BY <1>1, <1>a, <2>0, UnlinkOthers DEF NoLitter
  <2>4. OneObject' /\ SharedByFork' /\ OneName'
    BY <1>a DEF OneObject, SharedByFork, OneName
  <2> QED
    BY <2>1, <2>2, <2>3, <2>4
<1>2. CASE path[p][o] = None
  <2>1. TypeOK'
    BY <1>2, <1>a DEF PCs
  <2>2. NamesOwnFile'
    BY <1>2, <1>a DEF NamesOwnFile
  <2>3. NoLitter'
    <3>1. SUFFICES ASSUME NEW n \in Name, dir[n] \in File, dir[n] \notin left
                   PROVE  \E q \in Proc, r \in Obj : file'[q][r] = dir[n] /\ path'[q][r] = n
      BY <1>2 DEF NoLitter
    <3>2. PICK q \in Proc, r \in Obj : file[q][r] = dir[n] /\ path[q][r] = n
      BY <3>1 DEF NoLitter
    <3>3. file'[q][r] = file[q][r] /\ path'[q][r] = path[q][r]
      BY <3>2, <1>2, <1>a
    <3> QED
      BY <3>2, <3>3
  <2>4. OneObject' /\ SharedByFork' /\ OneName'
    BY <1>a DEF OneObject, SharedByFork, OneName
  <2> QED
    BY <2>1, <2>2, <2>3, <2>4
<1> QED
  BY <1>1, <1>2

\* A move hands the file and its name over together.
LEMMA MoveInv ==
  ASSUME IInv, NEW p \in Proc, NEW o \in Obj, NEW q \in Obj, Move(p, o, q)
  PROVE  IInv'
<1> USE TempfileAssumption DEF IInv, TypeOK, Holds, Move, history
<1>1. TypeOK'
  BY DEF PCs
<1>2. NamesOwnFile'
  BY DEF NamesOwnFile
<1>3. NoLitter'
  BY DEF NoLitter
<1>4. OneObject'
  BY DEF OneObject
<1>5. SharedByFork'
  BY DEF SharedByFork
<1>6. OneName'
  BY DEF OneName
<1> QED
  BY <1>1, <1>2, <1>3, <1>4, <1>5, <1>6

\* A child has its parent's files under its parent's names.
LEMMA ForkInv ==
  ASSUME IInv, NEW p \in Proc, NEW q \in Proc, Fork(p, q)
  PROVE  IInv'
<1> USE TempfileAssumption DEF IInv, TypeOK, Holds, Fork, Goto
<1>1. TypeOK'
  BY DEF PCs
<1>2. NamesOwnFile'
  BY DEF NamesOwnFile
<1>3. NoLitter'
  BY DEF NoLitter
<1>4. OneObject'
  BY DEF OneObject
<1>5. SharedByFork'
  BY DEF SharedByFork
<1>6. OneName'
  BY DEF OneName
<1> QED
  BY <1>1, <1>2, <1>3, <1>4, <1>5, <1>6

\* Who ends takes no file along that somebody else holds.
LEMMA EndInv ==
  ASSUME IInv, NEW p \in Proc, End(p)
  PROVE  IInv'
<1> USE TempfileAssumption DEF IInv, TypeOK, Holds, End, Goto, Empty
<1>1. TypeOK'
  BY DEF PCs
<1>2. NamesOwnFile'
  BY DEF NamesOwnFile
<1>3. NoLitter'
  <2>1. SUFFICES ASSUME NEW n \in Name, dir[n] \in File, dir[n] \notin left'
                 PROVE  \E q \in Proc, r \in Obj : file'[q][r] = dir[n] /\ path'[q][r] = n
    BY DEF NoLitter
  <2>2. PICK q \in Proc, r \in Obj : file[q][r] = dir[n] /\ path[q][r] = n
    BY <2>1 DEF NoLitter
  <2>3. PICK x \in Proc, y \in Obj : x # p /\ file[x][y] = dir[n] /\ path[x][y] = n
    <3>1. CASE q # p
      BY <3>1, <2>2
    <3>2. CASE q = p
      <4>1. dir[n] \in File /\ path[q][r] # None
        BY <2>1, <2>2
      <4>2. PICK x \in Proc : x # p /\ Holds(x, dir[n])
        BY <2>1, <2>2, <3>2, <4>1
      <4>3. PICK y \in Obj : file[x][y] = dir[n] /\ path[x][y] # None
        BY <4>2
      <4>4. path[x][y] = path[q][r]
        <5>1. /\ x \in Proc /\ q \in Proc /\ y \in Obj /\ r \in Obj
              /\ file[x][y] = file[q][r]
              /\ path[x][y] # None /\ path[q][r] # None
          BY <4>1, <4>2, <4>3, <2>2
        <5>2. OneName
          OBVIOUS
        <5> HIDE DEF IInv, TypeOK, Holds, End, Goto, Empty
        <5> QED
          BY <5>1, <5>2 DEF OneName
      <4> QED
        BY <2>2, <4>2, <4>3, <4>4
    <3> QED
      BY <3>1, <3>2
  <2>4. file'[x][y] = file[x][y] /\ path'[x][y] = path[x][y]
    BY <2>3
  <2> QED
    BY <2>3, <2>4
<1>4. OneObject'
  BY DEF OneObject
<1>5. SharedByFork'
  BY DEF SharedByFork
<1>6. OneName'
  BY DEF OneName
<1> QED
  BY <1>1, <1>2, <1>3, <1>4, <1>5, <1>6

----------------------------------------------------------------------------

\* Every step preserves the invariant.
LEMMA StepIInv == IInv /\ [Next]_vars => IInv'
<1> SUFFICES ASSUME IInv, [Next]_vars
             PROVE  IInv'
  OBVIOUS
<1>1. ASSUME NEW p \in Proc, Step(p)
      PROVE  IInv'
  BY <1>1, OpenNewInv, CallInv, DiscardInv DEF Step
<1>3. ASSUME NEW p \in Proc, OpenFails(p) \/ Start(p) \/ End(p)
      PROVE  IInv'
  BY <1>3, IdleInv, EndInv
<1>4. ASSUME NEW p \in Proc, NEW n \in Name, Call(p, n) \/ Others(n)
      PROVE  IInv'
  BY <1>4, CallInv, OthersInv
<1>5. ASSUME NEW p \in Proc, NEW o \in Obj, NEW q \in Obj, Release(p, o) \/ Move(p, o, q)
      PROVE  IInv'
  BY <1>5, ReleaseInv, MoveInv
<1>6. ASSUME NEW p \in Proc, NEW q \in Proc, Fork(p, q)
      PROVE  IInv'
  BY <1>6, ForkInv
<1>2. CASE UNCHANGED vars
  BY <1>2
  DEF vars, IInv, TypeOK, NamesOwnFile, NoLitter, OneObject, SharedByFork, OneName, Holds
<1> QED
  BY <1>1, <1>2, <1>3, <1>4, <1>5, <1>6, OthersInv DEF Next

\* The invariant holds in every state of every behaviour.
LEMMA IInvAlways == Spec => []IInv
  BY InitIInv, StepIInv, PTL DEF Spec

\* Types are kept, and an object has a path only together with a file.
THEOREM TypeCorrect == Spec => []TypeOK
<1>1. IInv => TypeOK
  BY DEF IInv
<1> QED
  BY <1>1, IInvAlways, PTL

\* However many processes and objects share a directory with other programs, an
\* object removes its own file and no other, until a child of fork() destroys
\* the copy that it has of its parent's object.
THEOREM NamesOwnFileAlways == Spec => []NamesOwnFile
<1>1. IInv => NamesOwnFile
  BY DEF IInv
<1> QED
  BY <1>1, IInvAlways, PTL

\* Whatever fails and whoever dies, the files that stay behind are those that
\* unlink() failed to remove or whose processes ended without destroying them.
THEOREM NoLitterAlways == Spec => []NoLitter
<1>1. IInv => NoLitter
  BY DEF IInv
<1> QED
  BY <1>1, IInvAlways, PTL
=============================================================================
