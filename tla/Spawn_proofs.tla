---------------------------- MODULE Spawn_proofs ----------------------------
(***************************************************************************)
(* What Spawn promises, proved for any number of children and actions, any *)
(* size of the pipes and of the descriptor tables, and children that write *)
(* as much as they like.                                                   *)
(***************************************************************************)
EXTENDS Spawn, SequenceTheorems, TLAPS

----------------------------------------------------------------------------
(* The inductive invariant of the parent and its descriptors *)

\* The end of the pipe of action q that the parent keeps.
ParentEnd(q) == IF ActionOf(q).kind = "read_pipe" THEN WriteEnd(q) ELSE ReadEnd(q)

\* The children whose spawn() has not begun.
Ahead(c) == c > cur /\ stage \notin {"use", "wait"}

\* Where the parent is: which action objects there are.
Position ==
  /\ \A c \in Child : Spawned(c) => made[c] = <<>> \/ Len(made[c]) = Len(job[c])
  /\ \A c \in Child : Ahead(c) => made[c] = <<>> /\ pc[c] = "unborn"
  /\ stage = "make" => pc[cur] = "unborn" /\ Len(made[cur]) = act
  /\ stage \in {"parent", "capture"} => Len(made[cur]) = Len(job[cur])
  /\ act <= Len(job[cur])
  /\ stage \in {"use", "wait"} => act = 0
  /\ stage = "capture" => act >= 1 /\ job[cur][act].kind = "capture"

\* The child's end is open in the parent until spawn() has dealt with it.
ChildEnds ==
  /\ \A c \in Child : Spawned(c) => \A k \in DOMAIN made[c] : made[c][k].child = None
  /\ \A k \in DOMAIN made[cur] :
       /\ stage = "make" => made[cur][k].child # None
       /\ stage \in {"parent", "capture"} => (made[cur][k].child = None <=> k <= act)

\* An action object holds the descriptors of its own pipe or file.
Held ==
  \A c \in Child : \A k \in DOMAIN made[c] :
    LET a == made[c][k]
    IN /\ a.kind = job[c][k].kind
       /\ a.fdno = job[c][k].fdno
       /\ a.child # None => table[Parent][a.child] = ChildEnd(<<c, k>>)
       /\ a.parent # None => /\ a.kind # "file"
                             /\ table[Parent][a.parent] = ParentEnd(<<c, k>>)

\* And nothing else in the parent holds a pipe or a file.
Holder ==
  \A c \in Child, k \in Nat, n \in Fileno :
    IsOf(table[Parent][n], <<c, k>>) =>
      k \in DOMAIN made[c] /\ n \in {made[c][k].child, made[c][k].parent}

\* The standard descriptors of the parent are never touched.
StdOpen == \A n \in Fileno : n <= 2 => table[Parent][n] = [what |-> "std"]

\* The child has the child's end of what it has not dealt with.
CopyHolds == \A c \in Child : \A i \in DOMAIN copy[c] : copy[c][i].child # None

Core ==
  /\ TypeOK
  /\ Position
  /\ ChildEnds
  /\ Held
  /\ Holder
  /\ StdOpen
  /\ CopyHolds

----------------------------------------------------------------------------
(* The inductive invariant of the pipes *)

\* What is in a child's table was in the parent's when it was forked.
Inherited ==
  \A d \in Child :
    /\ pc[d] = "unborn" => table[d] = Empty
    /\ \A c \in Child, k \in Nat, n \in Fileno :
         IsOf(table[d][n], <<c, k>>) => c <= d

\* A child that was not forked has written nothing.
Silent == \A c \in Child : pc[c] = "unborn" => \A q \in Actions(c) : sent[q] = 0

\* What the child wrote was read or is in the pipe, in order.
Flow ==
  \A c \in Child : \A q \in ToWrite(c) :
    got[q] \o pipe[q] = [i \in 1 .. sent[q] |-> <<ActionOf(q).fdno, i>>]

\* The captures whose loop has ended.
Captured(c, k) ==
  \/ Spawned(c)
  \/ c = cur /\ stage = "parent" /\ k <= act
  \/ c = cur /\ stage = "capture" /\ k < act

\* Nothing is left in their pipes, and nobody can write to them.
Through ==
  \A c \in Child : \A k \in 1 .. Len(job[c]) :
    job[c][k].kind = "capture" /\ Captured(c, k) =>
      pipe[<<c, k>>] = <<>> /\ ~ Open(WriteEnd(<<c, k>>))

Pipes ==
  /\ Inherited
  /\ Silent
  /\ Flow
  /\ Through

----------------------------------------------------------------------------
(* The inductive invariant of a child's descriptors *)

\* How many of its actions child c has run.
Ran(c) == Len(job[c]) - Len(copy[c])

\* After run_in_child() of action k.
Wired(c, k) ==
  /\ table[c][job[c][k].fdno] = ChildEnd(<<c, k>>)
  /\ \A n \in Fileno : n # job[c][k].fdno => ~ IsOf(table[c][n], <<c, k>>)

\* Before: both ends are where the parent made them, and at no other number.
Unwired(c, k, a) ==
  /\ a.fdno = job[c][k].fdno
  /\ a.child \in Fileno /\ a.child > 2 /\ table[c][a.child] = ChildEnd(<<c, k>>)
  /\ a.parent # None => /\ a.kind # "file"
                        /\ a.parent \in Fileno /\ a.parent > 2
                        /\ table[c][a.parent] = ParentEnd(<<c, k>>)
  /\ a.kind = job[c][k].kind
  /\ \A n \in Fileno : IsOf(table[c][n], <<c, k>>) => n \in {a.child, a.parent}

WiredSoFar(c) ==
  pc[c] \in {"setup", "running"} =>
    /\ Len(copy[c]) <= Len(job[c])
    /\ \A k \in 1 .. Len(job[c]) :
         IF k <= Ran(c) THEN Wired(c, k) ELSE Unwired(c, k, copy[c][k - Ran(c)])
    /\ pc[c] = "running" => copy[c] = <<>>

Wiring == \A c \in Child : WiredSoFar(c)

\* The actions are for standard input, output and error.
StdJobs == \A j \in Jobs : \A k \in 1 .. Len(j) : j[k].fdno <= 2

----------------------------------------------------------------------------
(* Jobs, pipes and descriptors *)

\* The actions for a child are what the program may ask for, each has a pipe or
\* a file, and no two are for the same descriptor.
LEMMA JobFacts ==
  ASSUME job \in [Child -> Jobs], NEW c \in Child
  PROVE  /\ job[c] \in Jobs
         /\ job[c] \in Seq([kind : Kinds, fdno : Fileno])
         /\ Len(job[c]) \in Nat
         /\ DOMAIN job[c] = 1 .. Len(job[c])
         /\ \A k \in 1 .. Len(job[c]) :
              /\ job[c][k] \in [kind : Kinds, fdno : Fileno]
              /\ <<c, k>> \in Id
              /\ \A l \in 1 .. Len(job[c]) : job[c][k].fdno = job[c][l].fdno => k = l
<1>1. job[c] \in Jobs
  OBVIOUS
<1>2. job[c] \in Seq([kind : Kinds, fdno : Fileno])
  BY <1>1, SpawnAssumption
<1>3. Len(job[c]) \in Nat /\ DOMAIN job[c] = 1 .. Len(job[c])
  BY <1>2
<1>4. ASSUME NEW k \in 1 .. Len(job[c])
      PROVE  job[c][k] \in [kind : Kinds, fdno : Fileno] /\ <<c, k>> \in Id
  <2>1. k \in UNION {DOMAIN j : j \in Jobs}
    BY <1>1, <1>3
  <2>2. <<c, k>> \in Id
    BY <2>1 DEF Id
  <2> DEFINE S == [kind : Kinds, fdno : Fileno]
  <2>3. job[c] \in Seq(S)
    BY <1>2
  <2> HIDE DEF S
  <2>4. job[c][k] \in S
    BY <2>3
  <2> QED
    BY <2>2, <2>4 DEF S
<1>5. \A k, l \in 1 .. Len(job[c]) : job[c][k].fdno = job[c][l].fdno => k = l
  BY <1>1, SpawnAssumption
<1> QED
  BY <1>1, <1>2, <1>3, <1>4, <1>5

\* A pipe of the model is that of an action of some list for a child.
LEMMA IdParts ==
  ASSUME NEW q \in Id
  PROVE  q[1] \in Child /\ q[2] \in Nat \ {0} /\ q = <<q[1], q[2]>>
<1>1. PICK c \in Child, k \in UNION {DOMAIN j : j \in Jobs} : q = <<c, k>>
  BY DEF Id
<1>2. PICK j \in Jobs : k \in DOMAIN j
  BY <1>1
<1>3. j \in Seq([kind : Kinds, fdno : Fileno])
  BY SpawnAssumption
<1>4. k \in Nat \ {0}
  BY <1>2, <1>3
<1> QED
  BY <1>1, <1>4

\* The ends of pipes, and files, are what the tables hold; each belongs to one
\* action, and the child's end is not the parent's.
LEMMA EndFacts ==
  ASSUME NEW q \in Id
  PROVE  /\ ReadEnd(q) \in File /\ WriteEnd(q) \in File
         /\ ChildEnd(q) \in File /\ ParentEnd(q) \in File
         /\ [what |-> "file", id |-> q] \in File
         /\ \A r : /\ IsOf(ReadEnd(q), r) <=> r = q
                   /\ IsOf(WriteEnd(q), r) <=> r = q
                   /\ IsOf(ChildEnd(q), r) <=> r = q
                   /\ IsOf(ParentEnd(q), r) <=> r = q
                   /\ IsOf([what |-> "file", id |-> q], r) <=> r = q
         /\ ActionOf(q).kind # "file" => ChildEnd(q) # ParentEnd(q)
<1>0. None \notin File
  BY SpawnAssumption
<1>1. ReadEnd(q) \in File /\ WriteEnd(q) \in File /\ [what |-> "file", id |-> q] \in File
  BY DEF File, ReadEnd, WriteEnd
<1>2. ChildEnd(q) \in File /\ ParentEnd(q) \in File
  BY <1>1 DEF File, ChildEnd, ParentEnd
<1>3. ASSUME NEW r
      PROVE  /\ IsOf(ReadEnd(q), r) <=> r = q
             /\ IsOf(WriteEnd(q), r) <=> r = q
             /\ IsOf([what |-> "file", id |-> q], r) <=> r = q
             /\ IsOf(ParentEnd(q), r) <=> r = q
  BY <1>0, <1>1, <1>2 DEF IsOf, ReadEnd, WriteEnd, ParentEnd
<1>4. ASSUME NEW r
      PROVE  IsOf(ChildEnd(q), r) <=> r = q
  BY <1>0, <1>2 DEF IsOf, ChildEnd
<1>5. ActionOf(q).kind # "file" => ChildEnd(q) # ParentEnd(q)
  BY DEF ChildEnd, ParentEnd, ReadEnd, WriteEnd
<1> QED
  BY <1>1, <1>2, <1>3, <1>4, <1>5

\* A list of actions, one by one.
LEMMA ActionFacts ==
  ASSUME NEW s \in Seq(Action)
  PROVE  /\ Len(s) \in Nat
         /\ DOMAIN s = 1 .. Len(s)
         /\ \A k \in DOMAIN s :
              /\ s[k] \in Action
              /\ s[k].kind \in Kinds
              /\ s[k].fdno \in Fileno
              /\ s[k].child \in Fileno \cup {None}
              /\ s[k].parent \in Fileno \cup {None}
         /\ s # <<>> => /\ 1 \in DOMAIN s
                        /\ Head(s) = s[1]
                        /\ Tail(s) \in Seq(Action)
                        /\ DOMAIN Tail(s) = 1 .. Len(s) - 1
                        /\ Len(Tail(s)) = Len(s) - 1
                        /\ \A k \in 1 .. Len(s) - 1 : Tail(s)[k] = s[k + 1]
<1>1. Len(s) \in Nat /\ DOMAIN s = 1 .. Len(s)
  OBVIOUS
<1>2. ASSUME NEW k \in DOMAIN s
      PROVE  /\ s[k] \in Action
             /\ s[k].kind \in Kinds
             /\ s[k].fdno \in Fileno
             /\ s[k].child \in Fileno \cup {None}
             /\ s[k].parent \in Fileno \cup {None}
  <2>1. s[k] \in Action
    BY <1>1, <1>2
  <2> QED
    BY <2>1 DEF Action
<1>3. ASSUME s # <<>>
      PROVE  /\ 1 \in DOMAIN s
             /\ Head(s) = s[1]
             /\ Tail(s) \in Seq(Action)
             /\ DOMAIN Tail(s) = 1 .. Len(s) - 1
             /\ Len(Tail(s)) = Len(s) - 1
             /\ \A k \in 1 .. Len(s) - 1 : Tail(s)[k] = s[k + 1]
  BY <1>3, HeadTailProperties
<1> QED
  BY <1>1, <1>2, <1>3

\* The first blocks of a pipe, and those that are left.
LEMMA SplitFacts ==
  ASSUME NEW S, NEW s \in Seq(S), NEW n \in 1 .. Len(s)
  PROVE  /\ SubSeq(s, 1, n) \in Seq(S) /\ Len(SubSeq(s, 1, n)) = n
         /\ SubSeq(s, n + 1, Len(s)) \in Seq(S)
         /\ Len(SubSeq(s, n + 1, Len(s))) = Len(s) - n
         /\ SubSeq(s, 1, n) \o SubSeq(s, n + 1, Len(s)) = s
<1>1. \A i \in 1 .. Len(s) : s[i] \in S
  OBVIOUS
<1>2. Len(s) \in Nat /\ n \in Nat
  OBVIOUS
<1>3. SubSeq(s, 1, n) \in Seq(S) /\ Len(SubSeq(s, 1, n)) = n
  BY <1>1, <1>2, SubSeqProperties
<1>4. /\ SubSeq(s, n + 1, Len(s)) \in Seq(S)
      /\ Len(SubSeq(s, n + 1, Len(s))) = Len(s) - n
  BY <1>1, <1>2, SubSeqProperties
<1>5. SubSeq(s, 1, n) \o SubSeq(s, n + 1, Len(s)) = SubSeq(s, 1, Len(s))
  BY <1>2, ConcatAdjacentSubSeq
<1> QED
  BY <1>3, <1>4, <1>5, SubSeqFull

\* What the output iterator makes of what was there is a list of blocks again.
LEMMA CopiedType ==
  ASSUME NEW S, NEW old \in Seq(S), NEW s \in Seq(S)
  PROVE  Copied(old, s) \in Seq(S)
<1>1. SubSeq(old, Len(s) + 1, Len(old)) \in Seq(S)
  BY SubSeqProperties, Len(s) \in Nat, Len(old) \in Nat
<1> QED
  BY <1>1, ConcatProperties DEF Copied

----------------------------------------------------------------------------
(* Types *)

\* A descriptor table with one number changed is one.
LEMMA TableFacts ==
  /\ Parent \in Process
  /\ \A c \in Child : c \in Process /\ c # Parent
  /\ None \notin Fileno
  /\ None \notin File
  /\ Empty \in [Fileno -> File \cup {None}]
BY SpawnAssumption DEF Parent, Process, Child, Empty

\* Closing leaves a table.
LEMMA ClosedType ==
  ASSUME NEW t \in [Fileno -> File \cup {None}], NEW n
  PROVE  Closed(t, n) \in [Fileno -> File \cup {None}]
BY DEF Closed

\* The types hold at the start.
LEMMA TypeInit == Init => TypeOK
<1>1. [what |-> "std"] \in File
  BY DEF File
<1>2. [n \in Fileno |-> IF n <= 2 THEN [what |-> "std"] ELSE None]
        \in [Fileno -> File \cup {None}]
  BY <1>1
<1>3. Init => table \in [Process -> [Fileno -> File \cup {None}]]
  BY <1>2, TableFacts DEF Init
<1>4. 1 \in Child
  BY SpawnAssumption DEF Child
<1> QED
  BY <1>3, <1>4, SpawnAssumption DEF Init, TypeOK, Stages, PCs

\* What Make leaves alone.
LEMMA MakeType ==
  ASSUME TypeOK, Make
  PROVE  TypeOK'
<1> DEFINE a == job[cur][act + 1]
           q == <<cur, act + 1>>
           D == File \cup {None}
<1>1. act + 1 \in 1 .. Len(job[cur]) /\ cur \in Child
  BY JobFacts DEF TypeOK, Make
<1>2. a \in [kind : Kinds, fdno : Fileno] /\ q \in Id
  BY <1>1, JobFacts DEF TypeOK
<1>3. /\ table \in [Process -> [Fileno -> D]]
      /\ made \in [Child -> Seq(Action)]
      /\ made[cur] \in Seq(Action)
  BY <1>1 DEF TypeOK
<1>4. ReadEnd(q) \in D /\ WriteEnd(q) \in D /\ [what |-> "file", id |-> q] \in D
  BY <1>2, EndFacts
<1>5. ASSUME MakeFile
      PROVE  table' \in [Process -> [Fileno -> D]] /\ made' \in [Child -> Seq(Action)]
  <2>1. PICK n \in Fileno :
          /\ table' = [table EXCEPT ![Parent][n] = [what |-> "file", id |-> q]]
          /\ made' = [made EXCEPT ![cur] = Append(@,
                        [kind |-> "file", fdno |-> a.fdno, child |-> n, parent |-> None])]
    BY <1>5 DEF MakeFile
  <2>2. [kind |-> "file", fdno |-> a.fdno, child |-> n, parent |-> None] \in Action
    BY <1>2 DEF Action, Kinds
  <2> HIDE DEF a, q, D
  <2> QED
    BY <1>1, <1>3, <1>4, <2>1, <2>2, TableFacts, AppendProperties
<1>6. ASSUME MakePipe
      PROVE  table' \in [Process -> [Fileno -> D]] /\ made' \in [Child -> Seq(Action)]
  <2> DEFINE reads == a.kind = "read_pipe"
             new(m, n) == [kind |-> a.kind, fdno |-> a.fdno,
                           child  |-> IF reads THEN m ELSE n,
                           parent |-> IF reads THEN n ELSE m]
  <2>1. PICK m \in Fileno, n \in Fileno :
          /\ table' = [table EXCEPT ![Parent][m] = ReadEnd(q), ![Parent][n] = WriteEnd(q)]
          /\ made' = [made EXCEPT ![cur] = Append(@, new(m, n))]
    BY <1>6 DEF MakePipe
  <2>2. new(m, n) \in Action
    BY <1>2 DEF Action
  <2> HIDE DEF new
  <2> HIDE DEF a, q, D
  <2> QED
    BY <1>1, <1>3, <1>4, <2>1, <2>2, TableFacts, AppendProperties
<1>7. table' \in [Process -> [Fileno -> D]] /\ made' \in [Child -> Seq(Action)]
  BY <1>5, <1>6 DEF Make
<1> QED
  BY <1>7 DEF TypeOK, Make, childVars

LEMMA ForkType ==
  ASSUME TypeOK, Fork
  PROVE  TypeOK'
BY TableFacts DEF TypeOK, Fork, Stages, PCs

\* The program drops the actions of a child.
LEMMA DroppedType ==
  ASSUME TypeOK, NEW c \in Child
  PROVE  Dropped(c) \in [Fileno -> File \cup {None}]
BY TableFacts DEF TypeOK, Dropped

LEMMA AbandonType ==
  ASSUME TypeOK, Abandon
  PROVE  TypeOK'
<1>1. cur \in Child /\ stage' \in Stages /\ cur' \in Child /\ act' \in Nat
  BY SpawnAssumption DEF TypeOK, Abandon, Return, Stages, Child
<1>2. table' \in [Process -> [Fileno -> File \cup {None}]]
  BY <1>1, DroppedType, TableFacts DEF TypeOK, Abandon
<1>3. made' \in [Child -> Seq(Action)] /\ pc' \in [Child -> PCs]
  BY DEF TypeOK, Abandon, PCs
<1> QED
  BY <1>1, <1>2, <1>3 DEF TypeOK, Abandon

LEMMA WaitReturnsType ==
  ASSUME TypeOK, WaitReturns
  PROVE  TypeOK'
<1>1. cur \in Child /\ stage' \in Stages
  BY DEF TypeOK, WaitReturns, Stages
<1>2. table' \in [Process -> [Fileno -> File \cup {None}]]
  BY <1>1, DroppedType, TableFacts DEF TypeOK, WaitReturns
<1>3. made' \in [Child -> Seq(Action)] /\ pc' \in [Child -> PCs]
  BY DEF TypeOK, WaitReturns, PCs
<1> QED
  BY <1>1, <1>2, <1>3 DEF TypeOK, WaitReturns

\* One descriptor of an action object is set to None.
LEMMA NoneType ==
  ASSUME TypeOK, NEW c \in Child, NEW k \in DOMAIN made[c]
  PROVE  /\ [made EXCEPT ![c][k].child = None] \in [Child -> Seq(Action)]
         /\ [made EXCEPT ![c][k].parent = None] \in [Child -> Seq(Action)]
<1>1. made[c] \in Seq(Action) /\ made \in [Child -> Seq(Action)]
  BY DEF TypeOK
<1>2. made[c][k] \in Action /\ k \in 1 .. Len(made[c])
  BY <1>1, ActionFacts
<1>3. /\ [made[c][k] EXCEPT !.child = None] \in Action
      /\ [made[c][k] EXCEPT !.parent = None] \in Action
  BY <1>2 DEF Action
<1>4. /\ [made[c] EXCEPT ![k] = [made[c][k] EXCEPT !.child = None]] \in Seq(Action)
      /\ [made[c] EXCEPT ![k] = [made[c][k] EXCEPT !.parent = None]] \in Seq(Action)
  BY <1>1, <1>2, <1>3, ExceptSeq
<1> QED
  BY <1>1, <1>4

LEMMA RunInParentType ==
  ASSUME TypeOK, Position, RunInParent
  PROVE  TypeOK'
<1>1. cur \in Child /\ act + 1 \in DOMAIN made[cur]
  BY ActionFacts DEF TypeOK, Position, RunInParent
<1>2. made' \in [Child -> Seq(Action)]
  BY <1>1, NoneType DEF RunInParent
<1>3. table' \in [Process -> [Fileno -> File \cup {None}]]
  BY ClosedType, TableFacts DEF RunInParent, TypeOK
<1> QED
  BY <1>2, <1>3 DEF TypeOK, RunInParent, Stages, childVars

LEMMA CloseParentFdType ==
  ASSUME TypeOK, NEW c \in Child, NEW k \in DOMAIN made[c], CloseParentFd(c, k)
  PROVE  TypeOK'
<1>1. made' \in [Child -> Seq(Action)]
  BY NoneType DEF CloseParentFd
<1>2. table' \in [Process -> [Fileno -> File \cup {None}]]
  BY ClosedType, TableFacts DEF CloseParentFd, TypeOK
<1> QED
  BY <1>1, <1>2 DEF TypeOK, CloseParentFd, childVars

\* The parent goes on, or waits.
LEMMA GoOnType ==
  ASSUME TypeOK, SpawnReturns \/ CaptureEnds \/ \E c \in Child : Wait(c)
  PROVE  TypeOK'
<1>1. stage' \in Stages /\ cur' \in Child /\ act' \in Nat
  <2>1. CASE SpawnReturns
    BY <2>1, SpawnAssumption DEF TypeOK, SpawnReturns, Return, Stages, Child
  <2>2. CASE CaptureEnds
    BY <2>2 DEF TypeOK, CaptureEnds, Stages
  <2>3. CASE \E c \in Child : Wait(c)
    BY <2>3 DEF TypeOK, Wait, Stages
  <2> QED
    BY <2>1, <2>2, <2>3
<1> QED
  BY <1>1 DEF TypeOK, SpawnReturns, CaptureEnds, Wait, childVars

\* Every action object is for an action of the child's list.
LEMMA MadeFacts ==
  ASSUME TypeOK, Position, NEW c \in Child
  PROVE  /\ made[c] \in Seq(Action)
         /\ DOMAIN made[c] = 1 .. Len(made[c])
         /\ Len(made[c]) \in Nat
         /\ Len(made[c]) <= Len(job[c])
         /\ \A k \in DOMAIN made[c] :
              /\ k \in 1 .. Len(job[c])
              /\ <<c, k>> \in Id
              /\ made[c][k] \in Action
              /\ made[c][k].kind \in Kinds
              /\ made[c][k].fdno \in Fileno
              /\ made[c][k].child \in Fileno \cup {None}
              /\ made[c][k].parent \in Fileno \cup {None}
<1>1. job \in [Child -> Jobs] /\ made[c] \in Seq(Action) /\ cur \in Child
  BY DEF TypeOK
<1>2. Len(made[c]) <= Len(job[c])
  <2>1. Spawned(c) \/ c = cur \/ Ahead(c)
    BY <1>1 DEF Spawned, Ahead, Child
  <2>2. stage \in {"use", "wait"} => Spawned(cur)
    BY DEF Spawned
  <2>3. Len(job[c]) \in Nat /\ Len(job[cur]) \in Nat
    BY <1>1, JobFacts
  <2>4. made[c] = <<>> => Len(made[c]) = 0
    OBVIOUS
  <2> QED
    BY <1>1, <2>1, <2>2, <2>3, <2>4 DEF Position, TypeOK, Stages
<1>3. DOMAIN made[c] = 1 .. Len(made[c]) /\ Len(made[c]) \in Nat
  BY <1>1, ActionFacts
<1>4. ASSUME NEW k \in DOMAIN made[c]
      PROVE  k \in 1 .. Len(job[c]) /\ <<c, k>> \in Id
  BY <1>1, <1>2, <1>3, JobFacts
<1> QED
  BY <1>1, <1>2, <1>3, <1>4, ActionFacts

LEMMA CaptureReadType ==
  ASSUME TypeOK, Position, CaptureRead
  PROVE  TypeOK'
<1> DEFINE q == <<cur, act>>
           B == Fileno \X Nat
<1>1. q \in Id
  BY JobFacts DEF TypeOK, Position, CaptureRead
<1>2. PICK n \in 1 .. Len(pipe[q]) :
        /\ got' = [got EXCEPT ![q] = Copied(@, SubSeq(pipe[q], 1, n))]
        /\ pipe' = [pipe EXCEPT ![q] = SubSeq(@, n + 1, Len(@))]
  BY DEF CaptureRead
<1>3. /\ got \in [Id -> Seq(B)] /\ pipe \in [Id -> Seq(B)]
      /\ \A r \in Id : Len(pipe[r]) <= Capacity
  BY DEF TypeOK
<1> HIDE DEF q, B
<1>4. pipe[q] \in Seq(B) /\ got[q] \in Seq(B) /\ Len(pipe[q]) \in Nat
  BY <1>1, <1>3
<1>5. /\ SubSeq(pipe[q], 1, n) \in Seq(B)
      /\ SubSeq(pipe[q], n + 1, Len(pipe[q])) \in Seq(B)
      /\ Len(SubSeq(pipe[q], n + 1, Len(pipe[q]))) <= Len(pipe[q])
  BY <1>4, SplitFacts
<1>6. Copied(got[q], SubSeq(pipe[q], 1, n)) \in Seq(B)
  BY <1>4, <1>5, CopiedType
<1>7. got' \in [Id -> Seq(B)] /\ pipe' \in [Id -> Seq(B)]
  BY <1>1, <1>2, <1>3, <1>5, <1>6
<1>8. \A r \in Id : Len(pipe'[r]) <= Capacity
  BY <1>1, <1>2, <1>3, <1>4, <1>5, SpawnAssumption
<1> QED
  BY <1>7, <1>8 DEF TypeOK, CaptureRead, childVars, B

\* A block more in a pipe, or the first one taken out.
LEMMA PipeType ==
  ASSUME TypeOK, NEW q \in Id
  PROVE  /\ \A b \in Fileno \X Nat :
              Len(pipe[q]) < Capacity =>
                LET p == [pipe EXCEPT ![q] = Append(@, b)]
                IN  p \in [Id -> Seq(Fileno \X Nat)] /\ \A r \in Id : Len(p[r]) <= Capacity
         /\ pipe[q] # <<>> =>
              LET p == [pipe EXCEPT ![q] = Tail(@)]
              IN  p \in [Id -> Seq(Fileno \X Nat)] /\ \A r \in Id : Len(p[r]) <= Capacity
<1> DEFINE B == Fileno \X Nat
<1>1. pipe \in [Id -> Seq(B)] /\ \A r \in Id : Len(pipe[r]) <= Capacity
  BY DEF TypeOK
<1> HIDE DEF B
<1>2. pipe[q] \in Seq(B) /\ Len(pipe[q]) \in Nat /\ Capacity \in Nat
  BY <1>1, SpawnAssumption
<1>3. ASSUME NEW b \in B, Len(pipe[q]) < Capacity
      PROVE  LET p == [pipe EXCEPT ![q] = Append(@, b)]
             IN  p \in [Id -> Seq(B)] /\ \A r \in Id : Len(p[r]) <= Capacity
  <2>1. Append(pipe[q], b) \in Seq(B) /\ Len(Append(pipe[q], b)) = Len(pipe[q]) + 1
    BY <1>2, AppendProperties
  <2> QED
    BY <1>1, <1>2, <1>3, <2>1
<1>4. ASSUME pipe[q] # <<>>
      PROVE  LET p == [pipe EXCEPT ![q] = Tail(@)]
             IN  p \in [Id -> Seq(B)] /\ \A r \in Id : Len(p[r]) <= Capacity
  <2>1. Tail(pipe[q]) \in Seq(B) /\ Len(Tail(pipe[q])) = Len(pipe[q]) - 1
    BY <1>2, <1>4, HeadTailProperties
  <2>2. Len(pipe[q]) - 1 <= Capacity
    BY <1>1, <1>2
  <2> QED
    BY <1>1, <1>2, <2>1, <2>2
<1> QED
  BY <1>3, <1>4 DEF B

LEMMA FeedType ==
  ASSUME TypeOK, Position, NEW c \in Child, NEW k \in DOMAIN made[c], Feed(c, k)
  PROVE  TypeOK'
<1> DEFINE q == <<c, k>>
           b == <<made[c][k].fdno, fed[q] + 1>>
<1>1. q \in Id /\ made[c][k].fdno \in Fileno
  BY MadeFacts
<1>2. fed[q] \in 0 .. Input /\ fed[q] < Input /\ Input \in Nat
  BY <1>1, SpawnAssumption DEF TypeOK, Feed
<1>3. b \in Fileno \X Nat /\ Len(pipe[q]) < Capacity
  BY <1>1, <1>2 DEF Feed
<1>4. pipe' = [pipe EXCEPT ![q] = Append(@, b)] /\ fed' = [fed EXCEPT ![q] = @ + 1]
  BY DEF Feed
<1>5. fed' \in [Id -> 0 .. Input]
  BY <1>1, <1>2, <1>4 DEF TypeOK
<1> HIDE DEF b, q
<1>6. pipe' \in [Id -> Seq(Fileno \X Nat)] /\ \A r \in Id : Len(pipe'[r]) <= Capacity
  BY <1>1, <1>3, <1>4, PipeType
<1> QED
  BY <1>5, <1>6 DEF TypeOK, Feed, childVars

LEMMA DrainType ==
  ASSUME TypeOK, Position, NEW c \in Child, NEW k \in DOMAIN made[c], Drain(c, k)
  PROVE  TypeOK'
<1> DEFINE q == <<c, k>>
           B == Fileno \X Nat
<1>1. q \in Id
  BY MadeFacts
<1>2. /\ pipe[q] # <<>>
      /\ pipe' = [pipe EXCEPT ![q] = Tail(@)]
      /\ got' = [got EXCEPT ![q] = Append(@, Head(pipe[q]))]
  BY DEF Drain
<1>3. pipe[q] \in Seq(B) /\ got \in [Id -> Seq(B)]
  BY <1>1 DEF TypeOK
<1>4. pipe' \in [Id -> Seq(B)] /\ \A r \in Id : Len(pipe'[r]) <= Capacity
  BY <1>1, <1>2, PipeType
<1> HIDE DEF q, B
<1>5. got' \in [Id -> Seq(B)]
  BY <1>1, <1>2, <1>3, HeadTailProperties, AppendProperties
<1> QED
  BY <1>4, <1>5 DEF TypeOK, Drain, childVars, B

\* run_in_child() leaves a table.
LEMMA ConnectedType ==
  ASSUME NEW t \in [Fileno -> File \cup {None}], NEW a, a.child \in Fileno
  PROVE  Connected(t, a) \in [Fileno -> File \cup {None}]
<1>1. [t EXCEPT ![a.fdno] = t[a.child]] \in [Fileno -> File \cup {None}]
  OBVIOUS
<1> QED
  BY <1>1, ClosedType DEF Connected, Without

LEMMA GoneType ==
  ASSUME TypeOK, NEW c \in Child, Gone(c)
  PROVE  /\ pc' \in [Child -> PCs]
         /\ copy' \in [Child -> Seq(Action)]
         /\ table' \in [Process -> [Fileno -> File \cup {None}]]
BY TableFacts DEF TypeOK, Gone, PCs

LEMMA RunInChildType ==
  ASSUME TypeOK, CopyHolds, NEW c \in Child, RunInChild(c)
  PROVE  TypeOK' /\ CopyHolds'
<1> DEFINE a == Head(copy[c])
<1>1. copy[c] \in Seq(Action) /\ copy[c] # <<>>
  BY DEF TypeOK, RunInChild
<1>2. /\ a = copy[c][1] /\ 1 \in DOMAIN copy[c]
      /\ Tail(copy[c]) \in Seq(Action)
      /\ DOMAIN Tail(copy[c]) = 1 .. Len(copy[c]) - 1
      /\ \A k \in 1 .. Len(copy[c]) - 1 : Tail(copy[c])[k] = copy[c][k + 1]
      /\ DOMAIN copy[c] = 1 .. Len(copy[c]) /\ Len(copy[c]) \in Nat
  BY <1>1, ActionFacts
<1>3. a.child \in Fileno
  BY <1>1, <1>2, ActionFacts DEF CopyHolds
<1>4. CASE Gone(c)
  <2>1. \A d \in Child : copy'[d] = <<>> \/ copy'[d] = copy[d]
    BY <1>4 DEF Gone, TypeOK
  <2>2. CopyHolds'
    BY <2>1 DEF CopyHolds
  <2> QED
    BY <1>4, <2>2, GoneType DEF TypeOK, RunInChild, parentVars
<1>5. CASE ~ Gone(c)
  <2>1. /\ table' = [table EXCEPT ![c] = Connected(@, a)]
        /\ copy' = [copy EXCEPT ![c] = Tail(@)]
        /\ UNCHANGED pc
    BY <1>5 DEF RunInChild
  <2> HIDE DEF a
  <2>2. table' \in [Process -> [Fileno -> File \cup {None}]]
    BY <1>3, <2>1, ConnectedType, TableFacts DEF TypeOK
  <2>3. copy' \in [Child -> Seq(Action)]
    BY <1>2, <2>1 DEF TypeOK
  <2>4. \A d \in Child : copy'[d] = IF d = c THEN Tail(copy[c]) ELSE copy[d]
    BY <2>1 DEF TypeOK
  <2>5. \A k \in 1 .. Len(copy[c]) - 1 : Tail(copy[c])[k].child # None
    BY <1>2 DEF CopyHolds
  <2>6. CopyHolds'
    BY <1>2, <2>4, <2>5 DEF CopyHolds
  <2> QED
    BY <2>1, <2>2, <2>3, <2>6 DEF TypeOK, RunInChild, parentVars
<1> QED
  BY <1>4, <1>5

\* The actions of a child have their pipes.
LEMMA ActionsFacts ==
  ASSUME TypeOK, NEW c \in Child, NEW q \in Actions(c)
  PROVE  /\ q \in Id
         /\ q[1] = c /\ q[2] \in 1 .. Len(job[c]) /\ q = <<c, q[2]>>
         /\ ActionOf(q) = job[c][q[2]]
         /\ ActionOf(q).kind \in Kinds /\ ActionOf(q).fdno \in Fileno
<1>1. PICK k \in 1 .. Len(job[c]) : q = <<c, k>>
  BY DEF Actions
<1>2. /\ <<c, k>> \in Id
      /\ job[c][k] \in [kind : Kinds, fdno : Fileno]
  BY JobFacts DEF TypeOK
<1>3. q[1] = c /\ q[2] = k /\ q \in Id
  BY <1>1, <1>2
<1>4. ActionOf(q) = job[c][k]
  BY <1>3 DEF ActionOf
<1> QED
  BY <1>1, <1>2, <1>3, <1>4

LEMMA ReadType ==
  ASSUME TypeOK, NEW c \in Child, NEW q \in Actions(c), Read(c, q)
  PROVE  TypeOK'
<1>1. q \in Id
  BY ActionsFacts
<1>2. pipe' \in [Id -> Seq(Fileno \X Nat)] /\ \A r \in Id : Len(pipe'[r]) <= Capacity
  <2>1. CASE UNCHANGED pipe
    BY <2>1 DEF TypeOK
  <2>2. CASE pipe[q] # <<>> /\ pipe' = [pipe EXCEPT ![q] = Tail(@)]
    BY <1>1, <2>2, PipeType
  <2> QED
    BY <2>1, <2>2 DEF Read
<1>3. eof' \subseteq Id
  BY <1>1 DEF Read, TypeOK
<1> QED
  BY <1>2, <1>3 DEF TypeOK, Read, parentVars

LEMMA WriteType ==
  ASSUME TypeOK, NEW c \in Child, NEW q \in Actions(c), Write(c, q)
  PROVE  TypeOK'
<1> DEFINE b == <<ActionOf(q).fdno, sent[q] + 1>>
<1>1. q \in Id /\ ActionOf(q).fdno \in Fileno
  BY ActionsFacts
<1>2. sent[q] \in 0 .. Output /\ sent[q] < Output /\ Output \in Nat
  BY <1>1, SpawnAssumption DEF TypeOK, Write
<1>3. b \in Fileno \X Nat /\ Len(pipe[q]) < Capacity
  BY <1>1, <1>2 DEF Write
<1>4. pipe' = [pipe EXCEPT ![q] = Append(@, b)] /\ sent' = [sent EXCEPT ![q] = @ + 1]
  BY DEF Write
<1>5. sent' \in [Id -> 0 .. Output]
  BY <1>1, <1>2, <1>4 DEF TypeOK
<1> HIDE DEF b
<1>6. pipe' \in [Id -> Seq(Fileno \X Nat)] /\ \A r \in Id : Len(pipe'[r]) <= Capacity
  BY <1>1, <1>3, <1>4, PipeType
<1> QED
  BY <1>5, <1>6 DEF TypeOK, Write, parentVars

\* The program of a child starts, does not start, or ends.
LEMMA StartStopType ==
  ASSUME TypeOK, NEW c \in Child, Exec(c) \/ ExecFails(c) \/ Exit(c)
  PROVE  TypeOK'
<1>1. CASE Exec(c)
  BY <1>1 DEF TypeOK, Exec, PCs, parentVars
<1>2. CASE ExecFails(c)
  BY <1>2, GoneType DEF TypeOK, ExecFails, parentVars
<1>3. CASE Exit(c)
  BY <1>3, GoneType DEF TypeOK, Exit, parentVars
<1> QED
  BY <1>1, <1>2, <1>3

\* Every step keeps the types.
LEMMA TypeStep ==
  ASSUME TypeOK, Position, CopyHolds, [Next]_vars
  PROVE  TypeOK'
<1>1. CASE Make
  BY <1>1, MakeType
<1>2. CASE MakeFails \/ ForkFails
  BY <1>2, AbandonType DEF MakeFails, ForkFails
<1>3. CASE Fork
  BY <1>3, ForkType
<1>4. CASE RunInParent
  BY <1>4, RunInParentType
<1>5. CASE SpawnReturns \/ CaptureEnds \/ \E c \in Child : Wait(c)
  BY <1>5, GoOnType
<1>6. CASE CaptureRead
  BY <1>6, CaptureReadType
<1>7. CASE WaitReturns
  BY <1>7, WaitReturnsType
<1>8. CASE \E c \in Child : \E k \in DOMAIN made[c] :
             Feed(c, k) \/ CloseFed(c, k) \/ Drain(c, k) \/ CloseDrained(c, k)
  BY <1>8, FeedType, DrainType, CloseParentFdType DEF CloseFed, CloseDrained
<1>9. CASE \E c \in Child : ChildNext(c)
  BY <1>9, RunInChildType, ReadType, WriteType, StartStopType DEF ChildNext
<1>10. CASE UNCHANGED vars
  BY <1>10 DEF TypeOK, vars, parentVars, childVars
<1> QED
  BY <1>1, <1>2, <1>3, <1>4, <1>5, <1>6, <1>7, <1>8, <1>9, <1>10 DEF Next, ParentNext

----------------------------------------------------------------------------
(* Where the parent is *)

\* A child is behind the parent, its present one, or ahead of it.
LEMMA WhichChild ==
  ASSUME TypeOK, NEW c \in Child
  PROVE  /\ Spawned(c) \/ c = cur \/ Ahead(c)
         /\ stage \in {"use", "wait"} => Spawned(c)
         /\ stage \notin {"use", "wait"} => ~ Spawned(cur)
         /\ Ahead(c) => ~ Spawned(c) /\ c # cur
BY DEF TypeOK, Spawned, Ahead, Child

\* When spawn() returns its child is behind the parent, and no other.
LEMMA ReturnFacts ==
  ASSUME TypeOK, Return, stage \notin {"use", "wait"}
  PROVE  /\ act' = 0
         /\ stage' \in {"make", "use"}
         /\ cur' \in Child
         /\ \A c \in Child : /\ Spawned(c)' <=> Spawned(c) \/ c = cur
                             /\ Ahead(c)' => Ahead(c)
         /\ stage' = "make" => Ahead(cur')
BY SpawnAssumption DEF TypeOK, Return, Spawned, Ahead, Child

\* Steps that move neither the parent nor a child's end.
LEMMA StayPosition ==
  ASSUME TypeOK, Position, ChildEnds,
         UNCHANGED <<job, stage, cur, act>>,
         \A c \in Child : pc[c] = "unborn" => pc'[c] = "unborn",
         \A c \in Child :
           /\ made[c] = <<>> => made'[c] = <<>>
           /\ Len(made'[c]) = Len(made[c])
           /\ DOMAIN made'[c] = DOMAIN made[c]
           /\ \A k \in DOMAIN made[c] : made'[c][k].child = made[c][k].child
  PROVE  Position' /\ ChildEnds'
<1>1. \A c \in Child : (Spawned(c)' <=> Spawned(c)) /\ (Ahead(c)' <=> Ahead(c))
  BY DEF Spawned, Ahead
<1>2. cur \in Child /\ cur' = cur /\ stage' = stage /\ act' = act /\ job' = job
  BY DEF TypeOK
<1>3. Position'
  BY <1>1, <1>2 DEF Position
<1>4. ChildEnds'
  BY <1>1, <1>2 DEF ChildEnds
<1> QED
  BY <1>3, <1>4

LEMMA MakePosition ==
  ASSUME TypeOK, Position, ChildEnds, Make
  PROVE  Position' /\ ChildEnds'
<1>1. /\ cur \in Child /\ stage = "make" /\ act < Len(job[cur])
      /\ act' = act + 1 /\ UNCHANGED <<job, stage, cur, pc>>
  BY DEF Make, TypeOK, childVars
<1>2. \A c \in Child : (Spawned(c)' <=> Spawned(c)) /\ (Ahead(c)' <=> Ahead(c))
  BY <1>1 DEF Spawned, Ahead
<1>3. PICK x \in Action :
        x.child # None /\ made' = [made EXCEPT ![cur] = Append(@, x)]
  <2> DEFINE a == job[cur][act + 1]
  <2>1. act + 1 \in 1 .. Len(job[cur]) /\ a \in [kind : Kinds, fdno : Fileno]
    <3>1. job \in [Child -> Jobs] /\ act \in Nat
      BY DEF TypeOK
    <3>2. act + 1 \in 1 .. Len(job[cur])
      BY <1>1, <3>1, JobFacts
    <3> QED
      BY <1>1, <3>1, <3>2, JobFacts
  <2>2. ASSUME MakeFile
        PROVE  \E x \in Action :
                 x.child # None /\ made' = [made EXCEPT ![cur] = Append(@, x)]
    <3> DEFINE new(n) == [kind |-> "file", fdno |-> a.fdno, child |-> n, parent |-> None]
    <3>1. PICK n \in Fileno : made' = [made EXCEPT ![cur] = Append(@, new(n))]
      BY <2>2 DEF MakeFile
    <3>2. new(n) \in Action /\ new(n).child # None
      BY <2>1, TableFacts DEF Action, Kinds
    <3> HIDE DEF new
    <3> QED
      BY <3>1, <3>2
  <2>3. ASSUME MakePipe
        PROVE  \E x \in Action :
                 x.child # None /\ made' = [made EXCEPT ![cur] = Append(@, x)]
    <3> DEFINE reads == a.kind = "read_pipe"
               new(m, n) == [kind |-> a.kind, fdno |-> a.fdno,
                             child  |-> IF reads THEN m ELSE n,
                             parent |-> IF reads THEN n ELSE m]
    <3>1. PICK m \in Fileno, n \in Fileno :
            made' = [made EXCEPT ![cur] = Append(@, new(m, n))]
      BY <2>3 DEF MakePipe
    <3>2. new(m, n) \in Action /\ new(m, n).child # None
      BY <2>1, TableFacts DEF Action
    <3> HIDE DEF new
    <3> QED
      BY <3>1, <3>2
  <2> QED
    BY <2>2, <2>3 DEF Make
<1>4. /\ made \in [Child -> Seq(Action)] /\ made[cur] \in Seq(Action)
      /\ DOMAIN made[cur] = 1 .. Len(made[cur]) /\ Len(made[cur]) = act /\ act \in Nat
  BY <1>1, ActionFacts DEF TypeOK, Position
<1>5. /\ \A c \in Child : c # cur => made'[c] = made[c]
      /\ made'[cur] = Append(made[cur], x)
  BY <1>1, <1>3, <1>4
<1>6. /\ Len(made'[cur]) = act + 1
      /\ \A k \in 1 .. act : made'[cur][k] = made[cur][k]
      /\ made'[cur][act + 1] = x
      /\ DOMAIN made'[cur] = 1 .. act + 1
  BY <1>4, <1>5, AppendProperties
<1>7. ~ Spawned(cur) /\ ~ Ahead(cur) /\ Len(job[cur]) \in Nat
  BY <1>1, WhichChild, JobFacts DEF TypeOK
<1>8. Position'
  BY <1>1, <1>2, <1>4, <1>5, <1>6, <1>7 DEF Position
<1>9. \A k \in DOMAIN made'[cur] : made'[cur][k].child # None
  BY <1>1, <1>3, <1>4, <1>6 DEF ChildEnds
<1>10. ChildEnds'
  BY <1>1, <1>2, <1>5, <1>7, <1>9 DEF ChildEnds
<1> QED
  BY <1>8, <1>10

LEMMA ForkPosition ==
  ASSUME TypeOK, Position, ChildEnds, Fork
  PROVE  Position' /\ ChildEnds'
<1>1. /\ cur \in Child /\ stage = "make" /\ act = Len(job[cur])
      /\ act' = 0 /\ stage' = "parent" /\ UNCHANGED <<job, cur, made>>
  BY DEF Fork, TypeOK
<1>2. \A c \in Child : (Spawned(c)' <=> Spawned(c)) /\ (Ahead(c)' <=> Ahead(c))
  BY <1>1 DEF Spawned, Ahead
<1>3. \A c \in Child : c # cur => pc'[c] = pc[c]
  BY DEF Fork, TypeOK
<1>4. ~ Spawned(cur) /\ ~ Ahead(cur) /\ Len(job[cur]) \in Nat
  BY <1>1, WhichChild, JobFacts DEF TypeOK
<1>5. Position'
  BY <1>1, <1>2, <1>3, <1>4 DEF Position
<1>6. \A k \in DOMAIN made[cur] : ~ k <= act' /\ made[cur][k].child # None
  BY <1>1, MadeFacts DEF ChildEnds
<1>7. ChildEnds'
  BY <1>1, <1>2, <1>6 DEF ChildEnds
<1> QED
  BY <1>5, <1>7

LEMMA AbandonPosition ==
  ASSUME TypeOK, Position, ChildEnds, Abandon, stage = "make"
  PROVE  Position' /\ ChildEnds'
<1>1. /\ cur \in Child /\ job' = job
      /\ made'[cur] = <<>> /\ \A c \in Child : c # cur => made'[c] = made[c]
      /\ \A c \in Child : c # cur => pc'[c] = pc[c]
  BY DEF Abandon, TypeOK
<1>2. /\ act' = 0 /\ stage' \in {"make", "use"} /\ cur' \in Child
      /\ \A c \in Child : /\ Spawned(c)' <=> Spawned(c) \/ c = cur
                          /\ Ahead(c)' => Ahead(c)
      /\ stage' = "make" => Ahead(cur')
  BY ReturnFacts DEF Abandon
<1>3. /\ \A c \in Child : Ahead(c) => ~ Spawned(c) /\ c # cur
      /\ \A c \in Child : Len(job[c]) \in Nat
      /\ Len(<<>>) = 0 /\ DOMAIN <<>> = {}
  BY WhichChild, JobFacts DEF TypeOK
<1>4. Position'
  BY <1>1, <1>2, <1>3 DEF Position
<1>5. ChildEnds'
  BY <1>1, <1>2, <1>3 DEF ChildEnds, Position
<1> QED
  BY <1>4, <1>5

LEMMA SpawnReturnsPosition ==
  ASSUME TypeOK, Position, ChildEnds, SpawnReturns
  PROVE  Position' /\ ChildEnds'
<1>1. /\ cur \in Child /\ stage = "parent" /\ act = Len(job[cur])
      /\ UNCHANGED <<job, made, pc>>
  BY DEF SpawnReturns, TypeOK, childVars
<1>2. /\ act' = 0 /\ stage' \in {"make", "use"} /\ cur' \in Child
      /\ \A c \in Child : /\ Spawned(c)' <=> Spawned(c) \/ c = cur
                          /\ Ahead(c)' => Ahead(c)
      /\ stage' = "make" => Ahead(cur')
  BY <1>1, ReturnFacts DEF SpawnReturns
<1>3. /\ \A c \in Child : Ahead(c) => ~ Spawned(c) /\ c # cur
      /\ \A c \in Child : Len(job[c]) \in Nat
      /\ Len(<<>>) = 0 /\ DOMAIN <<>> = {}
  BY WhichChild, JobFacts DEF TypeOK
<1>4. Position'
  BY <1>1, <1>2, <1>3 DEF Position
<1>5. \A k \in DOMAIN made[cur] : k <= act
  BY <1>1, MadeFacts
<1>6. ChildEnds'
  BY <1>1, <1>2, <1>3, <1>5 DEF ChildEnds, Position
<1> QED
  BY <1>4, <1>6

\* The step sets one descriptor of an action object to None.
NoChild(c, k) == made' = [made EXCEPT ![c][k].child = None]

NoParent(c, k) == made' = [made EXCEPT ![c][k].parent = None]

\* What is left of the action objects when a child's end is closed.
LEMMA NoChildFacts ==
  ASSUME TypeOK, NEW c \in Child, NEW k \in DOMAIN made[c], NoChild(c, k)
  PROVE  /\ made'[c][k].child = None
         /\ \A d \in Child :
              /\ Len(made'[d]) = Len(made[d])
              /\ DOMAIN made'[d] = DOMAIN made[d]
              /\ made[d] = <<>> => made'[d] = <<>>
              /\ \A l \in DOMAIN made[d] :
                   /\ made'[d][l].kind = made[d][l].kind
                   /\ made'[d][l].fdno = made[d][l].fdno
                   /\ made'[d][l].parent = made[d][l].parent
                   /\ d # c \/ l # k => made'[d][l].child = made[d][l].child
<1>1. /\ made \in [Child -> Seq(Action)] /\ made[c] \in Seq(Action)
      /\ DOMAIN made[c] = 1 .. Len(made[c]) /\ k \in 1 .. Len(made[c])
      /\ made[c][k] \in Action
  BY ActionFacts DEF TypeOK
<1> DEFINE x == [made[c][k] EXCEPT !.child = None]
           s == [made[c] EXCEPT ![k] = x]
<1>2. /\ x \in Action /\ x.kind = made[c][k].kind /\ x.fdno = made[c][k].fdno
      /\ x.child = None /\ x.parent = made[c][k].parent
  BY <1>1 DEF Action
<1>3. made' = [made EXCEPT ![c] = s]
  BY <1>1 DEF NoChild
<1> HIDE DEF x
<1>4. /\ Len(s) = Len(made[c])
      /\ DOMAIN s = DOMAIN made[c]
      /\ \A l \in DOMAIN made[c] : s[l] = IF l = k THEN x ELSE made[c][l]
  BY <1>1, <1>2, ExceptSeq
<1> HIDE DEF s
<1>5. \A d \in Child : made'[d] = IF d = c THEN s ELSE made[d]
  BY <1>1, <1>3
<1>6. made[c] # <<>>
  BY <1>1
<1> QED
  BY <1>2, <1>4, <1>5, <1>6

\* And when a parent's end is.
LEMMA NoParentFacts ==
  ASSUME TypeOK, NEW c \in Child, NEW k \in DOMAIN made[c], NoParent(c, k)
  PROVE  /\ made'[c][k].parent = None
         /\ \A d \in Child :
              /\ Len(made'[d]) = Len(made[d])
              /\ DOMAIN made'[d] = DOMAIN made[d]
              /\ made[d] = <<>> => made'[d] = <<>>
              /\ \A l \in DOMAIN made[d] :
                   /\ made'[d][l].kind = made[d][l].kind
                   /\ made'[d][l].fdno = made[d][l].fdno
                   /\ made'[d][l].child = made[d][l].child
                   /\ d # c \/ l # k => made'[d][l].parent = made[d][l].parent
<1>1. /\ made \in [Child -> Seq(Action)] /\ made[c] \in Seq(Action)
      /\ DOMAIN made[c] = 1 .. Len(made[c]) /\ k \in 1 .. Len(made[c])
      /\ made[c][k] \in Action
  BY ActionFacts DEF TypeOK
<1> DEFINE x == [made[c][k] EXCEPT !.parent = None]
           s == [made[c] EXCEPT ![k] = x]
<1>2. /\ x \in Action /\ x.kind = made[c][k].kind /\ x.fdno = made[c][k].fdno
      /\ x.parent = None /\ x.child = made[c][k].child
  BY <1>1 DEF Action
<1>3. made' = [made EXCEPT ![c] = s]
  BY <1>1 DEF NoParent
<1> HIDE DEF x
<1>4. /\ Len(s) = Len(made[c])
      /\ DOMAIN s = DOMAIN made[c]
      /\ \A l \in DOMAIN made[c] : s[l] = IF l = k THEN x ELSE made[c][l]
  BY <1>1, <1>2, ExceptSeq
<1> HIDE DEF s
<1>5. \A d \in Child : made'[d] = IF d = c THEN s ELSE made[d]
  BY <1>1, <1>3
<1>6. made[c] # <<>>
  BY <1>1
<1> QED
  BY <1>2, <1>4, <1>5, <1>6

LEMMA RunInParentPosition ==
  ASSUME TypeOK, Position, ChildEnds, Held, RunInParent
  PROVE  Position' /\ ChildEnds'
<1>1. /\ cur \in Child /\ stage = "parent" /\ act < Len(job[cur]) /\ act \in Nat
      /\ act' = act + 1 /\ UNCHANGED <<job, cur, pc>>
      /\ made' = [made EXCEPT ![cur][act + 1].child = None]
      /\ stage' = IF made[cur][act + 1].kind = "capture" THEN "capture" ELSE "parent"
  BY DEF RunInParent, TypeOK, childVars
<1>2. /\ DOMAIN made[cur] = 1 .. Len(made[cur]) /\ Len(made[cur]) = Len(job[cur])
      /\ Len(job[cur]) \in Nat /\ act + 1 \in DOMAIN made[cur]
  BY <1>1, MadeFacts, JobFacts DEF Position, TypeOK
<1>3. \A d \in Child :
           /\ Len(made'[d]) = Len(made[d])
           /\ DOMAIN made'[d] = DOMAIN made[d]
           /\ made[d] = <<>> => made'[d] = <<>>
           /\ \A l \in DOMAIN made[d] :
                made'[d][l].child = IF d = cur /\ l = act + 1 THEN None ELSE made[d][l].child
  <2>1. PICK c \in Child, k \in DOMAIN made[cur] : c = cur /\ k = act + 1
    BY <1>1, <1>2
  <2>2. NoChild(c, k) /\ k \in DOMAIN made[c]
    BY <1>1, <2>1 DEF NoChild
  <2>3. /\ made'[c][k].child = None
        /\ \A d \in Child :
             /\ Len(made'[d]) = Len(made[d])
             /\ DOMAIN made'[d] = DOMAIN made[d]
             /\ made[d] = <<>> => made'[d] = <<>>
             /\ \A l \in DOMAIN made[d] :
                  d # c \/ l # k => made'[d][l].child = made[d][l].child
    BY <2>2, NoChildFacts
  <2> QED
    BY <2>1, <2>3
<1>4. \A c \in Child : (Spawned(c)' <=> Spawned(c)) /\ (Ahead(c)' <=> Ahead(c))
  BY <1>1 DEF Spawned, Ahead
<1>5. ~ Spawned(cur) /\ ~ Ahead(cur)
  BY <1>1, WhichChild
<1>6. made[cur][act + 1].kind = job[cur][act + 1].kind
  BY <1>1, <1>2 DEF Held
<1>7. Position'
  BY <1>1, <1>2, <1>3, <1>4, <1>5, <1>6 DEF Position
<1>8. \A k \in DOMAIN made[cur] : made'[cur][k].child = None <=> k <= act + 1
  BY <1>1, <1>2, <1>3 DEF ChildEnds
<1>9. ChildEnds'
  BY <1>1, <1>3, <1>4, <1>5, <1>8 DEF ChildEnds
<1> QED
  BY <1>7, <1>9

LEMMA CaptureEndsPosition ==
  ASSUME TypeOK, Position, ChildEnds, CaptureEnds
  PROVE  Position' /\ ChildEnds'
<1>1. /\ stage = "capture" /\ stage' = "parent"
      /\ UNCHANGED <<job, cur, act, made, pc>>
  BY DEF CaptureEnds, childVars
<1>2. \A c \in Child : (Spawned(c)' <=> Spawned(c)) /\ (Ahead(c)' <=> Ahead(c))
  BY <1>1 DEF Spawned, Ahead
<1> QED
  BY <1>1, <1>2 DEF Position, ChildEnds

\* A child that is waited for has its actions, or lost them all.
LEMMA WaitPosition ==
  ASSUME TypeOK, Position, ChildEnds, NEW c \in Child, Wait(c)
  PROVE  Position' /\ ChildEnds'
<1>1. /\ stage = "use" /\ stage' = "wait" /\ cur' = c
      /\ UNCHANGED <<job, act, made, pc>>
  BY DEF Wait, childVars
<1>2. \A d \in Child : Spawned(d)' /\ Spawned(d) /\ ~ Ahead(d)'
  BY <1>1 DEF Spawned, Ahead
<1>3. act = 0 /\ \A d \in Child : Len(job[d]) \in Nat
  BY <1>1, JobFacts DEF Position, TypeOK
<1>4. Position'
  BY <1>1, <1>2, <1>3 DEF Position
<1>5. ChildEnds'
  BY <1>1, <1>2 DEF ChildEnds
<1> QED
  BY <1>4, <1>5

LEMMA WaitReturnsPosition ==
  ASSUME TypeOK, Position, ChildEnds, WaitReturns
  PROVE  Position' /\ ChildEnds'
<1>1. /\ stage = "wait" /\ stage' = "use"
      /\ UNCHANGED <<job, cur, act>>
      /\ made'[cur] = <<>> /\ \A d \in Child : d # cur => made'[d] = made[d]
  BY DEF WaitReturns, TypeOK
<1>2. \A d \in Child : Spawned(d)' /\ Spawned(d) /\ ~ Ahead(d)'
  BY <1>1 DEF Spawned, Ahead
<1>3. Position'
  BY <1>1, <1>2 DEF Position
<1>4. ChildEnds'
  BY <1>1, <1>2 DEF ChildEnds
<1> QED
  BY <1>3, <1>4

LEMMA CloseParentFdPosition ==
  ASSUME TypeOK, Position, ChildEnds,
         NEW c \in Child, NEW k \in DOMAIN made[c], CloseParentFd(c, k)
  PROVE  Position' /\ ChildEnds'
<1>1. /\ NoParent(c, k)
      /\ UNCHANGED <<job, stage, cur, act, pc>>
  BY DEF CloseParentFd, childVars, NoParent
<1>2. \A d \in Child :
           /\ Len(made'[d]) = Len(made[d])
           /\ DOMAIN made'[d] = DOMAIN made[d]
           /\ made[d] = <<>> => made'[d] = <<>>
           /\ \A l \in DOMAIN made[d] : made'[d][l].child = made[d][l].child
  BY <1>1, NoParentFacts
<1> QED
  BY <1>1, <1>2, StayPosition

\* Every step leaves the parent where it may be.
LEMMA PositionStep ==
  ASSUME TypeOK, Position, ChildEnds, Held, CopyHolds, [Next]_vars
  PROVE  Position' /\ ChildEnds'
<1>1. CASE Make
  BY <1>1, MakePosition
<1>2. CASE MakeFails \/ ForkFails
  BY <1>2, AbandonPosition DEF MakeFails, ForkFails
<1>3. CASE Fork
  BY <1>3, ForkPosition
<1>4. CASE RunInParent
  BY <1>4, RunInParentPosition
<1>5. CASE SpawnReturns
  BY <1>5, SpawnReturnsPosition
<1>6. CASE CaptureEnds
  BY <1>6, CaptureEndsPosition
<1>7. CASE \E c \in Child : Wait(c)
  BY <1>7, WaitPosition
<1>8. CASE WaitReturns
  BY <1>8, WaitReturnsPosition
<1>9. CASE \E c \in Child : \E k \in DOMAIN made[c] : CloseFed(c, k) \/ CloseDrained(c, k)
  BY <1>9, CloseParentFdPosition DEF CloseFed, CloseDrained
<1>10. CASE \/ CaptureRead
            \/ \E c \in Child : \E k \in DOMAIN made[c] : Feed(c, k) \/ Drain(c, k)
            \/ \E c \in Child : ChildNext(c)
            \/ UNCHANGED vars
  <2>1. UNCHANGED <<job, stage, cur, act, made>>
    <3>1. CASE CaptureRead
      BY <3>1 DEF CaptureRead
    <3>2. CASE \E c \in Child : \E k \in DOMAIN made[c] : Feed(c, k) \/ Drain(c, k)
      BY <3>2 DEF Feed, Drain
    <3>3. CASE \E c \in Child : ChildNext(c)
      BY <3>3 DEF ChildNext, RunInChild, Exec, ExecFails, Exit, Read, Write, parentVars
    <3>4. CASE UNCHANGED vars
      BY <3>4 DEF vars, parentVars
    <3> QED
      BY <1>10, <3>1, <3>2, <3>3, <3>4
  <2>2. \A c \in Child : pc[c] = "unborn" => pc'[c] = "unborn"
    <3>1. CASE \E d \in Child : ChildNext(d)
      BY <3>1
      DEF ChildNext, RunInChild, Exec, ExecFails, Exit, Read, Write, Gone, TypeOK
    <3>2. CASE UNCHANGED pc
      BY <3>2
    <3> QED
      BY <1>10, <3>1, <3>2 DEF CaptureRead, Feed, Drain, childVars, vars
  <2> QED
    BY <2>1, <2>2, StayPosition
<1> QED
  BY <1>1, <1>2, <1>3, <1>4, <1>5, <1>6, <1>7, <1>8, <1>9, <1>10 DEF Next, ParentNext

----------------------------------------------------------------------------
(* Who holds the descriptors of the parent *)

\* The descriptors of an action object are numbers of its own pipe or file.
LEMMA HeldFacts ==
  ASSUME TypeOK, Position, Held, NEW c \in Child, NEW k \in DOMAIN made[c],
         NEW n \in Fileno, n \in {made[c][k].child, made[c][k].parent}
  PROVE  /\ \A r : IsOf(table[Parent][n], r) <=> r = <<c, k>>
         /\ table[Parent][n] # None /\ table[Parent][n] # [what |-> "std"]
<1>1. <<c, k>> \in Id
  BY MadeFacts
<1>2. n # None
  BY TableFacts
<1>3. table[Parent][n] = ChildEnd(<<c, k>>) \/ table[Parent][n] = ParentEnd(<<c, k>>)
  BY <1>2 DEF Held
<1>4. ASSUME NEW r
      PROVE  /\ IsOf(ChildEnd(<<c, k>>), r) <=> r = <<c, k>>
             /\ IsOf(ParentEnd(<<c, k>>), r) <=> r = <<c, k>>
  BY <1>1, EndFacts
<1>5. \A r : IsOf(table[Parent][n], r) <=> r = <<c, k>>
  BY <1>3, <1>4
<1>6. IsOf(table[Parent][n], <<c, k>>)
  BY <1>5
<1> QED
  BY <1>5, <1>6 DEF IsOf

\* No number is held by two action objects, nor twice by one.
LEMMA HeldOnce ==
  ASSUME TypeOK, Position, Held,
         NEW c \in Child, NEW k \in DOMAIN made[c],
         NEW d \in Child, NEW l \in DOMAIN made[d],
         NEW n \in Fileno,
         n \in {made[c][k].child, made[c][k].parent},
         n \in {made[d][l].child, made[d][l].parent}
  PROVE  /\ c = d /\ k = l
         /\ n = made[c][k].child => n # made[c][k].parent
<1>1. IsOf(table[Parent][n], <<c, k>>) /\ IsOf(table[Parent][n], <<d, l>>)
  BY HeldFacts
<1>2. <<c, k>> = <<d, l>>
  BY <1>1, HeldFacts
<1>3. <<c, k>> \in Id /\ ActionOf(<<c, k>>) = job[c][k]
  BY MadeFacts DEF ActionOf
<1>4. ASSUME n = made[c][k].child, n = made[c][k].parent
      PROVE  FALSE
  <2>1. n # None
    BY TableFacts
  <2>2. made[c][k].kind # "file" /\ made[c][k].kind = job[c][k].kind
    BY <1>4, <2>1 DEF Held
  <2>3. /\ table[Parent][n] = ChildEnd(<<c, k>>)
        /\ table[Parent][n] = ParentEnd(<<c, k>>)
    BY <1>4, <2>1 DEF Held
  <2>4. ChildEnd(<<c, k>>) # ParentEnd(<<c, k>>)
    BY <1>3, <2>2, EndFacts
  <2> QED
    BY <2>3, <2>4
<1> QED
  BY <1>2, <1>4

\* The ends of a pipe are what they were as long as the jobs are.
LEMMA EndsStay ==
  ASSUME job' = job, NEW q
  PROVE  ChildEnd(q)' = ChildEnd(q) /\ ParentEnd(q)' = ParentEnd(q)
BY DEF ChildEnd, ParentEnd, ActionOf, ReadEnd, WriteEnd

\* Steps that leave the parent's descriptors alone.
LEMMA StayHeld ==
  ASSUME Held, Holder, StdOpen,
         job' = job, made' = made, table'[Parent] = table[Parent]
  PROVE  Held' /\ Holder' /\ StdOpen'
<1>1. Held'
  BY EndsStay DEF Held
<1>2. Holder'
  BY DEF Holder, IsOf
<1>3. StdOpen'
  BY DEF StdOpen
<1> QED
  BY <1>1, <1>2, <1>3

\* Steps that close descriptors of action objects, and let go of exactly those.
LEMMA CloseHeld ==
  ASSUME TypeOK, Position, Held, Holder, StdOpen,
         job' = job,
         NEW R \in SUBSET Fileno,
         \A n \in Fileno :
           table'[Parent][n] = IF n \in R THEN None ELSE table[Parent][n],
         \A n \in R : \E c \in Child : \E k \in DOMAIN made[c] :
           n \in {made[c][k].child, made[c][k].parent},
         \A c \in Child : \A k \in DOMAIN made'[c] :
           /\ k \in DOMAIN made[c]
           /\ made'[c][k].kind = made[c][k].kind
           /\ made'[c][k].fdno = made[c][k].fdno
           /\ made'[c][k].child # None =>
                made'[c][k].child = made[c][k].child /\ made[c][k].child \notin R
           /\ made'[c][k].parent # None =>
                made'[c][k].parent = made[c][k].parent /\ made[c][k].parent \notin R,
         \A c \in Child : \A k \in DOMAIN made[c] : \A n \in Fileno \ R :
           n \in {made[c][k].child, made[c][k].parent} =>
             k \in DOMAIN made'[c] /\ n \in {made'[c][k].child, made'[c][k].parent}
  PROVE  Held' /\ Holder' /\ StdOpen'
<1>1. ASSUME NEW c \in Child, NEW k \in DOMAIN made'[c]
      PROVE  /\ made'[c][k].kind = job'[c][k].kind
             /\ made'[c][k].fdno = job'[c][k].fdno
             /\ made'[c][k].child # None =>
                  table'[Parent][made'[c][k].child] = ChildEnd(<<c, k>>)'
             /\ made'[c][k].parent # None =>
                  /\ made'[c][k].kind # "file"
                  /\ table'[Parent][made'[c][k].parent] = ParentEnd(<<c, k>>)'
  <2>1. k \in DOMAIN made[c]
    BY <1>1
  <2>2. /\ made[c][k].child \in Fileno \cup {None}
        /\ made[c][k].parent \in Fileno \cup {None}
    BY <2>1, MadeFacts
  <2> QED
    BY <1>1, <2>1, <2>2, EndsStay DEF Held
<1>2. Held'
  BY <1>1 DEF Held
<1>3. ASSUME NEW c \in Child, NEW k \in Nat, NEW n \in Fileno,
             IsOf(table'[Parent][n], <<c, k>>)
      PROVE  k \in DOMAIN made'[c] /\ n \in {made'[c][k].child, made'[c][k].parent}
  <2>1. n \notin R /\ IsOf(table[Parent][n], <<c, k>>)
    BY <1>3 DEF IsOf
  <2>2. k \in DOMAIN made[c] /\ n \in {made[c][k].child, made[c][k].parent}
    BY <2>1 DEF Holder
  <2> QED
    BY <2>1, <2>2
<1>4. Holder'
  BY <1>3 DEF Holder, IsOf
<1>5. ASSUME NEW n \in Fileno, n <= 2
      PROVE  table'[Parent][n] = [what |-> "std"]
  <2>1. table[Parent][n] = [what |-> "std"]
    BY <1>5 DEF StdOpen
  <2>2. n \notin R
    BY <2>1, HeldFacts
  <2> QED
    BY <2>1, <2>2
<1>6. StdOpen'
  BY <1>5 DEF StdOpen
<1> QED
  BY <1>2, <1>4, <1>6

\* A step that makes an action object x from numbers that are free.
LEMMA MakeHeld ==
  ASSUME TypeOK, Position, Held, Holder, StdOpen,
         job' = job, stage = "make", act < Len(job[cur]),
         NEW x \in Action,
         made' = [made EXCEPT ![cur] = Append(@, x)],
         x.kind = job[cur][act + 1].kind, x.fdno = job[cur][act + 1].fdno,
         \A n \in Fileno :
           IF n \in {x.child, x.parent} THEN table[Parent][n] = None
           ELSE table'[Parent][n] = table[Parent][n],
         x.child \in Fileno,
         table'[Parent][x.child] = ChildEnd(<<cur, act + 1>>),
         x.parent # None => /\ x.kind # "file"
                            /\ table'[Parent][x.parent] = ParentEnd(<<cur, act + 1>>)
  PROVE  Held' /\ Holder' /\ StdOpen'
<1> DEFINE i == act + 1
           q == <<cur, i>>
<1>1. cur \in Child /\ made \in [Child -> Seq(Action)] /\ act \in Nat /\ i \in Nat
  BY DEF TypeOK
<1>2. q \in Id
  BY <1>1, JobFacts DEF TypeOK
<1>3. /\ made[cur] \in Seq(Action) /\ Len(made[cur]) = act
      /\ DOMAIN made[cur] = 1 .. act
  BY <1>1, MadeFacts DEF Position
<1>4. /\ \A c \in Child : c # cur => made'[c] = made[c]
      /\ made'[cur] = Append(made[cur], x)
  BY <1>1
<1>5. /\ DOMAIN made'[cur] = 1 .. i
      /\ \A k \in 1 .. act : made'[cur][k] = made[cur][k]
      /\ made'[cur][i] = x
  BY <1>1, <1>3, <1>4, AppendProperties
<1>6. x.parent \in Fileno \cup {None} /\ None \notin Fileno
  BY TableFacts DEF Action
<1>7. \A c \in Child : \A k \in DOMAIN made[c] :
        k \in DOMAIN made'[c] /\ made'[c][k] = made[c][k]
  BY <1>1, <1>3, <1>4, <1>5
<1>8. \A c \in Child : \A k \in DOMAIN made'[c] :
        k \in DOMAIN made[c] \/ (c = cur /\ k = i)
  BY <1>1, <1>3, <1>4, <1>5
<1>9. ASSUME NEW c \in Child, NEW k \in DOMAIN made[c]
      PROVE  /\ made[c][k].child # None =>
                  table'[Parent][made[c][k].child] = table[Parent][made[c][k].child]
             /\ made[c][k].parent # None =>
                  table'[Parent][made[c][k].parent] = table[Parent][made[c][k].parent]
  <2>1. /\ made[c][k].child \in Fileno \cup {None}
        /\ made[c][k].parent \in Fileno \cup {None}
    BY MadeFacts
  <2>2. /\ made[c][k].child \in Fileno => table[Parent][made[c][k].child] # None
        /\ made[c][k].parent \in Fileno => table[Parent][made[c][k].parent] # None
    BY HeldFacts
  <2> QED
    BY <2>1, <2>2
<1>10. ASSUME NEW c \in Child, NEW k \in DOMAIN made'[c]
       PROVE  /\ made'[c][k].kind = job'[c][k].kind
              /\ made'[c][k].fdno = job'[c][k].fdno
              /\ made'[c][k].child # None =>
                   table'[Parent][made'[c][k].child] = ChildEnd(<<c, k>>)'
              /\ made'[c][k].parent # None =>
                   /\ made'[c][k].kind # "file"
                   /\ table'[Parent][made'[c][k].parent] = ParentEnd(<<c, k>>)'
  <2>1. CASE k \in DOMAIN made[c]
    BY <1>7, <1>9, <2>1, EndsStay DEF Held
  <2>2. CASE c = cur /\ k = i
    BY <1>5, <2>2, EndsStay
  <2> QED
    BY <1>8, <1>10, <2>1, <2>2
<1>11. Held'
  BY <1>10 DEF Held
<1>12. ASSUME NEW c \in Child, NEW k \in Nat, NEW n \in Fileno,
              IsOf(table'[Parent][n], <<c, k>>)
       PROVE  k \in DOMAIN made'[c] /\ n \in {made'[c][k].child, made'[c][k].parent}
  <2>1. CASE n \in {x.child, x.parent}
    <3>0. table'[Parent][n] = ChildEnd(q) \/ table'[Parent][n] = ParentEnd(q)
      BY <1>6, <2>1
    <3>1. <<c, k>> = q
      <4>1. IsOf(ChildEnd(q), <<c, k>>) \/ IsOf(ParentEnd(q), <<c, k>>)
        BY <1>12, <3>0
      <4> HIDE DEF q
      <4> QED
        BY <1>2, <4>1, EndFacts
    <3>2. c = cur /\ k = i
      BY <3>1
    <3> QED
      BY <1>1, <1>5, <2>1, <3>2
  <2>2. CASE n \notin {x.child, x.parent}
    <3>1. IsOf(table[Parent][n], <<c, k>>)
      BY <1>12, <2>2
    <3> QED
      BY <1>7, <3>1 DEF Holder
  <2> QED
    BY <2>1, <2>2
<1>13. Holder'
  BY <1>12 DEF Holder, IsOf
<1>14. ASSUME NEW n \in Fileno, n <= 2
       PROVE  table'[Parent][n] = [what |-> "std"]
  <2>1. table[Parent][n] = [what |-> "std"] /\ [what |-> "std"] \in File
    BY <1>14 DEF StdOpen, File
  <2>2. table[Parent][n] # None
    BY <2>1, TableFacts
  <2> QED
    BY <2>1, <2>2
<1>15. StdOpen'
  BY <1>14 DEF StdOpen
<1> QED
  BY <1>11, <1>13, <1>15

\* Which end is whose, by the kind of the action.
LEMMA EndKinds ==
  ASSUME NEW q
  PROVE  /\ ActionOf(q).kind = "file" => ChildEnd(q) = [what |-> "file", id |-> q]
         /\ ActionOf(q).kind = "read_pipe" =>
              ChildEnd(q) = ReadEnd(q) /\ ParentEnd(q) = WriteEnd(q)
         /\ ActionOf(q).kind \notin {"file", "read_pipe"} =>
              ChildEnd(q) = WriteEnd(q) /\ ParentEnd(q) = ReadEnd(q)
BY DEF ChildEnd, ParentEnd, ReadEnd, WriteEnd

LEMMA MakeHolds ==
  ASSUME TypeOK, Position, Held, Holder, StdOpen, Make
  PROVE  Held' /\ Holder' /\ StdOpen'
<1> DEFINE i == act + 1
           a == job[cur][i]
           q == <<cur, i>>
<1>1. /\ cur \in Child /\ act \in Nat /\ job' = job
      /\ stage = "make" /\ act < Len(job[cur])
      /\ table \in [Process -> [Fileno -> File \cup {None}]]
  BY DEF TypeOK, Make
<1>2. i \in 1 .. Len(job[cur]) /\ job \in [Child -> Jobs]
  BY <1>1, JobFacts DEF TypeOK
<1>3. a \in [kind : Kinds, fdno : Fileno] /\ q \in Id /\ ActionOf(q) = a
  BY <1>1, <1>2, JobFacts DEF ActionOf
<1>4. None \notin File /\ None \notin Fileno /\ Parent \in Process
  BY TableFacts
<1>5. ASSUME MakeFile
      PROVE  Held' /\ Holder' /\ StdOpen'
  <2> DEFINE new(n) == [kind |-> "file", fdno |-> a.fdno, child |-> n, parent |-> None]
  <2>1. PICK n \in Fileno :
          /\ table[Parent][n] = None
          /\ table' = [table EXCEPT ![Parent][n] = [what |-> "file", id |-> q]]
          /\ made' = [made EXCEPT ![cur] = Append(@, new(n))]
          /\ a.kind = "file"
    BY <1>5 DEF MakeFile, IsLowest
  <2>2. PICK x \in {new(n)} : x = new(n)
    OBVIOUS
  <2>3. /\ x \in Action /\ x.kind = "file" /\ x.fdno = a.fdno
        /\ x.child = n /\ x.parent = None
    BY <1>3, <2>2 DEF Action, Kinds
  <2>4. made' = [made EXCEPT ![cur] = Append(@, x)]
    BY <2>1, <2>2
  <2>5. \A l \in Fileno :
          table'[Parent][l] =
            IF l = n THEN [what |-> "file", id |-> q] ELSE table[Parent][l]
    BY <1>1, <1>4, <2>1
  <2>6. ChildEnd(q) = [what |-> "file", id |-> q]
    BY <1>3, <2>1, EndKinds
  <2> HIDE DEF new
  <2>7. \A l \in Fileno :
           IF l \in {x.child, x.parent} THEN table[Parent][l] = None
           ELSE table'[Parent][l] = table[Parent][l]
    BY <1>4, <2>1, <2>3, <2>5
  <2>8. table'[Parent][x.child] = ChildEnd(q)
    BY <2>3, <2>5, <2>6
  <2> QED
    BY <1>1, <2>1, <2>3, <2>4, <2>7, <2>8, MakeHeld
<1>6. ASSUME MakePipe
      PROVE  Held' /\ Holder' /\ StdOpen'
  <2> DEFINE reads == a.kind = "read_pipe"
             new(m, n) == [kind |-> a.kind, fdno |-> a.fdno,
                           child  |-> IF reads THEN m ELSE n,
                           parent |-> IF reads THEN n ELSE m]
  <2>1. PICK m \in Fileno, n \in Fileno :
          /\ table[Parent][m] = None
          /\ [table[Parent] EXCEPT ![m] = ReadEnd(q)][n] = None
          /\ table' = [table EXCEPT ![Parent][m] = ReadEnd(q), ![Parent][n] = WriteEnd(q)]
          /\ made' = [made EXCEPT ![cur] = Append(@, new(m, n))]
          /\ a.kind # "file"
    BY <1>6 DEF MakePipe, IsLowest
  <2>2. PICK x \in {new(m, n)} : x = new(m, n)
    OBVIOUS
  <2>3. /\ x \in Action /\ x.kind = a.kind /\ x.fdno = a.fdno
        /\ x.child = (IF reads THEN m ELSE n)
        /\ x.parent = (IF reads THEN n ELSE m)
    BY <1>3, <2>2 DEF Action
  <2>4. made' = [made EXCEPT ![cur] = Append(@, x)]
    BY <2>1, <2>2
  <2>5. n # m /\ table[Parent][n] = None
    <3>1. ReadEnd(q) # None
      BY <1>3, <1>4, EndFacts
    <3>2. table[Parent] \in [Fileno -> File \cup {None}]
      BY <1>1, <1>4
    <3> QED
      BY <2>1, <3>1, <3>2
  <2>6. \A l \in Fileno :
          table'[Parent][l] =
            IF l = m THEN ReadEnd(q) ELSE IF l = n THEN WriteEnd(q) ELSE table[Parent][l]
    BY <1>1, <1>4, <2>1, <2>5
  <2>7. IF reads THEN ChildEnd(q) = ReadEnd(q) /\ ParentEnd(q) = WriteEnd(q)
        ELSE ChildEnd(q) = WriteEnd(q) /\ ParentEnd(q) = ReadEnd(q)
    BY <1>3, <2>1, EndKinds
  <2> HIDE DEF new
  <2>8. \A l \in Fileno :
           IF l \in {x.child, x.parent} THEN table[Parent][l] = None
           ELSE table'[Parent][l] = table[Parent][l]
    BY <2>1, <2>3, <2>5, <2>6
  <2>9. /\ x.child \in Fileno
        /\ table'[Parent][x.child] = ChildEnd(q)
        /\ table'[Parent][x.parent] = ParentEnd(q)
    BY <2>3, <2>5, <2>6, <2>7
  <2> QED
    BY <1>1, <2>1, <2>3, <2>4, <2>8, <2>9, MakeHeld
<1> QED
  BY <1>5, <1>6 DEF Make

\* The program drops the actions for its present child.
LEMMA DropHolds ==
  ASSUME TypeOK, Position, Held, Holder, StdOpen, job' = job,
         table' = [table EXCEPT ![Parent] = Dropped(cur)],
         made' = [made EXCEPT ![cur] = <<>>]
  PROVE  Held' /\ Holder' /\ StdOpen'
<1>1. /\ cur \in Child
      /\ table \in [Process -> [Fileno -> File \cup {None}]] /\ Parent \in Process
      /\ made \in [Child -> Seq(Action)]
  BY TableFacts DEF TypeOK
<1>2. PICK R : R = {n \in Fileno : \E k \in DOMAIN made[cur] :
                      n \in {made[cur][k].child, made[cur][k].parent}}
  OBVIOUS
<1>3. \A n \in Fileno : table'[Parent][n] = IF n \in R THEN None ELSE table[Parent][n]
  BY <1>1, <1>2 DEF Dropped
<1>4. \A c \in Child : made'[c] = IF c = cur THEN <<>> ELSE made[c]
  BY <1>1
<1>5. R \in SUBSET Fileno
  BY <1>2
<1>6. \A n \in R : \E c \in Child : \E k \in DOMAIN made[c] :
        n \in {made[c][k].child, made[c][k].parent}
  BY <1>1, <1>2
<1>7. ASSUME NEW c \in Child, NEW k \in DOMAIN made'[c]
      PROVE  /\ k \in DOMAIN made[c] /\ made'[c][k] = made[c][k]
             /\ made[c][k].child # None => made[c][k].child \notin R
             /\ made[c][k].parent # None => made[c][k].parent \notin R
  <2>1. c # cur /\ made'[c] = made[c]
    BY <1>4, <1>7
  <2>2. \A n \in R : n \notin {made[c][k].child, made[c][k].parent}
    <3>1. ASSUME NEW n \in R, n \in {made[c][k].child, made[c][k].parent}
          PROVE  FALSE
      <4>1. PICK l \in DOMAIN made[cur] : n \in {made[cur][l].child, made[cur][l].parent}
        BY <1>2
      <4>2. n \in Fileno /\ k \in DOMAIN made[c]
        BY <1>2, <1>7, <2>1
      <4>3. c = cur
        BY <1>1, <3>1, <4>1, <4>2, HeldOnce
      <4> QED
        BY <2>1, <4>3
    <3> QED
      BY <3>1
  <2> QED
    BY <1>7, <2>1, <2>2
<1>8. ASSUME NEW c \in Child, NEW k \in DOMAIN made[c], NEW n \in Fileno \ R,
             n \in {made[c][k].child, made[c][k].parent}
      PROVE  k \in DOMAIN made'[c] /\ n \in {made'[c][k].child, made'[c][k].parent}
  BY <1>2, <1>4, <1>8
<1>9. \A c \in Child : \A k \in DOMAIN made'[c] :
           /\ k \in DOMAIN made[c]
           /\ made'[c][k].kind = made[c][k].kind
           /\ made'[c][k].fdno = made[c][k].fdno
           /\ made'[c][k].child # None =>
                made'[c][k].child = made[c][k].child /\ made[c][k].child \notin R
           /\ made'[c][k].parent # None =>
                made'[c][k].parent = made[c][k].parent /\ made[c][k].parent \notin R
  BY <1>7
<1>10. \A c \in Child : \A k \in DOMAIN made[c] : \A n \in Fileno \ R :
           n \in {made[c][k].child, made[c][k].parent} =>
             k \in DOMAIN made'[c] /\ n \in {made'[c][k].child, made'[c][k].parent}
  BY <1>8
<1> QED
  BY <1>3, <1>5, <1>6, <1>9, <1>10, CloseHeld

\* One descriptor of an action object is closed.
LEMMA CloseOneHolds ==
  ASSUME TypeOK, Position, Held, Holder, StdOpen, job' = job,
         NEW c \in Child, NEW k \in DOMAIN made[c], NEW n \in Fileno,
         table' = [table EXCEPT ![Parent] = Closed(@, n)],
         \/ NoChild(c, k) /\ n = made[c][k].child
         \/ NoParent(c, k) /\ n = made[c][k].parent
  PROVE  Held' /\ Holder' /\ StdOpen'
<1>1. /\ table \in [Process -> [Fileno -> File \cup {None}]]
      /\ Parent \in Process /\ n # None
  BY TableFacts DEF TypeOK
<1>2. PICK R : R = {n}
  OBVIOUS
<1>3. \A l \in Fileno : table'[Parent][l] = IF l \in R THEN None ELSE table[Parent][l]
  BY <1>1, <1>2 DEF Closed
<1>4. R \in SUBSET Fileno
  BY <1>2
<1>5. \A l \in R : \E d \in Child : \E j \in DOMAIN made[d] :
        l \in {made[d][j].child, made[d][j].parent}
  BY <1>2
<1>6. ASSUME NEW d \in Child
      PROVE  /\ DOMAIN made'[d] = DOMAIN made[d]
             /\ \A j \in DOMAIN made[d] :
                  /\ made'[d][j].kind = made[d][j].kind
                  /\ made'[d][j].fdno = made[d][j].fdno
                  /\ d # c \/ j # k => /\ made'[d][j].child = made[d][j].child
                                       /\ made'[d][j].parent = made[d][j].parent
  BY NoChildFacts, NoParentFacts
<1>7. \/ /\ n = made[c][k].child /\ made'[c][k].child = None
         /\ made'[c][k].parent = made[c][k].parent
      \/ /\ n = made[c][k].parent /\ made'[c][k].parent = None
         /\ made'[c][k].child = made[c][k].child
  BY NoChildFacts, NoParentFacts
<1>8. ASSUME NEW d \in Child, NEW j \in DOMAIN made[d], d # c \/ j # k
      PROVE  n \notin {made[d][j].child, made[d][j].parent}
  BY <1>8, HeldOnce
<1>9. made[c][k].child # made[c][k].parent
  BY HeldOnce
<1>10. ASSUME NEW d \in Child, NEW j \in DOMAIN made'[d]
       PROVE
           /\ j \in DOMAIN made[d]
           /\ made'[d][j].kind = made[d][j].kind
           /\ made'[d][j].fdno = made[d][j].fdno
           /\ made'[d][j].child # None =>
                made'[d][j].child = made[d][j].child /\ made[d][j].child \notin R
           /\ made'[d][j].parent # None =>
                made'[d][j].parent = made[d][j].parent /\ made[d][j].parent \notin R
  <2>1. j \in DOMAIN made[d]
    BY <1>6, <1>10
  <2>2. CASE d # c \/ j # k
    BY <1>2, <1>6, <1>8, <2>1, <2>2
  <2>3. CASE d = c /\ j = k
    BY <1>2, <1>6, <1>7, <1>9, <2>1, <2>3
  <2> QED
    BY <2>2, <2>3
<1>11. ASSUME NEW d \in Child, NEW j \in DOMAIN made[d], NEW l \in Fileno \ R,
              l \in {made[d][j].child, made[d][j].parent}
       PROVE  j \in DOMAIN made'[d] /\ l \in {made'[d][j].child, made'[d][j].parent}
  <2>1. CASE d # c \/ j # k
    BY <1>6, <1>11, <2>1
  <2>2. CASE d = c /\ j = k
    BY <1>2, <1>6, <1>7, <1>11, <2>2
  <2> QED
    BY <2>1, <2>2
<1>12. \A d \in Child : \A j \in DOMAIN made'[d] :
           /\ j \in DOMAIN made[d]
           /\ made'[d][j].kind = made[d][j].kind
           /\ made'[d][j].fdno = made[d][j].fdno
           /\ made'[d][j].child # None =>
                made'[d][j].child = made[d][j].child /\ made[d][j].child \notin R
           /\ made'[d][j].parent # None =>
                made'[d][j].parent = made[d][j].parent /\ made[d][j].parent \notin R
  BY <1>10
<1>13. \A d \in Child : \A j \in DOMAIN made[d] : \A l \in Fileno \ R :
           l \in {made[d][j].child, made[d][j].parent} =>
             j \in DOMAIN made'[d] /\ l \in {made'[d][j].child, made'[d][j].parent}
  BY <1>11
<1> QED
  BY <1>3, <1>4, <1>5, <1>12, <1>13, CloseHeld

LEMMA RunInParentHolds ==
  ASSUME TypeOK, Position, ChildEnds, Held, Holder, StdOpen, RunInParent
  PROVE  Held' /\ Holder' /\ StdOpen'
<1>1. /\ cur \in Child /\ stage = "parent" /\ act < Len(job[cur]) /\ act \in Nat
      /\ job' = job
      /\ made' = [made EXCEPT ![cur][act + 1].child = None]
      /\ table' = [table EXCEPT ![Parent] = Closed(@, made[cur][act + 1].child)]
  BY DEF RunInParent, TypeOK
<1>2. act + 1 \in DOMAIN made[cur]
  BY <1>1, MadeFacts, JobFacts DEF Position, TypeOK
<1>3. PICK c \in Child, k \in DOMAIN made[cur], n \in {made[cur][act + 1].child} :
        c = cur /\ k = act + 1 /\ n = made[cur][act + 1].child
  BY <1>1, <1>2
<1>4. NoChild(c, k) /\ k \in DOMAIN made[c] /\ n = made[c][k].child
  BY <1>1, <1>3 DEF NoChild
<1>5. table' = [table EXCEPT ![Parent] = Closed(@, n)]
  BY <1>1, <1>3
<1>6. n # None
  BY <1>1, <1>3 DEF ChildEnds
<1>7. n \in Fileno
  BY <1>4, <1>6, MadeFacts
<1> QED
  BY <1>1, <1>4, <1>5, <1>7, CloseOneHolds

LEMMA CloseParentFdHolds ==
  ASSUME TypeOK, Position, Held, Holder, StdOpen,
         NEW c \in Child, NEW k \in DOMAIN made[c],
         made[c][k].parent # None, CloseParentFd(c, k)
  PROVE  Held' /\ Holder' /\ StdOpen'
<1>1. PICK n \in {made[c][k].parent} : n = made[c][k].parent
  OBVIOUS
<1>2. n \in Fileno
  BY <1>1, MadeFacts
<1>3. /\ job' = job /\ NoParent(c, k)
      /\ table' = [table EXCEPT ![Parent] = Closed(@, n)]
  BY <1>1 DEF CloseParentFd, NoParent
<1> QED
  BY <1>1, <1>2, <1>3, CloseOneHolds

\* The steps of a child change its own table only.
LEMMA ChildTables ==
  ASSUME TypeOK, NEW c \in Child, ChildNext(c)
  PROVE  /\ \A p \in Process : p # c => table'[p] = table[p]
         /\ table'[Parent] = table[Parent]
         /\ UNCHANGED <<job, stage, cur, act, made, fed, got>>
<1>1. /\ c \in Process /\ c # Parent /\ Parent \in Process
      /\ table \in [Process -> [Fileno -> File \cup {None}]]
  BY TableFacts DEF TypeOK
<1>2. UNCHANGED table \/ \E t : table' = [table EXCEPT ![c] = t]
  BY DEF ChildNext, RunInChild, Gone, Exec, ExecFails, Exit, Read, Write
<1>3. UNCHANGED parentVars /\ job' = job
  BY DEF ChildNext, RunInChild, Exec, ExecFails, Exit, Read, Write
<1> QED
  BY <1>1, <1>2, <1>3 DEF parentVars

\* Every step leaves the parent's descriptors with their action objects.
LEMMA HeldStep ==
  ASSUME TypeOK, Position, ChildEnds, Held, Holder, StdOpen, [Next]_vars
  PROVE  Held' /\ Holder' /\ StdOpen'
<1>1. CASE Make
  BY <1>1, MakeHolds
<1>2. CASE MakeFails \/ ForkFails \/ WaitReturns
  BY <1>2, DropHolds DEF MakeFails, ForkFails, Abandon, WaitReturns
<1>3. CASE Fork
  <2>1. cur # Parent /\ job' = job /\ made' = made /\ Parent \in Process
    BY <1>3, TableFacts DEF TypeOK, Fork
  <2>2. table'[Parent] = table[Parent]
    BY <1>3, <2>1 DEF Fork, TypeOK
  <2> QED
    BY <2>1, <2>2, StayHeld
<1>4. CASE RunInParent
  BY <1>4, RunInParentHolds
<1>5. CASE \E c \in Child : \E k \in DOMAIN made[c] : CloseFed(c, k) \/ CloseDrained(c, k)
  BY <1>5, CloseParentFdHolds DEF CloseFed, CloseDrained, Has
<1>6. CASE \E c \in Child : ChildNext(c)
  BY <1>6, ChildTables, StayHeld
<1>7. CASE \/ SpawnReturns \/ CaptureRead \/ CaptureEnds
           \/ \E c \in Child : Wait(c)
           \/ \E c \in Child : \E k \in DOMAIN made[c] : Feed(c, k) \/ Drain(c, k)
           \/ UNCHANGED vars
  <2>1. job' = job /\ made' = made /\ table' = table
    BY <1>7 DEF SpawnReturns, CaptureRead, CaptureEnds, Wait, Feed, Drain, vars, parentVars
  <2> QED
    BY <2>1, StayHeld
<1> QED
  BY <1>1, <1>2, <1>3, <1>4, <1>5, <1>6, <1>7 DEF Next, ParentNext

\* A child that was just forked has all its ends.
LEMMA CopyStep ==
  ASSUME TypeOK, Position, ChildEnds, CopyHolds, [Next]_vars
  PROVE  CopyHolds'
<1>1. CASE Fork
  <2>1. \A c \in Child : copy'[c] = IF c = cur THEN made[cur] ELSE copy[c]
    BY <1>1 DEF Fork, TypeOK
  <2>2. \A k \in DOMAIN made[cur] : made[cur][k].child # None
    BY <1>1 DEF Fork, ChildEnds
  <2> QED
    BY <2>1, <2>2 DEF CopyHolds
<1>2. CASE \E c \in Child : RunInChild(c)
  BY <1>2, RunInChildType
<1>3. CASE \E c \in Child : ExecFails(c) \/ Exit(c)
  <2>1. PICK c \in Child : copy' = [copy EXCEPT ![c] = <<>>]
    BY <1>3 DEF ExecFails, Exit, Gone
  <2>2. \A d \in Child : copy'[d] = copy[d] \/ DOMAIN copy'[d] = {}
    BY <2>1 DEF TypeOK
  <2> QED
    BY <2>2 DEF CopyHolds
<1>4. CASE UNCHANGED copy
  BY <1>4 DEF CopyHolds
<1>5. ParentNext => Fork \/ UNCHANGED copy
  BY DEF ParentNext, Make, MakeFails, ForkFails, Abandon, RunInParent, SpawnReturns,
         CaptureRead, CaptureEnds, Wait, WaitReturns, Feed, Drain, CloseFed,
         CloseDrained, CloseParentFd, childVars
<1>6. ASSUME NEW c \in Child, ChildNext(c)
      PROVE  RunInChild(c) \/ ExecFails(c) \/ Exit(c) \/ UNCHANGED copy
  BY <1>6 DEF ChildNext, Exec, Read, Write
<1> QED
  BY <1>1, <1>2, <1>3, <1>4, <1>5, <1>6 DEF Next, vars, childVars

\* The program starts with the standard descriptors, and nothing else.
LEMMA CoreInit == Init => Core
<1> SUFFICES ASSUME Init
             PROVE  Core
  OBVIOUS
<1>1. TypeOK
  BY TypeInit
<1>2. /\ stage = "make" /\ cur = 1 /\ act = 0
      /\ \A c \in Child : made[c] = <<>> /\ copy[c] = <<>> /\ pc[c] = "unborn"
      /\ Parent \in Process
      /\ table[Parent] = [n \in Fileno |-> IF n <= 2 THEN [what |-> "std"] ELSE None]
  BY TableFacts DEF Init
<1>3. \A c \in Child : ~ Spawned(c)
  BY <1>2 DEF Spawned, Child
<1>4. cur \in Child /\ Len(job[cur]) \in Nat
  BY <1>1, JobFacts DEF TypeOK
<1>5. Position
  BY <1>2, <1>3, <1>4 DEF Position
<1>6. ChildEnds
  BY <1>2, <1>3, <1>4 DEF ChildEnds
<1>7. Held
  BY <1>2 DEF Held
<1>8. Holder
  <2>1. \A n \in Fileno : table[Parent][n] = [what |-> "std"] \/ table[Parent][n] = None
    BY <1>2
  <2>2. [what |-> "std"].what = "std"
    OBVIOUS
  <2>3. \A n \in Fileno : \A r : ~ IsOf(table[Parent][n], r)
    BY <2>1, <2>2 DEF IsOf
  <2> QED
    BY <2>3 DEF Holder
<1>9. StdOpen
  BY <1>2 DEF StdOpen
<1>10. CopyHolds
  BY <1>2 DEF CopyHolds
<1> QED
  BY <1>1, <1>5, <1>6, <1>7, <1>8, <1>9, <1>10 DEF Core

\* Every step of the parent and of the children keeps the invariant.
LEMMA CoreStep == Core /\ [Next]_vars => Core'
BY TypeStep, PositionStep, HeldStep, CopyStep DEF Core

\* So it always holds.
LEMMA CoreInvariant == Spec => []Core
BY CoreInit, CoreStep, PTL DEF Spec

\* The program and its children only ever have the states that Spawn describes:
\* every list of blocks, number of a descriptor and count is within its bounds,
\* whatever fails and in whatever order the processes run.
THEOREM TypeCorrect == Spec => []TypeOK
<1>1. Core => TypeOK
  BY DEF Core
<1> QED
  BY <1>1, CoreInvariant, PTL

\* The parent forgets no end of a pipe: what it has open is the parent_fd() of
\* an action, or the child's end of one that spawn() has not dealt with yet.
THEOREM ParentEndsAlways == Spec => []ParentEnds
<1>1. ASSUME Core
      PROVE  ParentEnds
  <2> SUFFICES ASSUME NEW n \in Fileno, table[Parent][n] # None,
                      table[Parent][n].what \in {"read", "write"}
               PROVE  LET c == table[Parent][n].id[1]
                          k == table[Parent][n].id[2]
                      IN /\ k \in DOMAIN made[c]
                         /\ \/ made[c][k].parent = n
                            \/ made[c][k].child = n /\ ~ Spawned(c)
    BY DEF ParentEnds
  <2>1. TypeOK /\ Position /\ ChildEnds /\ Held /\ Holder
    BY <1>1 DEF Core
  <2>2. table[Parent][n] \in File
    BY <2>1, TableFacts DEF TypeOK
  <2>3. PICK q \in Id : table[Parent][n].id = q
    BY <2>2 DEF File
  <2>4. PICK c \in Child, k \in Nat : q = <<c, k>>
    BY IdParts
  <2>5. IsOf(table[Parent][n], <<c, k>>)
    BY <2>3, <2>4 DEF IsOf
  <2>6. k \in DOMAIN made[c] /\ n \in {made[c][k].child, made[c][k].parent}
    BY <2>1, <2>5 DEF Holder
  <2>7. Spawned(c) => made[c][k].child # n
    BY <2>1, <2>6, TableFacts DEF ChildEnds
  <2> QED
    BY <2>3, <2>4, <2>6, <2>7
<1> QED
  BY <1>1, CoreInvariant, PTL

----------------------------------------------------------------------------
(* What is inherited *)

\* run_in_child() puts nothing into a table that was not in it.
LEMMA ConnectedValues ==
  ASSUME NEW t \in [Fileno -> File \cup {None}], NEW a \in Action, a.child \in Fileno
  PROVE  \A n \in Fileno :
           Connected(t, a)[n] =
             IF n \in {a.parent, a.child} THEN None
             ELSE IF n = a.fdno THEN t[a.child] ELSE t[n]
<1>1. a.fdno \in Fileno /\ a.parent \in Fileno \cup {None} /\ None \notin Fileno
  BY TableFacts DEF Action
<1>2. [t EXCEPT ![a.fdno] = t[a.child]] \in [Fileno -> File \cup {None}]
  BY <1>1
<1> DEFINE u == [t EXCEPT ![a.fdno] = t[a.child]]
<1>3. \A n \in Fileno : u[n] = IF n = a.fdno THEN t[a.child] ELSE t[n]
  BY <1>1
<1> HIDE DEF u
<1>4. u \in [Fileno -> File \cup {None}]
  BY <1>2 DEF u
<1>5. \A n \in Fileno : Closed(u, a.parent)[n] = IF n = a.parent THEN None ELSE u[n]
  BY <1>1, <1>4 DEF Closed
<1>6. Closed(u, a.parent) \in [Fileno -> File \cup {None}]
  BY <1>4, ClosedType
<1>7. \A n \in Fileno :
        Closed(Closed(u, a.parent), a.child)[n] =
          IF n = a.child THEN None ELSE Closed(u, a.parent)[n]
  <2> DEFINE v == Closed(u, a.parent)
  <2>1. v \in [Fileno -> File \cup {None}]
    BY <1>6
  <2> HIDE DEF v
  <2>2. \A n \in Fileno : Closed(v, a.child)[n] = IF n = a.child THEN None ELSE v[n]
    BY <1>1, <2>1 DEF Closed
  <2> QED
    BY <2>2 DEF v
<1>8. Connected(t, a) = Closed(Closed(u, a.parent), a.child)
  BY DEF Connected, Without, u
<1> QED
  BY <1>3, <1>5, <1>7, <1>8

\* The next action of a child that was forked.
LEMMA NextAction ==
  ASSUME TypeOK, CopyHolds, NEW c \in Child, copy[c] # <<>>
  PROVE  /\ Head(copy[c]) \in Action /\ Head(copy[c]).child \in Fileno
         /\ Head(copy[c]) = copy[c][1]
<1>1. copy[c] \in Seq(Action)
  BY DEF TypeOK
<1>2. 1 \in DOMAIN copy[c] /\ Head(copy[c]) = copy[c][1] /\ copy[c][1] \in Action
  BY <1>1, ActionFacts
<1> QED
  BY <1>1, <1>2, ActionFacts DEF CopyHolds

\* Where a descriptor comes from: it was in a table before, or open() or pipe()
\* has just made it for the next action.
LEMMA NothingNew ==
  ASSUME TypeOK, CopyHolds, [Next]_vars, NEW p \in Process, NEW n \in Fileno
  PROVE  \/ table'[p][n] = None
         \/ \E o \in Process, m \in Fileno : table'[p][n] = table[o][m]
         \/ Make /\ \A r : IsOf(table'[p][n], r) => r = <<cur, act + 1>>
<1>1. table \in [Process -> [Fileno -> File \cup {None}]] /\ Parent \in Process
  BY TableFacts DEF TypeOK
<1>2. CASE table'[p] = table[p]
  BY <1>2
<1>3. CASE Make
  <2> DEFINE q == <<cur, act + 1>>
             t == table[Parent]
             u == table'[Parent]
  <2>1. \/ \E m \in Fileno : table' = [table EXCEPT ![Parent][m] = [what |-> "file", id |-> q]]
        \/ \E m, l \in Fileno :
             table' = [table EXCEPT ![Parent][m] = ReadEnd(q), ![Parent][l] = WriteEnd(q)]
    BY <1>3 DEF Make, MakeFile, MakePipe
  <2>2. p # Parent => table'[p] = table[p]
    BY <1>1, <2>1
  <2>3. u[n] \in {t[n], ReadEnd(q), WriteEnd(q), [what |-> "file", id |-> q]}
    BY <1>1, <2>1
  <2>4. \A r, f : f \in {ReadEnd(q), WriteEnd(q), [what |-> "file", id |-> q]} =>
                    (IsOf(f, r) => r = q)
    BY DEF IsOf, ReadEnd, WriteEnd
  <2> HIDE DEF q
  <2>5. CASE p = Parent
    BY <1>1, <1>3, <2>3, <2>4, <2>5 DEF q
  <2> QED
    BY <1>2, <2>2, <2>5
<1>4. CASE Fork
  BY <1>1, <1>4 DEF Fork
<1>5. CASE MakeFails \/ ForkFails \/ WaitReturns
  <2>1. \A l \in Fileno : Dropped(cur)[l] = None \/ Dropped(cur)[l] = table[Parent][l]
    BY DEF Dropped
  <2>2. table' = [table EXCEPT ![Parent] = Dropped(cur)]
    BY <1>5 DEF MakeFails, ForkFails, Abandon, WaitReturns
  <2> QED
    BY <1>1, <2>1, <2>2
<1>6. CASE RunInParent \/ \E c \in Child : \E k \in DOMAIN made[c] : CloseParentFd(c, k)
  <2>1. ASSUME NEW m, table' = [table EXCEPT ![Parent] = Closed(@, m)]
        PROVE  table'[p][n] = None \/ table'[p][n] = table[p][n]
    <3>1. \A l \in Fileno :
            Closed(table[Parent], m)[l] = None \/ Closed(table[Parent], m)[l] = table[Parent][l]
      BY <1>1 DEF Closed
    <3> QED
      BY <1>1, <2>1, <3>1
  <2> QED
    BY <1>6, <2>1 DEF RunInParent, CloseParentFd
<1>7. CASE \E c \in Child : RunInChild(c) \/ ExecFails(c) \/ Exit(c)
  <2>1. PICK c \in Child : RunInChild(c) \/ ExecFails(c) \/ Exit(c)
    BY <1>7
  <2>2. c \in Process
    BY TableFacts
  <2>3. CASE table' = [table EXCEPT ![c] = Empty]
    BY <1>1, <2>2, <2>3 DEF Empty
  <2>4. CASE copy[c] # <<>> /\ table' = [table EXCEPT ![c] = Connected(@, Head(copy[c]))]
    <3>1. /\ Head(copy[c]) \in Action /\ Head(copy[c]).child \in Fileno
          /\ table[c] \in [Fileno -> File \cup {None}]
      BY <1>1, <2>2, <2>4, NextAction
    <3>2. Connected(table[c], Head(copy[c]))[n]
            \in {None, table[c][Head(copy[c]).child], table[c][n]}
      BY <3>1, ConnectedValues
    <3> QED
      BY <1>1, <2>2, <2>4, <3>1, <3>2
  <2> QED
    BY <2>1, <2>3, <2>4 DEF RunInChild, ExecFails, Exit, Gone
<1>8. CASE UNCHANGED table
  BY <1>8
<1>9. ParentNext =>
        \/ Make \/ Fork \/ MakeFails \/ ForkFails \/ WaitReturns \/ RunInParent
        \/ \E c \in Child : \E k \in DOMAIN made[c] : CloseParentFd(c, k)
        \/ UNCHANGED table
  BY DEF ParentNext, SpawnReturns, CaptureRead, CaptureEnds, Wait, Feed, Drain,
         CloseFed, CloseDrained
<1>10. ASSUME NEW c \in Child, ChildNext(c)
       PROVE  RunInChild(c) \/ ExecFails(c) \/ Exit(c) \/ UNCHANGED table
  BY <1>10 DEF ChildNext, Exec, Read, Write
<1> QED
  BY <1>3, <1>4, <1>5, <1>6, <1>7, <1>8, <1>9, <1>10 DEF Next, vars

\* Of the parent's steps only fork() gives a child a table.
LEMMA ParentSteps ==
  ASSUME TypeOK, ParentNext, NEW d \in Child
  PROVE  /\ table'[d] = table[d] \/ (Fork /\ d = cur /\ table'[d] = table[Parent])
         /\ job' = job /\ sent' = sent
<1>1. table \in [Process -> [Fileno -> File \cup {None}]] /\ d \in Process /\ d # Parent
  BY TableFacts DEF TypeOK
<1>2. job' = job /\ sent' = sent
  BY DEF ParentNext, Make, MakeFails, Fork, ForkFails, Abandon, RunInParent, SpawnReturns,
         CaptureRead, CaptureEnds, Wait, WaitReturns, Feed, Drain, CloseFed,
         CloseDrained, CloseParentFd, childVars
<1>3. CASE Fork
  BY <1>1, <1>2, <1>3 DEF Fork
<1>4. CASE MakeFile \/ MakePipe
  BY <1>1, <1>2, <1>4 DEF MakeFile, MakePipe
<1>5. CASE \E t : table' = [table EXCEPT ![Parent] = t]
  BY <1>1, <1>2, <1>5
<1>6. CASE UNCHANGED table
  BY <1>2, <1>6
<1>7. \/ Fork \/ MakeFile \/ MakePipe \/ UNCHANGED table
      \/ \E t : table' = [table EXCEPT ![Parent] = t]
  <2>1. CASE Make
    BY <2>1 DEF Make
  <2>2. CASE MakeFails \/ ForkFails \/ WaitReturns
    BY <2>2 DEF MakeFails, ForkFails, Abandon, WaitReturns
  <2>3. CASE RunInParent
    BY <2>3 DEF RunInParent
  <2>4. CASE \E c \in Child : \E k \in DOMAIN made[c] : CloseFed(c, k) \/ CloseDrained(c, k)
    BY <2>4 DEF CloseFed, CloseDrained, CloseParentFd
  <2>5. CASE \/ SpawnReturns \/ CaptureRead \/ CaptureEnds
             \/ \E c \in Child : Wait(c)
             \/ \E c \in Child : \E k \in DOMAIN made[c] : Feed(c, k) \/ Drain(c, k)
    BY <2>5 DEF SpawnReturns, CaptureRead, CaptureEnds, Wait, Feed, Drain
  <2> QED
    BY <2>1, <2>2, <2>3, <2>4, <2>5 DEF ParentNext
<1> QED
  BY <1>3, <1>4, <1>5, <1>6, <1>7

\* No process is born but by fork(), and fork() is called for the present child.
LEMMA Births ==
  ASSUME TypeOK, [Next]_vars, NEW d \in Child
  PROVE  /\ pc'[d] = "unborn" => pc[d] = "unborn"
         /\ Fork => pc'[cur] # "unborn"
<1>1. pc \in [Child -> PCs] /\ cur \in Child
  BY DEF TypeOK
<1>2. \/ UNCHANGED pc
      \/ \E e \in Child, x \in {"setup", "running", "exited", "reaped"} :
           pc' = [pc EXCEPT ![e] = x]
  <2>1. CASE ParentNext
    BY <1>1, <2>1
    DEF ParentNext, Make, MakeFails, Fork, ForkFails, Abandon, RunInParent, SpawnReturns,
        CaptureRead, CaptureEnds, Wait, WaitReturns, Feed, Drain, CloseFed,
        CloseDrained, CloseParentFd, childVars
  <2>2. CASE \E c \in Child : ChildNext(c)
    BY <2>2 DEF ChildNext, RunInChild, Gone, Exec, ExecFails, Exit, Read, Write
  <2>3. CASE UNCHANGED vars
    BY <2>3 DEF vars, childVars
  <2> QED
    BY <2>1, <2>2, <2>3 DEF Next
<1>3. pc'[d] = "unborn" => pc[d] = "unborn"
  BY <1>1, <1>2
<1>4. Fork => pc'[cur] # "unborn"
  BY <1>1 DEF Fork
<1> QED
  BY <1>3, <1>4

\* A child gets the ends of its own pipes and of earlier ones from fork(), and
\* none later.
LEMMA InheritedStep ==
  ASSUME Core, Inherited, [Next]_vars
  PROVE  Inherited'
<1>0. TypeOK /\ Position /\ Holder /\ CopyHolds
  BY DEF Core
<1>1. ASSUME NEW d \in Child, pc'[d] = "unborn"
      PROVE  table'[d] = Empty
  <2>1. pc[d] = "unborn" /\ table[d] = Empty
    BY <1>0, <1>1, Births DEF Inherited
  <2>2. CASE ParentNext
    BY <1>0, <1>1, <2>1, <2>2, ParentSteps, Births
  <2>3. CASE \E c \in Child : ChildNext(c)
    <3>1. PICK c \in Child : ChildNext(c)
      BY <2>3
    <3>2. c # d
      BY <2>1, <3>1 DEF ChildNext, RunInChild, Exec, ExecFails, Exit, Read, Write
    <3> QED
      BY <1>0, <2>1, <3>1, <3>2, ChildTables, TableFacts
  <2> QED
    BY <2>1, <2>2, <2>3 DEF Next, vars
<1>2. ASSUME NEW d \in Child, NEW c \in Child, NEW k \in Nat, NEW n \in Fileno,
             IsOf(table'[d][n], <<c, k>>)
      PROVE  c <= d
  <2>1. CASE table'[d] = table[d]
    BY <1>2, <2>1 DEF Inherited
  <2>2. CASE Fork /\ d = cur /\ table'[d] = table[Parent]
    <3>1. k \in DOMAIN made[c]
      BY <1>0, <1>2, <2>2 DEF Holder
    <3>2. ~ Ahead(c)
      BY <1>0, <3>1 DEF Position
    <3> QED
      BY <2>2, <3>2 DEF Ahead, Fork, Child
  <2>3. CASE RunInChild(d) /\ table' = [table EXCEPT ![d] = Connected(@, Head(copy[d]))]
    <3>1. /\ table[d] \in [Fileno -> File \cup {None}]
          /\ table'[d] = Connected(table[d], Head(copy[d])) /\ copy[d] # <<>>
      BY <1>0, <2>3, TableFacts DEF TypeOK, RunInChild
    <3>2. Head(copy[d]) \in Action /\ Head(copy[d]).child \in Fileno
      BY <1>0, <3>1, NextAction
    <3>3. table'[d][n] \in {None, table[d][Head(copy[d]).child], table[d][n]}
      BY <3>1, <3>2, ConnectedValues
    <3> QED
      BY <1>2, <3>2, <3>3 DEF Inherited, IsOf
  <2>4. CASE table' = [table EXCEPT ![d] = Empty]
    BY <1>0, <1>2, <2>4, TableFacts DEF TypeOK, Empty, IsOf
  <2>5. CASE ParentNext
    BY <1>0, <2>1, <2>2, <2>5, ParentSteps
  <2>6. CASE \E e \in Child : ChildNext(e)
    <3>1. PICK e \in Child : ChildNext(e)
      BY <2>6
    <3>2. CASE e # d
      BY <1>0, <2>1, <3>1, <3>2, ChildTables, TableFacts
    <3>3. CASE e = d
      BY <2>1, <2>3, <2>4, <3>1, <3>3
      DEF ChildNext, RunInChild, Gone, Exec, ExecFails, Exit, Read, Write
    <3> QED
      BY <3>2, <3>3
  <2> QED
    BY <2>1, <2>5, <2>6 DEF Next, vars
<1> QED
  BY <1>1, <1>2 DEF Inherited, Empty, IsOf

\* The pipes of two children are different.
LEMMA SilentStep ==
  ASSUME Core, Silent, [Next]_vars
  PROVE  Silent'
<1>0. TypeOK
  BY DEF Core
<1>1. job' = job
  <2>1. ParentNext => job' = job
    BY <1>0, ParentSteps DEF TypeOK
  <2> QED
    BY <1>0, <2>1, ChildTables DEF Next, vars
<1>2. SUFFICES ASSUME NEW c \in Child, pc'[c] = "unborn", NEW q \in Actions(c)
               PROVE  sent'[q] = 0
  BY <1>1 DEF Silent, Actions
<1>3. pc[c] = "unborn" /\ sent[q] = 0
  BY <1>0, <1>2, Births DEF Silent
<1>4. CASE sent' = sent
  BY <1>3, <1>4
<1>5. ASSUME NEW d \in Child, NEW r \in Actions(d), Write(d, r)
      PROVE  sent'[q] = 0
  <2>1. d # c
    BY <1>3, <1>5 DEF Write
  <2>2. r # q
    BY <1>0, <2>1, ActionsFacts
  <2> QED
    BY <1>0, <1>3, <1>5, <2>2, ActionsFacts DEF Write, TypeOK
<1>6. ParentNext => sent' = sent
  BY <1>0, <1>2, ParentSteps
<1>7. ASSUME NEW d \in Child, ChildNext(d)
      PROVE  sent' = sent \/ \E r \in Actions(d) : Write(d, r)
  BY <1>7 DEF ChildNext, RunInChild, Exec, ExecFails, Exit, Read
<1> QED
  BY <1>4, <1>5, <1>6, <1>7 DEF Next, vars, childVars

----------------------------------------------------------------------------
(* The blocks of a pipe *)

\* One block more.
LEMMA CountUp ==
  ASSUME NEW f \in Fileno, NEW s \in Nat
  PROVE  Append([i \in 1 .. s |-> <<f, i>>], <<f, s + 1>>) = [i \in 1 .. s + 1 |-> <<f, i>>]
<1> DEFINE B == Fileno \X Nat
           old == [i \in 1 .. s |-> <<f, i>>]
           new == [i \in 1 .. s + 1 |-> <<f, i>>]
<1>1. old \in Seq(B) /\ Len(old) = s
  OBVIOUS
<1>2. new \in Seq(B) /\ Len(new) = s + 1
  OBVIOUS
<1>3. <<f, s + 1>> \in B
  OBVIOUS
<1>4. \A i \in 1 .. s : old[i] = new[i]
  OBVIOUS
<1>5. new[s + 1] = <<f, s + 1>>
  OBVIOUS
<1> HIDE DEF B, old, new
<1>6. /\ Append(old, <<f, s + 1>>) \in Seq(B)
      /\ Len(Append(old, <<f, s + 1>>)) = s + 1
      /\ \A i \in 1 .. s : Append(old, <<f, s + 1>>)[i] = old[i]
      /\ Append(old, <<f, s + 1>>)[s + 1] = <<f, s + 1>>
  BY <1>1, <1>3, AppendProperties
<1>7. \A i \in 1 .. s + 1 : Append(old, <<f, s + 1>>)[i] = new[i]
  BY <1>4, <1>5, <1>6
<1>8. Append(old, <<f, s + 1>>) = new
  BY <1>2, <1>6, <1>7, SeqEqual
<1> QED
  BY <1>8 DEF old, new

\* Blocks move from the pipe to what was read, or are written to the pipe.
LEMMA MovedBlocks ==
  ASSUME NEW B, NEW g \in Seq(B), NEW p \in Seq(B)
  PROVE  /\ \A n \in 1 .. Len(p) :
              (g \o SubSeq(p, 1, n)) \o SubSeq(p, n + 1, Len(p)) = g \o p
         /\ p # <<>> => Append(g, Head(p)) \o Tail(p) = g \o p
         /\ \A b \in B : g \o Append(p, b) = Append(g \o p, b)
<1>0. \A s, t \in Seq(B) : (g \o s) \o t = g \o (s \o t)
  BY ConcatAssociative
<1>1. ASSUME NEW n \in 1 .. Len(p)
      PROVE  (g \o SubSeq(p, 1, n)) \o SubSeq(p, n + 1, Len(p)) = g \o p
  <2>1. /\ SubSeq(p, 1, n) \in Seq(B) /\ SubSeq(p, n + 1, Len(p)) \in Seq(B)
        /\ SubSeq(p, 1, n) \o SubSeq(p, n + 1, Len(p)) = p
    BY SplitFacts
  <2>2. PICK first \in Seq(B), rest \in Seq(B) :
          first = SubSeq(p, 1, n) /\ rest = SubSeq(p, n + 1, Len(p))
    BY <2>1
  <2>3. (g \o first) \o rest = g \o (first \o rest)
    BY <1>0
  <2>4. first \o rest = p
    BY ONLY <2>1, <2>2
  <2>5. (g \o first) \o rest = g \o p
    BY ONLY <2>3, <2>4
  <2> QED
    BY ONLY <2>2, <2>5
<1>2. ASSUME p # <<>>
      PROVE  Append(g, Head(p)) \o Tail(p) = g \o p
  <2>1. Head(p) \in B /\ Tail(p) \in Seq(B)
    BY <1>2, HeadTailProperties
  <2>2. 1 \in 1 .. Len(p) /\ Head(p) = p[1]
    BY <1>2
  <2>3. SubSeq(p, 1, Len(p)) = <<p[1]>> \o SubSeq(p, 1 + 1, Len(p))
    BY <2>2, SubSeqRecursiveFirst, Len(p) \in 1 .. Len(p)
  <2>4. SubSeq(p, 1 + 1, Len(p)) = Tail(p)
    BY <1>2, TailIsSubSeq
  <2>5. p = <<Head(p)>> \o Tail(p)
    BY <2>2, <2>3, <2>4, SubSeqFull
  <2>6. Append(g, Head(p)) = g \o <<Head(p)>> /\ <<Head(p)>> \in Seq(B)
    BY <2>1, AppendIsConcat
  <2>7. (g \o <<Head(p)>>) \o Tail(p) = g \o (<<Head(p)>> \o Tail(p))
    BY <2>1, <2>6, ConcatAssociative
  <2>8. g \o (<<Head(p)>> \o Tail(p)) = g \o p
    BY ONLY <2>5
  <2>9. Append(g, Head(p)) \o Tail(p) = (g \o <<Head(p)>>) \o Tail(p)
    BY ONLY <2>6
  <2> QED
    BY ONLY <2>7, <2>8, <2>9
<1>3. ASSUME NEW b \in B
      PROVE  g \o Append(p, b) = Append(g \o p, b)
  <2>1. <<b>> \in Seq(B) /\ g \o p \in Seq(B)
    BY ConcatProperties
  <2>2. Append(p, b) = p \o <<b>> /\ Append(g \o p, b) = (g \o p) \o <<b>>
    BY <2>1, AppendIsConcat
  <2> QED
    BY <2>1, <2>2, ConcatAssociative
<1> QED
  BY <1>1, <1>2, <1>3

\* The actions that a step does not change, and the kinds that it may.
LEMMA PipeSteps ==
  ASSUME Core, [Next]_vars, NEW c \in Child, NEW q \in ToWrite(c)
  PROVE  \/ got'[q] = got[q] /\ pipe'[q] = pipe[q] /\ sent'[q] = sent[q]
         \/ CaptureRead /\ q = <<cur, act>>
         \/ \E k \in DOMAIN made[c] : Drain(c, k) /\ q = <<c, k>>
         \/ Write(c, q)
<1>0. TypeOK /\ Position /\ Held
  BY DEF Core
<1>1. /\ q \in Actions(c) /\ q \in Id /\ q[1] = c
      /\ ActionOf(q).kind \in {"write_pipe", "capture"}
  BY <1>0, ActionsFacts DEF ToWrite
<1>2. got \in [Id -> Seq(Fileno \X Nat)] /\ pipe \in [Id -> Seq(Fileno \X Nat)]
      /\ sent \in [Id -> 0 .. Output]
  BY <1>0 DEF TypeOK
<1>3. CASE UNCHANGED <<got, pipe, sent>>
  BY <1>3
<1>4. CASE CaptureRead
  <2>1. PICK r \in {<<cur, act>>}, n \in 1 .. Len(pipe[<<cur, act>>]) :
                    /\ r = <<cur, act>>
                    /\ got' = [got EXCEPT ![r] = Copied(@, SubSeq(pipe[r], 1, n))]
                    /\ pipe' = [pipe EXCEPT ![r] = SubSeq(@, n + 1, Len(@))]
                    /\ sent' = sent
    BY <1>4 DEF CaptureRead, childVars
  <2>2. r # q => got'[q] = got[q] /\ pipe'[q] = pipe[q]
    BY <1>1, <1>2, <2>1
  <2> QED
    BY <1>4, <2>1, <2>2
<1>5. ASSUME NEW d \in Child, NEW k \in DOMAIN made[d], Feed(d, k)
      PROVE  got'[q] = got[q] /\ pipe'[q] = pipe[q] /\ sent'[q] = sent[q]
  <2>1. ActionOf(<<d, k>>).kind = "read_pipe"
    BY <1>0, <1>5 DEF Feed, Has, Held, ActionOf
  <2>2. <<d, k>> # q
    BY <1>1, <2>1
  <2> QED
    BY <1>2, <1>5, <2>2 DEF Feed, childVars
<1>6. ASSUME NEW d \in Child, NEW k \in DOMAIN made[d], Drain(d, k)
      PROVE  \/ got'[q] = got[q] /\ pipe'[q] = pipe[q] /\ sent'[q] = sent[q]
             \/ d = c /\ q = <<d, k>>
  <2>1. CASE <<d, k>> = q
    BY <1>1, <2>1
  <2>2. CASE <<d, k>> # q
    BY <1>2, <1>6, <2>2 DEF Drain, childVars
  <2> QED
    BY <2>1, <2>2
<1>7. ASSUME NEW d \in Child, NEW r \in Actions(d), Read(d, r)
      PROVE  got'[q] = got[q] /\ pipe'[q] = pipe[q] /\ sent'[q] = sent[q]
  <2>1. r # q
    BY <1>1, <1>7 DEF Read, ToRead
  <2>2. got' = got /\ sent' = sent
    BY <1>7 DEF Read, parentVars
  <2>3. pipe' = pipe \/ pipe' = [pipe EXCEPT ![r] = Tail(@)]
    BY <1>7 DEF Read
  <2>4. pipe'[q] = pipe[q]
    BY <1>1, <1>2, <2>1, <2>3
  <2> QED
    BY <2>2, <2>4
<1>8. ASSUME NEW d \in Child, NEW r \in Actions(d), Write(d, r)
      PROVE  \/ got'[q] = got[q] /\ pipe'[q] = pipe[q] /\ sent'[q] = sent[q]
             \/ d = c /\ q = r
  <2>1. CASE r = q
    <3>1. r[1] = d
      BY <1>0, ActionsFacts
    <3> QED
      BY <1>1, <2>1, <3>1
  <2>2. CASE r # q
    BY <1>2, <1>8, <2>2 DEF Write, parentVars
  <2> QED
    BY <2>1, <2>2
<1>9. ParentNext =>
        \/ CaptureRead \/ UNCHANGED <<got, pipe, sent>>
        \/ \E d \in Child : \E k \in DOMAIN made[d] : Feed(d, k) \/ Drain(d, k)
  BY DEF ParentNext, Make, MakeFails, Fork, ForkFails, Abandon, RunInParent, SpawnReturns,
         CaptureEnds, Wait, WaitReturns, CloseFed, CloseDrained, CloseParentFd, childVars
<1>10. ASSUME NEW d \in Child, ChildNext(d)
       PROVE  \/ UNCHANGED <<got, pipe, sent>>
              \/ \E r \in Actions(d) : Read(d, r) \/ Write(d, r)
  BY <1>10 DEF ChildNext, RunInChild, Exec, ExecFails, Exit, parentVars
<1> QED
  BY <1>3, <1>4, <1>5, <1>6, <1>7, <1>8, <1>9, <1>10
  DEF Next, vars, parentVars, childVars

\* No block is lost between a child's write() and the parent's read().
LEMMA FlowStep ==
  ASSUME Inserting, Core, Flow, [Next]_vars
  PROVE  Flow'
<1>0. TypeOK
  BY DEF Core
<1>1. job' = job
  <2>1. ParentNext => job' = job
    BY <1>0, ParentSteps, SpawnAssumption DEF TypeOK
  <2> QED
    BY <1>0, <2>1, ChildTables DEF Next, vars
<1>2. SUFFICES ASSUME NEW c \in Child, NEW q \in ToWrite(c)
               PROVE  got'[q] \o pipe'[q] = [i \in 1 .. sent'[q] |-> <<ActionOf(q).fdno, i>>]
  BY <1>1 DEF Flow, ToWrite, Actions, ActionOf
<1> DEFINE f == ActionOf(q).fdno
           B == Fileno \X Nat
<1>3. q \in Id /\ f \in Fileno
  BY <1>0, ActionsFacts DEF ToWrite
<1>4. /\ got \in [Id -> Seq(B)] /\ pipe \in [Id -> Seq(B)] /\ sent \in [Id -> 0 .. Output]
      /\ Output \in Nat
  BY <1>0, SpawnAssumption DEF TypeOK
<1> HIDE DEF B
<1>5. got[q] \in Seq(B) /\ pipe[q] \in Seq(B) /\ sent[q] \in Nat
  BY <1>3, <1>4
<1>6. got[q] \o pipe[q] = [i \in 1 .. sent[q] |-> <<f, i>>]
  BY DEF Flow
<1>7. CASE got'[q] = got[q] /\ pipe'[q] = pipe[q] /\ sent'[q] = sent[q]
  BY <1>6, <1>7
<1> DEFINE g == got[q]
           p == pipe[q]
<1>11. /\ \A n \in 1 .. Len(p) :
            (g \o SubSeq(p, 1, n)) \o SubSeq(p, n + 1, Len(p)) = g \o p
       /\ p # <<>> => Append(g, Head(p)) \o Tail(p) = g \o p
       /\ \A b \in B : g \o Append(p, b) = Append(g \o p, b)
  <2> HIDE DEF g, p
  <2> QED
    BY <1>5, MovedBlocks DEF g, p
<1>8. CASE CaptureRead /\ q = <<cur, act>>
  <2>1. PICK n \in 1 .. Len(pipe[q]) :
          /\ got'[q] = got[q] \o SubSeq(pipe[q], 1, n)
          /\ pipe'[q] = SubSeq(pipe[q], n + 1, Len(pipe[q]))
          /\ sent' = sent
    BY <1>3, <1>4, <1>8 DEF CaptureRead, Copied, childVars
  <2> QED
    BY <1>6, <1>11, <2>1
<1>9. CASE \E k \in DOMAIN made[c] : Drain(c, k) /\ q = <<c, k>>
  <2>1. /\ pipe[q] # <<>>
        /\ got'[q] = Append(got[q], Head(pipe[q]))
        /\ pipe'[q] = Tail(pipe[q])
        /\ sent' = sent
    BY <1>3, <1>4, <1>9 DEF Drain, childVars
  <2> QED
    BY <1>6, <1>11, <2>1
<1>10. CASE Write(c, q)
  <2>1. /\ got' = got
        /\ pipe'[q] = Append(pipe[q], <<f, sent[q] + 1>>)
        /\ sent'[q] = sent[q] + 1
    BY <1>3, <1>4, <1>10 DEF Write, parentVars
  <2>2. <<f, sent[q] + 1>> \in B
    BY <1>3, <1>5 DEF B
  <2>3. got'[q] \o pipe'[q] = Append(got[q] \o pipe[q], <<f, sent[q] + 1>>)
    BY <1>11, <2>1, <2>2
  <2>4. Append([i \in 1 .. sent[q] |-> <<f, i>>], <<f, sent[q] + 1>>)
          = [i \in 1 .. sent[q] + 1 |-> <<f, i>>]
    BY <1>3, <1>5, CountUp
  <2> QED
    BY <1>6, <2>1, <2>3, <2>4
<1> QED
  BY <1>2, <1>7, <1>8, <1>9, <1>10, PipeSteps

\* A pipe whose capture has ended gets no block and no end.
LEMMA StaysThrough ==
  ASSUME Core, [Next]_vars, NEW c \in Child, NEW k \in 1 .. Len(job[c]),
         job[c][k].kind = "capture", Captured(c, k),
         pipe[<<c, k>>] = <<>>, ~ Open(WriteEnd(<<c, k>>))
  PROVE  pipe'[<<c, k>>] = <<>> /\ ~ Open(WriteEnd(<<c, k>>))'
<1> DEFINE q == <<c, k>>
<1>0. TypeOK /\ CopyHolds
  BY DEF Core
<1>1. q \in Id /\ q \in ToWrite(c) /\ ActionOf(q).fdno \in Fileno
  <2>1. q \in Actions(c)
    BY DEF Actions
  <2>2. ActionOf(q).kind = "capture"
    BY DEF ActionOf
  <2> QED
    BY <1>0, <2>1, <2>2, ActionsFacts DEF ToWrite
<1>2. pipe'[q] = <<>>
  <2>1. ~ Write(c, q)
    BY <1>1, TableFacts DEF Write, Open
  <2>2. ~ (CaptureRead /\ q = <<cur, act>>)
    BY DEF CaptureRead
  <2>3. ~ \E l \in DOMAIN made[c] : Drain(c, l) /\ q = <<c, l>>
    BY DEF Drain
  <2> QED
    BY <1>1, <2>1, <2>2, <2>3, PipeSteps
<1>3. ~ Open(WriteEnd(q))'
  <2>1. SUFFICES ASSUME NEW p \in Process, NEW n \in Fileno, table'[p][n] = WriteEnd(q)
                 PROVE  FALSE
    BY DEF Open, WriteEnd
  <2>0. IsOf(WriteEnd(q), q)
    BY <1>1, EndFacts
  <2>2. IsOf(table'[p][n], q)
    BY <2>0, <2>1
  <2>3. table'[p][n] # None
    BY <2>2 DEF IsOf
  <2>4. ASSUME NEW o \in Process, NEW m \in Fileno
        PROVE  table'[p][n] # table[o][m]
    BY <2>1 DEF Open
  <2>5. ~ (Make /\ q = <<cur, act + 1>>)
    BY <1>0, WhichChild DEF Make, Captured
  <2> QED
    BY <1>0, <2>2, <2>3, <2>4, <2>5, NothingNew
<1> QED
  BY <1>2, <1>3

\* The parent is through with a capture when its loop ends, or when the child
\* is given up.
LEMMA NewlyCaptured ==
  ASSUME Core, [Next]_vars, NEW c \in Child, NEW k \in 1 .. Len(job[c]),
         job[c][k].kind = "capture", Captured(c, k)'
  PROVE  \/ Captured(c, k)
         \/ CaptureEnds /\ c = cur /\ k = act
         \/ (MakeFails \/ ForkFails) /\ c = cur
<1>0. /\ TypeOK /\ Position /\ Held
      /\ cur \in Child /\ act \in Nat /\ k \in Nat /\ k >= 1 /\ Len(job[c]) \in Nat
  BY JobFacts DEF Core, TypeOK
<1>1. CASE UNCHANGED <<stage, cur, act>>
  BY <1>1 DEF Captured, Spawned
<1>2. CASE Make
  BY <1>2 DEF Make, Captured, Spawned
<1>3. CASE MakeFails \/ ForkFails
  <2>1. Return /\ stage = "make"
    BY <1>3 DEF MakeFails, ForkFails, Abandon
  <2>2. /\ stage' \in {"make", "use"}
        /\ Spawned(c)' <=> Spawned(c) \/ c = cur
    BY <1>0, <2>1, ReturnFacts
  <2> QED
    BY <1>3, <2>2 DEF Captured
<1>4. CASE Fork
  BY <1>0, <1>4 DEF Fork, Captured, Spawned
<1>5. CASE RunInParent
  <2>1. /\ stage = "parent" /\ act' = act + 1 /\ cur' = cur /\ act + 1 \in DOMAIN made[cur]
        /\ stage' = IF made[cur][act + 1].kind = "capture" THEN "capture" ELSE "parent"
    BY <1>0, <1>5, MadeFacts DEF RunInParent, Position
  <2>2. made[cur][act + 1].kind = job[cur][act + 1].kind
    BY <1>0, <2>1 DEF Held
  <2>3. c = cur /\ k = act + 1 => stage' = "capture"
    BY <2>1, <2>2
  <2> QED
    BY <1>0, <2>1, <2>3 DEF Captured, Spawned
<1>6. CASE SpawnReturns
  <2>1. Return /\ stage = "parent" /\ act = Len(job[cur])
    BY <1>6 DEF SpawnReturns
  <2>2. /\ stage' \in {"make", "use"}
        /\ Spawned(c)' <=> Spawned(c) \/ c = cur
    BY <1>0, <2>1, ReturnFacts
  <2> QED
    BY <1>0, <2>1, <2>2 DEF Captured
<1>7. CASE CaptureEnds
  BY <1>0, <1>7 DEF CaptureEnds, Captured, Spawned
<1>8. CASE \E d \in Child : Wait(d)
  BY <1>8 DEF Wait, Captured, Spawned
<1>9. CASE WaitReturns
  BY <1>9 DEF WaitReturns, Captured, Spawned
<1>10. CASE \E d \in Child : ChildNext(d)
  BY <1>0, <1>1, <1>10, ChildTables
<1>11. CASE \/ CaptureRead
            \/ \E d \in Child : \E l \in DOMAIN made[d] :
                 Feed(d, l) \/ CloseFed(d, l) \/ Drain(d, l) \/ CloseDrained(d, l)
            \/ UNCHANGED vars
  BY <1>1, <1>11 DEF CaptureRead, Feed, CloseFed, Drain, CloseDrained, CloseParentFd,
                     vars, parentVars
<1> QED
  BY <1>2, <1>3, <1>4, <1>5, <1>6, <1>7, <1>8, <1>9, <1>10, <1>11 DEF Next, ParentNext

\* Nothing was written for a child that is given up, and nobody could.
LEMMA GivenUp ==
  ASSUME Core, Inherited, Silent, Flow, MakeFails \/ ForkFails,
         NEW c \in Child, c = cur,
         NEW k \in 1 .. Len(job[c]), job[c][k].kind = "capture"
  PROVE  pipe'[<<c, k>>] = <<>> /\ ~ Open(WriteEnd(<<c, k>>))'
<1> DEFINE q == <<c, k>>
<1>0. TypeOK /\ Position /\ Holder /\ stage = "make" /\ pc[c] = "unborn"
  BY DEF Core, TypeOK, Position, MakeFails, ForkFails
<1>1. /\ q \in Id /\ q \in Actions(c) /\ q \in ToWrite(c)
      /\ ActionOf(q).fdno \in Fileno
  <2>1. q \in Actions(c)
    BY DEF Actions
  <2>2. ActionOf(q).kind = "capture"
    BY DEF ActionOf
  <2> QED
    BY <1>0, <2>1, <2>2, ActionsFacts DEF ToWrite
<1>2. pipe'[q] = <<>>
  <2>1. pipe'[q] = pipe[q]
    BY DEF MakeFails, ForkFails, Abandon
  <2>2. sent[q] = 0
    BY <1>0, <1>1 DEF Silent
  <2>3. got[q] \o pipe[q] = [i \in 1 .. 0 |-> <<ActionOf(q).fdno, i>>]
    BY <1>0, <1>1, <2>2 DEF Flow
  <2>4. got[q] \in Seq(Fileno \X Nat) /\ pipe[q] \in Seq(Fileno \X Nat)
    BY <1>0, <1>1 DEF TypeOK
  <2>5. [i \in 1 .. 0 |-> <<ActionOf(q).fdno, i>>] = <<>>
    OBVIOUS
  <2>6. got[q] \o pipe[q] = <<>>
    BY <2>3, <2>5
  <2>7. pipe[q] = <<>>
    BY <2>4, <2>6, ConcatEqualIffEmpty
  <2> QED
    BY <2>1, <2>7
<1>3. ~ Open(WriteEnd(q))'
  <2>1. SUFFICES ASSUME NEW p \in Process, NEW n \in Fileno, table'[p][n] = WriteEnd(q)
                 PROVE  FALSE
    BY DEF Open, WriteEnd
  <2>0. IsOf(WriteEnd(q), q)
    BY <1>1, EndFacts
  <2>2. IsOf(table'[p][n], q)
    BY <2>0, <2>1
  <2>3. /\ table \in [Process -> [Fileno -> File \cup {None}]]
        /\ table' = [table EXCEPT ![Parent] = Dropped(cur)]
    BY <1>0 DEF TypeOK, MakeFails, ForkFails, Abandon
  <2>4. CASE p = Parent
    <3>1. IsOf(Dropped(cur)[n], q)
      BY <2>2, <2>3, <2>4
    <3>2. Dropped(cur)[n] # None /\ IsOf(table[Parent][n], q)
      BY <3>1 DEF Dropped, IsOf
    <3>3. k \in DOMAIN made[cur] /\ n \in {made[cur][k].child, made[cur][k].parent}
      BY <1>0, <3>2 DEF Holder
    <3> QED
      BY <3>2, <3>3 DEF Dropped
  <2>5. CASE p \in Child
    <3>1. IsOf(table[p][n], q)
      BY <2>2, <2>3, <2>5, TableFacts
    <3>2. cur <= p
      BY <1>0, <2>5, <3>1 DEF Inherited
    <3>3. p = cur \/ Ahead(p)
      BY <1>0, <2>5, <3>2 DEF Ahead, Child
    <3>4. table[p] = Empty
      BY <1>0, <2>5, <3>3 DEF Inherited, Position
    <3> QED
      BY <3>1, <3>4 DEF Empty, IsOf
  <2> QED
    BY <2>4, <2>5 DEF Process
<1> QED
  BY <1>2, <1>3

\* When a capture has ended, nobody gets a writing end of its pipe any more.
LEMMA ThroughStep ==
  ASSUME ~ ReadFails, Core, Inherited, Silent, Flow, Through, [Next]_vars
  PROVE  Through'
<1>0. TypeOK
  BY DEF Core
<1>1. job' = job
  <2>1. ParentNext => job' = job
    BY <1>0, ParentSteps, SpawnAssumption DEF TypeOK
  <2> QED
    BY <1>0, <2>1, ChildTables DEF Next, vars
<1>2. SUFFICES ASSUME NEW c \in Child, NEW k \in 1 .. Len(job[c]),
                      job[c][k].kind = "capture", Captured(c, k)'
               PROVE  pipe'[<<c, k>>] = <<>> /\ ~ Open(WriteEnd(<<c, k>>))'
  BY <1>1 DEF Through
<1>3. CASE Captured(c, k)
  <2>1. pipe[<<c, k>>] = <<>> /\ ~ Open(WriteEnd(<<c, k>>))
    BY <1>2, <1>3 DEF Through
  <2> QED
    BY <1>2, <1>3, <2>1, StaysThrough
<1>4. CASE CaptureEnds /\ c = cur /\ k = act
  BY <1>4 DEF CaptureEnds, Open, WriteEnd
<1>5. CASE (MakeFails \/ ForkFails) /\ c = cur
  BY <1>2, <1>5, GivenUp
<1> QED
  BY <1>2, <1>3, <1>4, <1>5, NewlyCaptured

\* At the start no pipe has anything in it.
LEMMA PipesInit == Init => Pipes
<1> SUFFICES ASSUME Init
             PROVE  Pipes
  OBVIOUS
<1>1. TypeOK
  BY TypeInit
<1>2. Inherited
  <2>1. \A d \in Child : table[d] = Empty
    BY TableFacts DEF Init
  <2>2. \A d \in Child, n \in Fileno : \A r : ~ IsOf(table[d][n], r)
    BY <2>1 DEF Empty, IsOf
  <2> QED
    BY <2>1, <2>2 DEF Inherited
<1>3. Silent
  BY <1>1, ActionsFacts DEF Init, Silent
<1>4. Flow
  <2> SUFFICES ASSUME NEW c \in Child, NEW q \in ToWrite(c)
               PROVE  got[q] \o pipe[q] = [i \in 1 .. sent[q] |-> <<ActionOf(q).fdno, i>>]
    BY DEF Flow
  <2>1. q \in Id
    BY <1>1, ActionsFacts DEF ToWrite
  <2>2. got[q] = <<>> /\ pipe[q] = <<>> /\ sent[q] = 0
    BY <2>1 DEF Init
  <2>3. <<>> \o <<>> = <<>>
    OBVIOUS
  <2>4. [i \in 1 .. 0 |-> <<ActionOf(q).fdno, i>>] = <<>>
    OBVIOUS
  <2> QED
    BY <2>2, <2>3, <2>4
<1>5. Through
  BY <1>1 DEF Init, Through, Captured, Spawned, Child
<1> QED
  BY <1>2, <1>3, <1>4, <1>5 DEF Pipes

\* Every step keeps the invariant of the pipes.
LEMMA PipesStep ==
  ASSUME Inserting, ~ ReadFails, Core, Pipes, [Next]_vars
  PROVE  Pipes'
BY InheritedStep, SilentStep, FlowStep, ThroughStep DEF Pipes

\* A capture holds all that its child wrote, in order, as soon as spawn() has
\* returned, for every program: the output iterator must insert, and read()
\* must not fail, for what an error leaves in the pipe is lost.
THEOREM CaptureCompleteAlways ==
  ASSUME Inserting, ~ ReadFails
  PROVE  Spec => []CaptureComplete
<1>1. Init => Core /\ Pipes
  BY CoreInit, PipesInit
<1>2. Core /\ Pipes /\ [Next]_vars => Core' /\ Pipes'
  BY CoreStep, PipesStep
<1>3. ASSUME Core, Pipes
      PROVE  CaptureComplete
  <2>1. TypeOK /\ Flow /\ Through
    BY <1>3 DEF Core, Pipes
  <2> SUFFICES ASSUME NEW c \in Child, Spawned(c), NEW q \in Actions(c),
                      ActionOf(q).kind = "capture"
               PROVE  got[q] = [i \in 1 .. sent[q] |-> <<ActionOf(q).fdno, i>>]
    BY DEF CaptureComplete
  <2>2. /\ q \in ToWrite(c) /\ q \in Id /\ q = <<c, q[2]>> /\ q[2] \in 1 .. Len(job[c])
        /\ job[c][q[2]].kind = "capture"
    BY <2>1, ActionsFacts DEF ToWrite
  <2>3. pipe[q] = <<>>
    BY <2>1, <2>2 DEF Through, Captured
  <2>4. got[q] \o pipe[q] = [i \in 1 .. sent[q] |-> <<ActionOf(q).fdno, i>>]
    BY <2>1, <2>2 DEF Flow
  <2>5. got[q] \in Seq(Fileno \X Nat)
    BY <2>1, <2>2 DEF TypeOK
  <2>6. got[q] \o <<>> = got[q]
    BY <2>5, ConcatEmptySeq
  <2> QED
    BY <2>3, <2>4, <2>6
<1> QED
  BY <1>1, <1>2, <1>3, PTL DEF Spec

----------------------------------------------------------------------------
(* The descriptors of a child *)

\* A child that was just forked has every end where the parent made it, and
\* none of them at 0, 1 or 2, which are the parent's standard descriptors.
LEMMA ForkWires ==
  ASSUME Core, Fork
  PROVE  WiredSoFar(cur)'
<1>0. /\ TypeOK /\ Position /\ ChildEnds /\ Held /\ Holder /\ StdOpen
      /\ cur \in Child /\ stage = "make" /\ act = Len(job[cur])
      /\ Len(made[cur]) = Len(job[cur])
  BY DEF Core, TypeOK, Position, Fork
<1>1. PICK c \in Child : c = cur
  BY <1>0
<1>2. /\ cur' = c /\ job' = job /\ copy'[c] = made[c] /\ pc'[c] = "setup"
      /\ table'[c] = table[Parent]
  BY <1>0, <1>1, TableFacts DEF Fork, TypeOK
<1>3. Len(job[c]) \in Nat /\ DOMAIN made[c] = 1 .. Len(job[c])
  BY <1>0, <1>1, JobFacts, MadeFacts DEF TypeOK
<1>4. Ran(c)' = 0
  BY <1>0, <1>1, <1>2, <1>3 DEF Ran
<1>5. ASSUME NEW k \in 1 .. Len(job[c])
      PROVE  Unwired(c, k, made[c][k])'
  <2> DEFINE a == made[c][k]
  <2>1. /\ k \in DOMAIN made[c] /\ a.kind = job[c][k].kind /\ a.fdno = job[c][k].fdno
        /\ a.child \in Fileno /\ a.parent \in Fileno \cup {None}
        /\ table[Parent][a.child] = ChildEnd(<<c, k>>)
        /\ a.parent # None => /\ a.kind # "file"
                              /\ table[Parent][a.parent] = ParentEnd(<<c, k>>)
    BY <1>0, <1>1, <1>3, MadeFacts DEF ChildEnds, Held
  <2>2. a.child > 2 /\ (a.parent # None => a.parent > 2)
    <3>1. \A n \in Fileno : n \in {a.child, a.parent} => n > 2
      <4>1. \A n \in Fileno : n \in {a.child, a.parent} =>
              table[Parent][n] # [what |-> "std"]
        BY <1>0, <2>1, HeldFacts
      <4>2. \A n \in Fileno : n <= 2 \/ n > 2
        BY SpawnAssumption DEF Fileno
      <4> QED
        BY <1>0, <4>1, <4>2 DEF StdOpen
    <3> QED
      BY <2>1, <3>1
  <2>3. \A n \in Fileno : IsOf(table[Parent][n], <<c, k>>) => n \in {a.child, a.parent}
    BY <1>0, <2>1 DEF Holder
  <2>4. ChildEnd(<<c, k>>)' = ChildEnd(<<c, k>>) /\ ParentEnd(<<c, k>>)' = ParentEnd(<<c, k>>)
    BY <1>2, EndsStay
  <2>5. made' = made
    BY DEF Fork
  <2>6. \A n \in Fileno : IsOf(table'[c][n], <<c, k>>) <=> IsOf(table[Parent][n], <<c, k>>)
    BY <1>2 DEF IsOf
  <2> QED
    BY <1>2, <2>1, <2>2, <2>3, <2>4, <2>5, <2>6 DEF Unwired, IsOf
<1>6. \A k \in 1 .. Len(job[c]) : Unwired(c, k, copy[c][k - Ran(c)])'
  <2>1. \A k \in 1 .. Len(job[c]) : k - Ran(c)' = k
    BY <1>3, <1>4
  <2>2. made' = made
    BY DEF Fork
  <2> QED
    BY <1>2, <1>5, <2>1, <2>2
<1>7. WiredSoFar(c)'
  BY <1>0, <1>1, <1>2, <1>3, <1>4, <1>6 DEF WiredSoFar
<1> QED
  BY <1>2, <1>7

\* run_in_child() wires the next action, and leaves the others as they are: no
\* end of theirs is at a standard descriptor.
LEMMA RunInChildWires ==
  ASSUME StdJobs, Core, NEW c \in Child, WiredSoFar(c), RunInChild(c)
  PROVE  WiredSoFar(c)'
<1>0. TypeOK /\ CopyHolds /\ pc[c] = "setup" /\ copy[c] # <<>> /\ job' = job
  BY DEF Core, RunInChild
<1>1. CASE Gone(c)
  BY <1>0, <1>1 DEF Gone, TypeOK, WiredSoFar
<1>2. CASE ~ Gone(c)
  <2>0. PICK a \in Action, t \in [Fileno -> File \cup {None}] :
          a = Head(copy[c]) /\ t = table[c]
    BY <1>0, NextAction, TableFacts DEF TypeOK
  <2>1. /\ table'[c] = Connected(t, a) /\ copy'[c] = Tail(copy[c]) /\ pc'[c] = "setup"
        /\ t \in [Fileno -> File \cup {None}]
        /\ a \in Action /\ a.child \in Fileno /\ a = copy[c][1]
    BY <1>0, <1>2, <2>0, NextAction, TableFacts DEF RunInChild, TypeOK
  <2>2. /\ Len(copy[c]) \in Nat /\ Len(copy[c]) >= 1
        /\ Len(Tail(copy[c])) = Len(copy[c]) - 1
        /\ \A k \in 1 .. Len(copy[c]) - 1 : Tail(copy[c])[k] = copy[c][k + 1]
    <3>1. copy[c] \in Seq(Action)
      BY <1>0 DEF TypeOK
    <3> QED
      BY <1>0, <3>1, ActionFacts
  <2>3. Len(job[c]) \in Nat /\ Len(copy[c]) <= Len(job[c])
    BY <1>0, JobFacts DEF TypeOK, WiredSoFar
  <2>4. PICK j \in Nat, m \in Nat, r \in Nat, e \in Nat :
          /\ e \in 1 .. j /\ j = Len(job[c]) /\ m = Len(copy[c]) /\ 1 <= m /\ m <= j
          /\ r = j - m /\ e = r + 1 /\ r = Ran(c)
    <3>1. PICK x \in Nat, y \in Nat :
            x = Len(job[c]) /\ y = Len(copy[c]) /\ 1 <= y /\ y <= x
      BY <2>2, <2>3
    <3>4. 1 <= y /\ y <= x
      BY <3>1
    <3>2. x - y \in Nat /\ (x - y) + 1 \in 1 .. x
      BY <3>4
    <3>3. Ran(c) = x - y
      BY <3>1 DEF Ran
    <3> QED
      BY <3>1, <3>2, <3>3
  <2>20. 1 <= e /\ e <= j /\ 1 <= m /\ m <= j /\ r = j - m /\ e = r + 1
    BY <2>4
  <2>21. e \in 1 .. Len(job[c]) /\ \A k \in 1 .. Len(job[c]) : k \in Nat /\ k >= 1 /\ k <= j
    <3>1. Len(job[c]) = j
      BY <2>4
    <3> QED
      BY <2>20, <3>1
  <2>5. Ran(c)' = e
    <3>1. Ran(c)' = j - Len(Tail(copy[c]))
      BY <1>0, <2>1, <2>4 DEF Ran
    <3>2. Len(Tail(copy[c])) = m - 1
      BY <2>2, <2>4
    <3>3. j - (m - 1) = e
      BY <2>20
    <3> QED
      BY <3>1, <3>2, <3>3
  <2>6. \A k \in 1 .. Len(job[c]) : k > e => copy'[c][k - e] = copy[c][k - r]
    <3>1. SUFFICES ASSUME NEW k \in 1 .. Len(job[c]), k > e
                   PROVE  copy'[c][k - e] = copy[c][k - r]
      OBVIOUS
    <3>3. k - e \in 1 .. m - 1 /\ (k - e) + 1 = k - r
      BY <2>20, <2>21, <3>1
    <3> QED
      BY <2>1, <2>2, <2>4, <3>3
  <2>7. \A k \in 1 .. Len(job[c]) : /\ job[c][k].fdno \in Fileno /\ job[c][k].fdno <= 2
                                    /\ k # e => job[c][k].fdno # job[c][e].fdno
                                    /\ <<c, k>> \in Id
    <3>1. \A k \in 1 .. Len(job[c]) :
            /\ job[c][k].fdno \in Fileno /\ <<c, k>> \in Id
            /\ job[c][k].fdno = job[c][e].fdno => k = e
      BY <1>0, <2>21, JobFacts DEF TypeOK
    <3>2. job[c] \in Jobs
      BY <1>0, JobFacts DEF TypeOK
    <3> QED
      BY <3>1, <3>2 DEF StdJobs
  <2>8. Unwired(c, e, a)
    <3>1. ~ (e <= r) /\ e - r = 1
      BY <2>20
    <3>2. Unwired(c, e, copy[c][e - r])
      BY <1>0, <2>4, <2>21, <3>1 DEF WiredSoFar
    <3> QED
      BY <2>0, <2>1, <3>1, <3>2
  <2>9. \A n \in Fileno : table'[c][n] = IF n \in {a.parent, a.child} THEN None
                                         ELSE IF n = a.fdno THEN t[a.child] ELSE t[n]
    BY <2>1, ConnectedValues
  <2>10. /\ a.fdno = job[c][e].fdno /\ a.fdno \in Fileno /\ a.fdno <= 2
         /\ a.child > 2 /\ (a.parent # None => a.parent > 2)
         /\ t[a.child] = ChildEnd(<<c, e>>)
         /\ a.parent # None => t[a.parent] = ParentEnd(<<c, e>>)
         /\ \A n \in Fileno : IsOf(t[n], <<c, e>>) => n \in {a.child, a.parent}
    BY <2>0, <2>7, <2>8, <2>21 DEF Unwired
  <2>11. \A n \in Fileno : n <= 2 => n \notin {a.parent, a.child}
    BY <2>10, TableFacts, SpawnAssumption DEF Fileno
  <2>12. \A k \in 1 .. Len(job[c]) :
           /\ ChildEnd(<<c, k>>)' = ChildEnd(<<c, k>>)
           /\ ParentEnd(<<c, k>>)' = ParentEnd(<<c, k>>)
    BY <1>0, EndsStay
  <2>13. \A k, l \in 1 .. Len(job[c]) :
           /\ IsOf(ChildEnd(<<c, k>>), <<c, l>>) <=> k = l
           /\ IsOf(ParentEnd(<<c, k>>), <<c, l>>) <=> k = l
    <3>1. SUFFICES ASSUME NEW k \in 1 .. Len(job[c]), NEW l \in 1 .. Len(job[c])
                   PROVE  /\ IsOf(ChildEnd(<<c, k>>), <<c, l>>) <=> k = l
                          /\ IsOf(ParentEnd(<<c, k>>), <<c, l>>) <=> k = l
      OBVIOUS
    <3>2. <<c, k>> \in Id
      BY <2>7
    <3>3. \A q : (IsOf(ChildEnd(<<c, k>>), q) <=> q = <<c, k>>)
                /\ (IsOf(ParentEnd(<<c, k>>), q) <=> q = <<c, k>>)
      BY <3>2, EndFacts
    <3> QED
      BY <3>3
  <2>14. Wired(c, e)'
    <3>1. table'[c][job[c][e].fdno] = ChildEnd(<<c, e>>)
      BY <2>9, <2>10, <2>11
    <3>2. ASSUME NEW n \in Fileno, n # job[c][e].fdno
          PROVE  ~ IsOf(table'[c][n], <<c, e>>)
      BY <2>9, <2>10, <3>2 DEF IsOf
    <3> QED
      BY <1>0, <2>12, <2>21, <3>1, <3>2 DEF Wired, IsOf
  <2>15. ASSUME NEW k \in 1 .. Len(job[c]), NEW n \in Fileno, k # e,
                IsOf(table'[c][n], <<c, k>>)
         PROVE  table'[c][n] = t[n]
    BY <2>9, <2>10, <2>13, <2>15, <2>21 DEF IsOf
  <2>16. ASSUME NEW k \in 1 .. Len(job[c]), k < e
         PROVE  Wired(c, k)'
    <3>0. k <= r /\ k # e
      BY <2>16, <2>20, <2>21
    <3>1. Wired(c, k)
      BY <1>0, <2>4, <3>0 DEF WiredSoFar
    <3>5. /\ job[c][k].fdno \in Fileno /\ job[c][k].fdno # a.fdno
          /\ job[c][k].fdno \notin {a.parent, a.child}
      BY <2>7, <2>10, <2>11, <2>21, <3>0
    <3>2. table'[c][job[c][k].fdno] = t[job[c][k].fdno]
      BY <2>9, <3>5
    <3>3. ASSUME NEW n \in Fileno, n # job[c][k].fdno
          PROVE  ~ IsOf(table'[c][n], <<c, k>>)
      BY <2>0, <2>15, <2>16, <3>1, <3>3 DEF Wired
    <3>4. table'[c][job[c][k].fdno] = ChildEnd(<<c, k>>)
      BY <2>0, <3>1, <3>2 DEF Wired
    <3> QED
      BY <1>0, <2>12, <3>3, <3>4 DEF Wired, IsOf
  <2>17. ASSUME NEW k \in 1 .. Len(job[c]), k > e
         PROVE  Unwired(c, k, copy[c][k - e])'
    <3>0. ~ (k <= r) /\ k # e
      BY <2>17, <2>20, <2>21
    <3>1. PICK b \in Action : b = copy[c][k - r]
      <4>1. k - r \in 1 .. m
        BY <2>17, <2>20, <2>21
      <4>2. copy[c] \in Seq(Action)
        BY <1>0 DEF TypeOK
      <4> QED
        BY <2>4, <4>1, <4>2, ActionFacts
    <3>2. Unwired(c, k, b)
      BY <1>0, <2>4, <3>0, <3>1 DEF WiredSoFar
    <3>3. b = copy'[c][k - e]
      BY <2>6, <2>17, <3>1
    <3>4. ASSUME NEW n \in Fileno, n > 2,
                 t[n] \in {ChildEnd(<<c, k>>), ParentEnd(<<c, k>>)}
          PROVE  table'[c][n] = t[n]
      <4>1. ~ IsOf(t[n], <<c, e>>)
        BY <2>13, <2>21, <3>0, <3>4
      <4>2. n # a.child /\ n # a.parent
        BY <2>10, <2>13, <2>21, <4>1, TableFacts
      <4>3. n # a.fdno
        BY <2>10, <3>4, SpawnAssumption DEF Fileno
      <4> QED
        BY <2>9, <4>2, <4>3
    <3>5. table'[c][b.child] = ChildEnd(<<c, k>>)
      BY <2>0, <3>2, <3>4 DEF Unwired
    <3>6. b.parent # None => table'[c][b.parent] = ParentEnd(<<c, k>>)
      BY <2>0, <3>2, <3>4 DEF Unwired
    <3>7. \A n \in Fileno : IsOf(table'[c][n], <<c, k>>) => n \in {b.child, b.parent}
      BY <2>0, <2>15, <2>17, <3>2 DEF Unwired
    <3> QED
      BY <1>0, <2>12, <3>2, <3>3, <3>5, <3>6, <3>7 DEF Unwired, IsOf
  <2>18. Len(copy'[c]) <= Len(job[c])
    BY <2>1, <2>2, <2>3
  <2>19. ASSUME NEW k \in 1 .. Len(job[c])
         PROVE  IF k <= Ran(c)' THEN Wired(c, k)'
                ELSE Unwired(c, k, copy[c][k - Ran(c)])'
    <3>1. k < e \/ k = e \/ k > e
      BY <2>20, <2>21
    <3>2. k <= e <=> k < e \/ k = e
      BY <2>20, <2>21
    <3>3. CASE k > e
      <4>1. Unwired(c, k, copy[c][k - e])'
        BY <2>17, <3>3
      <4>2. ~ (k <= e)
        BY <2>20, <2>21, <3>3
      <4> QED
        BY <2>5, <4>1, <4>2
    <3>4. CASE k < e
      BY <2>5, <2>16, <3>2, <3>4
    <3>5. CASE k = e
      BY <2>5, <2>14, <3>2, <3>5
    <3> QED
      BY <3>1, <3>3, <3>4, <3>5
  <2> QED
    BY <1>0, <2>1, <2>18, <2>19 DEF WiredSoFar
<1> QED
  BY <1>1, <1>2

\* The other steps leave a child's descriptors alone, or end it.
LEMMA StillWired ==
  ASSUME NEW c \in Child, WiredSoFar(c), job' = job,
         \/ pc'[c] \notin {"setup", "running"}
         \/ /\ table'[c] = table[c] /\ copy'[c] = copy[c]
            /\ pc[c] \in {"setup", "running"}
            /\ pc'[c] = "running" => copy[c] = <<>>
  PROVE  WiredSoFar(c)'
<1>1. CASE pc'[c] \notin {"setup", "running"}
  BY <1>1 DEF WiredSoFar
<1>2. CASE /\ table'[c] = table[c] /\ copy'[c] = copy[c]
           /\ pc[c] \in {"setup", "running"}
           /\ pc'[c] = "running" => copy[c] = <<>>
  <2>1. Ran(c)' = Ran(c)
    BY <1>2 DEF Ran
  <2>2. \A k : /\ ChildEnd(<<c, k>>)' = ChildEnd(<<c, k>>)
               /\ ParentEnd(<<c, k>>)' = ParentEnd(<<c, k>>)
    BY EndsStay
  <2>3. \A k : Wired(c, k)' <=> Wired(c, k)
    BY <1>2, <2>2 DEF Wired, IsOf
  <2>4. \A k, a : Unwired(c, k, a)' <=> Unwired(c, k, a)
    BY <1>2, <2>2 DEF Unwired, IsOf
  <2>5. \A k : copy'[c][k - Ran(c)] = copy[c][k - Ran(c)]
    BY <1>2
  <2> QED
    BY <1>2, <2>1, <2>3, <2>4, <2>5 DEF WiredSoFar
<1> QED
  BY <1>1, <1>2

\* Every step keeps the invariant of a child's descriptors.
LEMMA WiringStep ==
  ASSUME StdJobs, Core, Wiring, [Next]_vars
  PROVE  Wiring'
<1>0. /\ TypeOK /\ cur \in Child
      /\ pc \in [Child -> PCs] /\ copy \in [Child -> Seq(Action)]
      /\ table \in [Process -> [Fileno -> File \cup {None}]]
  BY DEF Core, TypeOK
<1>1. job' = job
  <2>1. ParentNext => job' = job
    BY <1>0, ParentSteps
  <2> QED
    BY <1>0, <2>1, ChildTables DEF Next, vars
<1>2. SUFFICES ASSUME NEW c \in Child
               PROVE  WiredSoFar(c)'
  BY DEF Wiring
<1>3. WiredSoFar(c)
  BY DEF Wiring
<1>4. CASE UNCHANGED <<table, copy, pc>>
  BY <1>1, <1>3, <1>4, StillWired DEF WiredSoFar
<1>5. CASE ParentNext
  <2>1. CASE Fork
    <3>1. CASE c = cur
      <4>1. WiredSoFar(cur)'
        BY <2>1, ForkWires
      <4> QED
        BY <2>1, <3>1, <4>1 DEF Fork
    <3>2. CASE c # cur
      <4>1. table'[c] = table[c] /\ copy'[c] = copy[c] /\ pc'[c] = pc[c]
        BY <1>0, <2>1, <3>2, TableFacts DEF Fork
      <4> QED
        BY <1>1, <1>3, <4>1, StillWired DEF WiredSoFar
    <3> QED
      BY <3>1, <3>2
  <2>2. CASE ~ Fork
    <3>1. table'[c] = table[c]
      BY <1>0, <1>5, <2>2, ParentSteps
    <3>2. /\ copy' = copy
          /\ pc' = pc \/ pc' = [pc EXCEPT ![cur] = "reaped"]
      BY <1>5, <2>2
      DEF ParentNext, Make, MakeFails, ForkFails, Abandon, RunInParent, SpawnReturns,
          CaptureRead, CaptureEnds, Wait, WaitReturns, Feed, Drain, CloseFed,
          CloseDrained, CloseParentFd, childVars
    <3>3. pc'[c] = pc[c] \/ pc'[c] = "reaped"
      BY <1>0, <3>2
    <3> QED
      BY <1>1, <1>3, <3>1, <3>2, <3>3, StillWired DEF WiredSoFar
  <2> QED
    BY <2>1, <2>2
<1>6. ASSUME NEW d \in Child, ChildNext(d)
      PROVE  WiredSoFar(c)'
  <2>1. CASE d # c
    <3>1. table'[c] = table[c]
      BY <1>0, <1>6, <2>1, ChildTables, TableFacts
    <3>2. /\ copy' = copy \/ \E s : copy' = [copy EXCEPT ![d] = s]
          /\ pc' = pc \/ \E x : pc' = [pc EXCEPT ![d] = x]
      BY <1>6 DEF ChildNext, RunInChild, Gone, Exec, ExecFails, Exit, Read, Write
    <3>3. copy'[c] = copy[c] /\ pc'[c] = pc[c]
      BY <1>0, <2>1, <3>2
    <3> QED
      BY <1>1, <1>3, <3>1, <3>3, StillWired DEF WiredSoFar
  <2>2. CASE RunInChild(d) /\ d = c
    BY <1>3, <2>2, RunInChildWires
  <2>3. CASE (ExecFails(d) \/ Exit(d)) /\ d = c
    <3>1. pc'[c] = "exited"
      BY <1>0, <2>3 DEF ExecFails, Exit, Gone
    <3> QED
      BY <1>1, <1>3, <3>1, StillWired
  <2>4. CASE Exec(d) /\ d = c
    <3>1. /\ table'[c] = table[c] /\ copy'[c] = copy[c]
          /\ pc[c] = "setup" /\ copy[c] = <<>>
      BY <2>4 DEF Exec
    <3> QED
      BY <1>1, <1>3, <3>1, StillWired
  <2>5. CASE \E q \in Actions(d) : Read(d, q) \/ Write(d, q)
    BY <1>4, <2>5 DEF Read, Write
  <2> QED
    BY <1>6, <2>1, <2>2, <2>3, <2>4, <2>5 DEF ChildNext
<1> QED
  BY <1>4, <1>5, <1>6 DEF Next, vars, childVars

\* When a child's program runs, every descriptor it was given is the child's
\* end of its pipe, or its file, and no other is an end of the same pipe:
\* provided that the actions are for 0, 1 and 2, for another number may be that
\* of a pipe that a later action has yet to connect.
THEOREM ChildWiredAlways ==
  ASSUME StdJobs
  PROVE  Spec => []ChildWired
<1>1. Init => Core /\ Wiring
  BY CoreInit DEF Init, Wiring, WiredSoFar
<1>2. Core /\ Wiring /\ [Next]_vars => Core' /\ Wiring'
  BY CoreStep, WiringStep
<1>3. ASSUME Core, Wiring
      PROVE  ChildWired
  <2> SUFFICES ASSUME NEW c \in Child, pc[c] = "running", NEW q \in Actions(c)
               PROVE  \A n \in Fileno :
                        IF n = ActionOf(q).fdno THEN table[c][n] = ChildEnd(q)
                        ELSE ~ IsOf(table[c][n], q)
    BY DEF ChildWired
  <2>1. TypeOK /\ WiredSoFar(c) /\ copy[c] = <<>>
    BY <1>3 DEF Core, Wiring, WiredSoFar
  <2>2. PICK k \in 1 .. Len(job[c]) : q = <<c, k>> /\ ActionOf(q) = job[c][k]
    BY <2>1, ActionsFacts
  <2>3. Len(job[c]) \in Nat /\ Ran(c) = Len(job[c])
    BY <2>1, JobFacts DEF Ran, TypeOK
  <2>4. k <= Ran(c)
    BY <2>3
  <2>5. Wired(c, k)
    BY <2>1, <2>4 DEF WiredSoFar
  <2> QED
    BY <2>2, <2>5 DEF Wired
<1> QED
  BY <1>1, <1>2, <1>3, PTL DEF Spec
=============================================================================
