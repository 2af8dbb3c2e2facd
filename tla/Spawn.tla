------------------------------- MODULE Spawn -------------------------------
(***************************************************************************)
(* nihil.posix:spawn: spawn(), which forks and executes a child, and the   *)
(* actions that connect descriptors of the child to pipes of the parent    *)
(* (fd_read_pipe, fd_write_pipe, fd_capture) or to a file (fd_file).       *)
(*                                                                         *)
(* A program with one thread spawns its children one after the other, then *)
(* feeds and drains their pipes as poll() would tell it to, and waits for  *)
(* each child when it is through with that child's pipes.  A child reads   *)
(* every pipe it was given to the end, writes Output blocks to every pipe  *)
(* it was given for writing, and exits.  Descriptors are numbers in the    *)
(* table of a process; fork() copies the table, with every pipe end in it, *)
(* because nothing sets close-on-exec.                                     *)
(***************************************************************************)
EXTENDS Naturals, Sequences

CONSTANTS
  NChildren, \* how many children the program spawns
  Jobs,      \* the lists of actions it may spawn them with
  MaxFileno, \* the descriptor numbers are 0 .. MaxFileno
  Capacity,  \* how many blocks a pipe holds
  Input,     \* how many blocks the program writes to a read pipe
  Output,    \* how many blocks a child writes to a pipe
  Inserting, \* does the output iterator of a capture insert what it is given?
  ReadFails, \* may read() fail in a capture?
  None       \* no file, no descriptor

Kinds == {"read_pipe", "write_pipe", "capture", "file"}

Child == 1 .. NChildren

Parent == 0

Process == {Parent} \cup Child

Fileno == 0 .. MaxFileno

\* The pipe or file of action k for child c.
Id == {<<c, k>> : c \in Child, k \in UNION {DOMAIN j : j \in Jobs}}

\* What a descriptor may be.
File == [what : {"read", "write", "file"}, id : Id] \cup {[what |-> "std"]}

\* The actions given to one spawn() are for different descriptors.
ASSUME SpawnAssumption ==
  /\ NChildren \in Nat \ {0}
  /\ MaxFileno \in Nat
  /\ Capacity \in Nat \ {0}
  /\ Input \in Nat
  /\ Output \in Nat
  /\ Inserting \in BOOLEAN
  /\ ReadFails \in BOOLEAN
  /\ None \notin Fileno \cup File
  /\ Jobs \subseteq Seq([kind : Kinds, fdno : Fileno])
  /\ \A j \in Jobs : \A k, l \in 1 .. Len(j) : j[k].fdno = j[l].fdno => k = l

VARIABLES
  job,    \* job[c]: the actions for child c
  stage,  \* what the parent does next
  cur,    \* the child it does it for
  act,    \* how many actions of that child it has dealt with
  made,   \* made[c]: the action objects in the parent, with their descriptors
  copy,   \* copy[c]: what fork() made of them in child c
  pc,     \* pc[c]: what child c does next
  table,  \* table[p]: the descriptor table of process p
  pipe,   \* pipe[q]: the blocks in a pipe
  fed,    \* fed[q]: how many blocks the program wrote to a pipe
  sent,   \* sent[q]: how many blocks the child wrote to a pipe
  eof,    \* the pipes that a child has read to the end
  got     \* got[q]: what the parent has read from a pipe

parentVars == <<stage, cur, act, made, fed, got>>
childVars == <<copy, pc, sent, eof>>
vars == <<job, parentVars, childVars, table, pipe>>

Action ==
  [kind : Kinds, fdno : Fileno,
   child : Fileno \cup {None}, parent : Fileno \cup {None}]

Stages == {"make", "parent", "capture", "use", "wait"}

PCs == {"unborn", "setup", "running", "exited", "reaped"}

TypeOK ==
  /\ job \in [Child -> Jobs]
  /\ stage \in Stages
  /\ cur \in Child
  /\ act \in Nat
  /\ made \in [Child -> Seq(Action)]
  /\ copy \in [Child -> Seq(Action)]
  /\ pc \in [Child -> PCs]
  /\ table \in [Process -> [Fileno -> File \cup {None}]]
  /\ pipe \in [Id -> Seq(Fileno \X Nat)]
  /\ \A q \in Id : Len(pipe[q]) <= Capacity
  /\ fed \in [Id -> 0 .. Input]
  /\ sent \in [Id -> 0 .. Output]
  /\ eof \subseteq Id
  /\ got \in [Id -> Seq(Fileno \X Nat)]

Empty == [n \in Fileno |-> None]

ReadEnd(q) == [what |-> "read", id |-> q]

WriteEnd(q) == [what |-> "write", id |-> q]

Open(f) == \E p \in Process, n \in Fileno : table[p][n] = f

Init ==
  /\ job \in [Child -> Jobs]
  /\ stage = "make"
  /\ cur = 1
  /\ act = 0
  /\ made = [c \in Child |-> <<>>]
  /\ copy = [c \in Child |-> <<>>]
  /\ pc = [c \in Child |-> "unborn"]
  /\ table = [p \in Process |->
                IF p = Parent
                THEN [n \in Fileno |-> IF n <= 2 THEN [what |-> "std"] ELSE None]
                ELSE Empty]
  /\ pipe = [q \in Id |-> <<>>]
  /\ fed = [q \in Id |-> 0]
  /\ sent = [q \in Id |-> 0]
  /\ eof = {}
  /\ got = [q \in Id |-> <<>>]

----------------------------------------------------------------------------
(* Descriptor tables *)

\* The number that open() and pipe() give out: the lowest that is free in t.
IsLowest(t, n) == t[n] = None /\ \A i \in Fileno : t[i] = None => n <= i

\* close() of the descriptor that an action has, if it has one.
Closed(t, n) == IF n = None THEN t ELSE [t EXCEPT ![n] = None]

\* What is left in t of an action when its descriptors are closed.
Without(t, a) == Closed(Closed(t, a.parent), a.child)

----------------------------------------------------------------------------
(* The parent *)

\* make_fd_file(): open().
MakeFile ==
  LET a == job[cur][act + 1]
  IN /\ a.kind = "file"
     /\ \E n \in Fileno :
          /\ IsLowest(table[Parent], n)
          /\ table' = [table EXCEPT ![Parent][n] =
                         [what |-> "file", id |-> <<cur, act + 1>>]]
          /\ made' = [made EXCEPT ![cur] = Append(@,
                        [kind |-> "file", fdno |-> a.fdno, child |-> n, parent |-> None])]

\* make_fd_read_pipe(), make_fd_write_pipe(), make_capture(): pipe(), of which
\* the child gets the reading end or the writing end.
MakePipe ==
  LET a == job[cur][act + 1]
      q == <<cur, act + 1>>
      reads == a.kind = "read_pipe"
  IN /\ a.kind # "file"
     /\ \E m, n \in Fileno :
          /\ IsLowest(table[Parent], m)
          /\ IsLowest([table[Parent] EXCEPT ![m] = ReadEnd(q)], n)
          /\ table' = [table EXCEPT ![Parent][m] = ReadEnd(q), ![Parent][n] = WriteEnd(q)]
          /\ made' = [made EXCEPT ![cur] = Append(@,
                        [kind |-> a.kind, fdno |-> a.fdno,
                         child  |-> IF reads THEN m ELSE n,
                         parent |-> IF reads THEN n ELSE m])]

Make ==
  /\ stage = "make"
  /\ act < Len(job[cur])
  /\ MakeFile \/ MakePipe
  /\ act' = act + 1
  /\ UNCHANGED <<job, stage, cur, fed, got, childVars, pipe>>

\* After spawn() the program spawns the next child, or uses those it has.
Return ==
  /\ act' = 0
  /\ IF cur < NChildren THEN stage' = "make" /\ cur' = cur + 1
     ELSE stage' = "use" /\ UNCHANGED cur

\* fork(): the child has the parent's descriptors and action objects.
Fork ==
  /\ stage = "make"
  /\ act = Len(job[cur])
  /\ table' = [table EXCEPT ![cur] = table[Parent]]
  /\ copy' = [copy EXCEPT ![cur] = made[cur]]
  /\ pc' = [pc EXCEPT ![cur] = "setup"]
  /\ stage' = "parent"
  /\ act' = 0
  /\ UNCHANGED <<job, cur, made, fed, got, sent, eof, pipe>>

\* The parent's table when the action objects for child c are destroyed.
Dropped(c) ==
  [n \in Fileno |->
     IF \E k \in DOMAIN made[c] : n \in {made[c][k].child, made[c][k].parent}
     THEN None ELSE table[Parent][n]]

\* The program gives up this child, and drops the actions it has for it.
Abandon ==
  /\ table' = [table EXCEPT ![Parent] = Dropped(cur)]
  /\ made' = [made EXCEPT ![cur] = <<>>]
  /\ pc' = [pc EXCEPT ![cur] = "reaped"]
  /\ Return
  /\ UNCHANGED <<job, copy, fed, got, sent, eof, pipe>>

\* open() or pipe() fails: there is one action less than spawn() needs.
MakeFails ==
  /\ stage = "make"
  /\ act < Len(job[cur])
  /\ Abandon

\* fork() fails: spawn() returns the error.
ForkFails ==
  /\ stage = "make"
  /\ act = Len(job[cur])
  /\ Abandon

\* Mutant: run_in_parent() closes nothing.
RunInParentKeeps ==
  /\ stage = "parent"
  /\ act < Len(job[cur])
  /\ act' = act + 1
  /\ stage' = IF made[cur][act + 1].kind = "capture" THEN "capture" ELSE "parent"
  /\ UNCHANGED <<job, cur, made, table, fed, got, childVars, pipe>>

\* run_in_parent() of the next action: the child's end is closed, and a
\* capture begins to read.
RunInParent ==
  /\ stage = "parent"
  /\ act < Len(job[cur])
  /\ act' = act + 1
  /\ table' = [table EXCEPT ![Parent] = Closed(@, made[cur][act + 1].child)]
  /\ made' = [made EXCEPT ![cur][act + 1].child = None]
  /\ stage' = IF made[cur][act + 1].kind = "capture" THEN "capture" ELSE "parent"
  /\ UNCHANGED <<job, cur, fed, got, childVars, pipe>>

\* All actions are done: spawn() returns the process.
SpawnReturns ==
  /\ stage = "parent"
  /\ act = Len(job[cur])
  /\ Return
  /\ UNCHANGED <<job, made, fed, got, childVars, table, pipe>>

\* Mutant: the capture reads once.
CaptureReadOnce ==
  LET q == <<cur, act>>
  IN /\ stage = "capture"
     /\ pipe[q] # <<>>
     /\ got' = [got EXCEPT ![q] = pipe[q]]
     /\ pipe' = [pipe EXCEPT ![q] = <<>>]
     /\ stage' = "parent"
     /\ UNCHANGED <<job, cur, act, made, fed, childVars, table>>

\* Mutant: the whole buffer is copied, not only the part that was read.
CopiedBuffer(old, s) == Append(old \o s, None)

\* ranges::copy(*ret, m_iterator) leaves m_iterator as it was: an iterator that
\* inserts adds the blocks at the end, one with a position writes them over
\* those that are there.
Copied(old, s) ==
  IF Inserting THEN old \o s ELSE s \o SubSeq(old, Len(s) + 1, Len(old))

\* The capture's loop reads what there is.
CaptureRead ==
  LET q == <<cur, act>>
  IN /\ stage = "capture"
     /\ \E n \in 1 .. Len(pipe[q]) :
          /\ got' = [got EXCEPT ![q] = Copied(@, SubSeq(pipe[q], 1, n))]
          /\ pipe' = [pipe EXCEPT ![q] = SubSeq(@, n + 1, Len(@))]
     /\ UNCHANGED <<job, stage, cur, act, made, fed, childVars, table>>

\* The loop ends when no one can write to the pipe any more, or on an error.
CaptureEnds ==
  LET q == <<cur, act>>
  IN /\ stage = "capture"
     /\ ReadFails \/ (pipe[q] = <<>> /\ ~ Open(WriteEnd(q)))
     /\ stage' = "parent"
     /\ UNCHANGED <<job, cur, act, made, fed, got, childVars, table, pipe>>

\* The program closes its end of a pipe.
CloseParentFd(c, k) ==
  /\ table' = [table EXCEPT ![Parent] = Closed(@, made[c][k].parent)]
  /\ made' = [made EXCEPT ![c][k].parent = None]
  /\ UNCHANGED <<job, stage, cur, act, fed, got, childVars, pipe>>

Has(c, k, kind) ==
  /\ k \in DOMAIN made[c]
  /\ made[c][k].kind = kind
  /\ made[c][k].parent # None

\* The program writes to a read pipe, and closes it at the end of its input or
\* when no one reads from it any more.
Feed(c, k) ==
  LET q == <<c, k>>
  IN /\ stage = "use"
     /\ Has(c, k, "read_pipe")
     /\ Open(ReadEnd(q)) /\ fed[q] < Input /\ Len(pipe[q]) < Capacity
     /\ fed' = [fed EXCEPT ![q] = @ + 1]
     /\ pipe' = [pipe EXCEPT ![q] = Append(@, <<made[c][k].fdno, fed[q] + 1>>)]
     /\ UNCHANGED <<job, stage, cur, act, made, got, childVars, table>>

CloseFed(c, k) ==
  /\ stage = "use"
  /\ Has(c, k, "read_pipe")
  /\ fed[<<c, k>>] = Input \/ ~ Open(ReadEnd(<<c, k>>))
  /\ CloseParentFd(c, k)

\* The program reads from a write pipe until its end.
Drain(c, k) ==
  LET q == <<c, k>>
  IN /\ stage = "use"
     /\ Has(c, k, "write_pipe")
     /\ pipe[q] # <<>>
     /\ got' = [got EXCEPT ![q] = Append(@, Head(pipe[q]))]
     /\ pipe' = [pipe EXCEPT ![q] = Tail(@)]
     /\ UNCHANGED <<job, stage, cur, act, made, fed, childVars, table>>

CloseDrained(c, k) ==
  /\ stage = "use"
  /\ Has(c, k, "write_pipe")
  /\ pipe[<<c, k>>] = <<>>
  /\ ~ Open(WriteEnd(<<c, k>>))
  /\ CloseParentFd(c, k)

\* The program calls wait() for a child whose pipes it is through with.
Wait(c) ==
  /\ stage = "use"
  /\ pc[c] # "reaped"
  /\ \A k \in DOMAIN made[c] : ~ Has(c, k, "read_pipe") /\ ~ Has(c, k, "write_pipe")
  /\ stage' = "wait"
  /\ cur' = c
  /\ UNCHANGED <<job, act, made, fed, got, childVars, table, pipe>>

\* The child has exited: wait() returns, and the actions are destroyed.
WaitReturns ==
  /\ stage = "wait"
  /\ pc[cur] = "exited"
  /\ pc' = [pc EXCEPT ![cur] = "reaped"]
  /\ table' = [table EXCEPT ![Parent] = Dropped(cur)]
  /\ made' = [made EXCEPT ![cur] = <<>>]
  /\ stage' = "use"
  /\ UNCHANGED <<job, cur, act, copy, fed, got, sent, eof, pipe>>

ParentNext ==
  \/ Make \/ MakeFails \/ Fork \/ ForkFails \/ RunInParent \/ SpawnReturns
  \/ CaptureRead \/ CaptureEnds \/ WaitReturns
  \/ \E c \in Child : Wait(c)
  \/ \E c \in Child : \E k \in DOMAIN made[c] :
       Feed(c, k) \/ CloseFed(c, k) \/ Drain(c, k) \/ CloseDrained(c, k)

----------------------------------------------------------------------------
(* The children *)

\* The child is gone, and its descriptors with it.
Gone(c) ==
  /\ pc' = [pc EXCEPT ![c] = "exited"]
  /\ table' = [table EXCEPT ![c] = Empty]
  /\ copy' = [copy EXCEPT ![c] = <<>>]

\* Mutant: run_in_child() leaves the parent's end open.
ConnectedKeeps(t, a) == Closed([t EXCEPT ![a.fdno] = t[a.child]], a.child)

\* What run_in_child() of an action does to a table: dup2() of the child's end,
\* then both ends are closed.
Connected(t, a) == Without([t EXCEPT ![a.fdno] = t[a.child]], a)

\* run_in_child() of the next action; if dup2() fails, the child exits.
RunInChild(c) ==
  /\ pc[c] = "setup"
  /\ copy[c] # <<>>
  /\ LET a == Head(copy[c])
     IN IF table[c][a.child] = None
        THEN Gone(c)
        ELSE /\ table' = [table EXCEPT ![c] = Connected(@, a)]
             /\ copy' = [copy EXCEPT ![c] = Tail(@)]
             /\ UNCHANGED pc
  /\ UNCHANGED <<job, parentVars, sent, eof, pipe>>

\* exec() of the program.
Exec(c) ==
  /\ pc[c] = "setup"
  /\ copy[c] = <<>>
  /\ pc' = [pc EXCEPT ![c] = "running"]
  /\ UNCHANGED <<job, parentVars, copy, sent, eof, table, pipe>>

\* exec() fails: quick_exit() does not flush the message to a pipe.
ExecFails(c) ==
  /\ pc[c] = "setup"
  /\ copy[c] = <<>>
  /\ Gone(c)
  /\ UNCHANGED <<job, parentVars, sent, eof, pipe>>

Actions(c) == {<<c, k>> : k \in 1 .. Len(job[c])}

ActionOf(q) == job[q[1]][q[2]]

ToRead(c) == {q \in Actions(c) : ActionOf(q).kind = "read_pipe"}

ToWrite(c) == {q \in Actions(c) : ActionOf(q).kind \in {"write_pipe", "capture"}}

\* The child reads a block, or the end of the file.
Read(c, q) ==
  /\ pc[c] = "running"
  /\ q \in ToRead(c) \ eof
  /\ table[c][ActionOf(q).fdno] = ReadEnd(q)
  /\ \/ /\ pipe[q] # <<>>
        /\ pipe' = [pipe EXCEPT ![q] = Tail(@)]
        /\ UNCHANGED eof
     \/ /\ pipe[q] = <<>>
        /\ ~ Open(WriteEnd(q))
        /\ eof' = eof \cup {q}
        /\ UNCHANGED pipe
  /\ UNCHANGED <<job, parentVars, copy, pc, sent, table>>

Write(c, q) ==
  /\ pc[c] = "running"
  /\ q \in ToWrite(c)
  /\ table[c][ActionOf(q).fdno] = WriteEnd(q)
  /\ sent[q] < Output
  /\ Len(pipe[q]) < Capacity
  /\ sent' = [sent EXCEPT ![q] = @ + 1]
  /\ pipe' = [pipe EXCEPT ![q] = Append(@, <<ActionOf(q).fdno, sent[q] + 1>>)]
  /\ UNCHANGED <<job, parentVars, copy, pc, eof, table>>

Exit(c) ==
  /\ pc[c] = "running"
  /\ ToRead(c) \subseteq eof
  /\ \A q \in ToWrite(c) : sent[q] = Output
  /\ Gone(c)
  /\ UNCHANGED <<job, parentVars, sent, eof, pipe>>

ChildNext(c) ==
  \/ RunInChild(c) \/ Exec(c) \/ ExecFails(c) \/ Exit(c)
  \/ \E q \in Actions(c) : Read(c, q) \/ Write(c, q)

----------------------------------------------------------------------------

Next == ParentNext \/ \E c \in Child : ChildNext(c)

Spec == Init /\ [][Next]_vars

\* The kernel runs every process that can run.
FairSpec == Spec /\ WF_vars(ParentNext) /\ \A c \in Child : WF_vars(ChildNext(c))

----------------------------------------------------------------------------
(* Properties *)

Spawned(c) == c < cur \/ stage \in {"use", "wait"}

\* The end of the pipe of action q that the child is given, or its file.
ChildEnd(q) ==
  [what |-> CASE ActionOf(q).kind = "read_pipe" -> "read"
              [] ActionOf(q).kind = "file"      -> "file"
              [] OTHER                          -> "write",
   id |-> q]

\* Is f an end of the pipe of q, or its file?
IsOf(f, q) == f # None /\ f.what # "std" /\ f.id = q

\* What the comment at spawn.ccm:18 promises the child: when its program runs,
\* each descriptor it was given is the child's end of its pipe, or its file,
\* and no other descriptor is an end of the same pipe: with the parent's end
\* in its own hands it would never see the end of its input.
ChildWired ==
  \A c \in Child : pc[c] = "running" =>
    \A q \in Actions(c), n \in Fileno :
      IF n = ActionOf(q).fdno THEN table[c][n] = ChildEnd(q)
      ELSE ~ IsOf(table[c][n], q)

\* When spawn() has returned, a capture holds all that the child wrote to its
\* descriptor, in order: spawn() does not return before the child's last
\* write, whatever the child's program and its other descriptors are.
CaptureComplete ==
  \A c \in Child : Spawned(c) =>
    \A q \in Actions(c) : ActionOf(q).kind = "capture" =>
      got[q] = [i \in 1 .. sent[q] |-> <<ActionOf(q).fdno, i>>]

\* The parent has no pipe end open but the one that an action's parent_fd
\* holds, and those of actions that were not given to spawn() yet or that
\* spawn() has not dealt with: with a forgotten writing end of its own, the
\* parent would read for ever.
ParentEnds ==
  \A n \in Fileno : LET f == table[Parent][n] IN
    f # None /\ f.what \in {"read", "write"} =>
      LET c == f.id[1]
          k == f.id[2]
      IN /\ k \in DOMAIN made[c]
         /\ \/ made[c][k].parent = n
            \/ made[c][k].child = n /\ ~ Spawned(c)

\* A capture reads to the end inside spawn(): until then the parent neither
\* writes to nor reads from another pipe of the same child.
Blocking(j) ==
  \E k, l \in 1 .. Len(j) :
    /\ k # l
    /\ j[k].kind = "capture"
    /\ j[l].kind # "file"

\* A child that is forked while the parent can write to the pipe of an earlier
\* child can do so too: the earlier child reads until the later one has exited,
\* and if the later one needs the parent before it exits, the parent must not
\* wait for the earlier one first.
Entangled(i, j) ==
  /\ \E k \in 1 .. Len(i) : i[k].kind = "read_pipe"
  /\ \E k \in 1 .. Len(j) : j[k].kind \in {"read_pipe", "write_pipe"}

Done == stage = "use" /\ \A c \in Child : pc[c] = "reaped"

\* Every spawn() returns and every child exits and is waited for, whatever the
\* order in which the processes run and the program uses its pipes, unless a
\* capture is spawned with another pipe, or the children are entangled.
Terminates ==
  (\A c, d \in Child :
     ~ Blocking(job[c]) /\ (c < d => ~ Entangled(job[c], job[d]))) => <>Done
=============================================================================
