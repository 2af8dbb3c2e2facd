------------------------------ MODULE Process ------------------------------
(***************************************************************************)
(* nihil.posix:process, with fork() and the end of spawn(): struct         *)
(* process, the move-only owner of a child that has to be waited for.      *)
(*                                                                         *)
(* Children exit when they like and stay zombies until someone waits for   *)
(* them; only then may the kernel use their process id again.  A wait for  *)
(* a child that still runs blocks, a wait for what is not a child of this  *)
(* process fails and changes nothing.  The program does not call wait() on *)
(* an object that was moved from, released or waited for before.           *)
(***************************************************************************)
CONSTANTS
  Obj,           \* the variables of type process
  Pid,           \* process ids
  None,          \* the m_pid of an object that was moved from: -1
  Dead,          \* the variable holds no object
  OverwritesHeld,\* may the program move-assign to an object with a child?
  Interrupts,    \* may a signal interrupt the waitpid() of the destructor?
  ReusesPid      \* may fork() return a pid that is still in some m_pid?

ASSUME ProcessAssumption ==
  /\ None \notin Pid
  /\ Dead \notin Pid
  /\ None # Dead
  /\ OverwritesHeld \in BOOLEAN
  /\ Interrupts \in BOOLEAN
  /\ ReusesPid \in BOOLEAN

VARIABLES
  child,  \* kernel: child[p] is what child p is doing
  m_pid,  \* m_pid[o]: the object's m_pid, or Dead
  waited, \* history: the objects whose child was waited for by wait()
  bare    \* the children the program holds by their bare pids

vars == <<child, m_pid, waited, bare>>

TypeOK ==
  /\ child \in [Pid -> {"none", "running", "zombie"}]
  /\ m_pid \in [Obj -> Pid \cup {None, Dead}]
  /\ waited \subseteq {o \in Obj : m_pid[o] \in Pid}
  /\ bare \subseteq Pid

Children == {p \in Pid : child[p] # "none"}

HasPid(o) == m_pid[o] \in Pid

\* The object answers for a child: it has a pid and did not wait for it yet.
Holds(o) == HasPid(o) /\ o \notin waited

Alive(o) == m_pid[o] # Dead

Init ==
  /\ child = [p \in Pid |-> "none"]
  /\ m_pid = [o \in Obj |-> Dead]
  /\ waited = {}
  /\ bare = {}

----------------------------------------------------------------------------

\* fork() gives a pid that names no child, running or zombie.
Forked(p) ==
  /\ child[p] = "none"
  /\ ReusesPid \/ \A o \in Obj : m_pid[o] # p
  /\ child' = [child EXCEPT ![p] = "running"]

\* spawn(): process(pid) in the parent.
Spawn(o, p) ==
  /\ ~ Alive(o)
  /\ Forked(p)
  /\ m_pid' = [m_pid EXCEPT ![o] = p]
  /\ UNCHANGED <<waited, bare>>

\* fork() called by the program itself.
Fork(p) ==
  /\ Forked(p)
  /\ bare' = bare \cup {p}
  /\ UNCHANGED <<m_pid, waited>>

\* process(pid), "which must be a child of the current process".
Construct(o, p) ==
  /\ ~ Alive(o)
  /\ p \in bare
  /\ m_pid' = [m_pid EXCEPT ![o] = p]
  /\ bare' = bare \ {p}
  /\ UNCHANGED <<child, waited>>

Exit(p) ==
  /\ child[p] = "running"
  /\ child' = [child EXCEPT ![p] = "zombie"]
  /\ UNCHANGED <<m_pid, waited, bare>>

----------------------------------------------------------------------------

\* Mutant: the move copies m_pid.
NotEmptied(p) == m_pid

\* Mutant: an object that was moved from holds 0, not -1.
EmptiedToZero(p) == [m_pid EXCEPT ![p] = "zero"]

\* What a move leaves behind: std::exchange(other.m_pid, -1).
Emptied(p) == [m_pid EXCEPT ![p] = None]

\* What o is told by the move of p's m_pid to o: a pid that was waited for
\* stays one.
Moved(o, p) == IF p \in waited THEN (waited \ {p}) \cup {o} ELSE waited \ {o}

MoveConstruct(o, p) ==
  /\ ~ Alive(o)
  /\ Alive(p)
  /\ m_pid' = [Emptied(p) EXCEPT ![o] = m_pid[p]]
  /\ waited' = Moved(o, p)
  /\ UNCHANGED <<child, bare>>

\* operator=(process &&): whatever self held is overwritten, not waited for.
MoveAssign(o, p) ==
  /\ o # p
  /\ Alive(o)
  /\ Alive(p)
  /\ OverwritesHeld \/ ~ Holds(o)
  /\ m_pid' = [Emptied(p) EXCEPT ![o] = m_pid[p]]
  /\ waited' = Moved(o, p)
  /\ UNCHANGED <<child, bare>>

\* Mutant: release() returns the pid and keeps it.
ReleaseKeeps(p) ==
  /\ HasPid(p)
  /\ bare' = IF Holds(p) THEN bare \cup {m_pid[p]} ELSE bare
  /\ UNCHANGED <<child, m_pid, waited>>

\* release() &&: the child is the caller's.
Release(p) ==
  /\ HasPid(p)
  /\ bare' = IF Holds(p) THEN bare \cup {m_pid[p]} ELSE bare
  /\ m_pid' = Emptied(p)
  /\ waited' = waited \ {p}
  /\ UNCHANGED child

----------------------------------------------------------------------------

\* waitpid(p) returns when p has exited, and p is gone.
Reap(p) ==
  /\ child[p] = "zombie"
  /\ child' = [child EXCEPT ![p] = "none"]

\* Mutant: wait() calls ::wait(), which takes any zombie.
WaitAny(o) ==
  /\ Holds(o)
  /\ \E p \in Pid : Reap(p)
  /\ waited' = waited \cup {o}
  /\ UNCHANGED <<m_pid, bare>>

\* wait() &&: m_pid stays what it was.
Wait(o) ==
  /\ Holds(o)
  /\ Reap(m_pid[o])
  /\ waited' = waited \cup {o}
  /\ UNCHANGED <<m_pid, bare>>

\* ~process() of an object with m_pid -1.
DestroyEmpty(o) ==
  /\ m_pid[o] = None
  /\ m_pid' = [m_pid EXCEPT ![o] = Dead]
  /\ UNCHANGED <<child, waited, bare>>

\* Mutant: the destructor does not wait.
DestroyNoWait(o) ==
  /\ HasPid(o)
  /\ m_pid' = [m_pid EXCEPT ![o] = Dead]
  /\ waited' = waited \ {o}
  /\ UNCHANGED <<child, bare>>

\* ~process() of an object with a pid: waitpid() reaps a zombie, whoever's it
\* is by now.  An error is ignored, also the one of an interrupted wait.
Destroy(o) ==
  /\ HasPid(o)
  /\ \/ Reap(m_pid[o])
     \/ /\ child[m_pid[o]] = "none" \/ Interrupts
        /\ UNCHANGED child
  /\ m_pid' = [m_pid EXCEPT ![o] = Dead]
  /\ waited' = waited \ {o}
  /\ UNCHANGED bare

\* The program waits for a child it holds by its pid.
ReapBare(p) ==
  /\ p \in bare
  /\ Reap(p)
  /\ bare' = bare \ {p}
  /\ UNCHANGED <<m_pid, waited>>

----------------------------------------------------------------------------

Next ==
  \/ \E o \in Obj, p \in Pid : Spawn(o, p) \/ Construct(o, p)
  \/ \E p \in Pid : Fork(p) \/ Exit(p) \/ ReapBare(p)
  \/ \E o, p \in Obj : MoveConstruct(o, p) \/ MoveAssign(o, p)
  \/ \E o \in Obj : Release(o) \/ Wait(o) \/ DestroyEmpty(o) \/ Destroy(o)

Spec == Init /\ [][Next]_vars

----------------------------------------------------------------------------
(* Properties *)

\* Nobody else answers for a child that an object holds: whoever of two would
\* wait second would wait for a stranger, or for ever.
OneHolder ==
  \A o \in Obj : Holds(o) =>
    /\ m_pid[o] \notin bare
    /\ \A p \in Obj : Holds(p) /\ m_pid[p] = m_pid[o] => p = o

\* A child is there until its holder has waited for it: wait() does not fail,
\* and the destructor does not wait for nothing, because someone else has
\* taken the exit status.  The destructor of an object after its wait() calls
\* waitpid() a second time, which is harmless only as long as the kernel has
\* not used the pid for another child.
HeldIsChild ==
  /\ \A o \in Obj : Holds(o) => m_pid[o] \in Children
  /\ bare \subseteq Children

\* No zombie is forgotten: every child has a holder that will wait for it.
NoLeak ==
  \A p \in Children : p \in bare \/ \E o \in Obj : Holds(o) /\ m_pid[o] = p

\* struct process implements exclusive ownership of children, as long as no
\* pid is reused too early, no wait of a destructor is interrupted and no
\* object with a child is overwritten.  An object gives its child up at its
\* wait(), though m_pid never says so.
Holding(o) == IF Holds(o) THEN m_pid[o] ELSE None

Owned == [o \in Obj |-> Holding(o)]

H == INSTANCE Handles WITH
  Handle <- Pid, live <- Children, owns <- Owned, program <- bare

ImplementsHandles == H!Spec
=============================================================================
