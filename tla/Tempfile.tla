------------------------------ MODULE Tempfile ------------------------------
(***************************************************************************)
(* nihil.posix:tempfile: tempfile(), which creates a file under a name it  *)
(* makes up, and temporary_file, the object that removes the file again.   *)
(*                                                                         *)
(* Several processes create temporary files in one directory ($TMPDIR, the *)
(* same for all of them), beside programs that know nothing of nihil.  A   *)
(* call's steps are its system calls.  A process may fork, which copies    *)
(* its objects, and may end without destroying them: it is killed, leaves  *)
(* by _exit() or calls execve().                                           *)
(***************************************************************************)
EXTENDS Naturals

CONSTANTS
  Proc,
  Obj,      \* the temporary_file objects of a process
  Name,     \* the names that random_name() can make up
  File,     \* the files that the processes create
  Foreign,  \* any file of another program
  None      \* no file, no name, no object

ASSUME TempfileAssumption ==
  /\ Foreign \notin File
  /\ None \notin File \cup Name \cup Obj \cup {Foreign}

VARIABLES
  dir,      \* dir[n]: the file that is called n, or None
  pc,       \* pc[p]: the system call p makes next, "idle", or "off"
  name,     \* name[p]: filename, of tempfile()
  obj,      \* obj[p]: the object to be returned when unlink() has been called
  file,     \* file[p][o]: the file that m_fd has open, or None
  path,     \* path[p][o]: m_path, or None
  forked,   \* history: the files that an object held when its process forked
  unwound,  \* history: has an object removed its file while a copy of it lived?
  left      \* history: the files that an object had to leave behind

vars == <<dir, pc, name, obj, file, path, forked, unwound, left>>

\* "open" and "discard": the open() and the unlink() of tempfile().
PCs == {"off", "idle", "open", "discard"}

TypeOK ==
  /\ dir \in [Name -> File \cup {Foreign, None}]
  /\ pc \in [Proc -> PCs]
  /\ name \in [Proc -> Name \cup {None}]
  /\ obj \in [Proc -> Obj \cup {None}]
  /\ file \in [Proc -> [Obj -> File \cup {None}]]
  /\ path \in [Proc -> [Obj -> Name \cup {None}]]
  /\ forked \subseteq File
  /\ unwound \in BOOLEAN
  /\ left \subseteq File
  /\ \A p \in Proc :
       /\ pc[p] = "open" <=> name[p] # None
       /\ pc[p] = "discard" <=> obj[p] # None
       /\ pc[p] = "discard" => path[p][obj[p]] # None
       /\ pc[p] = "off" => \A o \in Obj : file[p][o] = None
       /\ \A o \in Obj : path[p][o] # None => file[p][o] # None

Empty == [o \in Obj |-> None]

Init ==
  /\ dir \in [Name -> {Foreign, None}]
  /\ pc = [p \in Proc |-> "off"]
  /\ name = [p \in Proc |-> None]
  /\ obj = [p \in Proc |-> None]
  /\ file = [p \in Proc |-> Empty]
  /\ path = [p \in Proc |-> Empty]
  /\ forked = {}
  /\ unwound = FALSE
  /\ left = {}

history == <<forked, unwound, left>>

Goto(p, l) == pc' = [pc EXCEPT ![p] = l]

\* File f has been given a path by an object of process p.
Holds(p, f) == \E o \in Obj : file[p][o] = f /\ path[p][o] # None

\* No name and no descriptor leads to file f.
Unused(f) ==
  /\ \A n \in Name : dir[n] # f
  /\ \A p \in Proc, o \in Obj : file[p][o] # f

----------------------------------------------------------------------------
(* tempfile() *)

\* Name n is the first one that the call makes up.
Call(p, n) ==
  /\ pc[p] = "idle"
  /\ \E o \in Obj : file[p][o] = None
  /\ Goto(p, "open")
  /\ name' = [name EXCEPT ![p] = n]
  /\ UNCHANGED <<dir, obj, file, path, history>>

\* tempfile() makes object o of file f, which it has opened.  With
\* tempfile_unlink it goes on to unlink() filename, which is not to be m_path.
Opened(p, f, o, unlink) ==
  /\ file[p][o] = None
  /\ file' = [file EXCEPT ![p][o] = f]
  /\ path' = [path EXCEPT ![p][o] = name[p]]
  /\ name' = [name EXCEPT ![p] = None]
  /\ Goto(p, IF unlink THEN "discard" ELSE "idle")
  /\ obj' = [obj EXCEPT ![p] = IF unlink THEN o ELSE None]
  /\ forked' = forked \ {f}
  /\ left' = left \ {f}
  /\ UNCHANGED unwound

\* Mutant: open() without open_exclusive takes the file that is there.
OpenShared(p, f, o, unlink) ==
  /\ pc[p] = "open"
  /\ IF dir[name[p]] = None THEN Unused(f) ELSE f = dir[name[p]]
  /\ dir' = [dir EXCEPT ![name[p]] = f]
  /\ Opened(p, f, o, unlink)

\* open() creates the file.
OpenNew(p, f, o, unlink) ==
  /\ pc[p] = "open"
  /\ dir[name[p]] = None
  /\ Unused(f)
  /\ dir' = [dir EXCEPT ![name[p]] = f]
  /\ Opened(p, f, o, unlink)

\* Mutant: the name is made up once, before the loop.
OpenAgain(p, n) ==
  /\ pc[p] = "open"
  /\ dir[name[p]] # None
  /\ n = name[p]
  /\ UNCHANGED vars

\* open() fails with EEXIST: n is the name to be tried next.
OpenExists(p, n) ==
  /\ pc[p] = "open"
  /\ dir[name[p]] # None
  /\ name' = [name EXCEPT ![p] = n]
  /\ UNCHANGED <<dir, pc, obj, file, path, history>>

\* open() fails with another error, which tempfile() returns.
OpenFails(p) ==
  /\ pc[p] = "open"
  /\ Goto(p, "idle")
  /\ name' = [name EXCEPT ![p] = None]
  /\ UNCHANGED <<dir, obj, file, path, history>>

----------------------------------------------------------------------------
(* unlink(), and temporary_file *)

\* unlink() of the path of o.  It removes the name, whatever file has it, or
\* fails, which is ignored.  That there is no such name is one of the errors.
Unlink(p, o) ==
  LET f == file[p][o]
  IN \/ /\ dir' = [dir EXCEPT ![path[p][o]] = None]
        /\ unwound' = (unwound \/ (f \in forked /\ \E q \in Proc \ {p} : Holds(q, f)))
        /\ UNCHANGED left
     \/ /\ left' = left \cup {f}
        /\ UNCHANGED <<dir, unwound>>

\* tempfile_unlink: the object that tempfile() returns has no path.
Discard(p) ==
  /\ pc[p] = "discard"
  /\ Unlink(p, obj[p])
  /\ path' = [path EXCEPT ![p][obj[p]] = None]
  /\ Goto(p, "idle")
  /\ obj' = [obj EXCEPT ![p] = None]
  /\ UNCHANGED <<name, file, forked>>

\* release(), or the destructor of an object that is not released.  Nobody can
\* tell whether the descriptor has been closed yet.
Release(p, o) ==
  /\ pc[p] = "idle"
  /\ file[p][o] # None
  /\ IF path[p][o] # None THEN Unlink(p, o) ELSE UNCHANGED <<dir, unwound, left>>
  /\ file' = [file EXCEPT ![p][o] = None]
  /\ path' = [path EXCEPT ![p][o] = None]
  /\ UNCHANGED <<pc, name, obj, forked>>

\* Mutant: m_path is not moved.
MoveFdOnly(p, o, q) ==
  /\ pc[p] = "idle"
  /\ file[p][o] # None
  /\ file[p][q] = None
  /\ file' = [file EXCEPT ![p][q] = file[p][o], ![p][o] = None]
  /\ UNCHANGED <<dir, pc, name, obj, path, history>>

\* temporary_file(temporary_file &&): q is made from o.
Move(p, o, q) ==
  /\ pc[p] = "idle"
  /\ file[p][o] # None
  /\ file[p][q] = None
  /\ file' = [file EXCEPT ![p][q] = file[p][o], ![p][o] = None]
  /\ path' = [path EXCEPT ![p][q] = path[p][o], ![p][o] = None]
  /\ UNCHANGED <<dir, pc, name, obj, history>>

----------------------------------------------------------------------------
(* Processes *)

Start(p) ==
  /\ pc[p] = "off"
  /\ Goto(p, "idle")
  /\ UNCHANGED <<dir, name, obj, file, path, history>>

\* fork(): the child q has every object of its parent.
Fork(p, q) ==
  /\ pc[p] = "idle"
  /\ pc[q] = "off"
  /\ Goto(q, "idle")
  /\ file' = [file EXCEPT ![q] = file[p]]
  /\ path' = [path EXCEPT ![q] = path[p]]
  /\ forked' = forked \cup {f \in File : Holds(p, f)}
  /\ UNCHANGED <<dir, name, obj, unwound, left>>

\* The process ends between two system calls and destroys nothing.
End(p) ==
  /\ pc[p] # "off"
  /\ Goto(p, "off")
  /\ obj' = [obj EXCEPT ![p] = None]
  /\ name' = [name EXCEPT ![p] = None]
  /\ file' = [file EXCEPT ![p] = Empty]
  /\ path' = [path EXCEPT ![p] = Empty]
  /\ left' = left \cup {f \in File : Holds(p, f) /\ \A q \in Proc \ {p} : ~ Holds(q, f)}
  /\ UNCHANGED <<dir, forked, unwound>>

\* Another program creates a file, or removes its own.
Others(n) ==
  /\ \/ dir[n] = None /\ dir' = [dir EXCEPT ![n] = Foreign]
     \/ dir[n] = Foreign /\ dir' = [dir EXCEPT ![n] = None]
  /\ UNCHANGED <<pc, name, obj, file, path, history>>

\* tempfile() goes on.
Step(p) ==
  \/ \E f \in File, o \in Obj, unlink \in BOOLEAN : OpenNew(p, f, o, unlink)
  \/ \E n \in Name : OpenExists(p, n)
  \/ Discard(p)

Next ==
  \/ \E p \in Proc :
       \/ Step(p)
       \/ OpenFails(p)
       \/ \E n \in Name : Call(p, n)
       \/ \E o \in Obj : Release(p, o)
       \/ \E o, q \in Obj : Move(p, o, q)
       \/ Start(p)
       \/ End(p)
       \/ \E q \in Proc : Fork(p, q)
  \/ \E n \in Name : Others(n)

\* The kernel answers: with a file or an error when the name is free, and with
\* EEXIST when it is taken.  A call that tries names without end comes to each
\* of them again and again: they are equally likely each time.
Fairness ==
  \A p \in Proc :
    /\ WF_vars(Step(p) \/ (OpenFails(p) /\ dir[name[p]] = None))
    /\ \A n \in Name : SF_vars(OpenExists(p, n))

Spec == Init /\ [][Next]_vars /\ Fairness

----------------------------------------------------------------------------
(* Properties *)

\* The name that an object will remove is that of its own file, not of a file
\* of another object, process or program that came to have the name.  It takes
\* a child that destroys the objects it has from fork() to break this: from
\* then on its parent may remove whatever got the name next.
NamesOwnFile ==
  unwound \/ \A p \in Proc, o \in Obj :
               path[p][o] # None => dir[path[p][o]] = file[p][o]

\* No file is left in the directory that some object will not remove, but where
\* unlink() failed or a process ended without destroying its objects.
NoLitter ==
  \A n \in Name :
    dir[n] \in File =>
      \/ dir[n] \in left
      \/ \E p \in Proc, o \in Obj : file[p][o] = dir[n] /\ path[p][o] = n

\* tempfile() does not try names for ever while there is one that nobody takes.
Returns == \A p \in Proc, n \in Name : []<>(pc[p] # "open" \/ dir[n] # None)
=============================================================================
