----------------------------- MODULE SafeWrite -----------------------------
(***************************************************************************)
(* nihil.posix:write_file: safe_write_file(), which writes a range to      *)
(* "<filename>.tmp" and renames that file over <filename>, with the        *)
(* write_file(), open(), rename() and unlink() it calls and the guard that *)
(* unlinks the temporary file when a call returns early.                   *)
(*                                                                         *)
(* Several processes may save the same file, any of them may die between   *)
(* two system calls, and any system call may fail, also the guard's.  A    *)
(* call's steps are its system calls.  Of the contents of a file only the  *)
(* blocks and their order matter.                                          *)
(***************************************************************************)
EXTENDS Naturals, Sequences

CONSTANTS
  Writer,      \* processes that call safe_write_file() with the same filename
  Block,       \* units of data
  Payload,     \* the ranges they write: sequences of blocks
  Original,    \* what the file may hold before the first call
  None,        \* no file, no range
  MayOverlap,  \* may two calls run at the same time?
  MayCrash,    \* may a process die during a call?
  MayWriteShort \* may ::write() take less than it was given?

ASSUME SafeWriteAssumption ==
  /\ Payload \subseteq Seq(Block)
  /\ Original \subseteq Seq(Block) \cup {None}
  /\ None \notin Seq(Block)
  /\ MayOverlap \in BOOLEAN
  /\ MayCrash \in BOOLEAN
  /\ MayWriteShort \in BOOLEAN

VARIABLES
  target,   \* the contents of the file named <filename>, or None
  tmp,      \* the contents of the file named <filename>.tmp, or None
  pc,       \* pc[w]: the system call w makes next, or "idle"
  file,     \* file[w]: what the file that w has open is called by now
  range,    \* range[w]: what the call of w is to write
  call,     \* history of the call of w, see NewCall
  orphaned  \* history: has a call that died, or whose unlink() failed, left
            \* the temporary file that is there now?

vars == <<target, tmp, pc, file, range, call, orphaned>>

\* A file that a writer has open may have been renamed or unlinked since.
FileNames == {"none", "tmp", "target", "unlinked"}

PCs == {"idle", "open", "write", "rename", "unlink"}

Active(w) == pc[w] # "idle"

\* What is remembered of a call until it returns: whether no other call has
\* run at the same time and, if none has, the target when it began, how much
\* was in the temporary file by then and whether ::write() took the whole range.
NoCall == [before |-> None, left |-> 0, alone |-> TRUE, whole |-> FALSE]

Overlapped == [NoCall EXCEPT !.alone = FALSE]

NewCall ==
  IF \E v \in Writer : Active(v)
  THEN Overlapped
  ELSE [before |-> target,
        left   |-> IF tmp = None THEN 0 ELSE Len(tmp),
        alone  |-> TRUE,
        whole  |-> FALSE]

Init ==
  /\ target \in Original
  /\ tmp = None
  /\ pc = [w \in Writer |-> "idle"]
  /\ file = [w \in Writer |-> "none"]
  /\ range = [w \in Writer |-> None]
  /\ call = [w \in Writer |-> NoCall]
  /\ orphaned = FALSE

----------------------------------------------------------------------------

Goto(w, l) == pc' = [pc EXCEPT ![w] = l]

\* The call begins: the name of the temporary file and the guard.
Begin(w, p) ==
  /\ ~ Active(w)
  /\ MayOverlap \/ \A v \in Writer : ~ Active(v)
  /\ Goto(w, "open")
  /\ range' = [range EXCEPT ![w] = p]
  /\ call' = [v \in Writer |->
                IF v = w THEN NewCall
                ELSE IF Active(v) THEN Overlapped
                ELSE NoCall]
  /\ UNCHANGED <<target, tmp, file, orphaned>>

\* The call returns, or its process dies: nothing of it remains.
End(w) ==
  /\ Goto(w, "idle")
  /\ range' = [range EXCEPT ![w] = None]
  /\ call' = [call EXCEPT ![w] = NoCall]

\* Mutant: open() without open_create succeeds on a file that is not there.
OpenTmpNoCreate(w) ==
  /\ pc[w] = "open"
  /\ file' = [file EXCEPT ![w] = "tmp"]
  /\ Goto(w, "write")
  /\ UNCHANGED <<target, tmp, range, call, orphaned>>

\* open(tmpfile, open_write | open_create): makes an empty file if there is
\* none, and opens the one that is there with all that is in it.
OpenTmp(w) ==
  /\ pc[w] = "open"
  /\ tmp' = IF tmp = None THEN <<>> ELSE tmp
  /\ file' = [file EXCEPT ![w] = "tmp"]
  /\ Goto(w, "write")
  /\ UNCHANGED <<target, range, call, orphaned>>

\* Mutant: the temporary file is opened with open_append.
OverlayAppend(old, s, n) == old \o SubSeq(s, 1, n)

\* What is in a file after the first n blocks of s were written at its start.
Overlay(old, s, n) == SubSeq(s, 1, n) \o SubSeq(old, n + 1, Len(old))

\* How many blocks ::write() may take of a range.
Taken(p) == {Len(p)} \cup (IF MayWriteShort THEN 1 .. Len(p) ELSE {})

\* Mutant: write_file(filename, range) instead of write_file(tmpfile, range).
WriteInPlace(w) ==
  /\ pc[w] = "write"
  /\ \E n \in Taken(range[w]) :
       /\ target' = Overlay(IF target = None THEN <<>> ELSE target, range[w], n)
       /\ call' = [call EXCEPT ![w].whole = call[w].alone /\ n = Len(range[w])]
  /\ file' = [file EXCEPT ![w] = "none"]
  /\ Goto(w, "rename")
  /\ UNCHANGED <<tmp, range, orphaned>>

\* write(file, range), at offset 0 of the file opened before, whatever that
\* file is called by now.  The number of bytes that write() returns is not
\* looked at.  The descriptor is closed on the way out of write_file().
Write(w) ==
  /\ pc[w] = "write"
  /\ \E n \in Taken(range[w]) :
       /\ tmp' = IF file[w] = "tmp" THEN Overlay(tmp, range[w], n) ELSE tmp
       /\ target' = IF file[w] = "target" THEN Overlay(target, range[w], n)
                    ELSE target
       /\ call' = [call EXCEPT ![w].whole = call[w].alone /\ n = Len(range[w])]
  /\ file' = [file EXCEPT ![w] = "none"]
  /\ Goto(w, "rename")
  /\ UNCHANGED <<range, orphaned>>

\* rename(tmpfile, filename) replaces the target in one step.  The guard is
\* released and the call returns success.
Rename(w) ==
  /\ pc[w] = "rename"
  /\ tmp # None
  /\ target' = tmp
  /\ tmp' = None
  /\ file' = [v \in Writer |->
                CASE file[v] = "tmp"    -> "target"
                  [] file[v] = "target" -> "unlinked"
                  [] OTHER              -> file[v]]
  /\ orphaned' = FALSE
  /\ End(w)

\* Mutant: no guard, the error is returned at once.
FailNoGuard(w) ==
  /\ pc[w] \in {"open", "write", "rename"}
  /\ file' = [file EXCEPT ![w] = "none"]
  /\ End(w)
  /\ UNCHANGED <<target, tmp, orphaned>>

\* One of the three calls fails, rename() also because the temporary file is
\* gone: co_await returns the error and destroys the frame, with its
\* descriptor and then its guard.
Fail(w) ==
  /\ pc[w] \in {"open", "write", "rename"}
  /\ file' = [file EXCEPT ![w] = "none"]
  /\ Goto(w, "unlink")
  /\ UNCHANGED <<target, tmp, range, call, orphaned>>

\* Mutant: the guard captures filename instead of tmpfile.
UnlinkTarget(w) ==
  /\ pc[w] = "unlink"
  /\ target' = None
  /\ file' = [v \in Writer |->
                IF file[v] = "target" THEN "unlinked" ELSE file[v]]
  /\ End(w)
  /\ UNCHANGED <<tmp, orphaned>>

\* The guard unlinks the temporary file, whoever made it, and the call returns
\* the error.
Unlink(w) ==
  /\ pc[w] = "unlink"
  /\ tmp' = None
  /\ orphaned' = FALSE
  /\ file' = [v \in Writer |->
                IF file[v] = "tmp" THEN "unlinked" ELSE file[v]]
  /\ End(w)
  /\ UNCHANGED target

\* unlink() fails, because there is no such file or for another reason.  The
\* guard ignores that, and the call returns the error that it had.
UnlinkFails(w) ==
  /\ pc[w] = "unlink"
  /\ orphaned' = (tmp # None)
  /\ End(w)
  /\ UNCHANGED <<target, tmp, file>>

\* The process dies: its descriptor is closed, its guard never runs.
Crash(w) ==
  /\ MayCrash
  /\ Active(w)
  /\ file' = [file EXCEPT ![w] = "none"]
  /\ orphaned' = (orphaned \/ (pc[w] # "open" /\ tmp # None))
  /\ End(w)
  /\ UNCHANGED <<target, tmp>>

Next ==
  \E w \in Writer :
    \/ \E p \in Payload : Begin(w, p)
    \/ OpenTmp(w) \/ Write(w) \/ Rename(w)
    \/ Fail(w) \/ Unlink(w) \/ UnlinkFails(w) \/ Crash(w)

Spec == Init /\ [][Next]_vars

----------------------------------------------------------------------------
(* Properties *)

\* A file that a writer has open under a name is there under that name.
OpenFilesExist ==
  \A w \in Writer :
    /\ file[w] = "tmp" => tmp # None
    /\ file[w] = "target" => target # None

\* Every variable keeps its type, and the names in file denote files: a writer
\* never writes to a file that is not there.
TypeOK ==
  /\ OpenFilesExist
  /\ target \in Seq(Block) \cup {None}
  /\ tmp \in Seq(Block) \cup {None}
  /\ pc \in [Writer -> PCs]
  /\ file \in [Writer -> FileNames]
  /\ range \in [Writer -> Payload \cup {None}]
  /\ call \in [Writer -> [before : Seq(Block) \cup {None}, left : Nat,
                         alone : BOOLEAN, whole : BOOLEAN]]
  /\ orphaned \in BOOLEAN

\* A call that succeeds has written what it was given, if no other call ran at
\* the same time, ::write() took everything, and no temporary file longer than
\* the range had been left behind.
SuccessWrites ==
  [][\A w \in Writer :
       /\ Rename(w)
       /\ call[w].alone
       /\ call[w].whole
       /\ call[w].left <= Len(range[w])
       => target' = range[w]]_vars

\* If an error occurs, the target is as it was when the call began, if no other
\* call ran at the same time, and whether or not the guard's unlink() succeeds.
ErrorKeepsTarget ==
  [][\A w \in Writer :
       (Unlink(w) \/ UnlinkFails(w)) /\ call[w].alone => target' = call[w].before]_vars

\* A reader never sees the file half-written, and no crash leaves it so: it
\* changes by being replaced, in one step.  The exception is a call that had
\* the temporary file open when another call renamed it.
ReplacedAtOnce ==
  [][target' # target =>
       \E w \in Writer : Rename(w) \/ (Write(w) /\ ~ call[w].alone)]_vars

\* Once no call runs, a temporary file is there only if a death or a failed
\* unlink() left that very file: however calls overlap and take each other's
\* temporary files away, no other error leaves one, and the next call that gets
\* to its end takes away what was left before it.
NoLitter == tmp # None => orphaned \/ \E w \in Writer : Active(w)

\* What the comment at write_file.ccm:37 says of success: the contents of the
\* range are written to the temporary file, and that file becomes the target.
SuccessAlwaysWrites == [][\A w \in Writer : Rename(w) => target' = range[w]]_vars
=============================================================================
