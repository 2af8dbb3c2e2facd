-------------------------- MODULE SafeWrite_proofs --------------------------
(***************************************************************************)
(* Proofs about SafeWrite, for any set of writers, any ranges, and whether *)
(* or not calls overlap, processes die and writes are short.               *)
(***************************************************************************)
EXTENDS SafeWrite, SequenceTheorems, TLAPS

\* The writer's call is running and no other call has run since it began.
Alone(w) == Active(w) /\ call[w].alone

\* A writer has a descriptor exactly between open() and write().
FileInv == \A w \in Writer : pc[w] = "write" <=> file[w] # "none"

\* A running call has a range, and a call that is alone is the only one.
CallInv ==
  \A w \in Writer :
    /\ Active(w) => range[w] \in Payload
    /\ \A v \in Writer : Alone(w) /\ Active(v) => v = w

\* What a call that is alone knows of the temporary file after each step.
AloneInv ==
  \A w \in Writer : Alone(w) =>
    /\ pc[w] = "open" =>
         call[w].left = IF tmp = None THEN 0 ELSE Len(tmp)
    /\ pc[w] = "write" =>
         file[w] = "tmp" /\ tmp # None /\ call[w].left = Len(tmp)
    /\ pc[w] = "rename" /\ call[w].whole /\ call[w].left <= Len(range[w]) =>
         tmp = range[w]

\* The temporary file is in the hands of a call that will rename it or try to
\* unlink it, unless it was left behind.
TmpInv ==
  tmp # None =>
    orphaned \/ \E w \in Writer : pc[w] \in {"write", "rename", "unlink"}

\* What holds even if others put another file in the target's place.
Core == TypeOK /\ FileInv /\ CallInv /\ AloneInv /\ TmpInv

\* Until a call that is alone returns the target is what it was.
BeforeInv == \A w \in Writer : Alone(w) => target = call[w].before

IInv == Core /\ BeforeInv

----------------------------------------------------------------------------
(* What write() makes of a file *)

\* A whole range written over a file that is not longer leaves just the range.
LEMMA OverlayWhole ==
  ASSUME NEW s \in Seq(Block), NEW old \in Seq(Block), Len(old) <= Len(s)
  PROVE  Overlay(old, s, Len(s)) = s
<1>1. SubSeq(old, Len(s) + 1, Len(old)) = <<>>
  BY SubSeqEmpty, LenProperties
<1> QED
  BY <1>1, SubSeqFull, ConcatEmptySeq DEF Overlay

\* What is written over a file of blocks is a file of blocks.
LEMMA OverlayType ==
  ASSUME NEW s \in Seq(Block), NEW old \in Seq(Block), NEW n \in 0 .. Len(s)
  PROVE  Overlay(old, s, n) \in Seq(Block)
<1>1. SubSeq(s, 1, n) \in Seq(Block)
  <2>1. \A i \in 1 .. n : s[i] \in Block
    BY LenProperties, ElementOfSeq
  <2> QED
    BY <2>1, SubSeqProperties, LenProperties
<1>2. SubSeq(old, n + 1, Len(old)) \in Seq(Block)
  <2>1. \A i \in n + 1 .. Len(old) : old[i] \in Block
    BY LenProperties, ElementOfSeq
  <2> QED
    BY <2>1, SubSeqProperties, LenProperties
<1> QED
  BY <1>1, <1>2, ConcatProperties DEF Overlay

\* ::write() takes no more blocks than it is given.
LEMMA TakenLength ==
  ASSUME NEW s \in Seq(Block), NEW n \in Taken(s)
  PROVE  n \in 0 .. Len(s)
BY LenProperties, SafeWriteAssumption DEF Taken

----------------------------------------------------------------------------
(* The invariant is inductive *)

\* At first there is no temporary file and no writer.
LEMMA InitCore == Init => Core
<1> SUFFICES ASSUME Init PROVE Core
  OBVIOUS
<1>1. TypeOK
  BY SafeWriteAssumption DEF Init, TypeOK, OpenFilesExist, PCs, FileNames, NoCall
<1>2. FileInv /\ CallInv /\ AloneInv /\ TmpInv
  BY DEF Init, FileInv, CallInv, AloneInv, TmpInv, Alone, Active
<1> QED
  BY <1>1, <1>2 DEF Core

\* A call that begins remembers the target and what is in the temporary file;
\* every call it overlaps is marked.
LEMMA BeginCore ==
  ASSUME Core, NEW w \in Writer, NEW p \in Payload, Begin(w, p)
  PROVE  Core'
<1> USE SafeWriteAssumption DEF Begin, Goto, NewCall, NoCall, Overlapped
<1>1. TypeOK'
  <2>1. tmp # None => Len(tmp) \in Nat
    BY LenProperties DEF Core, TypeOK, OpenFilesExist
  <2> DEFINE CallType == [before : Seq(Block) \cup {None}, left : Nat,
                          alone : BOOLEAN, whole : BOOLEAN]
  <2>2. NoCall \in CallType /\ Overlapped \in CallType
    OBVIOUS
  <2>3. NewCall \in CallType
    BY <2>1, <2>2 DEF Core, TypeOK, OpenFilesExist
  <2>4. call' \in [Writer -> CallType]
    BY <2>2, <2>3 DEF Core, TypeOK, OpenFilesExist
  <2> QED
    BY <2>4 DEF Core, TypeOK, OpenFilesExist, PCs, Active
<1>2. FileInv'
  BY DEF Core, TypeOK, OpenFilesExist, PCs, FileNames, FileInv, Active
<1>3. CallInv'
  BY DEF Core, TypeOK, OpenFilesExist, PCs, CallInv, Alone, Active
<1>4. AloneInv'
  BY DEF Core, TypeOK, OpenFilesExist, PCs, FileInv, CallInv,
         AloneInv, Alone, Active
<1>5. TmpInv'
  BY DEF Core, TypeOK, OpenFilesExist, PCs, TmpInv, Active
<1> QED
  BY <1>1, <1>2, <1>3, <1>4, <1>5 DEF Core

\* open() creates the temporary file or keeps it with what is in it.
LEMMA OpenTmpCore ==
  ASSUME Core, NEW w \in Writer, OpenTmp(w)
  PROVE  Core'
<1> USE SafeWriteAssumption DEF OpenTmp, Goto
<1>0. <<>> \in Seq(Block) /\ Len(<<>>) = 0 /\ <<>> # None
  BY EmptySeq
<1>1. TypeOK'
  BY <1>0 DEF Core, TypeOK, OpenFilesExist, PCs, FileNames, Active
<1>2. FileInv'
  BY <1>0 DEF Core, TypeOK, OpenFilesExist, PCs, FileNames, FileInv, Active
<1>3. CallInv'
  BY DEF Core, TypeOK, OpenFilesExist, PCs, CallInv, Alone, Active
<1>4. AloneInv'
  BY <1>0 DEF Core, TypeOK, OpenFilesExist, PCs, FileInv, CallInv,
         AloneInv, Alone, Active
<1>5. TmpInv'
  BY DEF Core, TypeOK, OpenFilesExist, PCs, TmpInv, Active
<1> QED
  BY <1>1, <1>2, <1>3, <1>4, <1>5 DEF Core

\* Setting one field of one record of a function of records keeps its type.
LEMMA WholeType ==
  ASSUME NEW S,
         NEW c \in [Writer -> [before : S, left : Nat,
                              alone : BOOLEAN, whole : BOOLEAN]],
         NEW w \in Writer, NEW b \in BOOLEAN
  PROVE  [c EXCEPT ![w].whole = b] \in
           [Writer -> [before : S, left : Nat, alone : BOOLEAN, whole : BOOLEAN]]
<1> DEFINE R == [before : S, left : Nat, alone : BOOLEAN, whole : BOOLEAN]
<1>1. [c[w] EXCEPT !.whole = b] \in R
  BY c[w] \in R
<1>2. [c EXCEPT ![w] = [c[w] EXCEPT !.whole = b]] \in [Writer -> R]
  <2> HIDE DEF R
  <2> QED
    BY <1>1, c \in [Writer -> R] DEF R
<1> QED
  BY <1>2

\* ::write() changes the file that was opened, whatever its name is by now.
LEMMA WriteCore ==
  ASSUME Core, NEW w \in Writer, Write(w)
  PROVE  Core'
<1> USE SafeWriteAssumption DEF Write, Goto
<1>1. PICK n \in Taken(range[w]) :
        /\ tmp' = IF file[w] = "tmp" THEN Overlay(tmp, range[w], n) ELSE tmp
        /\ target' = IF file[w] = "target" THEN Overlay(target, range[w], n)
                     ELSE target
        /\ call' = [call EXCEPT ![w].whole =
                       call[w].alone /\ n = Len(range[w])]
  OBVIOUS
<1>2. range[w] \in Seq(Block) /\ n \in 0 .. Len(range[w])
  BY TakenLength DEF Core, CallInv, Active
<1>3. file[w] = "tmp" => tmp \in Seq(Block) /\ tmp' \in Seq(Block)
  BY <1>1, <1>2, OverlayType DEF Core, TypeOK, OpenFilesExist, FileInv
<1>4. file[w] = "target" => target \in Seq(Block) /\ target' \in Seq(Block)
  BY <1>1, <1>2, OverlayType DEF Core, TypeOK, OpenFilesExist, FileInv
<1>5. tmp' = None <=> tmp = None
  BY <1>1, <1>3
<1>6. target' = None <=> target = None
  BY <1>1, <1>4
<1>7. TypeOK'
  <2>1. tmp' \in Seq(Block) \cup {None} /\ target' \in Seq(Block) \cup {None}
    BY <1>1, <1>3, <1>4 DEF Core, TypeOK, OpenFilesExist
  <2>2. call' \in [Writer -> [before : Seq(Block) \cup {None}, left : Nat,
                             alone : BOOLEAN, whole : BOOLEAN]]
    <3> DEFINE whole == call[w].alone /\ n = Len(range[w])
    <3>1. whole \in BOOLEAN
      OBVIOUS
    <3> HIDE DEF whole
    <3>2. call' = [call EXCEPT ![w].whole = whole]
      BY <1>1 DEF whole
    <3> QED
      BY <3>1, <3>2, WholeType DEF Core, TypeOK, OpenFilesExist
  <2> QED
    BY <1>5, <1>6, <2>1, <2>2
    DEF Core, TypeOK, OpenFilesExist, PCs, FileNames
<1>8. FileInv'
  BY <1>5, <1>6 DEF Core, TypeOK, OpenFilesExist, PCs, FileNames, FileInv
<1>9. \A v \in Writer : /\ Active(v)' <=> Active(v)
                        /\ call[v].alone' <=> call[v].alone
                        /\ call[v].before' = call[v].before
                        /\ call[v].left' = call[v].left
  BY <1>1 DEF Core, TypeOK, OpenFilesExist, PCs, Active
<1>10. CallInv'
  BY <1>9 DEF Core, CallInv, Alone
<1>11. AloneInv'
  <2> SUFFICES ASSUME NEW v \in Writer, Alone(v)'
               PROVE  /\ pc[v]' = "rename"
                      /\ call[v].whole' /\ call[v].left' <= Len(range[v])' =>
                           tmp' = range[v]'
    BY DEF AloneInv
  <2>1. Alone(v) /\ v = w
    BY <1>9 DEF Core, CallInv, Alone, Active
  <2>2. file[w] = "tmp" /\ tmp # None /\ call[w].left = Len(tmp)
    BY <2>1 DEF Core, AloneInv
  <2>4. pc[v]' = "rename"
    BY <2>1 DEF Core, TypeOK, OpenFilesExist
  <2>5. ASSUME call[v].whole', call[v].left' <= Len(range[v])'
        PROVE  tmp' = range[v]'
    <3>1. n = Len(range[w])
      BY <1>1, <2>1, <2>5 DEF Core, TypeOK, OpenFilesExist
    <3>2. Len(tmp) <= Len(range[w])
      BY <1>9, <2>1, <2>2, <2>5
    <3>3. tmp' = Overlay(tmp, range[w], Len(range[w]))
      BY <1>1, <2>2, <3>1
    <3> QED
      BY <1>2, <1>3, <2>1, <2>2, <3>2, <3>3, OverlayWhole
  <2> QED
    BY <2>4, <2>5
<1>12. TmpInv'
  BY <1>5 DEF Core, TypeOK, OpenFilesExist, PCs, TmpInv
<1> QED
  BY <1>7, <1>8, <1>10, <1>11, <1>12 DEF Core

\* rename() moves the files that are open to their new names.
LEMMA RenameCore ==
  ASSUME Core, NEW w \in Writer, Rename(w)
  PROVE  Core'
<1> USE SafeWriteAssumption DEF Rename, End, Goto, NoCall
<1>1. TypeOK'
  BY DEF Core, TypeOK, OpenFilesExist, PCs, FileNames, Active
<1>2. FileInv'
  BY DEF Core, TypeOK, OpenFilesExist, PCs, FileNames, FileInv, Active
<1>3. CallInv'
  BY DEF Core, TypeOK, OpenFilesExist, PCs, CallInv, Alone, Active
<1>4. AloneInv'
  BY DEF Core, TypeOK, OpenFilesExist, PCs, FileInv, CallInv,
         AloneInv, Alone, Active
<1>5. TmpInv'
  BY DEF Core, TypeOK, OpenFilesExist, PCs, TmpInv, Active
<1> QED
  BY <1>1, <1>2, <1>3, <1>4, <1>5 DEF Core

\* A failed call keeps its files and goes on to its guard.
LEMMA FailCore ==
  ASSUME Core, NEW w \in Writer, Fail(w)
  PROVE  Core'
<1> USE SafeWriteAssumption DEF Fail, Goto
<1>1. TypeOK'
  BY DEF Core, TypeOK, OpenFilesExist, PCs, FileNames, Active
<1>2. FileInv'
  BY DEF Core, TypeOK, OpenFilesExist, PCs, FileNames, FileInv, Active
<1>3. CallInv'
  BY DEF Core, TypeOK, OpenFilesExist, PCs, CallInv, Alone, Active
<1>4. AloneInv'
  BY DEF Core, TypeOK, OpenFilesExist, PCs, FileInv, CallInv,
         AloneInv, Alone, Active
<1>5. TmpInv'
  BY DEF Core, TypeOK, OpenFilesExist, PCs, TmpInv, Active
<1> QED
  BY <1>1, <1>2, <1>3, <1>4, <1>5 DEF Core

\* The guard takes the temporary file away, and the call ends.
LEMMA UnlinkCore ==
  ASSUME Core, NEW w \in Writer, Unlink(w)
  PROVE  Core'
<1> USE SafeWriteAssumption DEF Unlink, End, Goto, NoCall
<1>1. TypeOK'
  BY DEF Core, TypeOK, OpenFilesExist, PCs, FileNames, Active
<1>2. FileInv'
  BY DEF Core, TypeOK, OpenFilesExist, PCs, FileNames, FileInv, Active
<1>3. CallInv'
  BY DEF Core, TypeOK, OpenFilesExist, PCs, CallInv, Alone, Active
<1>4. AloneInv'
  BY DEF Core, TypeOK, OpenFilesExist, PCs, FileInv, CallInv,
         AloneInv, Alone, Active
<1>5. TmpInv'
  BY DEF Core, TypeOK, OpenFilesExist, PCs, TmpInv, Active
<1> QED
  BY <1>1, <1>2, <1>3, <1>4, <1>5 DEF Core

\* The guard fails to, and leaves the file behind.
LEMMA UnlinkFailsCore ==
  ASSUME Core, NEW w \in Writer, UnlinkFails(w)
  PROVE  Core'
<1> USE SafeWriteAssumption DEF UnlinkFails, End, Goto, NoCall
<1>1. TypeOK'
  BY DEF Core, TypeOK, OpenFilesExist, PCs, FileNames, Active
<1>2. FileInv'
  BY DEF Core, TypeOK, OpenFilesExist, PCs, FileNames, FileInv, Active
<1>3. CallInv'
  BY DEF Core, TypeOK, OpenFilesExist, PCs, CallInv, Alone, Active
<1>4. AloneInv'
  BY DEF Core, TypeOK, OpenFilesExist, PCs, FileInv, CallInv,
         AloneInv, Alone, Active
<1>5. TmpInv'
  BY DEF Core, TypeOK, OpenFilesExist, PCs, TmpInv, Active
<1> QED
  BY <1>1, <1>2, <1>3, <1>4, <1>5 DEF Core

\* The death of a writer leaves the files as they are.
LEMMA CrashCore ==
  ASSUME Core, NEW w \in Writer, Crash(w)
  PROVE  Core'
<1> USE SafeWriteAssumption DEF Crash, End, Goto, NoCall
<1>1. TypeOK'
  BY DEF Core, TypeOK, OpenFilesExist, PCs, FileNames, Active
<1>2. FileInv'
  BY DEF Core, TypeOK, OpenFilesExist, PCs, FileNames, FileInv, Active
<1>3. CallInv'
  BY DEF Core, TypeOK, OpenFilesExist, PCs, CallInv, Alone, Active
<1>4. AloneInv'
  BY DEF Core, TypeOK, OpenFilesExist, PCs, FileInv, CallInv,
         AloneInv, Alone, Active
<1>5. TmpInv'
  BY DEF Core, TypeOK, OpenFilesExist, PCs, TmpInv, Active
<1> QED
  BY <1>1, <1>2, <1>3, <1>4, <1>5 DEF Core

\* Every step preserves the invariant: one case for each system call.
LEMMA StepCore == Core /\ [Next]_vars => Core'
<1> SUFFICES ASSUME Core, [Next]_vars
             PROVE  Core'
  OBVIOUS
<1>1. CASE UNCHANGED vars
  BY <1>1 DEF vars, Core, TypeOK, OpenFilesExist, FileInv, CallInv,
              AloneInv, TmpInv, Alone, Active
<1>2. CASE Next
  BY <1>2, BeginCore, OpenTmpCore, WriteCore, RenameCore, FailCore, UnlinkCore,
     UnlinkFailsCore, CrashCore DEF Next
<1> QED
  BY <1>1, <1>2

\* Only rename() and a write to the target change the target, and a call that
\* is alone does not write to it.
LEMMA StepBefore == IInv /\ [Next]_vars => BeforeInv'
<1> SUFFICES ASSUME IInv, [Next]_vars, NEW v \in Writer, Alone(v)'
             PROVE  target' = call'[v].before
  BY DEF BeforeInv
<1> USE SafeWriteAssumption DEF IInv, Core
<1>1. CASE UNCHANGED vars
  BY <1>1 DEF vars, BeforeInv, Alone, Active
<1>2. ASSUME NEW w \in Writer, NEW p \in Payload, Begin(w, p)
      PROVE  target' = call'[v].before
  BY <1>2 DEF Begin, Goto, NewCall, NoCall, Overlapped, BeforeInv, Alone, Active, TypeOK
<1>3. ASSUME NEW w \in Writer, Write(w)
      PROVE  target' = call'[v].before
  <2>1. Alone(v) /\ v = w /\ call'[v].before = call[v].before
    BY <1>3 DEF Write, Goto, TypeOK, PCs, CallInv, Alone, Active
  <2>2. target' = target
    BY <1>3, <2>1 DEF Write, AloneInv
  <2> QED
    BY <2>1, <2>2 DEF BeforeInv
<1>4. ASSUME NEW w \in Writer, Rename(w)
      PROVE  target' = call'[v].before
  BY <1>4 DEF Rename, End, Goto, NoCall, TypeOK, PCs, CallInv, Alone, Active
<1>5. ASSUME NEW w \in Writer, OpenTmp(w) \/ Fail(w) \/ Unlink(w) \/ UnlinkFails(w) \/ Crash(w)
      PROVE  target' = call'[v].before
  BY <1>5 DEF OpenTmp, Fail, Unlink, UnlinkFails, Crash, End, Goto, NoCall, TypeOK, PCs,
              BeforeInv, Alone, Active
<1> QED
  BY <1>1, <1>2, <1>3, <1>4, <1>5 DEF Next

\* The invariant holds throughout.
THEOREM Invariance == Spec => []IInv
<1>1. Init => IInv
  BY InitCore DEF Init, IInv, BeforeInv, Alone, Active
<1>2. IInv /\ [Next]_vars => IInv'
  BY StepCore, StepBefore DEF IInv
<1> QED
  BY <1>1, <1>2, PTL DEF Spec

----------------------------------------------------------------------------
(* The properties *)

\* Files stay sequences of blocks, however calls overlap and are cut short.
THEOREM TypeCorrect == Spec => []TypeOK
<1>1. IInv => TypeOK
  BY DEF IInv, Core
<1> QED
  BY <1>1, Invariance, PTL

\* Once no call runs, a temporary file is there only if a death or a failed
\* unlink() left it, however many calls ran at the same time and whichever of
\* their system calls failed.
THEOREM NoLitterAlways == Spec => []NoLitter
<1>1. IInv => NoLitter
  BY DEF IInv, Core, TmpInv, NoLitter, Active
<1> QED
  BY <1>1, Invariance, PTL

\* The target changes only by being replaced, but for calls that overlap.
THEOREM ReplacedAtOnceAlways == Spec => ReplacedAtOnce
<1>1. ASSUME IInv, Next, target' # target
      PROVE  \E w \in Writer : Rename(w) \/ (Write(w) /\ ~ call[w].alone)
  <2>1. PICK w \in Writer : Rename(w) \/ Write(w)
    BY <1>1 DEF Next, Begin, OpenTmp, Fail, Unlink, UnlinkFails, Crash
  <2>2. CASE Write(w) /\ call[w].alone
    <3>1. file[w] = "tmp"
      BY <1>1, <2>2 DEF IInv, Core, AloneInv, Alone, Active, Write
    <3>2. target' = target
      BY <2>2, <3>1 DEF Write
    <3> QED
      BY <1>1, <3>2
  <2> QED
    BY <2>1, <2>2
<1>2. IInv /\ [Next]_vars =>
        [target' # target =>
           \E w \in Writer : Rename(w) \/ (Write(w) /\ ~ call[w].alone)]_vars
  BY <1>1
<1> QED
  BY <1>2, Invariance, PTL DEF Spec, ReplacedAtOnce

\* A call that returns an error leaves the target as it found it, if it ran
\* alone.
THEOREM ErrorKeepsTargetAlways == Spec => ErrorKeepsTarget
<1>1. ASSUME IInv, NEW w \in Writer, Unlink(w) \/ UnlinkFails(w), call[w].alone
      PROVE  target' = call[w].before
  BY <1>1 DEF IInv, BeforeInv, Alone, Active, Unlink, UnlinkFails
<1>2. IInv /\ [Next]_vars =>
        [\A w \in Writer :
           (Unlink(w) \/ UnlinkFails(w)) /\ call[w].alone => target' = call[w].before]_vars
  BY <1>1
<1> QED
  BY <1>2, Invariance, PTL DEF Spec, ErrorKeepsTarget

\* A call that succeeds has replaced the target with exactly its range, if it
\* ran alone, wrote everything, and found no longer temporary file.
THEOREM SuccessWritesAlways == Spec => SuccessWrites
<1>1. ASSUME IInv, NEW w \in Writer, Rename(w), call[w].alone, call[w].whole,
             call[w].left <= Len(range[w])
      PROVE  target' = range[w]
  BY <1>1 DEF IInv, Core, AloneInv, Alone, Active, Rename
<1>2. IInv /\ [Next]_vars =>
        [\A w \in Writer :
           /\ Rename(w)
           /\ call[w].alone
           /\ call[w].whole
           /\ call[w].left <= Len(range[w])
           => target' = range[w]]_vars
  BY <1>1
<1> QED
  BY <1>2, Invariance, PTL DEF Spec, SuccessWrites
=============================================================================
