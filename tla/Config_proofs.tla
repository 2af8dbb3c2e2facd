--------------------------- MODULE Config_proofs ---------------------------
(***************************************************************************)
(* Proofs about Config, for any programs, options, strings and edits, and  *)
(* whether or not saves overlap, processes die and writes are short.  What *)
(* safe_write_file() does to the files is taken from SafeWrite_proofs, of  *)
(* which the invariant that other hands on the target cannot disturb holds *)
(* here too.                                                               *)
(***************************************************************************)
EXTENDS Config, TLAPS

P == INSTANCE SafeWrite_proofs WITH
       Writer <- Prog, Block <- Entry, Payload <- Seq(Entry), Original <- Edits \cup {None}

StoreType ==
  /\ live \in [Prog -> SUBSET Option]
  /\ storage \in [Prog -> [Option -> Value]]
  /\ isDefault \in [Prog -> [Option -> BOOLEAN]]
  /\ text \in [Prog -> Seq(Entry) \cup {None}]
  /\ loaded \in [Prog -> Seq(Entry) \cup {None}]

\* While a program saves, it does not load, and the range is what its store
\* says, as nothing can change the store meanwhile.
SavingInv ==
  \A p \in Prog : SW!Active(p) =>
    /\ text[p] = None
    /\ \E names \in Listings(Written(p)) : range[p] = EntriesOf(p, names)

\* The keys of the file that was loaded are options that would be saved.
LoadedInv ==
  \A p \in Prog : loaded[p] # None =>
    KeysOf(loaded[p], DOMAIN loaded[p]) \subseteq Written(p)

IInv == StoreType /\ P!Core /\ SavingInv /\ LoadedInv

----------------------------------------------------------------------------
(* SafeWrite, as an instance *)

\* What SafeWrite assumes of its constants, of the ones that Config gives it.
LEMMA Constants ==
  /\ Seq(Entry) \subseteq Seq(Entry)
  /\ Edits \cup {None} \subseteq Seq(Entry) \cup {None}
  /\ None \notin Seq(Entry)
  /\ MayOverlap \in BOOLEAN
  /\ MayCrash \in BOOLEAN
  /\ MayWriteShort \in BOOLEAN
BY ConfigAssumption

\* Each step of a save is a step of SafeWrite, whose invariant it preserves.
LEMMA SaveStepCore ==
  ASSUME P!Core, NEW p \in Prog,
         \/ \E t \in Seq(Entry) : SW!Begin(p, t)
         \/ SW!OpenTmp(p) \/ SW!Write(p) \/ SW!Rename(p)
         \/ SW!Fail(p) \/ SW!Unlink(p) \/ SW!UnlinkFails(p) \/ SW!Crash(p)
  PROVE  P!Core'
<1>1. \A t \in Seq(Entry) : SW!Begin(p, t) => P!Begin(p, t)
  BY DEF SW!Begin, P!Begin, SW!Goto, P!Goto, SW!Active, P!Active, SW!NewCall, P!NewCall,
         SW!NoCall, P!NoCall, SW!Overlapped, P!Overlapped
<1>2. SW!OpenTmp(p) => P!OpenTmp(p)
  BY DEF SW!OpenTmp, P!OpenTmp, SW!Goto, P!Goto
<1>3. SW!Write(p) => P!Write(p)
  BY DEF SW!Write, P!Write, SW!Goto, P!Goto, SW!Taken, P!Taken, SW!Overlay, P!Overlay
<1>4. SW!Rename(p) => P!Rename(p)
  BY DEF SW!Rename, P!Rename, SW!Goto, P!Goto, SW!End, P!End, SW!NoCall, P!NoCall
<1>5. SW!Fail(p) => P!Fail(p)
  BY DEF SW!Fail, P!Fail, SW!Goto, P!Goto
<1>6. SW!Unlink(p) => P!Unlink(p)
  BY DEF SW!Unlink, P!Unlink, SW!Goto, P!Goto, SW!End, P!End, SW!NoCall, P!NoCall
<1>7. SW!UnlinkFails(p) => P!UnlinkFails(p)
  BY DEF SW!UnlinkFails, P!UnlinkFails, SW!Goto, P!Goto, SW!End, P!End, SW!NoCall, P!NoCall
<1>8. SW!Crash(p) => P!Crash(p)
  BY DEF SW!Crash, P!Crash, SW!Goto, P!Goto, SW!End, P!End, SW!NoCall, P!NoCall,
         SW!Active, P!Active
<1>9. P!Next
  BY <1>1, <1>2, <1>3, <1>4, <1>5, <1>6, <1>7, <1>8 DEF P!Next
<1> QED
  BY <1>9, Constants, P!StepCore

\* What leaves the files and the running saves alone preserves it too.
LEMMA SameFilesCore ==
  ASSUME P!Core, UNCHANGED fileVars
  PROVE  P!Core'
<1>1. UNCHANGED P!vars
  BY DEF fileVars, P!vars
<1> QED
  BY <1>1, Constants, P!StepCore

\* And so does an editor that replaces the target.
LEMMA EditCore ==
  ASSUME P!Core, NEW t \in Edits, Edit(t)
  PROVE  P!Core'
<1> USE DEF Edit, Store
<1>1. t \in Seq(Entry) /\ t # None
  BY ConfigAssumption
<1>2. P!TypeOK'
  BY <1>1 DEF P!Core, P!TypeOK, P!OpenFilesExist, P!FileNames, P!PCs
<1>3. P!FileInv'
  BY DEF P!Core, P!TypeOK, P!FileInv
<1>4. P!CallInv'
  BY DEF P!Core, P!CallInv, P!Alone, P!Active
<1>5. P!AloneInv'
  BY DEF P!Core, P!TypeOK, P!AloneInv, P!Alone, P!Active
<1>6. P!TmpInv'
  BY DEF P!Core, P!TmpInv
<1> QED
  BY <1>2, <1>3, <1>4, <1>5, <1>6 DEF P!Core

----------------------------------------------------------------------------
(* The text that is saved *)

\* What is saved is a file's text: an entry for each option of the list.
LEMMA EntriesType ==
  ASSUME StoreType, NEW p \in Prog, NEW S \in SUBSET Option, NEW names \in Listings(S)
  PROVE  EntriesOf(p, names) \in Seq(Entry)
<1>1. PICK n \in 0 .. Len(Names) : names \in [1 .. n -> S]
  BY DEF Listings
<1>2. EntriesOf(p, names) \in [1 .. n -> Entry]
  BY <1>1 DEF EntriesOf, Entry, StoreType
<1>3. n \in Nat
  OBVIOUS
<1> QED
  BY <1>2, <1>3

\* The entries for the options S have these keys, and the values of the store.
LEMMA EntriesSay ==
  ASSUME StoreType, NEW p \in Prog, NEW S \in SUBSET Option, NEW names \in Listings(S),
         NEW t, t = EntriesOf(p, names)
  PROVE  /\ KeysOf(t, DOMAIN t) = S
         /\ \A o \in Option : ValuesIn(t, o) = IF o \in S THEN {storage[p][o]} ELSE {}
<1>1. PICK n \in 0 .. Len(Names) : names \in [1 .. n -> S]
  BY DEF Listings
<1>2. /\ DOMAIN t = 1 .. n
      /\ \A i \in 1 .. n : /\ names[i] \in S
                           /\ t[i].key = names[i]
                           /\ t[i].value = storage[p][names[i]]
  BY <1>1 DEF EntriesOf
<1>3. \A o \in S : \E i \in 1 .. n : names[i] = o
  BY <1>1 DEF Listings
<1>4. KeysOf(t, DOMAIN t) = S
  BY <1>2, <1>3 DEF KeysOf
<1>5. ASSUME NEW o \in Option
      PROVE  ValuesIn(t, o) = IF o \in S THEN {storage[p][o]} ELSE {}
  <2>1. CASE o \in S
    BY <1>2, <1>3, <2>1 DEF ValuesIn
  <2>2. CASE o \notin S
    BY <1>2, <2>2 DEF ValuesIn
  <2> QED
    BY <2>1, <2>2
<1> QED
  BY <1>4, <1>5

----------------------------------------------------------------------------
(* The invariant is inductive *)

\* A save goes on as it began as long as nothing of its program's store
\* changes.
LEMMA SavingKept ==
  ASSUME SavingInv,
         \A q \in Prog : SW!Active(q)' =>
           /\ SW!Active(q)
           /\ range'[q] = range[q]
           /\ live'[q] = live[q]
           /\ storage'[q] = storage[q]
           /\ isDefault'[q] = isDefault[q]
           /\ text'[q] = text[q]
  PROVE  SavingInv'
<1> SUFFICES ASSUME NEW q \in Prog, SW!Active(q)'
             PROVE  /\ text'[q] = None
                    /\ \E names \in Listings(Written(q))' :
                         range'[q] = EntriesOf(q, names)'
  BY DEF SavingInv
<1>1. PICK names \in Listings(Written(q)) : range[q] = EntriesOf(q, names)
  BY DEF SavingInv
<1>2. Listings(Written(q))' = Listings(Written(q))
  BY DEF Listings, Written
<1>3. EntriesOf(q, names)' = EntriesOf(q, names)
  BY DEF EntriesOf
<1> QED
  BY <1>1, <1>2, <1>3 DEF SavingInv

\* What was loaded stays saved as long as no option is taken away or made a
\* default again.
LEMMA LoadedKept ==
  ASSUME LoadedInv,
         \A q \in Prog :
           \/ loaded'[q] = None
           \/ loaded'[q] = loaded[q] /\ Written(q) \subseteq Written(q)'
  PROVE  LoadedInv'
BY DEF LoadedInv, KeysOf

\* At first no program has a store, and none saves.
LEMMA InitIInv == Init => IInv
<1> SUFFICES ASSUME Init PROVE IInv
  OBVIOUS
<1>1. P!Init
  BY DEF Init, SW!Init, P!Init, SW!NoCall, P!NoCall
<1>2. P!Core
  BY <1>1, Constants, P!InitCore
<1>3. InitialValue \in Value
  BY ConfigAssumption DEF InitialValue
<1>4. StoreType
  BY <1>3 DEF Init, StoreType
<1>5. SavingInv /\ LoadedInv
  BY DEF Init, SavingInv, LoadedInv, SW!Init, SW!Active
<1> QED
  BY <1>2, <1>4, <1>5 DEF IInv

\* An option is registered as a default, which nothing that was loaded names.
LEMMA ConstructIInv ==
  ASSUME IInv, NEW p \in Prog, NEW o \in Option, Construct(p, o)
  PROVE  IInv'
<1> USE DEF IInv, Construct, Ready
<1>1. StoreType'
  BY DEF StoreType
<1>2. P!Core'
  BY SameFilesCore
<1>3. SavingInv'
  BY SavingKept DEF StoreType, fileVars, SW!Active
<1>4. LoadedInv'
  <2>1. \A q \in Prog : loaded'[q] = loaded[q] /\ Written(q) \subseteq Written(q)'
    BY DEF StoreType, Written
  <2> QED
    BY <2>1, LoadedKept
<1> QED
  BY <1>1, <1>2, <1>3, <1>4

\* An option leaves the store, and the program no longer has all it loaded.
LEMMA DestroyIInv ==
  ASSUME IInv, NEW p \in Prog, NEW o \in Option, Destroy(p, o)
  PROVE  IInv'
<1> USE DEF IInv, Destroy, Ready
<1>1. StoreType'
  BY DEF StoreType
<1>2. P!Core'
  BY SameFilesCore
<1>3. SavingInv'
  BY SavingKept DEF StoreType, fileVars, SW!Active
<1>4. LoadedInv'
  <2>1. \A q \in Prog :
          \/ loaded'[q] = None
          \/ loaded'[q] = loaded[q] /\ Written(q) \subseteq Written(q)'
    BY DEF StoreType, Written
  <2> QED
    BY <2>1, LoadedKept
<1> QED
  BY <1>1, <1>2, <1>3, <1>4

\* An option that is set is saved.
LEMMA SetStringIInv ==
  ASSUME IInv, NEW p \in Prog, NEW o \in Option, NEW v \in Value, SetString(p, o, v)
  PROVE  IInv'
<1> USE DEF IInv, SetString, Ready
<1>1. StoreType'
  BY DEF StoreType
<1>2. P!Core'
  BY SameFilesCore
<1>3. SavingInv'
  BY SavingKept DEF StoreType, fileVars, SW!Active
<1>4. LoadedInv'
  <2>1. \A q \in Prog : loaded'[q] = loaded[q] /\ Written(q) \subseteq Written(q)'
    BY DEF StoreType, Written
  <2> QED
    BY <2>1, LoadedKept
<1> QED
  BY <1>1, <1>2, <1>3, <1>4

\* Reading the file, and failing to, change nothing in the store.
LEMMA ReadIInv ==
  ASSUME IInv, NEW p \in Prog, ReadFile(p) \/ LoadFails(p)
  PROVE  IInv'
<1> USE DEF IInv, ReadFile, LoadFails, Ready
<1>1. StoreType'
  BY DEF StoreType, P!Core, P!TypeOK
<1>2. P!Core'
  BY SameFilesCore
<1>3. SavingInv'
  <2>1. ~ SW!Active(p)
    BY DEF SavingInv
  <2> QED
    BY <2>1, SavingKept DEF StoreType, fileVars, SW!Active
<1>4. LoadedInv'
  <2>1. \A q \in Prog : loaded'[q] = loaded[q] /\ Written(q) \subseteq Written(q)'
    BY DEF Written
  <2> QED
    BY <2>1, LoadedKept
<1> QED
  BY <1>1, <1>2, <1>3, <1>4

\* Every option that an entry was applied to is saved from then on.
LEMMA ApplyIInv ==
  ASSUME IInv, NEW p \in Prog, Apply(p)
  PROVE  IInv'
<1> DEFINE keys == KeysOf(text[p], AppliedOf(p))
<1>1. text[p] \in Seq(Entry) /\ text[p] # None
  BY DEF IInv, StoreType, Apply
<1>2. PICK from \in [keys -> AppliedOf(p)] :
        /\ \A o \in keys : text[p][from[o]].key = o
        /\ storage' = [storage EXCEPT ![p] =
                         [o \in Option |-> IF o \in keys THEN text[p][from[o]].value ELSE @[o]]]
        /\ isDefault' = [isDefault EXCEPT ![p] = [o \in Option |-> o \notin keys /\ @[o]]]
  BY DEF Apply
<1>3. \A i \in AppliedOf(p) : text[p][i].key \in live[p] /\ text[p][i].value \in Value
  <2> SUFFICES ASSUME NEW i \in AppliedOf(p)
               PROVE  Fits(p, text[p][i])
    BY DEF Fits
  <2>1. i \in 1 .. i
    BY <1>1 DEF AppliedOf
  <2> QED
    BY <2>1 DEF AppliedOf
<1>4. keys \subseteq live[p]
  BY <1>3 DEF KeysOf
<1>5. /\ live' = live
      /\ loaded' = [loaded EXCEPT ![p] = IF AppliedOf(p) = DOMAIN text[p] THEN text[p] ELSE @]
      /\ text' = [text EXCEPT ![p] = None]
      /\ UNCHANGED fileVars
  BY DEF Apply
<1>6. StoreType'
  <2>1. [o \in Option |-> IF o \in keys THEN text[p][from[o]].value ELSE storage[p][o]]
          \in [Option -> Value]
    BY <1>2, <1>3 DEF IInv, StoreType
  <2>2. storage' \in [Prog -> [Option -> Value]]
    <3> HIDE DEF keys
    <3> QED
      BY <1>2, <2>1 DEF IInv, StoreType
  <2>3. [o \in Option |-> o \notin keys /\ isDefault[p][o]] \in [Option -> BOOLEAN]
    OBVIOUS
  <2>4. isDefault' \in [Prog -> [Option -> BOOLEAN]]
    <3> HIDE DEF keys
    <3> QED
      BY <1>2, <2>3 DEF IInv, StoreType
  <2> QED
    BY <1>1, <1>5, <2>2, <2>4 DEF IInv, StoreType
<1>7. P!Core'
  BY <1>5, SameFilesCore DEF IInv
<1>8. SavingInv'
  <2>1. ~ SW!Active(p)
    BY <1>1 DEF IInv, SavingInv
  <2>2. \A q \in Prog : SW!Active(q)' => SW!Active(q) /\ q # p
    BY <1>5, <2>1 DEF fileVars, SW!Active
  <2>3. \A q \in Prog \ {p} : /\ storage'[q] = storage[q]
                              /\ isDefault'[q] = isDefault[q]
                              /\ text'[q] = text[q]
    <3> HIDE DEF keys
    <3> QED
      BY <1>2, <1>5 DEF IInv, StoreType
  <2> QED
    BY <1>5, <2>2, <2>3, SavingKept DEF IInv, fileVars
<1>9. \A o \in Option : isDefault'[p][o] <=> o \notin keys /\ isDefault[p][o]
  <2> HIDE DEF keys
  <2> QED
    BY <1>2 DEF IInv, StoreType
<1>10. \A q \in Prog : Written(q) \subseteq Written(q)'
  <2>1. Written(p) \subseteq Written(p)'
    BY <1>5, <1>9 DEF IInv, StoreType, Written
  <2>2. \A q \in Prog \ {p} : isDefault'[q] = isDefault[q]
    <3> HIDE DEF keys
    <3> QED
      BY <1>2 DEF IInv, StoreType
  <2> QED
    BY <1>5, <2>1, <2>2 DEF Written
<1>11. LoadedInv'
  <2>1. CASE AppliedOf(p) = DOMAIN text[p]
    <3>1. KeysOf(text[p], DOMAIN text[p]) \subseteq Written(p)'
      <4>1. \A o \in keys : o \in live[p] /\ ~ isDefault'[p][o]
        BY <1>4, <1>9 DEF IInv, StoreType
      <4> QED
        BY <1>5, <2>1, <4>1 DEF Written
    <3>2. ASSUME NEW q \in Prog, loaded'[q] # None
          PROVE  KeysOf(loaded'[q], DOMAIN loaded'[q]) \subseteq Written(q)'
      <4>1. CASE q = p
        BY <1>5, <2>1, <3>1, <4>1 DEF IInv, StoreType
      <4>2. CASE q # p
        <5>1. loaded'[q] = loaded[q]
          BY <1>5, <4>2 DEF IInv, StoreType
        <5> QED
          BY <1>10, <3>2, <5>1 DEF IInv, LoadedInv
      <4> QED
        BY <4>1, <4>2
    <3> QED
      BY <3>2 DEF LoadedInv, KeysOf
  <2>2. CASE AppliedOf(p) # DOMAIN text[p]
    <3>1. loaded' = loaded
      BY <1>5, <2>2 DEF IInv, StoreType
    <3> QED
      BY <1>10, <3>1, LoadedKept DEF IInv
  <2> QED
    BY <2>1, <2>2
<1> QED
  BY <1>6, <1>7, <1>8, <1>11 DEF IInv

\* A save begins with the text of what the store says now.
LEMMA SaveIInv ==
  ASSUME IInv, NEW p \in Prog, Save(p)
  PROVE  IInv'
<1> USE DEF IInv, Save, Store
<1>1. PICK names \in Listings(Written(p)) : SW!Begin(p, EntriesOf(p, names))
  OBVIOUS
<1>2. Written(p) \in SUBSET Option
  BY DEF Written, StoreType
<1>3. EntriesOf(p, names) \in Seq(Entry)
  BY <1>2, EntriesType
<1>4. StoreType'
  BY DEF StoreType
<1>5. P!Core'
  BY <1>1, <1>3, SaveStepCore
<1>6. SavingInv'
  <2>1. range \in [Prog -> Seq(Entry) \cup {None}] /\ pc \in [Prog -> P!PCs]
    BY DEF P!Core, P!TypeOK
  <2>2. Listings(Written(p))' = Listings(Written(p)) /\ EntriesOf(p, names)' = EntriesOf(p, names)
    BY DEF Listings, Written, EntriesOf
  <2>3. range'[p] = EntriesOf(p, names)' /\ text'[p] = None
    BY <1>1, <2>1, <2>2 DEF SW!Begin, Ready
  <2>4. ASSUME NEW q \in Prog, q # p, SW!Active(q)'
        PROVE  /\ text'[q] = None
               /\ \E l \in Listings(Written(q))' : range'[q] = EntriesOf(q, l)'
    <3>1. SW!Active(q) /\ range'[q] = range[q]
      BY <1>1, <2>1, <2>4 DEF SW!Begin, SW!Goto, SW!Active
    <3>2. PICK l \in Listings(Written(q)) : range[q] = EntriesOf(q, l)
      BY <3>1 DEF SavingInv
    <3>3. Listings(Written(q))' = Listings(Written(q)) /\ EntriesOf(q, l)' = EntriesOf(q, l)
      BY DEF Listings, Written, EntriesOf
    <3> QED
      BY <3>1, <3>2, <3>3 DEF SavingInv
  <2> QED
    BY <2>2, <2>3, <2>4 DEF SavingInv
<1>7. LoadedInv'
  BY LoadedKept DEF Written
<1> QED
  BY <1>4, <1>5, <1>6, <1>7

\* The steps of a save change no range but that of the save that ends.
LEMMA SavesKept ==
  ASSUME P!Core, NEW p \in Prog,
         \/ SW!OpenTmp(p) \/ SW!Write(p) \/ SW!Rename(p)
         \/ SW!Fail(p) \/ SW!Unlink(p) \/ SW!UnlinkFails(p) \/ SW!Crash(p)
  PROVE  /\ \A q \in Prog : SW!Active(q)' => SW!Active(q) /\ range'[q] = range[q]
         /\ SW!Crash(p) => ~ SW!Active(p)'
<1>1. range \in [Prog -> Seq(Entry) \cup {None}] /\ pc \in [Prog -> P!PCs]
  BY DEF P!Core, P!TypeOK
<1> QED
  BY <1>1 DEF SW!OpenTmp, SW!Write, SW!Rename, SW!Fail, SW!Unlink, SW!UnlinkFails, SW!Crash,
              SW!End, SW!Goto, SW!Active

\* A save goes on, and the store stays as it is.
LEMMA SaveStepIInv ==
  ASSUME IInv, NEW p \in Prog, SaveStep(p)
  PROVE  IInv'
<1> USE DEF IInv, SaveStep, Store
<1>1. StoreType'
  BY DEF StoreType
<1>2. P!Core'
  BY SaveStepCore
<1>3. SavingInv'
  <2>1. \A q \in Prog : SW!Active(q)' => SW!Active(q) /\ range'[q] = range[q]
    BY SavesKept
  <2> QED
    BY <2>1, SavingKept
<1>4. LoadedInv'
  BY LoadedKept DEF Written
<1> QED
  BY <1>1, <1>2, <1>3, <1>4

\* A program that starts again has loaded nothing and saves nothing.
LEMMA StartAgainKeeps ==
  ASSUME StoreType, LoadedInv, NEW p \in Prog, StartAgain(p)
  PROVE  /\ StoreType'
         /\ LoadedInv'
         /\ \A q \in Prog \ {p} : /\ live'[q] = live[q]
                                 /\ storage'[q] = storage[q]
                                 /\ isDefault'[q] = isDefault[q]
                                 /\ text'[q] = text[q]
<1> USE DEF StartAgain
<1>1. InitialValue \in Value
  BY ConfigAssumption DEF InitialValue
<1>2. StoreType'
  BY <1>1 DEF StoreType
<1>3. \A q \in Prog \ {p} : /\ live'[q] = live[q]
                            /\ storage'[q] = storage[q]
                            /\ isDefault'[q] = isDefault[q]
                            /\ text'[q] = text[q]
  BY DEF StoreType
<1>4. LoadedInv'
  <2> SUFFICES ASSUME NEW q \in Prog, loaded'[q] # None
               PROVE  KeysOf(loaded'[q], DOMAIN loaded'[q]) \subseteq Written(q)'
    BY DEF LoadedInv, KeysOf
  <2>1. q # p
    BY DEF StoreType
  <2>2. loaded'[q] = loaded[q] /\ Written(q)' = Written(q)
    BY <1>3, <2>1 DEF StoreType, Written
  <2> QED
    BY <2>2 DEF LoadedInv
<1> QED
  BY <1>2, <1>3, <1>4

\* A program ends when it does not save.
LEMMA RestartIInv ==
  ASSUME IInv, NEW p \in Prog, Restart(p)
  PROVE  IInv'
<1> USE DEF IInv, Restart
<1>1. P!Core'
  BY SameFilesCore
<1>2. SavingInv'
  BY StartAgainKeeps, SavingKept DEF fileVars, SW!Active
<1> QED
  BY <1>1, <1>2, StartAgainKeeps

\* A program dies in the middle of a save, which dies with it.
LEMMA DieIInv ==
  ASSUME IInv, NEW p \in Prog, Die(p)
  PROVE  IInv'
<1> USE DEF IInv, Die
<1>1. P!Core'
  BY SaveStepCore
<1>2. SavingInv'
  <2>1. \A q \in Prog : SW!Active(q)' => SW!Active(q) /\ range'[q] = range[q] /\ q # p
    BY SavesKept
  <2> QED
    BY <2>1, StartAgainKeeps, SavingKept
<1> QED
  BY <1>1, <1>2, StartAgainKeeps

\* An editor changes the file and no program.
LEMMA EditIInv ==
  ASSUME IInv, NEW t \in Edits, Edit(t)
  PROVE  IInv'
<1> USE DEF IInv, Edit, Store
<1>1. StoreType'
  BY DEF StoreType
<1>2. P!Core'
  BY EditCore
<1>3. SavingInv'
  BY SavingKept DEF SW!Active
<1>4. LoadedInv'
  BY LoadedKept DEF Written
<1> QED
  BY <1>1, <1>2, <1>3, <1>4

\* Every step preserves the invariant.
LEMMA StepIInv == IInv /\ [Next]_vars => IInv'
<1> SUFFICES ASSUME IInv, [Next]_vars
             PROVE  IInv'
  OBVIOUS
<1>1. CASE UNCHANGED vars
  <2>1. StoreType'
    BY <1>1 DEF vars, Store, IInv, StoreType
  <2>2. P!Core'
    BY <1>1, SameFilesCore DEF vars, IInv
  <2>3. SavingInv'
    BY <1>1, SavingKept DEF vars, Store, fileVars, IInv, SW!Active
  <2>4. LoadedInv'
    BY <1>1, LoadedKept DEF vars, Store, IInv, Written
  <2> QED
    BY <2>1, <2>2, <2>3, <2>4 DEF IInv
<1>2. CASE Next
  BY <1>2, ConstructIInv, DestroyIInv, SetStringIInv, ReadIInv, ApplyIInv, SaveIInv,
     SaveStepIInv, RestartIInv, DieIInv, EditIInv DEF Next
<1> QED
  BY <1>1, <1>2

\* The invariant holds throughout.
THEOREM Invariance == Spec => []IInv
BY InitIInv, StepIInv, PTL DEF Spec

----------------------------------------------------------------------------
(* The properties *)

\* The store, the options and the files keep their types, whatever is loaded.
THEOREM TypeCorrect == Spec => []TypeOK
<1>1. IInv => TypeOK
  BY DEF IInv, StoreType, TypeOK, P!Core, P!TypeOK, SW!TypeOK, P!OpenFilesExist,
         SW!OpenFilesExist, P!PCs, SW!PCs, P!FileNames, SW!FileNames
<1> QED
  BY <1>1, Invariance, PTL

\* A step in which a save succeeds puts the text of the store in the target,
\* and leaves the store as it is.
LEMMA SavedText ==
  ASSUME IInv, Next, NEW p \in Prog, Saved(p)
  PROVE  /\ UNCHANGED Store
         /\ \E names \in Listings(Written(p)) : target' = EntriesOf(p, names)
<1> USE DEF IInv
<1>1. pc[p] = "rename" /\ pc'[p] = "idle" /\ target' = tmp /\ tmp # None /\ tmp' = None
  BY DEF Saved, SW!Rename, SW!End, SW!Goto, P!Core, P!TypeOK
<1>2. UNCHANGED Store
  <2>1. ~ UNCHANGED fileVars
    BY <1>1 DEF fileVars
  <2>2. \A t \in Edits : ~ Edit(t)
    BY <1>1 DEF Edit
  <2>3. \A q \in Prog : ~ Die(q)
    BY <1>1 DEF Die, SW!Crash
  <2> QED
    BY <2>1, <2>2, <2>3 DEF Next, Construct, Destroy, SetString, ReadFile, LoadFails, Apply,
                            Restart, Save, SaveStep
<1>3. tmp = range[p]
  BY <1>1 DEF Saved, P!Core, P!AloneInv, P!Alone, P!Active
<1>4. SW!Active(p)
  BY <1>1 DEF SW!Active
<1> QED
  BY <1>1, <1>2, <1>3, <1>4 DEF SavingInv

\* After a save that is not cut short and had no other to contend with, the
\* file holds the options that were set, each with its value, and nothing else.
THEOREM SettingsSurviveAlways == Spec => SettingsSurvive
<1>1. ASSUME IInv, Next, NEW p \in Prog, Saved(p)
      PROVE  /\ \A o \in live[p] :
                  ValuesIn(target', o) = IF isDefault'[p][o] THEN {} ELSE {storage'[p][o]}
             /\ KeysOf(target', DOMAIN target') \subseteq live[p]
  <2>1. PICK names \in Listings(Written(p)) : target' = EntriesOf(p, names)
    BY <1>1, SavedText
  <2>2. storage' = storage /\ isDefault' = isDefault
    BY <1>1, SavedText DEF Store
  <2>3. Written(p) \in SUBSET Option /\ live[p] \in SUBSET Option
    BY <1>1 DEF IInv, StoreType, Written
  <2>4. /\ KeysOf(target', DOMAIN target') = Written(p)
        /\ \A o \in Option :
             ValuesIn(target', o) = IF o \in Written(p) THEN {storage[p][o]} ELSE {}
    BY <1>1, <2>1, <2>3, EntriesSay DEF IInv
  <2> QED
    BY <2>2, <2>3, <2>4 DEF Written
<1>2. IInv /\ [Next]_vars =>
        [\A p \in Prog : Saved(p) =>
           /\ \A o \in live[p] :
                ValuesIn(target', o) = IF isDefault'[p][o] THEN {} ELSE {storage'[p][o]}
           /\ KeysOf(target', DOMAIN target') \subseteq live[p]]_vars
  BY <1>1
<1> QED
  BY <1>2, Invariance, PTL DEF Spec, SettingsSurvive

\* A program that saves what it has loaded in full puts every key of the file
\* back.
THEOREM NothingLostAlways == Spec => NothingLost
<1>1. ASSUME IInv, Next, NEW p \in Prog, Saved(p), loaded[p] # None, loaded[p] = target
      PROVE  KeysOf(target, DOMAIN target) \subseteq KeysOf(target', DOMAIN target')
  <2>1. PICK names \in Listings(Written(p)) : target' = EntriesOf(p, names)
    BY <1>1, SavedText
  <2>2. Written(p) \in SUBSET Option
    BY <1>1 DEF IInv, StoreType, Written
  <2>3. KeysOf(target', DOMAIN target') = Written(p)
    BY <1>1, <2>1, <2>2, EntriesSay DEF IInv
  <2> QED
    BY <1>1, <2>3 DEF IInv, LoadedInv
<1>2. IInv /\ [Next]_vars =>
        [\A p \in Prog : Saved(p) /\ loaded[p] # None /\ loaded[p] = target =>
           KeysOf(target, DOMAIN target) \subseteq KeysOf(target', DOMAIN target')]_vars
  BY <1>1
<1> QED
  BY <1>2, Invariance, PTL DEF Spec, NothingLost
=============================================================================
