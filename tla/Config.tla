------------------------------ MODULE Config ------------------------------
(***************************************************************************)
(* nihil.config: string options, the store that they register with,        *)
(* read_from() and write_to(), which saves the store with SafeWrite.       *)
(*                                                                         *)
(* Programs that share a configuration file load it, set options, save     *)
(* them, end or die and start again, and somebody edits the file.  The     *)
(* text of the file is a sequence of entries; how an entry is written is   *)
(* left out.                                                               *)
(***************************************************************************)
EXTENDS Naturals, Sequences

CONSTANTS
  Prog,    \* programs that use the file
  Names,   \* the names of the options, in the order of the store's map
  Value,   \* the strings
  Other,   \* a UCL value that is no string
  Foreign, \* a key that names no option
  None,
  Edits,   \* what an editor may make of the file
  MayOverlap, MayCrash, MayWriteShort \* see SafeWrite

Option == {Names[i] : i \in DOMAIN Names}

Entry == [key : Option \cup {Foreign}, value : Value \cup {Other}]

ASSUME ConfigAssumption ==
  /\ \A i, j \in DOMAIN Names : Names[i] = Names[j] => i = j
  /\ Edits \subseteq Seq(Entry)
  /\ Value # {}
  /\ Other \notin Value
  /\ Foreign \notin Option
  /\ None \notin Seq(Entry)
  /\ MayOverlap \in BOOLEAN
  /\ MayCrash \in BOOLEAN
  /\ MayWriteShort \in BOOLEAN

VARIABLES
  live,      \* live[p]: the options that exist in program p
  storage,   \* storage[p][o]: the string that option o refers to
  isDefault, \* isDefault[p][o]: m_is_default
  text,      \* text[p]: what read_from() has read of the file, or None
  loaded,    \* history: the last text that p has loaded in full, or None
  target, tmp, pc, file, range, call, orphaned \* see SafeWrite

Store == <<live, storage, isDefault, text, loaded>>

fileVars == <<target, tmp, pc, file, range, call, orphaned>>

vars == <<Store, fileVars>>

SW == INSTANCE SafeWrite WITH
        Writer <- Prog, Block <- Entry, Payload <- Seq(Entry), Original <- Edits \cup {None}

TypeOK ==
  /\ live \in [Prog -> SUBSET Option]
  /\ storage \in [Prog -> [Option -> Value]]
  /\ isDefault \in [Prog -> [Option -> BOOLEAN]]
  /\ text \in [Prog -> Seq(Entry) \cup {None}]
  /\ loaded \in [Prog -> Seq(Entry) \cup {None}]
  /\ SW!TypeOK

\* What the program's strings hold when it starts.
InitialValue == CHOOSE v \in Value : TRUE

Init ==
  /\ live = [p \in Prog |-> {}]
  /\ storage = [p \in Prog |-> [o \in Option |-> InitialValue]]
  /\ isDefault = [p \in Prog |-> [o \in Option |-> TRUE]]
  /\ text = [p \in Prog |-> None]
  /\ loaded = [p \in Prog |-> None]
  /\ SW!Init

\* A program does one thing at a time: it is in neither read_from() nor
\* write_to().
Ready(p) == text[p] = None /\ ~ SW!Active(p)

----------------------------------------------------------------------------
(* Options *)

\* option(name, description): registered, and the default for now.
Construct(p, o) ==
  /\ Ready(p)
  /\ o \notin live[p]
  /\ live' = [live EXCEPT ![p] = @ \cup {o}]
  /\ isDefault' = [isDefault EXCEPT ![p][o] = TRUE]
  /\ UNCHANGED <<storage, text, loaded, fileVars>>

\* ~option(): the store forgets it, and what was loaded is no longer all there.
Destroy(p, o) ==
  /\ Ready(p)
  /\ o \in live[p]
  /\ live' = [live EXCEPT ![p] = @ \ {o}]
  /\ isDefault' = [isDefault EXCEPT ![p][o] = TRUE]
  /\ loaded' = [loaded EXCEPT ![p] = None]
  /\ UNCHANGED <<storage, text, fileVars>>

\* get_option(o)->string(v).
SetString(p, o, v) ==
  /\ Ready(p)
  /\ o \in live[p]
  /\ storage' = [storage EXCEPT ![p][o] = v]
  /\ isDefault' = [isDefault EXCEPT ![p][o] = FALSE]
  /\ UNCHANGED <<live, text, loaded, fileVars>>

----------------------------------------------------------------------------
(* read_from() *)

\* read_file().  Without a file read_from() returns at once and changes
\* nothing.
ReadFile(p) ==
  /\ Ready(p)
  /\ target # None
  /\ text' = [text EXCEPT ![p] = target]
  /\ UNCHANGED <<live, storage, isDefault, loaded, fileVars>>

\* The file cannot be read, or its text is not UCL.
LoadFails(p) ==
  /\ text[p] # None
  /\ text' = [text EXCEPT ![p] = None]
  /\ UNCHANGED <<live, storage, isDefault, loaded, fileVars>>

\* Mutant: string::set_ucl() does not look at the type.
AnyFits(p, e) == e.key \in live[p]

\* fetch() finds the option, and object_cast<> the string.
Fits(p, e) == e.key \in live[p] /\ e.value \in Value

\* The loop over the entries ends at the first that does not fit.
AppliedOf(p) ==
  {i \in DOMAIN text[p] : \A j \in 1 .. i : Fits(p, text[p][j])}

KeysOf(t, I) == {t[i].key : i \in I}

\* Mutant: neither string::set_ucl() nor option::ucl() resets m_is_default.
ApplyAsDefault(p) ==
  /\ text[p] # None
  /\ LET keys == KeysOf(text[p], AppliedOf(p))
     IN \E from \in [keys -> AppliedOf(p)] :
          /\ \A o \in keys : text[p][from[o]].key = o
          /\ storage' = [storage EXCEPT ![p] =
                           [o \in Option |-> IF o \in keys THEN text[p][from[o]].value ELSE @[o]]]
  /\ loaded' = [loaded EXCEPT ![p] = IF AppliedOf(p) = DOMAIN text[p] THEN text[p] ELSE @]
  /\ text' = [text EXCEPT ![p] = None]
  /\ UNCHANGED <<live, isDefault, fileVars>>

\* Every entry up to the first that does not fit sets its option, and
\* read_from() returns.  Of entries with one key the library chooses one.
Apply(p) ==
  /\ text[p] # None
  /\ LET keys == KeysOf(text[p], AppliedOf(p))
     IN \E from \in [keys -> AppliedOf(p)] :
          /\ \A o \in keys : text[p][from[o]].key = o
          /\ storage' = [storage EXCEPT ![p] =
                           [o \in Option |-> IF o \in keys THEN text[p][from[o]].value ELSE @[o]]]
          /\ isDefault' = [isDefault EXCEPT ![p] = [o \in Option |-> o \notin keys /\ @[o]]]
  /\ loaded' = [loaded EXCEPT ![p] = IF AppliedOf(p) = DOMAIN text[p] THEN text[p] ELSE @]
  /\ text' = [text EXCEPT ![p] = None]
  /\ UNCHANGED <<live, fileVars>>

----------------------------------------------------------------------------
(* write_to() *)

\* Mutant: defaults are written too.
WrittenWithDefaults(p) == live[p]

\* The options that are saved: those of the store, except defaults.
Written(p) == {o \in live[p] : ~ isDefault[p][o]}

\* The options of S in the order of the store.
Listings(S) ==
  {s \in UNION {[1 .. n -> S] : n \in 0 .. Len(Names)} :
     /\ \A o \in S : \E i \in DOMAIN s : s[i] = o
     /\ \A i, j \in DOMAIN s : i < j =>
          \E k, l \in DOMAIN Names : k < l /\ s[i] = Names[k] /\ s[j] = Names[l]}

EntriesOf(p, names) ==
  [i \in DOMAIN names |-> [key |-> names[i], value |-> storage[p][names[i]]]]

\* write_to() calls safe_write_file().
Save(p) ==
  /\ Ready(p)
  /\ \E names \in Listings(Written(p)) : SW!Begin(p, EntriesOf(p, names))
  /\ UNCHANGED Store

SaveStep(p) ==
  /\ \/ SW!OpenTmp(p) \/ SW!Write(p) \/ SW!Rename(p)
     \/ SW!Fail(p) \/ SW!Unlink(p) \/ SW!UnlinkFails(p)
  /\ UNCHANGED Store

----------------------------------------------------------------------------
(* The programs and their file *)

\* A program starts again, with none of its options constructed.
StartAgain(p) ==
  /\ live' = [live EXCEPT ![p] = {}]
  /\ storage' = [storage EXCEPT ![p] = [o \in Option |-> InitialValue]]
  /\ isDefault' = [isDefault EXCEPT ![p] = [o \in Option |-> TRUE]]
  /\ text' = [text EXCEPT ![p] = None]
  /\ loaded' = [loaded EXCEPT ![p] = None]

\* A program ends, or dies while it does not save.
Restart(p) ==
  /\ ~ SW!Active(p)
  /\ StartAgain(p)
  /\ UNCHANGED fileVars

\* A program dies while it saves.
Die(p) ==
  /\ SW!Crash(p)
  /\ StartAgain(p)

\* An editor replaces the file.
Edit(t) ==
  /\ target' = t
  /\ file' = [p \in Prog |-> IF file[p] = "target" THEN "unlinked" ELSE file[p]]
  /\ UNCHANGED <<tmp, pc, range, call, orphaned, Store>>

Next ==
  \/ \E p \in Prog :
       \/ \E o \in Option : Construct(p, o) \/ Destroy(p, o)
       \/ \E o \in Option, v \in Value : SetString(p, o, v)
       \/ ReadFile(p) \/ LoadFails(p) \/ Apply(p)
       \/ Save(p) \/ SaveStep(p)
       \/ Restart(p) \/ Die(p)
  \/ \E t \in Edits : Edit(t)

Spec == Init /\ [][Next]_vars

----------------------------------------------------------------------------
(* Properties *)

\* A save that succeeds, under the conditions under which safe_write_file()
\* writes what it was given.
Saved(p) ==
  /\ SW!Rename(p)
  /\ call[p].alone
  /\ call[p].whole
  /\ call[p].left <= Len(range[p])

ValuesIn(t, k) == {t[i].value : i \in {j \in DOMAIN t : t[j].key = k}}

\* A program that starts after a save and loads the file has the settings of
\* the one that saved: each option that was set is there once, with the value
\* it has in memory when write_to() returns, and nothing else is there, so that
\* options that were not set keep following their defaults.
SettingsSurvive ==
  [][\A p \in Prog : Saved(p) =>
       /\ \A o \in live[p] :
            ValuesIn(target', o) = IF isDefault'[p][o] THEN {} ELSE {storage'[p][o]}
       /\ KeysOf(target', DOMAIN target') \subseteq live[p]]_vars

\* To load a file, to set options and to save it again loses none of its
\* entries, if the load succeeded, no option was destroyed since and the file
\* is still the one that was loaded, whatever loads failed in between.
NothingLost ==
  [][\A p \in Prog : Saved(p) /\ loaded[p] # None /\ loaded[p] = target =>
       KeysOf(target, DOMAIN target) \subseteq KeysOf(target', DOMAIN target')]_vars

=============================================================================
