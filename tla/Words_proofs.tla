---------------------------- MODULE Words_proofs ----------------------------
(***************************************************************************)
(* What is made of the words that a program is given: what Commands,       *)
(* ParseSize and ParseFlags promise, proved for any commands, paths and    *)
(* arguments, for types of any width, strings of any length and any unit,  *)
(* and for any flags and argument vectors of any length.                   *)
(***************************************************************************)
EXTENDS Commands, ParseSize, ParseFlags, Integers, SequenceTheorems, FiniteSetTheorems, TLAPS

----------------------------------------------------------------------------
(* The command tree: the inductive invariant *)

\* The node that insert() is at is on the way to its command's node.
OnTheWay ==
  phase = "insert" /\ inserted < Len(registry) => IsPrefixOf(node, Path[Inserting])

\* Between two commands insert() is at the root.
BackAtRoot == phase = "insert" /\ inserted = Len(registry) => node = Root

\* The commands in the tree have different paths.
DistinctPaths ==
  phase # "idle" =>
    \A i, j \in 1 .. inserted : i # j => Path[registry[i]] # Path[registry[j]]

\* The nodes of the tree once every command is in it.
Complete ==
  phase \in {"find", "invoke", "called", "usage"} =>
    /\ inserted = Len(registry)
    /\ \A w \in DOMAIN tree :
         w = Root \/ \E i \in 1 .. inserted : IsPrefixOf(w, Path[registry[i]])

\* While nothing is dispatched the tree is empty.
IdleEmpty ==
  phase = "idle" => tree = EmptyTree /\ inserted = 0 /\ node = Root /\ called = <<>>

\* Every tree has its root.
HasRoot == Root \in DOMAIN tree

\* The search has followed the words up to where it is.
SearchedWords ==
  phase \in {"find", "invoke", "called", "usage"} =>
    Len(node) <= Len(args) /\ node = SubSeq(args, 1, Len(node))

\* Each command of the tree has a node, which holds it.
Placed ==
  phase # "idle" =>
    \A i \in 1 .. inserted :
      Path[registry[i]] \in DOMAIN tree /\ tree[Path[registry[i]]] = registry[i]

IInv ==
  /\ TypeOK
  /\ TreeHoldsCommands
  /\ DuplicatesThrow
  /\ OnTheWay
  /\ BackAtRoot
  /\ DistinctPaths
  /\ Complete
  /\ HasRoot
  /\ IdleEmpty
  /\ SearchedWords
  /\ Placed

\* A node that is on the way to a path and as long as it is the path's node.
LEMMA PrefixOfSameLength ==
  ASSUME NEW v \in Seq(Word), NEW w \in Seq(Word), IsPrefixOf(v, w), Len(v) = Len(w)
  PROVE  v = w
BY DEF IsPrefixOf

\* The next word of a path leads one node further on the way to it.
LEMMA ChildOnTheWay ==
  ASSUME NEW v \in Seq(Word), NEW w \in Seq(Word), IsPrefixOf(v, w), Len(v) < Len(w)
  PROVE  /\ ChildOf(v, w[Len(v) + 1]) \in Seq(Word)
         /\ IsPrefixOf(ChildOf(v, w[Len(v) + 1]), w)
BY DEF IsPrefixOf, ChildOf

\* What is on the way to a node is on the way to its children.
LEMMA PrefixOfChild ==
  ASSUME NEW u \in Seq(Word), NEW v \in Seq(Word), NEW x \in Word, IsPrefixOf(u, v)
  PROVE  IsPrefixOf(u, ChildOf(v, x))
BY DEF IsPrefixOf, ChildOf

\* Every node is on the way to itself.
LEMMA PrefixOfItself ==
  ASSUME NEW v \in Seq(Word)
  PROVE  IsPrefixOf(v, v)
BY DEF IsPrefixOf

\* The root is on the way to every node, and no other node is on the way to it.
LEMMA PrefixOfRoot ==
  ASSUME NEW v \in Seq(Word)
  PROVE  IsPrefixOf(Root, v) /\ (IsPrefixOf(v, Root) => v = Root)
BY DEF IsPrefixOf, Root

\* What unregister_command() leaves is a registry.
LEMMA ErasedIsRegistry ==
  ASSUME NEW r \in Seq(Command), NEW i \in 1 .. Len(r)
  PROVE  SubSeq(r, 1, i - 1) \o SubSeq(r, i + 1, Len(r)) \in Seq(Command)
<1>1. SubSeq(r, 1, i - 1) \in Seq(Command)
  OBVIOUS
<1>2. SubSeq(r, i + 1, Len(r)) \in Seq(Command)
  OBVIOUS
<1>. QED
  BY <1>1, <1>2

----------------------------------------------------------------------------
(* The invariant is inductive *)

\* Nothing is registered and nothing is dispatched when the program starts.
LEMMA InitIInv == Init => IInv
BY CommandsAssumption
DEF Init, IInv, TypeOK, TreeHoldsCommands, DuplicatesThrow, OnTheWay, BackAtRoot,
    DistinctPaths, Complete, Placed, HasRoot, IdleEmpty, SearchedWords, Phases, EmptyTree, Root

\* A step that leaves the dispatch idle preserves the invariant.
LEMMA IdleStep ==
  ASSUME registry' \in Seq(Command), phase' = "idle", args' \in Seq(Word),
         tree' = EmptyTree, inserted' = 0, node' = Root, called' = <<>>
  PROVE  IInv'
BY CommandsAssumption
DEF IInv, TypeOK, TreeHoldsCommands, DuplicatesThrow, OnTheWay, BackAtRoot,
    DistinctPaths, Complete, Placed, HasRoot, IdleEmpty, SearchedWords, Phases, EmptyTree, Root

\* Registration and its undoing keep the dispatch idle.
LEMMA RegistryStep ==
  ASSUME IInv, NEW c \in Command, Register(c) \/ Unregister(c)
  PROVE  IInv'
<1>1. CASE Register(c)
  <2>1. registry' \in Seq(Command)
    BY <1>1 DEF Register, IInv, TypeOK
  <2>. QED
    BY <1>1, <2>1, IdleStep DEF Register, IInv, TypeOK, IdleEmpty
<1>2. CASE Unregister(c)
  <2>1. registry' \in Seq(Command)
    BY <1>2, ErasedIsRegistry DEF Unregister, IInv, TypeOK
  <2>. QED
    BY <1>2, <2>1, IdleStep DEF Unregister, IInv, TypeOK, IdleEmpty
<1>. QED
  BY <1>1, <1>2

\* A dispatch begins with the root alone.
LEMMA DispatchStep ==
  ASSUME IInv, NEW a \in Args, Dispatch(a)
  PROVE  IInv'
<1>1. \A w \in Seq(Word) : IsPrefixOf(Root, w)
  BY PrefixOfRoot
<1>2. inserted' < Len(registry') => Path[registry'[inserted' + 1]] \in Seq(Word)
  BY CommandsAssumption DEF Dispatch, IInv, TypeOK
<1>3. IsPrefixOf(Root, Root)
  <2>1. Root \in Seq(Word)
    BY DEF Root
  <2>. QED
    BY <1>1, <2>1
<1>. QED
  BY <1>1, <1>2, <1>3, CommandsAssumption
  DEF Dispatch, IInv, TypeOK, TreeHoldsCommands, DuplicatesThrow, OnTheWay, BackAtRoot,
      DistinctPaths, Complete, Placed, HasRoot, IdleEmpty, SearchedWords, Phases, EmptyTree, Root, Inserting

\* get_or_create_child() keeps the nodes there are, and goes on towards the
\* command's node.
LEMMA ChildStep ==
  ASSUME IInv, GetOrCreateChild
  PROVE  IInv'
<1> DEFINE child == ChildOf(node, Path[Inserting][Len(node) + 1])
<1>1. /\ Path[Inserting] \in Seq(Word)
      /\ IsPrefixOf(node, Path[Inserting])
      /\ node \in Seq(Word)
  BY CommandsAssumption DEF GetOrCreateChild, IInv, TypeOK, OnTheWay, Inserting
<1>2. child \in Seq(Word) /\ IsPrefixOf(child, Path[Inserting])
  BY <1>1, ChildOnTheWay DEF GetOrCreateChild
<1>3. IsPrefixOf(child, child)
  BY <1>2, PrefixOfItself
<1>4. \A w \in DOMAIN tree : IsPrefixOf(w, node) => IsPrefixOf(w, child)
  <2>1. Path[Inserting][Len(node) + 1] \in Word
    BY <1>1 DEF GetOrCreateChild
  <2>. QED
    BY <1>1, <2>1, PrefixOfChild DEF IInv, TypeOK
<1>5. /\ DOMAIN tree' = DOMAIN tree \cup {child}
      /\ \A w \in DOMAIN tree : tree'[w] = tree[w]
      /\ child \notin DOMAIN tree => tree'[child] = Stub
      /\ node' = child
  BY DEF GetOrCreateChild
<1>6. TypeOK' /\ HasRoot' /\ IdleEmpty'
  BY <1>2, <1>5 DEF GetOrCreateChild, IInv, TypeOK, HasRoot, IdleEmpty
<1>7. Placed'
  BY <1>5 DEF GetOrCreateChild, IInv, Placed
<1>8. TreeHoldsCommands'
  <2>1. phase # "idle" /\ phase' = phase
    BY DEF GetOrCreateChild
  <2>2. \A i \in 1 .. inserted' : tree'[Path[registry'[i]]] = registry'[i]
    BY <2>1, <1>7 DEF Placed
  <2>3. ASSUME NEW w \in DOMAIN tree'
        PROVE  /\ \/ IsPrefixOf(w, node')
                  \/ \E i \in 1 .. inserted' : IsPrefixOf(w, Path[registry'[i]])
               /\ tree'[w] # Stub =>
                    \E i \in 1 .. inserted' :
                      tree'[w] = registry'[i] /\ Path[registry'[i]] = w
    <3>1. CASE w \in DOMAIN tree
      BY <3>1, <2>1, <1>4, <1>5 DEF GetOrCreateChild, IInv, TreeHoldsCommands
    <3>2. CASE w \notin DOMAIN tree
      BY <3>2, <1>3, <1>5
    <3>. QED
      BY <3>1, <3>2
  <2>. QED
    BY <2>2, <2>3 DEF TreeHoldsCommands
<1>9. OnTheWay'
  BY <1>2, <1>5 DEF GetOrCreateChild, OnTheWay, Inserting
<1>10. DuplicatesThrow' /\ BackAtRoot' /\ DistinctPaths' /\ Complete' /\ SearchedWords'
  BY DEF GetOrCreateChild, IInv, DuplicatesThrow, BackAtRoot, DistinctPaths, Complete,
         SearchedWords
<1>. QED
  BY <1>6, <1>7, <1>8, <1>9, <1>10 DEF IInv

\* The command's node is where insert() stops.
LEMMA AtEndNode ==
  ASSUME IInv, AtEnd
  PROVE  node = Path[Inserting] /\ node \in DOMAIN tree /\ Inserting \in Command
BY CommandsAssumption, PrefixOfSameLength DEF AtEnd, IInv, TypeOK, OnTheWay, Inserting

\* A command takes its node, which no command had.
LEMMA SetStep ==
  ASSUME IInv, SetCommand
  PROVE  IInv'
<1>1. /\ node = Path[Inserting]
      /\ node \in DOMAIN tree
      /\ Inserting \in Command
      /\ phase = "insert" /\ phase' = "insert"
      /\ inserted \in Nat /\ inserted < Len(registry)
      /\ inserted' = inserted + 1
      /\ registry' = registry
      /\ node' = Root
  BY AtEndNode DEF SetCommand, AtEnd, IInv, TypeOK
<1>2. /\ DOMAIN tree' = DOMAIN tree
      /\ tree'[node] = Inserting
      /\ \A w \in DOMAIN tree : w # node => tree'[w] = tree[w]
  BY <1>1 DEF SetCommand
<1>3. \A i \in 1 .. inserted : registry[i] \in Command
  BY <1>1 DEF IInv, TypeOK
<1>4. \A i \in 1 .. inserted :
        Path[registry[i]] \in DOMAIN tree /\ tree[Path[registry[i]]] = registry[i]
  BY <1>1 DEF IInv, Placed
<1>5. \A i \in 1 .. inserted : Path[registry[i]] # node
  BY <1>3, <1>4, CommandsAssumption DEF SetCommand
<1>6. TypeOK' /\ HasRoot' /\ IdleEmpty'
  BY <1>1, <1>2 DEF SetCommand, IInv, TypeOK, HasRoot, IdleEmpty
<1>7. Placed'
  BY <1>1, <1>2, <1>4, <1>5 DEF Placed, Inserting
<1>8. TreeHoldsCommands'
  <2>1. ASSUME NEW w \in DOMAIN tree'
        PROVE  /\ \E i \in 1 .. inserted' : IsPrefixOf(w, Path[registry'[i]])
               /\ tree'[w] # Stub =>
                    \E i \in 1 .. inserted' :
                      tree'[w] = registry'[i] /\ Path[registry'[i]] = w
    <3>1. \/ IsPrefixOf(w, node)
          \/ \E i \in 1 .. inserted : IsPrefixOf(w, Path[registry[i]])
      BY <1>1, <1>2 DEF IInv, TreeHoldsCommands
    <3>2. inserted + 1 \in 1 .. inserted' /\ Inserting = registry'[inserted + 1]
      BY <1>1 DEF Inserting
    <3>3. \E i \in 1 .. inserted' : IsPrefixOf(w, Path[registry'[i]])
      BY <1>1, <3>1, <3>2
    <3>4. CASE w = node
      BY <3>2, <3>3, <3>4, <1>1, <1>2
    <3>5. CASE w # node
      <4>1. tree'[w] = tree[w]
        BY <3>5, <1>2
      <4>2. tree[w] # Stub =>
              \E i \in 1 .. inserted : tree[w] = registry[i] /\ Path[registry[i]] = w
        BY <1>1, <1>2 DEF IInv, TreeHoldsCommands
      <4>. QED
        BY <4>1, <4>2, <3>3, <1>1
    <3>. QED
      BY <3>4, <3>5
  <2>. QED
    BY <2>1, <1>7, <1>1 DEF TreeHoldsCommands, Placed
<1>9. OnTheWay'
  <2>1. inserted' < Len(registry') => Path[registry'[inserted' + 1]] \in Seq(Word)
    BY <1>1, CommandsAssumption DEF IInv, TypeOK
  <2>. QED
    BY <1>1, <2>1, PrefixOfRoot DEF OnTheWay, Inserting
<1>10. DistinctPaths'
  BY <1>1, <1>5 DEF IInv, DistinctPaths, Inserting
<1>11. DuplicatesThrow' /\ BackAtRoot' /\ Complete' /\ SearchedWords'
  BY <1>1 DEF DuplicatesThrow, BackAtRoot, Complete, SearchedWords
<1>. QED
  BY <1>6, <1>7, <1>8, <1>9, <1>10, <1>11 DEF IInv

\* A second command for a node shows that two have one path.
LEMMA DuplicateStep ==
  ASSUME IInv, Duplicate
  PROVE  IInv'
<1>1. /\ node = Path[Inserting]
      /\ node \in DOMAIN tree
      /\ inserted \in Nat /\ inserted < Len(registry)
      /\ phase = "insert" /\ phase' = "thrown"
  BY AtEndNode DEF Duplicate, AtEnd, IInv, TypeOK
<1>2. PICK i \in 1 .. inserted : Path[registry[i]] = node
  BY <1>1 DEF Duplicate, IInv, TreeHoldsCommands
<1>3. inserted + 1 \in 1 .. Len(registry) /\ i \in 1 .. Len(registry) /\ i # inserted + 1
  BY <1>1, <1>2 DEF IInv, TypeOK
<1>4. SamePath
  BY <1>1, <1>2, <1>3 DEF SamePath, Inserting
<1>5. DuplicatesThrow'
  BY <1>1, <1>4 DEF Duplicate, DuplicatesThrow, SamePath
<1>6. TypeOK' /\ HasRoot' /\ IdleEmpty'
  BY <1>1 DEF Duplicate, IInv, TypeOK, Phases, HasRoot, IdleEmpty
<1>7. TreeHoldsCommands' /\ Placed' /\ DistinctPaths'
  BY <1>1 DEF Duplicate, IInv, TreeHoldsCommands, Placed, DistinctPaths
<1>8. OnTheWay' /\ BackAtRoot' /\ Complete' /\ SearchedWords'
  BY <1>1 DEF OnTheWay, BackAtRoot, Complete, SearchedWords
<1>. QED
  BY <1>5, <1>6, <1>7, <1>8 DEF IInv

\* A tree is built without an exception only of commands with different paths.
LEMMA BuiltStep ==
  ASSUME IInv, Built
  PROVE  IInv'
<1>1. /\ phase = "insert" /\ phase' = "find"
      /\ inserted = Len(registry)
      /\ node = Root
      /\ UNCHANGED <<registry, args, tree, inserted, node, called>>
  BY DEF Built, IInv, BackAtRoot
<1>2. ~ SamePath
  BY <1>1 DEF IInv, DistinctPaths, SamePath
<1>3. DuplicatesThrow'
  BY <1>1, <1>2 DEF DuplicatesThrow, SamePath
<1>4. \A w \in DOMAIN tree : IsPrefixOf(w, Root) => w = Root
  BY PrefixOfRoot DEF IInv, TypeOK
<1>5. Complete'
  BY <1>1, <1>4 DEF IInv, TreeHoldsCommands, Complete
<1>6. TypeOK' /\ HasRoot' /\ IdleEmpty'
  BY <1>1 DEF IInv, TypeOK, Phases, HasRoot, IdleEmpty
<1>7. TreeHoldsCommands' /\ Placed' /\ DistinctPaths'
  BY <1>1 DEF IInv, TreeHoldsCommands, Placed, DistinctPaths
<1>8. OnTheWay' /\ BackAtRoot' /\ SearchedWords'
  <2>1. node = SubSeq(args, 1, Len(node)) /\ Len(node) <= Len(args)
    BY <1>1 DEF Root, IInv, TypeOK
  <2>. QED
    BY <1>1, <2>1 DEF OnTheWay, BackAtRoot, SearchedWords
<1>. QED
  BY <1>3, <1>5, <1>6, <1>7, <1>8 DEF IInv

\* The search moves in the tree and changes nothing of it.
LEMMA SearchStep ==
  ASSUME IInv, Descend \/ Found \/ Invoke \/ PrintUsage
  PROVE  IInv'
<1>1. /\ phase \in {"find", "invoke"}
      /\ phase' \in {"find", "invoke", "called", "usage"}
      /\ UNCHANGED <<registry, args, tree, inserted>>
      /\ node' \in DOMAIN tree
  BY DEF Descend, Found, Invoke, PrintUsage, HasNext, IInv, TypeOK
<1>2. called' \in Seq(Word)
  <2>1. CASE Invoke
    <3>1. NRest \in Nat /\ NRest <= Len(args)
      BY <2>1 DEF NRest, Rest, Invoke, IInv, TypeOK, SearchedWords
    <3>. QED
      BY <2>1, <3>1 DEF Invoke, IInv, TypeOK
  <2>2. CASE Descend \/ Found \/ PrintUsage
    BY <2>2 DEF Descend, Found, PrintUsage, IInv, TypeOK
  <2>. QED
    BY <2>1, <2>2
<1>3. TypeOK' /\ HasRoot' /\ IdleEmpty'
  BY <1>1, <1>2 DEF IInv, TypeOK, Phases, HasRoot, IdleEmpty
<1>4. DuplicatesThrow'
  BY <1>1 DEF IInv, DuplicatesThrow, SamePath
<1>5. Placed' /\ DistinctPaths' /\ Complete'
  BY <1>1 DEF IInv, Placed, DistinctPaths, Complete
<1>6. TreeHoldsCommands'
  <2>1. ASSUME NEW w \in DOMAIN tree'
        PROVE  /\ \/ IsPrefixOf(w, node')
                  \/ \E i \in 1 .. inserted' : IsPrefixOf(w, Path[registry'[i]])
               /\ tree'[w] # Stub =>
                    \E i \in 1 .. inserted' :
                      tree'[w] = registry'[i] /\ Path[registry'[i]] = w
    <3>1. w = Root => IsPrefixOf(w, node')
      BY <1>1, PrefixOfRoot DEF IInv, TypeOK
    <3>. QED
      BY <1>1, <3>1 DEF IInv, Complete, TreeHoldsCommands
  <2>. QED
    BY <1>1, <1>5, <2>1 DEF TreeHoldsCommands, Placed
<1>7. OnTheWay' /\ BackAtRoot'
  BY <1>1 DEF OnTheWay, BackAtRoot
<1>8. SearchedWords'
  <2>1. CASE Descend
    BY <2>1 DEF Descend, HasNext, NextArg, ChildOf, IInv, TypeOK, SearchedWords
  <2>2. CASE Found \/ Invoke \/ PrintUsage
    BY <2>2 DEF Found, Invoke, PrintUsage, IInv, SearchedWords
  <2>. QED
    BY <2>1, <2>2
<1>. QED
  BY <1>3, <1>4, <1>5, <1>6, <1>7, <1>8 DEF IInv

\* Every step preserves the invariant: one case for each action.
LEMMA StepIInv == IInv /\ [Next]_vars => IInv'
<1> SUFFICES ASSUME IInv, [Next]_vars
             PROVE  IInv'
  OBVIOUS
<1>1. ASSUME NEW c \in Command, Register(c) \/ Unregister(c)
      PROVE  IInv'
  BY <1>1, RegistryStep
<1>2. ASSUME NEW a \in Args, Dispatch(a)
      PROVE  IInv'
  BY <1>2, DispatchStep
<1>3. CASE GetOrCreateChild
  BY <1>3, ChildStep
<1>4. CASE SetCommand
  BY <1>4, SetStep
<1>5. CASE Duplicate
  BY <1>5, DuplicateStep
<1>6. CASE Built
  BY <1>6, BuiltStep
<1>7. CASE Descend \/ Found \/ Invoke \/ PrintUsage
  BY <1>7, SearchStep
<1>8. CASE Return
  <2>1. <<>> \in Seq(Word)
    OBVIOUS
  <2>. QED
    BY <1>8, <2>1, IdleStep DEF Return, IInv, TypeOK
<1>9. CASE UNCHANGED vars
  <2>1. UNCHANGED <<registry, phase, args, tree, inserted, node, called>>
    BY <1>9 DEF vars
  <2>2. (TypeOK /\ HasRoot /\ IdleEmpty /\ SearchedWords /\ Placed)'
    BY <2>1 DEF IInv, TypeOK, HasRoot, IdleEmpty, SearchedWords, Placed
  <2>3. (TreeHoldsCommands /\ DuplicatesThrow)'
    BY <2>1 DEF IInv, TreeHoldsCommands, DuplicatesThrow, SamePath
  <2>4. (OnTheWay /\ BackAtRoot /\ DistinctPaths /\ Complete)'
    BY <2>1 DEF IInv, OnTheWay, BackAtRoot, DistinctPaths, Complete, Inserting
  <2> QED
    BY <2>2, <2>3, <2>4 DEF IInv
<1>. QED
  BY <1>1, <1>2, <1>3, <1>4, <1>5, <1>6, <1>7, <1>8, <1>9 DEF Next

----------------------------------------------------------------------------
(* The theorems *)

\* The variables have their types.
THEOREM TypeCorrect == Spec => []TypeOK
<1>1. IInv => TypeOK
  BY DEF IInv
<1>. QED
  BY <1>1, InitIInv, StepIInv, PTL DEF Spec

\* The tree built by build_command_tree() does not depend on the order in
\* which the commands registered: it holds each at its path, and nothing else.
THEOREM TreeHoldsCommandsAlways == Spec => []TreeHoldsCommands
<1>1. IInv => TreeHoldsCommands
  BY DEF IInv
<1>. QED
  BY <1>1, InitIInv, StepIInv, PTL DEF Spec

\* build_command_tree() throws exactly when two commands have one path.
THEOREM DuplicatesThrowAlways == Spec => []DuplicatesThrow
<1>1. IInv => DuplicatesThrow
  BY DEF IInv
<1>. QED
  BY <1>1, InitIInv, StepIInv, PTL DEF Spec

----------------------------------------------------------------------------
(* The search *)

\* With a node, the nodes on the way to it are in the tree.
WayIsInTree(w) == \A n \in 0 .. Len(w) : SubSeq(w, 1, n) \in DOMAIN tree

WaysAreInTree ==
  phase # "idle" =>
    /\ \A i \in 1 .. inserted : WayIsInTree(Path[registry[i]])
    /\ phase = "insert" => WayIsInTree(node)

\* The search stops only where it cannot go on, and what dispatch_command()
\* does then depends on what it found there.
Stopped ==
  /\ phase \in {"invoke", "called", "usage"} => ~ HasNext
  /\ phase = "called" => tree[node] # Stub
  /\ phase = "usage" => tree[node] = Stub

SInv == WaysAreInTree /\ Stopped

\* Nothing is in the tree and nothing is found when the program starts.
LEMMA InitSInv == Init => SInv
BY DEF Init, SInv, WaysAreInTree, Stopped

\* The way to a child is the way to its parent, and the child.
LEMMA WayToChild ==
  ASSUME NEW v \in Seq(Word), NEW x \in Word, NEW n \in 0 .. Len(ChildOf(v, x))
  PROVE  \/ n \in 0 .. Len(v) /\ SubSeq(ChildOf(v, x), 1, n) = SubSeq(v, 1, n)
         \/ SubSeq(ChildOf(v, x), 1, n) = ChildOf(v, x)
BY DEF ChildOf

\* Every step preserves that all ways are in the tree, and where the search
\* stops.
LEMMA StepSInv == IInv /\ SInv /\ [Next]_vars => SInv'
<1> SUFFICES ASSUME IInv, SInv, [Next]_vars
             PROVE  SInv'
  OBVIOUS
<1>1. ASSUME NEW c \in Command, Register(c) \/ Unregister(c)
      PROVE  SInv'
  BY <1>1 DEF Register, Unregister, SInv, WaysAreInTree, Stopped
<1>2. ASSUME NEW a \in Args, Dispatch(a)
      PROVE  SInv'
  BY <1>2 DEF Dispatch, EmptyTree, Root, SInv, WaysAreInTree, WayIsInTree, Stopped
<1>3. CASE GetOrCreateChild
  <2> DEFINE x == Path[Inserting][Len(node) + 1]
  <2>1. node \in Seq(Word) /\ x \in Word
    BY <1>3, CommandsAssumption DEF GetOrCreateChild, IInv, TypeOK, Inserting
  <2>2. DOMAIN tree' = DOMAIN tree \cup {ChildOf(node, x)} /\ node' = ChildOf(node, x)
    BY <1>3 DEF GetOrCreateChild
  <2>3. WayIsInTree(node)'
    BY <1>3, <2>1, <2>2, WayToChild DEF GetOrCreateChild, SInv, WaysAreInTree, WayIsInTree
  <2>. QED
    BY <1>3, <2>2, <2>3 DEF GetOrCreateChild, SInv, WaysAreInTree, WayIsInTree, Stopped
<1>4. CASE SetCommand
  <2>1. node = Path[Inserting] /\ inserted \in Nat
    BY <1>4, AtEndNode DEF SetCommand, IInv, TypeOK
  <2>2. /\ DOMAIN tree' = DOMAIN tree /\ node' = Root /\ inserted' = inserted + 1
        /\ registry' = registry /\ phase = "insert" /\ phase' = "insert"
    BY <1>4 DEF SetCommand, AtEnd
  <2>3. WayIsInTree(node)'
    <3>1. Len(Root) = 0 /\ SubSeq(Root, 1, 0) = Root
      BY DEF Root
    <3>2. Root \in DOMAIN tree'
      BY <2>2 DEF IInv, HasRoot
    <3>3. \A n \in 0 .. Len(node') : SubSeq(node', 1, n) = Root
      BY <2>2, <3>1
    <3>. QED
      BY <3>2, <3>3 DEF WayIsInTree
  <2>4. (\A i \in 1 .. inserted : WayIsInTree(Path[registry[i]]))'
    BY <2>1, <2>2 DEF SInv, WaysAreInTree, WayIsInTree, Inserting
  <2>. QED
    BY <2>2, <2>3, <2>4 DEF SInv, WaysAreInTree, Stopped, WayIsInTree
<1>5. CASE Duplicate \/ Built
  BY <1>5 DEF Duplicate, Built, AtEnd, SInv, WaysAreInTree, WayIsInTree, Stopped
<1>6. CASE Descend \/ Found \/ Invoke \/ PrintUsage
  BY <1>6 DEF Descend, Found, Invoke, PrintUsage, HasNext, NextArg, SInv, WaysAreInTree,
              WayIsInTree, Stopped
<1>7. CASE Return
  BY <1>7 DEF Return, SInv, WaysAreInTree, Stopped
<1>8. CASE UNCHANGED vars
  BY <1>8 DEF vars, SInv, WaysAreInTree, WayIsInTree, Stopped, HasNext, NextArg
<1>. QED
  BY <1>1, <1>2, <1>3, <1>4, <1>5, <1>6, <1>7, <1>8 DEF Next

\* What a longer beginning of the arguments begins, each shorter one begins.
LEMMA ShorterBegins ==
  ASSUME NEW a \in Seq(Word), NEW p \in Seq(Word), NEW n \in 0 .. Len(a),
         IsPrefixOf(SubSeq(a, 1, n), p), NEW k \in 0 .. n
  PROVE  k \in 0 .. Len(p) /\ SubSeq(p, 1, k) = SubSeq(a, 1, k)
BY DEF IsPrefixOf

\* Where the search stops nothing longer begins the path of a command.
LEMMA SearchedLongest == IInv /\ SInv => FindsLongest
<1> SUFFICES ASSUME IInv, SInv, phase \in {"invoke", "called", "usage"}
             PROVE  FindsLongest
  BY DEF FindsLongest
<1> DEFINE Begins(n) ==
      n = 0 \/ \E i \in 1 .. Len(registry) : IsPrefixOf(SubSeq(args, 1, n), Path[registry[i]])
<1>1. /\ node \in DOMAIN tree /\ node \in Seq(Word) /\ args \in Seq(Word)
      /\ Len(node) <= Len(args) /\ node = SubSeq(args, 1, Len(node))
      /\ inserted = Len(registry)
  BY DEF IInv, TypeOK, SearchedWords, Complete
<1>2. \A i \in 1 .. Len(registry) : Path[registry[i]] \in Seq(Word)
  BY CommandsAssumption DEF IInv, TypeOK
<1>3. Begins(Len(node))
  <2>1. CASE node = Root
    BY <2>1 DEF Root
  <2>2. CASE node # Root
    <3>1. \E i \in 1 .. inserted : IsPrefixOf(node, Path[registry[i]])
      BY <2>2, <1>1 DEF IInv, Complete
    <3>. QED
      BY <3>1, <1>1
  <2>. QED
    BY <2>1, <2>2
<1>4. ASSUME NEW n \in 0 .. Len(args), Begins(n), n > Len(node)
      PROVE  FALSE
  <2>1. PICK i \in 1 .. Len(registry) : IsPrefixOf(SubSeq(args, 1, n), Path[registry[i]])
    BY <1>4, <1>1
  <2>2. Len(node) + 1 \in 0 .. n /\ Len(node) < Len(args)
    BY <1>4, <1>1
  <2>3. /\ Len(node) + 1 \in 0 .. Len(Path[registry[i]])
        /\ SubSeq(Path[registry[i]], 1, Len(node) + 1) = SubSeq(args, 1, Len(node) + 1)
    BY <2>1, <2>2, <1>1, <1>2, ShorterBegins
  <2>4. SubSeq(args, 1, Len(node) + 1) \in DOMAIN tree
    BY <2>3, <1>1 DEF SInv, WaysAreInTree, WayIsInTree
  <2>5. SubSeq(args, 1, Len(node) + 1) = NextArg
    BY <1>1, <2>2 DEF NextArg, ChildOf
  <2>. QED
    BY <2>2, <2>4, <2>5 DEF SInv, Stopped, HasNext
<1>5. phase = "called" => \E i \in 1 .. Len(registry) : Path[registry[i]] = node
  BY <1>1 DEF SInv, Stopped, IInv, TreeHoldsCommands
<1>6. phase = "usage" => ~ \E i \in 1 .. Len(registry) : Path[registry[i]] = node
  BY <1>1, CommandsAssumption DEF SInv, Stopped, IInv, TypeOK, Placed
<1>7. \A n \in 0 .. Len(args) : Begins(n) => n <= Len(node)
  BY <1>1, <1>4
<1>. QED
  BY <1>1, <1>3, <1>5, <1>6, <1>7 DEF FindsLongest

\* dispatch_command() calls the command that the longest possible beginning of
\* its arguments names, or prints the usage message if that is no command.
THEOREM FindsLongestAlways == Spec => []FindsLongest
<1>1. Init => IInv /\ SInv
  BY InitIInv, InitSInv
<1>2. (IInv /\ SInv) /\ [Next]_vars => (IInv /\ SInv)'
  BY StepIInv, StepSInv
<1>. QED
  BY <1>1, <1>2, SearchedLongest, PTL DEF Spec

----------------------------------------------------------------------------
(* parse_size(): arithmetic *)

\* A number that is not too large for the type does not wrap around.
LEMMA WrapFits ==
  ASSUME NEW m \in Nat, NEW n \in 0 .. m
  PROVE  n % (m + 1) = n
OBVIOUS

\* Multiplying by a number keeps the order.
LEMMA TimesMonotonic ==
  ASSUME NEW a \in Nat, NEW b \in Nat, NEW k \in Nat, a <= b
  PROVE  a * k <= b * k
<1>1. PICK d \in Nat : b = a + d
  BY b - a \in Nat
<1>2. b * k = a * k + d * k
  BY <1>1
<1>3. a * k \in Nat /\ d * k \in Nat
  BY <1>1
<1> QED
  BY <1>2, <1>3

\* Comparing with the quotient tells whether the product is too large, the
\* largest value itself included.
LEMMA DivCheck ==
  ASSUME NEW m \in Nat, NEW n \in Nat, NEW k \in Nat \ {0}
  PROVE  n > m \div k <=> n * k > m
<1> DEFINE q == m \div k
<1>1. q \in Nat /\ q * k <= m /\ m < (q + 1) * k
  OBVIOUS
<1> HIDE DEF q
<1>2. ASSUME n <= q PROVE n * k <= m
  BY <1>1, <1>2, TimesMonotonic, n * k \in Nat, q * k \in Nat
<1>3. ASSUME ~ n <= q PROVE n * k > m
  <2>1. (q + 1) * k <= n * k
    BY <1>1, <1>3, TimesMonotonic, q + 1 \in Nat, q + 1 <= n
  <2> QED
    BY <1>1, <2>1, n * k \in Nat, (q + 1) * k \in Nat
<1> QED
  BY <1>1, <1>2, <1>3, n * k \in Nat DEF q

\* The multipliers are numbers from 1 upwards.
LEMMA MultiplierPositive ==
  ASSUME NEW u \in Units
  PROVE  Multiplier[u] \in Nat \ {0}
<1>1. \A a, b \in Nat \ {0} : a * b \in Nat \ {0}
  OBVIOUS
<1>2. Kilo \in Nat \ {0}
  BY ParseSizeAssumption
<1>3. /\ Kilo * Kilo \in Nat \ {0}
      /\ Kilo * Kilo * Kilo \in Nat \ {0}
      /\ Kilo * Kilo * Kilo * Kilo \in Nat \ {0}
      /\ Kilo * Kilo * Kilo * Kilo * Kilo \in Nat \ {0}
  BY <1>1, <1>2
<1> QED
  BY <1>2, <1>3, Zenon DEF Multiplier, Units

\* A suffix makes no number smaller.
LEMMA ScaledNotLess ==
  ASSUME NEW n \in Nat, NEW s
  PROVE  LET k == IF s \in Units THEN Multiplier[s] ELSE 1
         IN  n * k \in Nat /\ n * k >= n
<1> DEFINE k == IF s \in Units THEN Multiplier[s] ELSE 1
<1>1. k \in Nat \ {0}
  BY MultiplierPositive
<1> HIDE DEF k
<1>2. 1 * n <= k * n
  BY <1>1, TimesMonotonic, 1 <= k
<1>3. k * n = n * k /\ n * k \in Nat
  BY <1>1
<1>4. n * k \in Nat /\ n * k >= n
  BY <1>2, <1>3
<1> QED
  BY <1>4 DEF k

----------------------------------------------------------------------------
(* parse_size(): the invariant is inductive *)

SizeTypeOK ==
  /\ max \in Limits
  /\ num \in Seq(0 .. 9)
  /\ suffix \in Endings
  /\ ret \in 0 .. max
  /\ result \in Results
  /\ exact \in Nat

\* Until parse_size() returns, the number in T is the number that was read.
SoFar == result = "none" => ret = exact

SizeIInv == SizeTypeOK /\ SoFar /\ Correct /\ NothingWraps

\* Nothing has been read at first.
LEMMA SizeInitIInv == SizeInit => SizeIInv
<1> SUFFICES ASSUME SizeInit PROVE SizeIInv
  OBVIOUS
<1>1. max \in Nat /\ num \in Seq(0 .. 9)
  BY ParseSizeAssumption DEF SizeInit
<1>2. result \in {"empty_string", "none"} /\ ret = 0 /\ exact = 0
  BY DEF SizeInit
<1>3. SizeTypeOK
  BY <1>1, <1>2 DEF SizeInit, SizeTypeOK, Results
<1>4. SoFar /\ Correct /\ NothingWraps
  BY <1>2 DEF SizeInit, SoFar, Correct, NothingWraps
<1> QED
  BY <1>3, <1>4 DEF SizeIInv

\* A digit is added exactly, or the number with it is too large for T.
LEMMA ReadDigitIInv ==
  ASSUME SizeIInv, ReadDigit
  PROVE  SizeIInv'
<1> DEFINE d == Head(num)
           ten == Wrap(ret * 10)
<1>1. /\ max \in Nat /\ max >= 9 /\ max' = max /\ max \in Limits
      /\ d \in 0 .. 9 /\ num' = Tail(num) /\ Tail(num) \in Seq(0 .. 9)
      /\ suffix \in Endings /\ suffix' = suffix
      /\ ret \in 0 .. max /\ exact = ret /\ exact' = ret * 10 + d
      /\ result = "none" /\ ~ wrapped
  BY ParseSizeAssumption, HeadTailProperties
     DEF SizeIInv, SizeTypeOK, SoFar, NothingWraps, ReadDigit
<1>2. \/ ret > max \div 10 /\ Computes({}) /\ Refuse("result_out_of_range")
      \/ /\ ret <= max \div 10 /\ max - d < ten
         /\ Computes({ret * 10}) /\ Refuse("result_out_of_range")
      \/ /\ ret <= max \div 10 /\ max - d >= ten
         /\ Computes({ret * 10, ten + d}) /\ ret' = Wrap(ten + d) /\ result' = result
  BY DEF ReadDigit
<1>3. exact' \in Nat
  BY <1>1
<1>4. ASSUME ret <= max \div 10
      PROVE  ret * 10 \in 0 .. max /\ ten = ret * 10
  <2>1. ret \in Nat /\ 10 \in Nat \ {0}
    BY <1>1
  <2>2. ret > max \div 10 <=> ret * 10 > max
    BY <1>1, <2>1, DivCheck
  <2>3. max \div 10 \in Nat /\ ret * 10 \in Nat
    BY <1>1, <2>1
  <2>4. ret * 10 \in 0 .. max
    BY <1>1, <1>4, <2>1, <2>2, <2>3
  <2> QED
    BY <1>1, <2>4, WrapFits DEF Wrap
<1> HIDE DEF d, ten
<1>5. ASSUME Refuse("result_out_of_range"), exact' > max, wrapped' = FALSE
      PROVE  SizeIInv'
  <2>1. Meant' > max
    BY <1>1, <1>3, <1>5, ScaledNotLess DEF Meant
  <2> QED
    BY <1>1, <1>3, <1>5, <2>1
       DEF SizeIInv, SizeTypeOK, SoFar, Correct, NothingWraps, Refuse, Results
<1>6. CASE ret > max \div 10 /\ Computes({}) /\ Refuse("result_out_of_range")
  <2>1. exact' > max
    BY <1>1, <1>6, DivCheck
  <2> QED
    BY <1>1, <1>5, <1>6, <2>1 DEF Computes
<1>7. CASE /\ ret <= max \div 10 /\ max - d < ten
           /\ Computes({ret * 10}) /\ Refuse("result_out_of_range")
  <2>1. exact' > max /\ ~ ret * 10 > max
    BY <1>1, <1>4, <1>7
  <2>2. wrapped' = FALSE
    BY <1>1, <1>7, <2>1, Zenon DEF Computes
  <2> QED
    BY <1>5, <1>7, <2>1, <2>2
<1>8. CASE /\ ret <= max \div 10 /\ max - d >= ten
           /\ Computes({ret * 10, ten + d}) /\ ret' = Wrap(ten + d) /\ result' = result
  <2>1. ten + d \in 0 .. max /\ ten + d = ret * 10 + d
    BY <1>1, <1>4, <1>8
  <2>2. ret' = ret * 10 + d
    BY <1>1, <1>8, <2>1, WrapFits DEF Wrap
  <2>3. ~ ret * 10 > max /\ ~ ten + d > max
    BY <1>1, <1>4, <2>1
  <2>4. wrapped' = FALSE
    BY <1>1, <1>8, <2>3, Zenon DEF Computes
  <2> QED
    BY <1>1, <1>3, <1>8, <2>1, <2>2, <2>4
       DEF SizeIInv, SizeTypeOK, SoFar, Correct, NothingWraps, Results
<1> QED
  BY <1>2, <1>6, <1>7, <1>8

\* The product is exact, or too large for T.
LEMMA ScaleIInv ==
  ASSUME SizeIInv, Scale
  PROVE  SizeIInv'
<1> DEFINE k == Multiplier[suffix]
<1>1. /\ max \in Nat /\ max' = max /\ ret \in 0 .. max /\ ret = exact /\ exact' = exact
      /\ k \in Nat \ {0}
      /\ Meant = ret * k /\ Meant' = ret * k
      /\ ~ wrapped
  BY ParseSizeAssumption, MultiplierPositive
     DEF SizeIInv, SizeTypeOK, SoFar, NothingWraps, Scale, Meant
<1>2. \/ ret > max \div k /\ Computes({}) /\ Refuse("result_out_of_range")
      \/ /\ ret <= max \div k /\ Computes({ret * k})
         /\ ret' = Wrap(ret * k) /\ result' = "value"
  BY DEF Scale
<1> HIDE DEF k
<1>3. CASE ret > max \div k /\ Computes({}) /\ Refuse("result_out_of_range")
  <2>1. Meant' > max
    BY <1>1, <1>3, DivCheck
  <2>2. wrapped' = FALSE
    BY <1>1, <1>3 DEF Computes
  <2> QED
    BY <1>1, <1>3, <2>1, <2>2
       DEF SizeIInv, SizeTypeOK, SoFar, Correct, NothingWraps, Scale, Refuse, Results
<1>4. CASE /\ ret <= max \div k /\ Computes({ret * k})
           /\ ret' = Wrap(ret * k) /\ result' = "value"
  <2>1. ret * k \in 0 .. max /\ ret' = ret * k
    BY <1>1, <1>4, DivCheck, WrapFits, ret * k \in Nat DEF Wrap
  <2>2. ~ ret * k > max
    BY <1>1, <2>1
  <2>3. wrapped' = FALSE
    BY <1>1, <1>4, <2>2, Zenon DEF Computes
  <2> QED
    BY <1>1, <1>4, <2>1, <2>3
       DEF SizeIInv, SizeTypeOK, SoFar, Correct, NothingWraps, Scale, Results
<1> QED
  BY <1>2, <1>3, <1>4

\* Without a multiplier the number is what was read.
LEMMA PlainIInv ==
  ASSUME SizeIInv, Plain
  PROVE  SizeIInv'
<1>1. exact \in Nat /\ "" \notin Units /\ exact * 1 = exact
  BY DEF SizeIInv, SizeTypeOK, Units
<1> QED
  BY <1>1 DEF SizeIInv, SizeTypeOK, SoFar, Correct, NothingWraps, Plain, Meant, Results

\* SizeIInv is inductive.
LEMMA SizeNextIInv == SizeIInv /\ [SizeNext]_sizeVars => SizeIInv'
<1> SUFFICES ASSUME SizeIInv, [SizeNext]_sizeVars PROVE SizeIInv'
  OBVIOUS
<1>1. CASE BadUnit
  BY <1>1 DEF SizeIInv, SizeTypeOK, SoFar, Correct, NothingWraps, BadUnit, Refuse, Results
<1>2. CASE UNCHANGED sizeVars
  BY <1>2 DEF SizeIInv, SizeTypeOK, SoFar, Correct, NothingWraps, Meant, sizeVars
<1> QED
  BY <1>1, <1>2, ReadDigitIInv, ScaleIInv, PlainIInv DEF SizeNext

\* The inductive invariant holds at every step of parse_size().
THEOREM SizeInvariance == SizeSpec => []SizeIInv
BY SizeInitIInv, SizeNextIInv, PTL DEF SizeSpec

----------------------------------------------------------------------------

\* No result of parse_size()'s arithmetic is ever too large for T, not even in a
\* step that ends with an error, whatever T and the string.
THEOREM NothingWrapsAlways == SizeSpec => []NothingWraps
<1>1. SizeIInv => NothingWraps
  BY DEF SizeIInv
<1> QED
  BY <1>1, SizeInvariance, PTL

\* parse_size() returns exactly the number that the string means, and refuses
\* it for its size only if it does not fit into T, whatever T and the string.
THEOREM SizeCorrectAlways == SizeSpec => []Correct
<1>1. SizeIInv => Correct
  BY DEF SizeIInv
<1> QED
  BY <1>1, SizeInvariance, PTL

----------------------------------------------------------------------------
(* Flags: what is first *)

\* Every set of numbers has a least one: the segments below numbers are finite
\* sets, and of those there is a smallest.
LEMMA LeastElement ==
  ASSUME NEW T \in SUBSET Nat, T # {}
  PROVE  \E n \in T : \A m \in T : n <= m
<1> DEFINE Segments == {0 .. n : n \in T}
           Less == StrictSubsetOrdering(Nat)
<1>1. Segments \subseteq FiniteSubsetsOf(Nat)
  <2>1. ASSUME NEW n \in T
        PROVE  0 .. n \in SUBSET Nat /\ IsFiniteSet(0 .. n)
    BY FS_Interval
  <2> QED
    BY <2>1 DEF FiniteSubsetsOf
<1>2. Segments # {}
  OBVIOUS
<1>3. PICK s \in Segments : \A r \in Segments : <<r, s>> \notin Less
  <2> HIDE DEF Segments, Less
  <2>1. IsWellFoundedOn(Less, FiniteSubsetsOf(Nat))
    BY FS_StrictSubsetOrderingWellFounded DEF Less
  <2> QED
    BY <1>1, <1>2, <2>1, WFMin
<1>4. PICK n \in T : s = 0 .. n
  BY <1>3
<1>5. ASSUME NEW m \in T, m < n
      PROVE  FALSE
  <2>1. 0 .. m \in Segments /\ 0 .. m \subseteq 0 .. n /\ n \notin 0 .. m /\ n \in 0 .. n
    BY <1>5
  <2>2. <<0 .. m, s>> \in (SUBSET Nat) \X (SUBSET Nat)
    BY <1>4
  <2>3. 0 .. m \subseteq s /\ 0 .. m # s
    BY <1>4, <2>1
  <2>4. <<0 .. m, s>> \in Less
    BY <2>2, <2>3 DEF StrictSubsetOrdering
  <2> QED
    BY <1>3, <2>1, <2>4
<1> QED
  BY <1>4, <1>5

----------------------------------------------------------------------------
(* Flags: what the operators of the reference say *)

\* In every word of flags there is a place of the flag with a value.
LEMMA ValuedAtIs ==
  ASSUME NEW w \in Seq(Char), w # <<>>
  PROVE  /\ ValuedAt(w) \in 2 .. Len(w) + 1
         /\ ValuedAt(w) <= Len(w) => IsValued(w[ValuedAt(w)])
         /\ \A i \in 2 .. ValuedAt(w) - 1 : ~ IsValued(w[i])
<1> DEFINE T == {j \in 2 .. Len(w) + 1 : j <= Len(w) => IsValued(w[j])}
<1>1. Len(w) \in Nat /\ Len(w) >= 1
  BY EmptySeq, LenProperties
<1>2. Len(w) + 1 \in T /\ T \in SUBSET Nat
  BY <1>1
<1>3. PICK j \in T : \A m \in T : j <= m
  <2> HIDE DEF T
  <2> QED
    BY <1>2, LeastElement
<1>4. ASSUME NEW i \in 2 .. j - 1
      PROVE  ~ IsValued(w[i])
  BY <1>1, <1>3, <1>4
<1> QED
  BY <1>3, <1>4 DEF ValuedAt

\* And no more than one.
LEMMA ValuedAtIsOne ==
  ASSUME NEW w \in Seq(Char), NEW j \in 2 .. Len(w) + 1,
         j <= Len(w) => IsValued(w[j]),
         \A i \in 2 .. j - 1 : ~ IsValued(w[i])
  PROVE  ValuedAt(w) = j
<1> DEFINE k == ValuedAt(w)
<1>1. Len(w) \in Nat /\ w # <<>>
  BY LenProperties, EmptySeq
<1>2. /\ k \in 2 .. Len(w) + 1
      /\ k <= Len(w) => IsValued(w[k])
      /\ \A i \in 2 .. k - 1 : ~ IsValued(w[i])
  BY <1>1, ValuedAtIs
<1> HIDE DEF k
<1>3. ~ (k < j)
  BY <1>1, <1>2
<1>4. ~ (j < k)
  BY <1>1, <1>2
<1> QED
  BY <1>1, <1>2, <1>3, <1>4 DEF k

\* Leading() gives a word.
LEMMA LeadingIs ==
  ASSUME NEW w \in Seq(Char)
  PROVE  Leading(w) \in Seq(Char)
<1> DEFINE T == {i \in 0 .. Len(w) : i < Len(w) => w[i + 1] \notin Digit}
<1>1. Len(w) \in Nat /\ T \in SUBSET Nat /\ T # {}
  <2>1. Len(w) \in Nat /\ Len(w) \in T
    BY LenProperties
  <2> QED
    BY <2>1
<1>2. PICK n \in T : \A m \in T : n <= m
  <2> HIDE DEF T
  <2> QED
    BY <1>1, LeastElement
<1>3. ASSUME NEW j \in 1 .. n
      PROVE  w[j] \in Digit
  <2>1. j - 1 \in 0 .. Len(w) /\ ~ (n <= j - 1) /\ (j - 1) + 1 = j
    BY <1>1, <1>2
  <2>2. w[(j - 1) + 1] \in Digit
    BY <1>2, <2>1
  <2> QED
    BY <2>1, <2>2
<1>4. \E i \in 0 .. Len(w) : /\ \A j \in 1 .. i : w[j] \in Digit
                             /\ i < Len(w) => w[i + 1] \notin Digit
  BY <1>2, <1>3
<1>5. PICK i \in 0 .. Len(w) : Leading(w) = SubSeq(w, 1, i)
  BY <1>4 DEF Leading
<1> QED
  BY <1>1, <1>5, SubSeqProperties

\* What a value is stored as, and what may be wrong with it.
LEMMA StoredIs ==
  ASSUME NEW type \in ValueTypes, NEW w \in Seq(Char)
  PROVE  /\ Stored(type, w) \in Seq(Char)
         /\ Stored(type, w) # None
         /\ ErrorIn(type, w) \in ValueErrors \cup {"none"}
BY LeadingIs, ParseFlagsAssumption DEF Stored, ErrorIn, ValueErrors

\* The words are sequences of characters.
LEMMA WordsAreWords ==
  ASSUME FlagsTypeOK
  PROVE  /\ argv \in Seq(Seq(Char))
         /\ Len(argv) \in Nat
         /\ DOMAIN argv = 1 .. Len(argv)
         /\ \A i \in DOMAIN argv :
              /\ argv[i] \in Seq(Char)
              /\ Len(argv[i]) \in Nat
              /\ DOMAIN argv[i] = 1 .. Len(argv[i])
BY ParseFlagsAssumption, LenProperties, ElementOfSeq DEF FlagsTypeOK

\* A word of flags has a '-' and more, and the next word to read is one of two.
LEMMA FlagWordsAre ==
  ASSUME FlagsTypeOK, NEW i \in FlagWords
  PROVE  /\ i \in DOMAIN argv
         /\ Len(argv[i]) > 1
         /\ ValuedAt(argv[i]) \in 2 .. Len(argv[i]) + 1
         /\ After(i) \in {i + 1, i + 2}
         /\ i \in Nat
<1>1. i \in DOMAIN argv /\ Len(argv[i]) > 1
  BY DEF FlagWords, LooksLikeFlags, IsFlag
<1>2. argv[i] \in Seq(Char) /\ argv[i] # <<>> /\ i \in Nat
  BY <1>1, WordsAreWords, EmptySeq
<1> QED
  BY <1>1, <1>2, ValuedAtIs DEF After

\* With a word of flags, the one that is read after it is one.
LEMMA FlagWordsClosed == Closed(FlagWords)
BY DEF FlagWords, Closed

\* And there are no others.
LEMMA FlagWordsLeast ==
  ASSUME NEW S \in SUBSET LooksLikeFlags, Closed(S)
  PROVE  FlagWords \subseteq S
BY DEF FlagWords

----------------------------------------------------------------------------
(* Flags: which words are words of flags *)

\* The words of flags before word n.
Past(n) == {i \in FlagWords : i < n}

\* Word n is read after the last of the words of flags before it, and none of
\* them has word n as its value.
WordsAt(n) ==
  /\ n = 1 \/ \E m \in Past(n) : After(m) = n /\ \A k \in Past(n) : k <= m
  /\ \A i \in Past(n) : After(i) <= n

\* From a word of flags the loop goes on to the word that is read after it: what
\* it skips is no word of flags.
LEMMA NextWord ==
  ASSUME FlagsTypeOK, NEW n \in FlagWords, WordsAt(n)
  PROVE  WordsAt(After(n)) /\ Past(After(n)) = Past(n) \cup {n}
<1> DEFINE S == FlagWords \ {i \in Nat : n < i /\ i < After(n)}
<1>1. n \in Nat /\ n < After(n) /\ After(n) \in Nat
  BY FlagWordsAre
<1>2. Closed(S)
  <2> SUFFICES ASSUME NEW i \in LooksLikeFlags, i = 1 \/ \E j \in S : After(j) = i
               PROVE  i \in S
    BY DEF Closed
  <2>1. i \in FlagWords
    BY FlagWordsClosed DEF Closed
  <2>2. i \in Nat /\ i >= 1
    BY <2>1, FlagWordsAre, WordsAreWords
  <2>3. CASE i = 1
    <3>1. n >= 1
      BY FlagWordsAre, WordsAreWords
    <3> QED
      BY <1>1, <2>1, <2>3, <3>1
  <2>4. ASSUME NEW j \in S, After(j) = i
        PROVE  i \in S
    <3>1. j \in FlagWords /\ j \in Nat /\ After(j) \in {j + 1, j + 2}
      BY FlagWordsAre
    <3>2. CASE j < n
      <4>1. After(j) <= n
        BY <3>1, <3>2 DEF WordsAt, Past
      <4> QED
        BY <1>1, <2>1, <2>2, <2>4, <4>1
    <3>3. CASE j = n
      BY <1>1, <2>1, <2>2, <2>4, <3>3
    <3>4. CASE j > n
      <4>1. j >= After(n)
        BY <1>1, <3>1, <3>4
      <4>2. i > After(n)
        BY <1>1, <2>4, <3>1, <4>1
      <4> QED
        BY <1>1, <2>1, <2>2, <4>2
    <3> QED
      BY <1>1, <3>1, <3>2, <3>3, <3>4
  <2> QED
    BY <2>3, <2>4
<1>3. FlagWords \subseteq S
  <2>1. S \in SUBSET LooksLikeFlags
    BY DEF FlagWords
  <2> HIDE DEF S
  <2> QED
    BY <1>2, <2>1, FlagWordsLeast
<1>4. Past(After(n)) = Past(n) \cup {n}
  <2>1. ASSUME NEW i \in FlagWords
        PROVE  i < After(n) <=> i < n \/ i = n
    <3>1. i \in Nat /\ i \in S
      BY <1>3, FlagWordsAre
    <3> QED
      BY <1>1, <3>1
  <2> QED
    BY <2>1 DEF Past
<1>5. \A i \in Past(After(n)) : i <= n /\ After(i) <= After(n)
  <2>1. ASSUME NEW i \in Past(n)
        PROVE  i <= n /\ After(i) <= After(n)
    <3>1. i \in FlagWords /\ i < n /\ i \in Nat /\ After(i) \in Nat /\ After(i) <= n
      BY FlagWordsAre DEF Past, WordsAt
    <3> QED
      BY <1>1, <3>1
  <2> QED
    BY <1>1, <1>4, <2>1
<1> QED
  BY <1>4, <1>5 DEF WordsAt

\* Behind the last word of flags there is none.
LEMMA AllPast ==
  ASSUME FlagsTypeOK, NEW n \in 1 .. Len(argv) + 1, WordsAt(n), n \notin LooksLikeFlags
  PROVE  Past(n) = FlagWords
<1> DEFINE S == Past(n)
<1>1. Closed(S)
  <2> SUFFICES ASSUME NEW i \in LooksLikeFlags, i = 1 \/ \E j \in S : After(j) = i
               PROVE  i \in S
    BY DEF Closed
  <2>1. i \in FlagWords
    BY FlagWordsClosed DEF Closed, Past
  <2>2. i \in Nat /\ i >= 1 /\ i # n /\ n \in Nat /\ n >= 1
    BY <2>1, FlagWordsAre, WordsAreWords
  <2>3. i <= n
    BY <2>2 DEF WordsAt
  <2> QED
    BY <2>1, <2>2, <2>3 DEF Past
<1>2. S \in SUBSET LooksLikeFlags
  BY DEF Past, FlagWords
<1>3. FlagWords \subseteq S
  <2> HIDE DEF S
  <2> QED
    BY <1>1, <1>2, FlagWordsLeast
<1> QED
  BY <1>3 DEF Past

\* And there the operands begin, or behind the '--'.
LEMMA OperandsBegin ==
  ASSUME FlagsTypeOK, NEW n \in 1 .. Len(argv) + 1, WordsAt(n), n \notin LooksLikeFlags
  PROVE  Operands = IF n <= Len(argv) /\ IsTerminator(argv[n])
                    THEN SubSeq(argv, n + 1, Len(argv))
                    ELSE SubSeq(argv, n, Len(argv))
<1> DEFINE last == CHOOSE i \in FlagWords : \A j \in FlagWords : j <= i
           rest == IF FlagWords = {} THEN 1 ELSE After(last)
<1>1. Past(n) = FlagWords
  BY AllPast
<1>2. rest = n
  <2>1. CASE FlagWords = {}
    BY <1>1, <2>1 DEF WordsAt
  <2>2. CASE FlagWords # {}
    <3>1. n # 1
      BY <1>1, <2>2, FlagWordsAre, WordsAreWords DEF Past
    <3>2. PICK m \in FlagWords : After(m) = n /\ \A k \in FlagWords : k <= m
      BY <1>1, <3>1 DEF WordsAt
    <3>3. last \in FlagWords /\ \A k \in FlagWords : k <= last
      BY <3>2
    <3> HIDE DEF last
    <3>4. last = m
      <4>1. last \in Nat /\ m \in Nat /\ last <= m /\ m <= last
        BY <3>2, <3>3, FlagWordsAre
      <4> QED
        BY <4>1
    <3> QED
      BY <2>2, <3>2, <3>4
  <2> QED
    BY <2>1, <2>2
<1>3. Operands =
        SubSeq(argv, IF rest <= Len(argv) /\ IsTerminator(argv[rest]) THEN rest + 1 ELSE rest,
               Len(argv))
  BY DEF Operands
<1> HIDE DEF rest
<1> QED
  BY <1>2, <1>3

----------------------------------------------------------------------------
(* Flags: where in the word the loop is, and what has been found *)

\* The place of the next flag in the word.
Place == Len(argv[first]) - Len(arg1) + 1

\* What arg1 is in terms of its place.
LEMMA ClusterIs ==
  ASSUME FlagsTypeOK, pc = "cluster"
  PROVE  LET w == argv[first]
         IN /\ first \in DOMAIN argv
            /\ w \in Seq(Char)
            /\ Place \in 2 .. Len(w) + 1
            /\ arg1 = SubSeq(w, Place, Len(w))
            /\ arg1 = <<>> <=> Place = Len(w) + 1
            /\ arg1 # <<>> =>
                 /\ Head(arg1) = w[Place]
                 /\ Tail(arg1) = SubSeq(w, Place + 1, Len(w))
                 /\ Len(w) - Len(Tail(arg1)) + 1 = Place + 1
                 /\ Tail(arg1) = <<>> <=> Place = Len(w)
<1> DEFINE w == argv[first]
<1>1. first \in DOMAIN argv /\ w \in Seq(Char) /\ Len(w) \in Nat
  BY WordsAreWords DEF FlagsTypeOK
<1>2. PICK n \in 2 .. Len(w) + 1 : arg1 = SubSeq(w, n, Len(w))
  BY DEF FlagsTypeOK
<1> HIDE DEF w
<1>3. /\ arg1 \in Seq(Char)
      /\ Len(arg1) = Len(w) - n + 1
      /\ \A i \in 1 .. Len(arg1) : arg1[i] = w[n + i - 1]
  BY <1>1, <1>2, SubSeqProperties
<1>4. Place = n
  <2>1. Place = Len(w) - Len(arg1) + 1
    BY DEF Place, w
  <2> QED
    BY <1>1, <1>3, <2>1
<1>5. arg1 = <<>> <=> Place = Len(w) + 1
  BY <1>1, <1>3, <1>4, EmptySeq
<1>6. ASSUME arg1 # <<>>
      PROVE  /\ Head(arg1) = w[n]
             /\ Tail(arg1) = SubSeq(w, n + 1, Len(w))
             /\ Len(w) - Len(Tail(arg1)) + 1 = n + 1
             /\ Tail(arg1) = <<>> <=> n = Len(w)
  <2>1. n <= Len(w) /\ n \in Nat
    BY <1>1, <1>4, <1>5, <1>6
  <2>2. Head(arg1) = arg1[1] /\ Tail(arg1) \in Seq(Char) /\ Len(Tail(arg1)) = Len(arg1) - 1
        /\ \A i \in 1 .. Len(Tail(arg1)) : Tail(arg1)[i] = arg1[i + 1]
    BY <1>3, <1>6, HeadTailProperties
  <2>3. Head(arg1) = w[n]
    <3>1. 1 \in 1 .. Len(arg1) /\ n + 1 - 1 = n
      BY <1>1, <1>3, <2>1
    <3> QED
      BY <1>3, <2>2, <3>1
  <2>4. /\ SubSeq(w, n + 1, Len(w)) \in Seq(Char)
        /\ Len(SubSeq(w, n + 1, Len(w))) = Len(w) - n
        /\ \A i \in 1 .. Len(w) - n : SubSeq(w, n + 1, Len(w))[i] = w[n + i]
    <3>1. n + 1 \in 1 .. Len(w) + 1 /\ Len(w) \in n .. Len(w)
      BY <1>1, <2>1
    <3>2. \A i \in 1 .. Len(w) - n : (n + 1) + i - 1 = n + i
      BY <2>1
    <3> QED
      BY <1>1, <2>1, <3>1, <3>2, SubSeqProperties
  <2>5. Len(Tail(arg1)) = Len(w) - n
    BY <1>1, <1>3, <2>1, <2>2
  <2>6. \A i \in 1 .. Len(w) - n : Tail(arg1)[i] = w[n + i]
    <3> SUFFICES ASSUME NEW i \in 1 .. Len(w) - n
                 PROVE  Tail(arg1)[i] = w[n + i]
      OBVIOUS
    <3>1. i + 1 \in 1 .. Len(arg1) /\ n + (i + 1) - 1 = n + i
      BY <1>1, <1>3, <2>1
    <3> QED
      BY <1>3, <2>2, <2>5, <3>1
  <2>7. Tail(arg1) = SubSeq(w, n + 1, Len(w))
    BY <2>2, <2>4, <2>5, <2>6, SeqEqual
  <2>8. Tail(arg1) = <<>> <=> n = Len(w)
    <3>1. Tail(arg1) = <<>> <=> Len(Tail(arg1)) = 0
      BY <2>2, EmptySeq
    <3>2. Len(w) - n = 0 <=> n = Len(w)
      BY <1>1, <2>1
    <3> QED
      BY <2>5, <3>1, <3>2
  <2>9. Len(w) - (Len(w) - n) + 1 = n + 1
    BY <1>1, <2>1
  <2> QED
    BY <2>3, <2>5, <2>7, <2>8, <2>9
<1> QED
  BY <1>1, <1>2, <1>4, <1>5, <1>6 DEF w

\* A word of flags in which nothing is wrong.
Good(i) ==
  /\ FlagsOf(i) \subseteq DOMAIN Flags
  /\ ~ Lacking(i)
  /\ \A c \in DOMAIN Flags : i \in Giving(c) => ErrorIn(Flags[c], Given(i)) = "none"

\* Some word before n has flag c.
SetBefore(c, n) == \E i \in Past(n) : c \in FlagsOf(i)

\* v is what the last of the words before n that give c a value says.
LatestBefore(c, n, v) ==
  \/ v = None /\ Giving(c) \cap Past(n) = {}
  \/ \E m \in Giving(c) \cap Past(n) :
       /\ \A k \in Giving(c) \cap Past(n) : k <= m
       /\ v = Stored(Flags[c], Given(m))

\* The next word of flags sets what it has.
LEMMA SetByNext ==
  ASSUME FlagsTypeOK, NEW n \in FlagWords, WordsAt(n), NEW c
  PROVE  SetBefore(c, After(n)) <=> SetBefore(c, n) \/ c \in FlagsOf(n)
BY NextWord DEF SetBefore

\* A word that gives c no value leaves what was said before.
LEMMA LatestIsBefore ==
  ASSUME FlagsTypeOK, NEW n \in FlagWords, WordsAt(n), NEW c, NEW v,
         n \notin Giving(c), LatestBefore(c, n, v)
  PROVE  LatestBefore(c, After(n), v)
<1>1. Giving(c) \cap Past(After(n)) = Giving(c) \cap Past(n)
  BY NextWord
<1> QED
  BY <1>1 DEF LatestBefore

\* One that does has the last word.
LEMMA LatestIsNext ==
  ASSUME FlagsTypeOK, NEW n \in FlagWords, WordsAt(n), NEW c,
         n \in Giving(c)
  PROVE  LatestBefore(c, After(n), Stored(Flags[c], Given(n)))
<1>1. n \in Giving(c) \cap Past(After(n))
  BY NextWord
<1>2. \A k \in Past(After(n)) : k <= n
  <2>1. ASSUME NEW k \in Past(n)
        PROVE  k <= n
    BY FlagWordsAre DEF Past
  <2>2. n <= n
    BY FlagWordsAre
  <2> QED
    BY <2>1, <2>2, NextWord
<1> QED
  BY <1>1, <1>2 DEF LatestBefore

\* What is said of the words does not change while they do not.
LEMMA SameWords ==
  ASSUME argv' = argv
  PROVE  /\ FlagWords' = FlagWords
         /\ \A n : Past(n)' = Past(n)
         /\ \A n : WordsAt(n)' = WordsAt(n)
         /\ \A i : Good(i)' = Good(i)
         /\ \A i : FlagsOf(i)' = FlagsOf(i)
         /\ \A c, n : SetBefore(c, n)' = SetBefore(c, n)
         /\ \A c, n, v : LatestBefore(c, n, v)' = LatestBefore(c, n, v)
         /\ Operands' = Operands
         /\ WellFormed' = WellFormed
         /\ LongFlag' = LongFlag
         /\ flag' = flag => FlagFieldsMatch' = FlagFieldsMatch
<1>1. \A i : After(i)' = After(i)
  BY DEF After, ValuedAt
<1>2. LooksLikeFlags' = LooksLikeFlags
  BY DEF LooksLikeFlags
<1>3. FlagWords' = FlagWords
  BY <1>1, <1>2 DEF FlagWords, Closed
<1>4. \A n : Past(n)' = Past(n)
  BY <1>3 DEF Past
<1>5. \A n : WordsAt(n)' = WordsAt(n)
  BY <1>1, <1>4 DEF WordsAt
<1>6. \A i : FlagsOf(i)' = FlagsOf(i)
  BY DEF FlagsOf, ValuedAt
<1>7. \A c : Giving(c)' = Giving(c)
  BY <1>3 DEF Giving, ValuedAt
<1>8. \A i : Given(i)' = Given(i)
  BY DEF Given, ValuedAt
<1>9. \A i : Good(i)' = Good(i)
  BY <1>1, <1>6, <1>7, <1>8 DEF Good, Lacking
<1>10. \A c, n : SetBefore(c, n)' = SetBefore(c, n)
  BY <1>4, <1>6 DEF SetBefore
<1>11. \A c, n, v : LatestBefore(c, n, v)' = LatestBefore(c, n, v)
  BY <1>4, <1>7, <1>8 DEF LatestBefore
<1>12. Operands' = Operands
  <2> DEFINE last == CHOOSE i \in FlagWords : \A j \in FlagWords : j <= i
             rest == IF FlagWords = {} THEN 1 ELSE After(last)
  <2>1. last' = last
    BY <1>3
  <2>2. After(last)' = After(last)
    <3> HIDE DEF last
    <3> QED
      BY <2>1 DEF After, ValuedAt
  <2>3. rest' = rest
    <3> HIDE DEF last
    <3> QED
      BY <1>3, <2>2
  <2>4. Operands =
          SubSeq(argv, IF rest <= Len(argv) /\ IsTerminator(argv[rest]) THEN rest + 1 ELSE rest,
                 Len(argv))
    BY DEF Operands
  <2>5. Operands' =
          SubSeq(argv', IF rest' <= Len(argv') /\ IsTerminator(argv'[rest'])
                        THEN rest' + 1 ELSE rest',
                 Len(argv'))
    BY DEF Operands, IsTerminator
  <2> HIDE DEF rest
  <2> QED
    BY <2>3, <2>4, <2>5
<1>13. WellFormed' = WellFormed
  BY <1>1, <1>3, <1>6, <1>7, <1>8, <1>12 DEF WellFormed, Lacking
<1>14. LongFlag' = LongFlag
  BY <1>3 DEF LongFlag
<1>15. ASSUME flag' = flag
       PROVE  FlagFieldsMatch' = FlagFieldsMatch
  BY <1>3, <1>6, <1>7, <1>8, <1>15 DEF FlagFieldsMatch
<1> QED
  BY <1>3, <1>4, <1>5, <1>6, <1>9, <1>10, <1>11, <1>12, <1>13, <1>14, <1>15

----------------------------------------------------------------------------
(* Flags: the inductive invariant *)

\* While flags are read: the words before first are dealt with, and nothing was
\* wrong with them.
ReadingInv ==
  pc \in {"flags", "cluster"} =>
    /\ WordsAt(first)
    /\ \A i \in Past(first) : Good(i)
    /\ \A c \in DOMAIN Flags : IsValued(c) => LatestBefore(c, first, flag[c])
    /\ argument = <<>>

\* Between two words a bool is set if a word before has its flag.
BetweenInv ==
  pc = "flags" =>
    \A c \in DOMAIN Flags : ~ IsValued(c) => (flag[c] = TRUE <=> SetBefore(c, first))

\* In a cluster the flags before arg1 are known, without a value, and set.
ClusterInv ==
  pc = "cluster" =>
    /\ first \in FlagWords
    /\ \A j \in 2 .. Place - 1 :
         argv[first][j] \in DOMAIN Flags /\ ~ IsValued(argv[first][j])
    /\ \A c \in DOMAIN Flags : ~ IsValued(c) =>
         (flag[c] = TRUE <=> \/ SetBefore(c, first)
                             \/ \E j \in 2 .. Place - 1 : argv[first][j] = c)

\* While arguments are read: the flags are what they should be, and so are the
\* operands before first.
ArgumentsInv ==
  pc = "arguments" /\ ~ LongFlag =>
    /\ \A i \in FlagWords : Good(i)
    /\ FlagFieldsMatch
    /\ Len(argument) < first
    /\ Operands = SubSeq(argv, first - Len(argument), Len(argv))
    /\ \A i \in DOMAIN argument :
         /\ ErrorIn(Arguments[i].type, Operands[i]) = "none"
         /\ argument[i] = Stored(Arguments[i].type, Operands[i])

FlagsIInv ==
  /\ FlagsTypeOK
  /\ ReadingInv
  /\ BetweenInv
  /\ ClusterInv
  /\ ArgumentsInv
  /\ FollowsGuidelines

\* Before the first word nothing has been read.
LEMMA FlagsInitIInv == FlagsInit => FlagsIInv
<1> SUFFICES ASSUME FlagsInit
             PROVE  FlagsIInv
  OBVIOUS
<1>1. FlagsTypeOK
  <2>1. Len(argv) \in Nat /\ 1 \in 1 .. Len(argv) + 1
    BY ParseFlagsAssumption, LenProperties DEF FlagsInit
  <2>2. argument \in Seq(Seq(Char)) /\ Len(argument) = 0 /\ Len(Arguments) \in Nat
    BY ParseFlagsAssumption, EmptySeq, LenProperties DEF FlagsInit
  <2> QED
    BY <2>1, <2>2 DEF FlagsInit, FlagsTypeOK, Errors
<1>2. Past(1) = {}
  <2>1. ASSUME NEW i \in FlagWords
        PROVE  ~ (i < 1)
    BY <1>1, FlagWordsAre, WordsAreWords
  <2> QED
    BY <2>1 DEF Past
<1>3. ReadingInv
  BY <1>2 DEF FlagsInit, ReadingInv, WordsAt, LatestBefore
<1>4. BetweenInv
  BY <1>2, ParseFlagsAssumption DEF FlagsInit, BetweenInv, SetBefore
<1> QED
  BY <1>1, <1>3, <1>4 DEF FlagsInit, FlagsIInv, ClusterInv, ArgumentsInv, FollowsGuidelines

\* posix_parse() fails, and has a reason.
LEMMA FailStep ==
  ASSUME FlagsIInv, NEW e \in Errors, e # "none", Fail(e),
         ~ LongFlag => ~ WellFormed
  PROVE  FlagsIInv'
<1> USE DEF Fail
<1>1. FlagsTypeOK'
  BY DEF FlagsIInv, FlagsTypeOK
<1>2. FollowsGuidelines'
  BY SameWords DEF FollowsGuidelines
<1> QED
  BY <1>1, <1>2 DEF FlagsIInv, ReadingInv, BetweenInv, ClusterInv, ArgumentsInv

\* The next word is one of flags.
LEMMA ClusterStep ==
  ASSUME FlagsIInv, Cluster
  PROVE  FlagsIInv'
<1> DEFINE w == argv[first]
<1>1. /\ FlagsTypeOK
      /\ first \in DOMAIN argv
      /\ w \in Seq(Char)
      /\ Len(w) \in Nat
      /\ Len(w) > 1
      /\ DOMAIN w = 1 .. Len(w)
  <2>1. FlagsTypeOK
    BY DEF FlagsIInv
  <2>2. first \in DOMAIN argv
    BY <2>1, WordsAreWords DEF FlagsTypeOK, Cluster
  <2>3. Len(w) > 1
    BY DEF Cluster, IsFlag
  <2> QED
    BY <2>1, <2>2, <2>3, WordsAreWords
<1>2. arg1' = SubSeq(w, 2, Len(w)) /\ Len(arg1') = Len(w) - 1
  <2> HIDE DEF w
  <2>1. /\ w # <<>>
        /\ Tail(w) \in Seq(Char)
        /\ Len(Tail(w)) = Len(w) - 1
        /\ \A i \in 1 .. Len(Tail(w)) : Tail(w)[i] = w[i + 1]
    BY <1>1, EmptySeq, HeadTailProperties
  <2>2. /\ SubSeq(w, 2, Len(w)) \in Seq(Char)
        /\ Len(SubSeq(w, 2, Len(w))) = Len(w) - 1
        /\ \A i \in 1 .. Len(w) - 1 : SubSeq(w, 2, Len(w))[i] = w[2 + i - 1]
    BY <1>1, SubSeqProperties
  <2>3. \A i \in 1 .. Len(w) - 1 : 2 + i - 1 = i + 1
    BY <1>1
  <2>4. Tail(w) = SubSeq(w, 2, Len(w))
    BY <2>1, <2>2, <2>3, SeqEqual
  <2>5. arg1' = Tail(w)
    BY DEF Cluster, w
  <2> QED
    BY <2>1, <2>4, <2>5
<1>3. FlagsTypeOK'
  <2>1. 2 \in 2 .. Len(w) + 1
    BY <1>1
  <2> QED
    BY <1>1, <1>2, <2>1 DEF FlagsTypeOK, Cluster, Goto
<1>4. Place' = 2
  <2>1. Place' = Len(w) - Len(arg1') + 1
    BY DEF Place, Cluster
  <2> HIDE DEF w
  <2> QED
    BY <1>1, <1>2, <2>1
<1>5. WordsAt(first)
  BY DEF FlagsIInv, ReadingInv, Cluster
<1>6. first \in FlagWords
  <2>1. first \in LooksLikeFlags
    <3>1. w[2] # "-"
      BY DEF Cluster
    <3>2. ~ IsTerminator(w)
      BY <3>1 DEF IsTerminator
    <3> QED
      BY <1>1, <3>2 DEF LooksLikeFlags, Cluster
  <2>2. first = 1 \/ \E j \in FlagWords : After(j) = first
    BY <1>5 DEF WordsAt, Past
  <2> QED
    BY <2>1, <2>2, FlagWordsClosed DEF Closed
<1>7. argv' = argv /\ first' = first /\ flag' = flag /\ pc = "flags" /\ pc' = "cluster"
      /\ argument' = argument
  BY DEF Cluster, Goto
<1>8. ReadingInv'
  BY <1>7, SameWords DEF FlagsIInv, ReadingInv
<1>9. ClusterInv'
  <2>1. 2 .. Place' - 1 = {}
    BY <1>4
  <2> QED
    BY <1>6, <1>7, <2>1, SameWords DEF FlagsIInv, BetweenInv, ClusterInv
<1> QED
  BY <1>3, <1>7, <1>8, <1>9 DEF FlagsIInv, BetweenInv, ArgumentsInv, FollowsGuidelines

\* posix_parse() goes on to the arguments.
LEMMA ToArguments ==
  ASSUME FlagsIInv, pc = "flags", pc' = "arguments",
         first <= Len(argv) =>
           \/ ~ IsFlag(argv[first]) /\ first' = first
           \/ IsFlag(argv[first]) /\ argv[first][2] = "-" /\ first' = first + 1,
         first = Len(argv) + 1 => first' = first,
         UNCHANGED <<argv, arg1, flag, argument, error>>
  PROVE  FlagsIInv'
<1>1. FlagsTypeOK /\ first \in 1 .. Len(argv) + 1 /\ Len(argv) \in Nat /\ first \in Nat
      /\ DOMAIN argv = 1 .. Len(argv)
  BY WordsAreWords DEF FlagsIInv, FlagsTypeOK
<1>2. first' \in 1 .. Len(argv) + 1
  BY <1>1
<1>3. FlagsTypeOK'
  BY <1>1, <1>2 DEF FlagsTypeOK
<1>4. WordsAt(first) /\ argument = <<>>
  BY DEF FlagsIInv, ReadingInv
<1>5. ASSUME ~ LongFlag
      PROVE  first \notin LooksLikeFlags
  <2> SUFFICES ASSUME first \in LooksLikeFlags
               PROVE  FALSE
    OBVIOUS
  <2>1. first \in DOMAIN argv /\ IsFlag(argv[first])
    BY DEF LooksLikeFlags
  <2>2. argv[first][2] = "-"
    BY <1>1, <2>1
  <2>3. first = 1 \/ \E j \in FlagWords : After(j) = first
    BY <1>4 DEF WordsAt, Past
  <2>4. first \in FlagWords
    BY <2>3, FlagWordsClosed DEF Closed
  <2> QED
    BY <1>5, <2>2, <2>4 DEF LongFlag
<1>6. ASSUME ~ LongFlag
      PROVE  Operands = SubSeq(argv, first', Len(argv))
  <2>1. ASSUME first <= Len(argv)
        PROVE  IF IsTerminator(argv[first]) THEN first' = first + 1 ELSE first' = first
    <3>1. first \in DOMAIN argv
      BY <1>1, <2>1
    <3>2. IsFlag(argv[first]) => IsTerminator(argv[first])
      BY <1>5, <1>6, <3>1 DEF LooksLikeFlags
    <3>3. IsTerminator(argv[first]) => IsFlag(argv[first])
      BY DEF IsTerminator, IsFlag
    <3> QED
      BY <2>1, <3>2, <3>3
  <2>2. ~ (first <= Len(argv)) => first' = first
    BY <1>1
  <2>3. Operands = IF first <= Len(argv) /\ IsTerminator(argv[first])
                   THEN SubSeq(argv, first + 1, Len(argv))
                   ELSE SubSeq(argv, first, Len(argv))
    BY <1>1, <1>4, <1>5, <1>6, OperandsBegin
  <2> QED
    BY <2>1, <2>2, <2>3
<1>7. ASSUME ~ LongFlag
      PROVE  (\A i \in FlagWords : Good(i)) /\ FlagFieldsMatch
  <2>1. Past(first) = FlagWords
    BY <1>1, <1>4, <1>5, <1>7, AllPast
  <2>2. \A i \in FlagWords : Good(i)
    BY <2>1 DEF FlagsIInv, ReadingInv
  <2>3. ASSUME NEW c \in DOMAIN Flags, Flags[c] = "bool"
        PROVE  flag[c] = TRUE <=> \E i \in FlagWords : c \in FlagsOf(i)
    BY <2>1, <2>3 DEF FlagsIInv, BetweenInv, IsValued, SetBefore
  <2>4. ASSUME NEW c \in DOMAIN Flags, Flags[c] # "bool"
        PROVE  flag[c] = IF Giving(c) = {} THEN None
                         ELSE Stored(Flags[c], Given(CHOOSE i \in Giving(c) :
                                                       \A j \in Giving(c) : j <= i))
    <3>1. Giving(c) \cap Past(first) = Giving(c)
      BY <2>1 DEF Giving
    <3>2. LatestBefore(c, first, flag[c])
      BY <2>4 DEF FlagsIInv, ReadingInv, IsValued
    <3>3. CASE Giving(c) = {}
      BY <3>2, <3>3 DEF LatestBefore
    <3>4. CASE Giving(c) # {}
      <4> DEFINE last == CHOOSE i \in Giving(c) : \A j \in Giving(c) : j <= i
      <4>1. PICK m \in Giving(c) : /\ \A k \in Giving(c) : k <= m
                                  /\ flag[c] = Stored(Flags[c], Given(m))
        BY <3>1, <3>2, <3>4 DEF LatestBefore
      <4>2. last \in Giving(c) /\ \A j \in Giving(c) : j <= last
        BY <4>1
      <4> HIDE DEF last
      <4>3. last = m
        <5>1. last \in Nat /\ m \in Nat /\ last <= m /\ m <= last
          BY <1>1, <4>1, <4>2, FlagWordsAre DEF Giving
        <5> QED
          BY <5>1
      <4>4. flag[c] = Stored(Flags[c], Given(last))
        BY <4>1, <4>3
      <4> QED
        BY <3>4, <4>4 DEF last
    <3> QED
      BY <3>3, <3>4
  <2> QED
    BY <2>2, <2>3, <2>4 DEF FlagFieldsMatch
<1>8. ArgumentsInv'
  <2> SUFFICES ASSUME ~ LongFlag'
               PROVE  ArgumentsInv'
    BY DEF ArgumentsInv
  <2>1. ~ LongFlag
    BY SameWords
  <2>2. \A i \in FlagWords' : Good(i)'
    BY <1>7, <2>1, SameWords
  <2>3. FlagFieldsMatch'
    BY <1>7, <2>1, SameWords
  <2>4. argument' = <<>> /\ Len(argument') = 0 /\ DOMAIN argument' = {}
    BY <1>4
  <2>5. first' - Len(argument') = first' /\ Len(argument') < first'
    <3>1. \A x \in 1 .. Len(argv) + 1 : x - 0 = x /\ 0 < x
      BY <1>1
    <3> QED
      BY <1>2, <2>4, <3>1
  <2>6. Operands' = SubSeq(argv', first' - Len(argument'), Len(argv'))
    BY <1>6, <2>1, <2>5, SameWords
  <2> QED
    BY <2>2, <2>3, <2>4, <2>5, <2>6 DEF ArgumentsInv
<1> QED
  BY <1>3, <1>8 DEF FlagsIInv, ReadingInv, BetweenInv, ClusterInv, FollowsGuidelines

\* Both ways to the arguments.
LEMMA EndOfFlagsStep ==
  ASSUME FlagsIInv, Terminator \/ EndOfFlags
  PROVE  FlagsIInv'
<1>1. first \in 1 .. Len(argv) + 1 /\ Len(argv) \in Nat
  BY WordsAreWords DEF FlagsIInv, FlagsTypeOK
<1>2. CASE Terminator
  BY <1>1, <1>2, ToArguments DEF Terminator, Goto
<1>3. CASE EndOfFlags
  BY <1>1, <1>3, ToArguments DEF EndOfFlags, Goto
<1> QED
  BY <1>2, <1>3

\* A flag that nobody knows is a flag of its word, for no flag before it has a
\* value.
LEMMA UnknownStep ==
  ASSUME FlagsIInv, Unknown
  PROVE  FlagsIInv'
<1> DEFINE w == argv[first]
<1>1. FlagsTypeOK /\ pc = "cluster" /\ arg1 # <<>> /\ first \in FlagWords
  BY DEF FlagsIInv, Unknown, ClusterInv
<1>2. /\ w \in Seq(Char)
      /\ Len(w) \in Nat
      /\ DOMAIN w = 1 .. Len(w)
      /\ Place \in 2 .. Len(w)
      /\ Head(arg1) = w[Place]
      /\ w # <<>>
  <2>1. /\ w \in Seq(Char)
        /\ Len(w) \in Nat
        /\ DOMAIN w = 1 .. Len(w)
        /\ Place \in 2 .. Len(w) + 1
        /\ Place # Len(w) + 1
        /\ Head(arg1) = w[Place]
    <3>1. /\ first \in DOMAIN argv
          /\ Place \in 2 .. Len(w) + 1
          /\ Place # Len(w) + 1
          /\ Head(arg1) = w[Place]
      BY <1>1, ClusterIs
    <3>2. w \in Seq(Char) /\ Len(w) \in Nat /\ DOMAIN w = 1 .. Len(w)
      BY <1>1, <3>1, WordsAreWords
    <3> QED
      BY <3>1, <3>2
  <2> HIDE DEF w
  <2>2. w # <<>>
    BY <2>1, EmptySeq
  <2> QED
    BY <2>1, <2>2
<1>3. ValuedAt(w) >= Place
  <2>1. /\ ValuedAt(w) \in 2 .. Len(w) + 1
        /\ ValuedAt(w) <= Len(w) => IsValued(w[ValuedAt(w)])
    BY <1>2, ValuedAtIs
  <2>2. \A j \in 2 .. Place - 1 : ~ IsValued(w[j])
    BY <1>1 DEF FlagsIInv, ClusterInv
  <2> HIDE DEF w
  <2> QED
    BY <1>2, <2>1, <2>2
<1>4. w[Place] \in FlagsOf(first)
  <2>1. ValuedAt(w) \in Nat
    BY <1>2, ValuedAtIs
  <2>2. Place \in DOMAIN w \cap 2 .. ValuedAt(w)
    BY <1>2, <1>3, <2>1
  <2> QED
    BY <2>2 DEF FlagsOf
<1>5. ~ WellFormed
  BY <1>1, <1>2, <1>4 DEF WellFormed, Unknown
<1> QED
  BY <1>5, FailStep DEF Unknown, Errors

\* A flag without a value.
LEMMA BoolFlagStep ==
  ASSUME FlagsIInv, BoolFlag
  PROVE  FlagsIInv'
<1> DEFINE w == argv[first]
           c0 == Head(arg1)
<1>1. /\ FlagsTypeOK
      /\ pc = "cluster" /\ arg1 # <<>>
      /\ c0 \in DOMAIN Flags /\ ~ IsValued(c0) /\ Flags[c0] = "bool"
      /\ first \in FlagWords
      /\ UNCHANGED <<argv, pc, first, argument, error>>
      /\ arg1' = Tail(arg1)
      /\ flag' = [flag EXCEPT ![c0] = TRUE]
  BY DEF FlagsIInv, BoolFlag, Known, ClusterInv, IsValued
<1>2. /\ first \in DOMAIN argv
      /\ Place \in 2 .. Len(w) + 1
      /\ Place # Len(w) + 1
      /\ c0 = w[Place]
      /\ arg1' = SubSeq(w, Place + 1, Len(w))
      /\ Len(w) - Len(arg1') + 1 = Place + 1
  <2>1. /\ first \in DOMAIN argv
        /\ Place \in 2 .. Len(w) + 1
        /\ Place # Len(w) + 1
        /\ c0 = w[Place]
    BY <1>1, ClusterIs
  <2>2. /\ Tail(arg1) = SubSeq(w, Place + 1, Len(w))
        /\ Len(w) - Len(Tail(arg1)) + 1 = Place + 1
    BY <1>1, ClusterIs
  <2> QED
    BY <1>1, <2>1, <2>2
<1>3. Len(w) \in Nat
  BY <1>1, <1>2, WordsAreWords
<1>4. Place + 1 \in 2 .. Len(w) + 1
  BY <1>2, <1>3
<1>5. Place' = Place + 1
  BY <1>1, <1>2 DEF Place
<1>6. DOMAIN flag' = DOMAIN Flags /\ flag'[c0] = TRUE
      /\ \A c \in DOMAIN Flags : c # c0 => flag'[c] = flag[c]
  BY <1>1 DEF FlagsTypeOK
<1>7. FlagsTypeOK'
  <2>1. first' \in DOMAIN argv' /\ arg1' = SubSeq(argv'[first'], Place + 1, Len(argv'[first']))
    BY <1>1, <1>2
  <2>2. Place + 1 \in 2 .. Len(argv'[first']) + 1
    BY <1>1, <1>4
  <2>3. \A c \in DOMAIN flag' :
          flag'[c] # None => IF Flags[c] = "bool" THEN flag'[c] = TRUE ELSE flag'[c] \in Seq(Char)
    BY <1>1, <1>6 DEF FlagsTypeOK
  <2> QED
    BY <1>1, <1>6, <2>1, <2>2, <2>3 DEF FlagsTypeOK
<1>8. ReadingInv'
  <2>1. ASSUME NEW c \in DOMAIN Flags, IsValued(c)
        PROVE  LatestBefore(c, first, flag'[c])
    <3>1. c # c0
      BY <1>1, <2>1
    <3>2. flag'[c] = flag[c]
      BY <1>6, <3>1
    <3> QED
      BY <1>1, <2>1, <3>2 DEF FlagsIInv, ReadingInv
  <2>2. /\ WordsAt(first)
        /\ \A i \in Past(first) : Good(i)
        /\ argument = <<>>
    BY <1>1 DEF FlagsIInv, ReadingInv
  <2>3. argv' = argv /\ first' = first /\ argument' = argument
    BY <1>1
  <2> QED
    BY <2>1, <2>2, <2>3, SameWords DEF ReadingInv
<1>9. ClusterInv'
  <2>1. 2 .. Place' - 1 = (2 .. Place - 1) \cup {Place}
    BY <1>2, <1>3, <1>5
  <2>2. \A j \in 2 .. Place' - 1 : w[j] \in DOMAIN Flags /\ ~ IsValued(w[j])
    BY <1>1, <1>2, <2>1 DEF FlagsIInv, ClusterInv
  <2>3. ASSUME NEW c \in DOMAIN Flags, ~ IsValued(c)
        PROVE  flag'[c] = TRUE <=> \/ SetBefore(c, first)
                                   \/ \E j \in 2 .. Place' - 1 : w[j] = c
    <3>1. CASE c = c0
      BY <1>2, <1>6, <2>1, <3>1
    <3>2. CASE c # c0
      <4>1. flag[c] = TRUE <=> \/ SetBefore(c, first)
                               \/ \E j \in 2 .. Place - 1 : w[j] = c
        BY <1>1, <2>3 DEF FlagsIInv, ClusterInv
      <4>2. (\E j \in 2 .. Place' - 1 : w[j] = c) <=> \E j \in 2 .. Place - 1 : w[j] = c
        BY <1>2, <2>1, <3>2
      <4> QED
        BY <1>6, <3>2, <4>1, <4>2
    <3> QED
      BY <3>1, <3>2
  <2> QED
    BY <1>1, <2>2, <2>3, SameWords DEF ClusterInv
<1> QED
  BY <1>1, <1>7, <1>8, <1>9 DEF FlagsIInv, BetweenInv, ArgumentsInv, FollowsGuidelines

\* The word that a flag with a value ends.
LEMMA ValuedHere ==
  ASSUME FlagsIInv, Known, IsValued(Head(arg1))
  PROVE  /\ FlagsTypeOK
         /\ first \in FlagWords
         /\ WordsAt(first)
         /\ argv[first] \in Seq(Char)
         /\ ValuedAt(argv[first]) = Place
         /\ Place \in DOMAIN argv[first]
         /\ argv[first][Place] = Head(arg1)
         /\ FlagsOf(first) \subseteq DOMAIN Flags
         /\ \A c : first \in Giving(c) <=> c = Head(arg1)
         /\ \A c \in DOMAIN Flags : ~ IsValued(c) =>
              (c \in FlagsOf(first) <=> \E j \in 2 .. Place - 1 : argv[first][j] = c)
<1> DEFINE w == argv[first]
           c0 == Head(arg1)
<1>1. /\ FlagsTypeOK
      /\ pc = "cluster" /\ arg1 # <<>>
      /\ IsValued(c0) /\ c0 \in DOMAIN Flags
      /\ first \in FlagWords
      /\ WordsAt(first)
  BY DEF FlagsIInv, Known, ClusterInv, ReadingInv
<1>2. /\ first \in DOMAIN argv
      /\ Place \in 2 .. Len(w) + 1
      /\ Place # Len(w) + 1
      /\ c0 = w[Place]
  BY <1>1, ClusterIs
<1>3. w \in Seq(Char) /\ Len(w) \in Nat /\ DOMAIN w = 1 .. Len(w)
  BY <1>1, <1>2, WordsAreWords
<1>4. \A j \in 2 .. Place - 1 : w[j] \in DOMAIN Flags /\ ~ IsValued(w[j])
  BY <1>1 DEF FlagsIInv, ClusterInv
<1>5. ValuedAt(w) = Place
  <2> HIDE DEF w, c0
  <2> QED
    BY <1>1, <1>2, <1>3, <1>4, ValuedAtIsOne
<1>6. Place \in DOMAIN w /\ DOMAIN w \cap 2 .. ValuedAt(w) = (2 .. Place - 1) \cup {Place}
  <2>1. Place \in Nat /\ 2 <= Place /\ Place <= Len(w)
    BY <1>2, <1>3
  <2>2. (1 .. Len(w)) \cap 2 .. Place = (2 .. Place - 1) \cup {Place}
    BY <1>3, <2>1
  <2>3. Place \in 1 .. Len(w)
    BY <1>3, <2>1
  <2> HIDE DEF w
  <2> QED
    BY <1>3, <1>5, <2>2, <2>3
<1>7. FlagsOf(first) = {w[j] : j \in (2 .. Place - 1) \cup {Place}}
  BY <1>6 DEF FlagsOf
<1>8. FlagsOf(first) \subseteq DOMAIN Flags
  BY <1>1, <1>2, <1>4, <1>7
<1>9. \A c : first \in Giving(c) <=> c = c0
  BY <1>1, <1>2, <1>5, <1>6 DEF Giving
<1>10. ASSUME NEW c \in DOMAIN Flags, ~ IsValued(c)
       PROVE  c \in FlagsOf(first) <=> \E j \in 2 .. Place - 1 : w[j] = c
  BY <1>1, <1>2, <1>7, <1>10
<1> QED
  BY <1>1, <1>2, <1>3, <1>5, <1>6, <1>8, <1>9, <1>10

\* A flag has the value v, and word n is read next.
LEMMA StoreStep ==
  ASSUME FlagsIInv, Known, IsValued(Head(arg1)),
         NEW i \in Nat, NEW v \in Seq(Char), Store(i, v),
         Given(first) = v, After(first) = i + 1, i + 1 <= Len(argv) + 1
  PROVE  FlagsIInv'
<1> DEFINE c0 == Head(arg1)
           type == Flags[c0]
<1>1. type \in ValueTypes /\ c0 \in DOMAIN Flags /\ pc = "cluster"
  BY ParseFlagsAssumption DEF IsValued, Known
<1>2. /\ Stored(type, v) \in Seq(Char)
      /\ Stored(type, v) # None
      /\ ErrorIn(type, v) \in ValueErrors \cup {"none"}
  BY <1>1, StoredIs
<1>3. CASE ErrorIn(type, v) # "none"
  <2>1. Fail(ErrorIn(type, v))
    BY <1>3 DEF Store
  <2>2. first \in Giving(c0)
    BY ValuedHere
  <2>3. ~ WellFormed
    BY <1>1, <1>3, <2>2 DEF WellFormed
  <2>4. ErrorIn(type, v) \in Errors
    BY <1>2 DEF Errors
  <2> HIDE DEF type
  <2> QED
    BY <1>3, <2>1, <2>3, <2>4, FailStep
<1>4. CASE ErrorIn(type, v) = "none"
  <2>1. /\ flag' = [flag EXCEPT ![c0] = Stored(type, v)]
        /\ first' = i + 1
        /\ arg1' = <<>>
        /\ pc' = "flags"
        /\ UNCHANGED <<argv, argument, error>>
    BY <1>4 DEF Store, Goto
  <2>2. /\ FlagsTypeOK
        /\ first \in FlagWords
        /\ WordsAt(first)
        /\ FlagsOf(first) \subseteq DOMAIN Flags
        /\ \A c : first \in Giving(c) <=> c = c0
        /\ \A c \in DOMAIN Flags : ~ IsValued(c) =>
             (c \in FlagsOf(first) <=> \E j \in 2 .. Place - 1 : argv[first][j] = c)
    BY ValuedHere
  <2>3. WordsAt(i + 1) /\ Past(i + 1) = Past(first) \cup {first}
    BY <2>2, NextWord
  <2>4. /\ DOMAIN flag' = DOMAIN Flags
        /\ flag'[c0] = Stored(type, v)
        /\ \A c \in DOMAIN Flags : c # c0 => flag'[c] = flag[c]
    BY <1>1, <2>1, <2>2 DEF FlagsTypeOK
  <2>5. FlagsTypeOK'
    <3>1. first' \in 1 .. Len(argv') + 1
      BY <2>1, <2>2, WordsAreWords
    <3>2. \A c \in DOMAIN flag' :
            flag'[c] # None => IF Flags[c] = "bool" THEN flag'[c] = TRUE ELSE flag'[c] \in Seq(Char)
      BY <1>1, <1>2, <2>2, <2>4 DEF FlagsTypeOK, IsValued
    <3>3. pc' \in {"flags", "cluster", "arguments", "done"} /\ pc' # "cluster" /\ error' = "none"
      BY <1>1, <2>1, <2>2 DEF FlagsTypeOK
    <3> QED
      BY <2>1, <2>2, <2>4, <3>1, <3>2, <3>3 DEF FlagsTypeOK
  <2>6. Good(first)
    <3>1. ~ Lacking(first)
      <4>1. Len(argv) \in Nat
        BY <2>2, WordsAreWords
      <4>2. ~ (i + 1 > Len(argv) + 1)
        BY <4>1
      <4> QED
        BY <4>2 DEF Lacking
    <3> QED
      BY <1>4, <2>2, <3>1 DEF Good
  <2>7. \A k \in Past(i + 1) : Good(k)
    BY <1>1, <2>3, <2>6 DEF FlagsIInv, ReadingInv
  <2>8. ASSUME NEW c \in DOMAIN Flags, IsValued(c)
        PROVE  LatestBefore(c, i + 1, flag'[c])
    <3>1. CASE c = c0
      <4>1. LatestBefore(c0, After(first), Stored(Flags[c0], Given(first)))
        BY <2>2, LatestIsNext
      <4> QED
        BY <2>4, <3>1, <4>1
    <3>2. CASE c # c0
      <4>1. LatestBefore(c, first, flag[c])
        BY <1>1, <2>8 DEF FlagsIInv, ReadingInv
      <4>2. first \notin Giving(c)
        BY <2>2, <3>2
      <4>3. LatestBefore(c, After(first), flag[c])
        BY <2>2, <4>1, <4>2, LatestIsBefore
      <4> QED
        BY <2>4, <3>2, <4>3
    <3> QED
      BY <3>1, <3>2
  <2>9. ASSUME NEW c \in DOMAIN Flags, ~ IsValued(c)
        PROVE  flag'[c] = TRUE <=> SetBefore(c, i + 1)
    <3>1. c # c0
      BY <2>9
    <3>2. flag[c] = TRUE <=> \/ SetBefore(c, first)
                             \/ \E j \in 2 .. Place - 1 : argv[first][j] = c
      BY <1>1, <2>9 DEF FlagsIInv, ClusterInv
    <3>3. SetBefore(c, i + 1) <=> SetBefore(c, first) \/ c \in FlagsOf(first)
      BY <2>2, SetByNext
    <3> QED
      BY <2>2, <2>4, <2>9, <3>1, <3>2, <3>3
  <2>10. argument = <<>>
    BY <1>1 DEF FlagsIInv, ReadingInv
  <2> HIDE DEF type, c0
  <2>11. ReadingInv'
    BY <2>1, <2>3, <2>7, <2>8, <2>10, SameWords DEF ReadingInv
  <2>12. BetweenInv'
    BY <2>1, <2>9, SameWords DEF BetweenInv
  <2> QED
    BY <2>1, <2>5, <2>11, <2>12 DEF FlagsIInv, ClusterInv, ArgumentsInv, FollowsGuidelines
<1> QED
  BY <1>3, <1>4

\* The value is behind the flag or in the next word, as the reference has it.
LEMMA ValueStep ==
  ASSUME FlagsIInv, ValueHere \/ ValueNext
  PROVE  FlagsIInv'
<1> DEFINE w == argv[first]
<1>1. Known /\ IsValued(Head(arg1)) /\ pc = "cluster" /\ arg1 # <<>>
  BY DEF ValueHere, ValueNext, Known
<1>2. /\ FlagsTypeOK
      /\ first \in FlagWords
      /\ w \in Seq(Char)
      /\ ValuedAt(w) = Place
      /\ Place \in DOMAIN w
  BY <1>1, ValuedHere
<1>3. first \in DOMAIN argv /\ first \in Nat /\ first <= Len(argv) /\ Len(argv) \in Nat
      /\ Len(w) \in Nat /\ DOMAIN w = 1 .. Len(w)
  BY <1>2, FlagWordsAre, WordsAreWords
<1>4. /\ Tail(arg1) = SubSeq(w, Place + 1, Len(w))
      /\ Tail(arg1) = <<>> <=> Place = Len(w)
      /\ arg1 = SubSeq(w, Place, Len(w))
  <2>1. Tail(arg1) = SubSeq(w, Place + 1, Len(w)) /\ arg1 = SubSeq(w, Place, Len(w))
    BY <1>1, <1>2, ClusterIs
  <2>2. Tail(arg1) = <<>> <=> Place = Len(w)
    BY <1>1, <1>2, ClusterIs
  <2> QED
    BY <2>1, <2>2
<1>5. Tail(arg1) \in Seq(Char)
  <2>1. arg1 \in Seq(Char)
    <3>1. Place \in 1 .. Len(w) + 1 /\ Len(w) \in Place - 1 .. Len(w)
      BY <1>2, <1>3
    <3> HIDE DEF w
    <3> QED
      BY <1>2, <1>4, <3>1, SubSeqProperties
  <2> QED
    BY <1>1, <2>1, HeadTailProperties
<1>6. CASE ValueHere
  <2>1. Place # Len(w) /\ Place < Len(w)
    BY <1>2, <1>3, <1>4, <1>6 DEF ValueHere
  <2>2. Given(first) = Tail(arg1)
    BY <1>2, <1>4, <2>1 DEF Given
  <2>3. After(first) = first + 1
    BY <1>2, <2>1 DEF After
  <2>4. Store(first, Tail(arg1))
    BY <1>6 DEF ValueHere
  <2>5. first + 1 <= Len(argv) + 1
    BY <1>3
  <2> QED
    BY <1>1, <1>3, <1>5, <2>2, <2>3, <2>4, <2>5, StoreStep
<1>7. CASE ValueNext
  <2>1. Place = Len(w)
    BY <1>4, <1>7 DEF ValueNext
  <2>2. After(first) = first + 2
    BY <1>2, <2>1 DEF After
  <2>3. Given(first) = argv[first + 1]
    <3>1. ~ (Place < Len(w))
      BY <1>3, <2>1
    <3> QED
      BY <1>2, <3>1 DEF Given
  <2>4. CASE first = Len(argv)
    <3>1. Fail("argument required")
      BY <1>7, <2>4 DEF ValueNext
    <3>2. After(first) > Len(argv) + 1
      BY <1>3, <2>2, <2>4
    <3>3. ~ WellFormed
      BY <1>2, <3>2 DEF WellFormed, Lacking
    <3> QED
      BY <3>1, <3>3, FailStep DEF Errors
  <2>5. CASE first # Len(argv)
    <3>1. Store(first + 1, argv[first + 1])
      BY <1>7, <2>5 DEF ValueNext
    <3>2. first + 1 \in DOMAIN argv /\ first + 1 \in Nat /\ (first + 1) + 1 = first + 2
          /\ (first + 1) + 1 <= Len(argv) + 1
      BY <1>2, <1>3, <2>5, WordsAreWords
    <3>3. argv[first + 1] \in Seq(Char)
      BY <1>2, <3>2, WordsAreWords
    <3> QED
      BY <1>1, <2>2, <2>3, <3>1, <3>2, <3>3, StoreStep
  <2> QED
    BY <2>4, <2>5
<1> QED
  BY <1>6, <1>7

\* The word had only flags without values.
LEMMA EndOfClusterStep ==
  ASSUME FlagsIInv, EndOfCluster
  PROVE  FlagsIInv'
<1> DEFINE w == argv[first]
<1>1. /\ FlagsTypeOK
      /\ pc = "cluster" /\ arg1 = <<>>
      /\ first \in FlagWords
      /\ WordsAt(first)
      /\ argument = <<>>
      /\ UNCHANGED <<argv, arg1, flag, argument, error>>
      /\ first' = first + 1
      /\ pc' = "flags"
  BY DEF FlagsIInv, EndOfCluster, ClusterInv, ReadingInv, Goto
<1>2. /\ first \in DOMAIN argv
      /\ w \in Seq(Char)
      /\ Place = Len(w) + 1
      /\ Place \in 2 .. Len(w) + 1
  BY <1>1, ClusterIs
<1>3. /\ first \in Nat /\ Len(argv) \in Nat /\ DOMAIN argv = 1 .. Len(argv)
      /\ Len(w) \in Nat /\ DOMAIN w = 1 .. Len(w)
  BY <1>1, <1>2, FlagWordsAre, WordsAreWords
<1>4. \A j \in 2 .. Place - 1 : w[j] \in DOMAIN Flags /\ ~ IsValued(w[j])
  BY <1>1 DEF FlagsIInv, ClusterInv
<1>5. ValuedAt(w) = Len(w) + 1
  <2> HIDE DEF w
  <2>1. ~ (Place <= Len(w)) /\ Place \in 2 .. Len(w) + 1
    BY <1>2, <1>3
  <2>2. ValuedAt(w) = Place
    BY <1>2, <1>4, <2>1, ValuedAtIsOne
  <2> QED
    BY <1>2, <2>2
<1>6. After(first) = first + 1
  <2>1. ValuedAt(w) # Len(w)
    BY <1>3, <1>5
  <2> QED
    BY <2>1 DEF After
<1>7. DOMAIN w \cap 2 .. ValuedAt(w) = 2 .. Place - 1
  <2>1. (1 .. Len(w)) \cap 2 .. Len(w) + 1 = 2 .. Len(w)
    BY <1>3
  <2>2. Place - 1 = Len(w)
    BY <1>2, <1>3
  <2> HIDE DEF w
  <2> QED
    BY <1>3, <1>5, <2>1, <2>2
<1>8. FlagsOf(first) = {w[j] : j \in 2 .. Place - 1}
  BY <1>7 DEF FlagsOf
<1>9. \A c : first \notin Giving(c)
  <2>1. ValuedAt(w) \notin DOMAIN w
    <3> HIDE DEF w
    <3> QED
      BY <1>3, <1>5
  <2> QED
    BY <2>1 DEF Giving
<1>10. Good(first)
  <2>1. ~ Lacking(first)
    <3>1. ~ (first + 1 > Len(argv) + 1)
      BY <1>2, <1>3
    <3> QED
      BY <1>6, <3>1 DEF Lacking
  <2> QED
    BY <1>4, <1>8, <1>9, <2>1 DEF Good
<1>11. WordsAt(first + 1) /\ Past(first + 1) = Past(first) \cup {first}
  BY <1>1, <1>6, NextWord
<1>12. FlagsTypeOK'
  <2>1. first + 1 \in 1 .. Len(argv) + 1
    BY <1>2, <1>3
  <2> QED
    BY <1>1, <2>1 DEF FlagsTypeOK
<1>13. ReadingInv'
  <2>1. \A k \in Past(first + 1) : Good(k)
    BY <1>1, <1>10, <1>11 DEF FlagsIInv, ReadingInv
  <2>2. ASSUME NEW c \in DOMAIN Flags, IsValued(c)
        PROVE  LatestBefore(c, first + 1, flag[c])
    <3>1. LatestBefore(c, first, flag[c])
      BY <1>1, <2>2 DEF FlagsIInv, ReadingInv
    <3>2. LatestBefore(c, After(first), flag[c])
      BY <1>1, <1>9, <3>1, LatestIsBefore
    <3> QED
      BY <1>6, <3>2
  <2> QED
    BY <1>1, <1>11, <2>1, <2>2, SameWords DEF ReadingInv
<1>14. BetweenInv'
  <2>1. ASSUME NEW c \in DOMAIN Flags, ~ IsValued(c)
        PROVE  flag[c] = TRUE <=> SetBefore(c, first + 1)
    <3>1. flag[c] = TRUE <=> \/ SetBefore(c, first)
                             \/ \E j \in 2 .. Place - 1 : w[j] = c
      BY <1>1, <2>1 DEF FlagsIInv, ClusterInv
    <3>2. SetBefore(c, After(first)) <=> SetBefore(c, first) \/ c \in FlagsOf(first)
      BY <1>1, SetByNext
    <3>3. c \in FlagsOf(first) <=> \E j \in 2 .. Place - 1 : w[j] = c
      BY <1>8
    <3> QED
      BY <1>6, <3>1, <3>2, <3>3
  <2> QED
    BY <1>1, <2>1, SameWords DEF BetweenInv
<1> QED
  BY <1>1, <1>12, <1>13, <1>14 DEF FlagsIInv, ClusterInv, ArgumentsInv, FollowsGuidelines

\* The operands that have been read, and the one that is next.
LEMMA OperandsAre ==
  ASSUME FlagsIInv, pc = "arguments", ~ LongFlag
  PROVE  /\ Operands \in Seq(Seq(Char))
         /\ Len(Operands) = Len(argument) + (Len(argv) + 1 - first)
         /\ first <= Len(argv) =>
              /\ Len(argument) + 1 \in 1 .. Len(Operands)
              /\ Operands[Len(argument) + 1] = argv[first]
         /\ Len(argument) \in Nat /\ Len(Operands) \in Nat
         /\ Len(argument) <= Len(Operands)
<1> DEFINE n == first - Len(argument)
<1>1. /\ FlagsTypeOK
      /\ argv \in Seq(Seq(Char)) /\ Len(argv) \in Nat
      /\ argument \in Seq(Seq(Char)) /\ Len(argument) \in Nat
      /\ first \in 1 .. Len(argv) + 1
      /\ Len(argument) < first
      /\ Operands = SubSeq(argv, n, Len(argv))
  BY WordsAreWords, LenProperties DEF FlagsIInv, FlagsTypeOK, ArgumentsInv
<1>2. n \in 1 .. Len(argv) + 1 /\ Len(argv) \in n - 1 .. Len(argv)
  BY <1>1
<1>3. n + (Len(argument) + 1) - 1 = first
      /\ Len(argv) - n + 1 = Len(argument) + (Len(argv) + 1 - first)
  BY <1>1
<1> HIDE DEF n
<1>4. /\ Operands \in Seq(Seq(Char))
      /\ Len(Operands) = Len(argv) - n + 1
      /\ \A i \in 1 .. Len(argv) - n + 1 : Operands[i] = argv[n + i - 1]
  BY <1>1, <1>2, SubSeqProperties
<1>5. ASSUME first <= Len(argv)
      PROVE  Len(argument) + 1 \in 1 .. Len(argv) - n + 1
  BY <1>1, <1>3, <1>5
<1>6. Len(argv) - n + 1 \in Nat /\ Len(argument) <= Len(argv) - n + 1
  BY <1>1, <1>3
<1> QED
  BY <1>1, <1>3, <1>4, <1>5, <1>6

\* The next operand is the value of the next argument, or one too many.
LEMMA ArgumentStep ==
  ASSUME FlagsIInv, Argument
  PROVE  FlagsIInv'
<1> DEFINE k == Len(argument) + 1
           type == Arguments[k].type
           v == argv[first]
<1>1. /\ FlagsTypeOK /\ pc = "arguments" /\ first <= Len(argv)
      /\ argument \in Seq(Seq(Char)) /\ Len(argument) \in Nat
      /\ Len(argument) <= Len(Arguments)
      /\ Len(argv) \in Nat /\ first \in 1 .. Len(argv)
      /\ v \in Seq(Char)
  <2>1. FlagsTypeOK /\ pc = "arguments" /\ first <= Len(argv)
    BY DEF FlagsIInv, Argument
  <2>2. /\ argument \in Seq(Seq(Char)) /\ Len(argument) \in Nat
        /\ Len(argument) <= Len(Arguments)
        /\ first \in 1 .. Len(argv) + 1
    BY <2>1, LenProperties DEF FlagsTypeOK
  <2>3. Len(argv) \in Nat /\ DOMAIN argv = 1 .. Len(argv)
    BY <2>1, WordsAreWords
  <2>4. first \in 1 .. Len(argv)
    BY <2>1, <2>2, <2>3
  <2>5. v \in Seq(Char)
    BY <2>1, <2>3, <2>4, WordsAreWords
  <2> QED
    BY <2>1, <2>2, <2>3, <2>4, <2>5
<1>2. Arguments \in Seq([type : ValueTypes, required : BOOLEAN]) /\ Len(Arguments) \in Nat
      /\ DOMAIN Arguments = 1 .. Len(Arguments)
  BY ParseFlagsAssumption, LenProperties
<1>3. ASSUME ~ LongFlag
      PROVE  /\ Len(Operands) \in Nat
             /\ k \in 1 .. Len(Operands)
             /\ Operands[k] = v
             /\ DOMAIN Operands = 1 .. Len(Operands)
  BY <1>1, <1>3, OperandsAre, LenProperties
<1>4. CASE Len(argument) = Len(Arguments)
  <2>1. Fail("too many arguments")
    BY <1>4 DEF Argument
  <2>2. ASSUME ~ LongFlag
        PROVE  ~ (Len(Operands) <= Len(Arguments))
    <3>1. Len(Operands) \in Nat /\ k \in 1 .. Len(Operands)
      BY <1>3, <2>2
    <3> QED
      BY <1>2, <1>4, <3>1
  <2>3. ~ LongFlag => ~ WellFormed
    BY <2>2 DEF WellFormed
  <2> QED
    BY <2>1, <2>3, FailStep DEF Errors
<1>5. CASE Len(argument) # Len(Arguments)
  <2>1. k \in 1 .. Len(Arguments)
    BY <1>1, <1>2, <1>5
  <2>2. type \in ValueTypes
    <3> HIDE DEF k
    <3>1. Arguments[k] \in [type : ValueTypes, required : BOOLEAN]
      BY <1>2, <2>1, ElementOfSeq
    <3> QED
      BY <3>1
  <2>3. /\ Stored(type, v) \in Seq(Char)
        /\ ErrorIn(type, v) \in ValueErrors \cup {"none"}
    BY <1>1, <2>2, StoredIs
  <2>4. CASE ErrorIn(type, v) # "none"
    <3>1. Fail(ErrorIn(type, v))
      BY <1>5, <2>4 DEF Argument
    <3>2. ASSUME ~ LongFlag
          PROVE  ~ WellFormed
      <4>1. k \in DOMAIN Operands /\ Operands[k] = v
        BY <1>3, <3>2
      <4> HIDE DEF k
      <4> QED
        BY <2>4, <4>1 DEF WellFormed
    <3>3. ErrorIn(type, v) \in Errors
      BY <2>3 DEF Errors
    <3> HIDE DEF type, v
    <3> QED
      BY <2>4, <3>1, <3>2, <3>3, FailStep
  <2>5. CASE ErrorIn(type, v) = "none"
    <3>1. /\ argument' = Append(argument, Stored(type, v))
          /\ first' = first + 1
          /\ UNCHANGED <<argv, pc, arg1, flag, error>>
      BY <1>5, <2>5 DEF Argument
    <3>2. /\ argument' \in Seq(Seq(Char))
          /\ Len(argument') = k
          /\ DOMAIN argument' = 1 .. k
          /\ \A i \in 1 .. Len(argument) : argument'[i] = argument[i]
          /\ argument'[k] = Stored(type, v)
      <4> HIDE DEF type, v
      <4>1. /\ Append(argument, Stored(type, v)) \in Seq(Seq(Char))
            /\ Len(Append(argument, Stored(type, v))) = Len(argument) + 1
            /\ \A i \in 1 .. Len(argument) : Append(argument, Stored(type, v))[i] = argument[i]
            /\ Append(argument, Stored(type, v))[Len(argument) + 1] = Stored(type, v)
        BY <1>1, <2>3, AppendProperties
      <4> QED
        BY <3>1, <4>1, LenProperties
    <3>3. FlagsTypeOK'
      <4>1. first' \in 1 .. Len(argv') + 1 /\ Len(argument') <= Len(Arguments)
        BY <1>1, <2>1, <3>1, <3>2
      <4> QED
        BY <1>1, <3>1, <3>2, <4>1 DEF FlagsTypeOK
    <3>4. ASSUME ~ LongFlag
          PROVE  /\ Len(argument') < first'
                 /\ first' - Len(argument') = first - Len(argument)
                 /\ \A i \in DOMAIN argument' :
                      /\ ErrorIn(Arguments[i].type, Operands[i]) = "none"
                      /\ argument'[i] = Stored(Arguments[i].type, Operands[i])
      <4>1. Len(argument) < first
        BY <1>1, <3>4 DEF FlagsIInv, ArgumentsInv
      <4>2. Len(argument) + 1 < first + 1 /\ (first + 1) - (Len(argument) + 1) = first - Len(argument)
        BY <1>1, <4>1
      <4>3. ASSUME NEW i \in 1 .. Len(argument)
            PROVE  /\ ErrorIn(Arguments[i].type, Operands[i]) = "none"
                   /\ argument'[i] = Stored(Arguments[i].type, Operands[i])
        <5>1. i \in DOMAIN argument
          BY <1>1, LenProperties
        <5> QED
          BY <1>1, <3>2, <3>4, <5>1 DEF FlagsIInv, ArgumentsInv
      <4>4. /\ ErrorIn(Arguments[k].type, Operands[k]) = "none"
            /\ argument'[k] = Stored(Arguments[k].type, Operands[k])
        <5>1. Operands[k] = v
          BY <1>3, <3>4
        <5> QED
          BY <2>5, <3>2, <5>1
      <4>5. 1 .. k = (1 .. Len(argument)) \cup {k}
        BY <1>1
      <4>6. DOMAIN argument' = (1 .. Len(argument)) \cup {k}
        BY <3>2, <4>5
      <4>7. Len(argument') < first' /\ first' - Len(argument') = first - Len(argument)
        BY <3>1, <3>2, <4>2
      <4> HIDE DEF k
      <4> QED
        BY <4>3, <4>4, <4>6, <4>7
    <3>5. ArgumentsInv'
      <4> SUFFICES ASSUME ~ LongFlag'
                   PROVE  ArgumentsInv'
        BY DEF ArgumentsInv
      <4>1. ~ LongFlag
        BY <3>1, SameWords
      <4>2. /\ \A i \in FlagWords' : Good(i)'
            /\ FlagFieldsMatch'
            /\ Operands' = SubSeq(argv', first - Len(argument), Len(argv'))
            /\ Operands' = Operands
        BY <1>1, <3>1, <4>1, SameWords DEF FlagsIInv, ArgumentsInv
      <4>3. Operands' = SubSeq(argv', first' - Len(argument'), Len(argv'))
        BY <3>4, <4>1, <4>2
      <4>4. \A i \in DOMAIN argument' :
              /\ ErrorIn(Arguments[i].type, Operands'[i]) = "none"
              /\ argument'[i] = Stored(Arguments[i].type, Operands'[i])
        BY <3>4, <4>1, <4>2
      <4> QED
        BY <3>4, <4>1, <4>2, <4>3, <4>4 DEF ArgumentsInv
    <3> QED
      BY <1>1, <3>1, <3>3, <3>5 DEF FlagsIInv, ReadingInv, BetweenInv, ClusterInv, FollowsGuidelines
  <2> QED
    BY <2>4, <2>5
<1> QED
  BY <1>4, <1>5

\* Nothing is left of the vector: all required arguments were there, or the
\* vector is not well-formed.
LEMMA ReturnFlagsStep ==
  ASSUME FlagsIInv, ReturnFlags
  PROVE  FlagsIInv'
<1> DEFINE k == Len(argument) + 1
<1>1. /\ FlagsTypeOK /\ pc = "arguments" /\ error = "none"
      /\ argument \in Seq(Seq(Char)) /\ Len(argument) \in Nat
      /\ DOMAIN argument = 1 .. Len(argument)
      /\ Len(argument) <= Len(Arguments)
      /\ Len(argv) \in Nat /\ first \in Nat /\ first = Len(argv) + 1
  <2>1. FlagsTypeOK /\ pc = "arguments" /\ first > Len(argv)
    BY DEF FlagsIInv, ReturnFlags
  <2>2. /\ argument \in Seq(Seq(Char)) /\ Len(argument) \in Nat
        /\ DOMAIN argument = 1 .. Len(argument)
        /\ Len(argument) <= Len(Arguments)
        /\ first \in 1 .. Len(argv) + 1
        /\ error = "none"
    BY <2>1, LenProperties DEF FlagsTypeOK
  <2>3. Len(argv) \in Nat
    BY <2>1, WordsAreWords
  <2>4. first \in Nat /\ first = Len(argv) + 1
    BY <2>1, <2>2, <2>3
  <2> QED
    BY <2>1, <2>2, <2>3, <2>4
<1>2. Len(Arguments) \in Nat /\ DOMAIN Arguments = 1 .. Len(Arguments)
  BY ParseFlagsAssumption, LenProperties
<1>3. ASSUME ~ LongFlag
      PROVE  /\ Len(Operands) = Len(argument)
             /\ DOMAIN Operands = 1 .. Len(argument)
  <2>1. Operands \in Seq(Seq(Char)) /\ Len(Operands) = Len(argument) + (Len(argv) + 1 - first)
    BY <1>1, <1>3, OperandsAre
  <2>2. Len(argument) + (Len(argv) + 1 - first) = Len(argument)
    <3>1. \A a, b \in Nat : a + (b + 1 - (b + 1)) = a
      OBVIOUS
    <3> QED
      BY <1>1, <3>1
  <2> QED
    BY <2>1, <2>2, LenProperties
<1>4. CASE Len(argument) < Len(Arguments) /\ Arguments[k].required
  <2>1. Fail("not enough arguments")
    BY <1>4 DEF ReturnFlags
  <2>2. k \in DOMAIN Arguments /\ ~ (k <= Len(argument))
    BY <1>1, <1>2, <1>4
  <2>3. ~ LongFlag => ~ WellFormed
    BY <1>3, <1>4, <2>2 DEF WellFormed
  <2> QED
    BY <2>1, <2>3, FailStep DEF Errors
<1>5. CASE ~ (Len(argument) < Len(Arguments) /\ Arguments[k].required)
  <2>1. pc' = "done" /\ UNCHANGED <<argv, first, arg1, flag, argument, error>>
    BY <1>5 DEF ReturnFlags, Goto
  <2>2. FlagsTypeOK'
    BY <1>1, <2>1 DEF FlagsTypeOK
  <2>3. ASSUME ~ LongFlag
        PROVE  WellFormed /\ FieldsMatch
    <3>1. /\ \A i \in FlagWords : Good(i)
          /\ FlagFieldsMatch
          /\ \A i \in 1 .. Len(argument) :
               /\ ErrorIn(Arguments[i].type, Operands[i]) = "none"
               /\ argument[i] = Stored(Arguments[i].type, Operands[i])
      BY <1>1, <2>3 DEF FlagsIInv, ArgumentsInv
    <3>2. \A c \in DOMAIN Flags : \A i \in Giving(c) : i \in FlagWords
      BY DEF Giving
    <3>3. ASSUME NEW i \in DOMAIN Arguments, Arguments[i].required
          PROVE  i <= Len(argument)
      <4> SUFFICES ASSUME ~ (i <= Len(argument))
                   PROVE  FALSE
        OBVIOUS
      <4>1. k \in DOMAIN Arguments /\ Len(argument) < Len(Arguments) /\ (k < i \/ k = i)
        BY <1>1, <1>2
      <4>2. Arguments[k].required
        <5> HIDE DEF k
        <5> QED
          BY <3>3, <4>1, ParseFlagsAssumption
      <4> QED
        BY <1>5, <4>1, <4>2
    <3>4. WellFormed
      BY <1>1, <1>3, <2>3, <3>1, <3>2, <3>3 DEF WellFormed, Good
    <3>5. argument = [i \in DOMAIN Operands |-> Stored(Arguments[i].type, Operands[i])]
      <4>1. argument = [i \in 1 .. Len(argument) |-> argument[i]]
        BY <1>1
      <4> QED
        BY <1>3, <2>3, <3>1, <4>1
    <3> QED
      BY <3>1, <3>4, <3>5 DEF FieldsMatch
  <2>4. FollowsGuidelines'
    <3> SUFFICES ASSUME ~ LongFlag'
                 PROVE  error' = "none" /\ WellFormed' /\ FieldsMatch'
      BY DEF FollowsGuidelines
    <3>1. ~ LongFlag
      BY <2>1, SameWords
    <3>2. WellFormed' /\ FlagFieldsMatch' /\ Operands' = Operands
      BY <2>1, <2>3, <3>1, SameWords DEF FieldsMatch
    <3>3. FieldsMatch'
      BY <2>1, <2>3, <3>1, <3>2 DEF FieldsMatch
    <3> QED
      BY <1>1, <2>1, <3>2, <3>3
  <2> QED
    BY <2>1, <2>2, <2>4 DEF FlagsIInv, ReadingInv, BetweenInv, ClusterInv, ArgumentsInv
<1> QED
  BY <1>4, <1>5

\* Every step of posix_parse() keeps the invariant.
LEMMA FlagsStepIInv == FlagsIInv /\ [FlagsNext]_flagVars => FlagsIInv'
<1> SUFFICES ASSUME FlagsIInv, [FlagsNext]_flagVars
             PROVE  FlagsIInv'
  OBVIOUS
<1>1. CASE FlagsNext
  BY <1>1, ClusterStep, EndOfFlagsStep, UnknownStep, BoolFlagStep, ValueStep,
     EndOfClusterStep, ArgumentStep, ReturnFlagsStep DEF FlagsNext
<1>2. CASE UNCHANGED flagVars
  <2>1. UNCHANGED <<argv, pc, first, arg1, flag, argument, error>>
    BY <1>2 DEF flagVars
  <2>2. FlagsTypeOK'
    BY <2>1 DEF FlagsIInv, FlagsTypeOK
  <2>3. ReadingInv' /\ BetweenInv'
    BY <2>1, SameWords DEF FlagsIInv, ReadingInv, BetweenInv
  <2>4. ClusterInv'
    <3>1. Place' = Place
      BY <2>1 DEF Place
    <3> QED
      BY <2>1, <3>1, SameWords DEF FlagsIInv, ClusterInv
  <2>5. ArgumentsInv'
    BY <2>1, SameWords DEF FlagsIInv, ArgumentsInv
  <2>6. FollowsGuidelines'
    BY <2>1, SameWords DEF FlagsIInv, FollowsGuidelines, FieldsMatch
  <2> QED
    BY <2>2, <2>3, <2>4, <2>5, <2>6 DEF FlagsIInv
<1> QED
  BY <1>1, <1>2

\* So it always holds.
LEMMA FlagsInvariance == FlagsSpec => []FlagsIInv
BY FlagsInitIInv, FlagsStepIInv, PTL DEF FlagsSpec

\* posix_parse() never reads past the end of the vector, nor past the end of a
\* word, and every field gets a value of its type.
THEOREM FlagsTypeCorrect == FlagsSpec => []FlagsTypeOK
<1>1. FlagsIInv => FlagsTypeOK
  BY DEF FlagsIInv
<1> QED
  BY <1>1, FlagsInvariance, PTL

\* posix_parse() accepts an argument vector exactly when it is well-formed, and
\* then puts every word where the guidelines do: for any flags and arguments,
\* vectors of any length and words of any length, but long flags.
THEOREM FollowsGuidelinesAlways == FlagsSpec => []FollowsGuidelines
<1>1. FlagsIInv => FollowsGuidelines
  BY DEF FlagsIInv
<1> QED
  BY <1>1, FlagsInvariance, PTL
=============================================================================
