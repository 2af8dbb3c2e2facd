----------------------------- MODULE Commands -----------------------------
(***************************************************************************)
(* nihil.cli: the registry of commands, the command tree that              *)
(* dispatch_command() builds from it, and the search that picks the        *)
(* command to invoke and its arguments.                                    *)
(*                                                                         *)
(* Commands are global objects: they register themselves when they are     *)
(* constructed, in an order that differs from build to build, and a        *)
(* command that is destroyed leaves the registry.  A node of the tree is   *)
(* named by the words that lead to it from the root.  Of a command's       *)
(* handler only the arguments it is called with matter.                    *)
(***************************************************************************)
EXTENDS Naturals, Sequences

CONSTANTS
  Command, \* the command objects that have a handler
  Word,    \* the words of paths and arguments
  Path,    \* Path[c]: the words of the command's path
  Args,    \* the argument lists
  Stub     \* the command of a node that has no handler

ASSUME CommandsAssumption ==
  /\ Path \in [Command -> Seq(Word)]
  /\ Args \subseteq Seq(Word)
  /\ Stub \notin Command

VARIABLES
  registry, \* get_registry()
  phase,    \* what dispatch_command() is doing
  args,     \* its arguments
  tree,     \* tree[w]: the command at node w
  inserted, \* how many commands of the registry are in the tree
  node,     \* this_node, in insert() or in find()
  called    \* the arguments that the handler was called with

vars == <<registry, phase, args, tree, inserted, node, called>>

Root == <<>>

\* A word's node below node w.
ChildOf(w, x) == Append(w, x)

IsPrefixOf(v, w) == Len(v) <= Len(w) /\ \A i \in 1 .. Len(v) : v[i] = w[i]

Phases == {"idle", "insert", "find", "invoke", "called", "usage", "thrown"}

TypeOK ==
  /\ registry \in Seq(Command)
  /\ phase \in Phases
  /\ args \in Seq(Word)
  /\ DOMAIN tree \subseteq Seq(Word)
  /\ node \in DOMAIN tree
  /\ \A w \in DOMAIN tree : tree[w] \in Command \cup {Stub}
  /\ inserted \in 0 .. Len(registry)
  /\ called \in Seq(Word)

EmptyTree == [w \in {Root} |-> Stub]

Init ==
  /\ registry = <<>>
  /\ phase = "idle"
  /\ args = <<>>
  /\ tree = EmptyTree
  /\ inserted = 0
  /\ node = Root
  /\ called = <<>>

----------------------------------------------------------------------------
(* The registry *)

Registered(c) == \E i \in 1 .. Len(registry) : registry[i] = c

\* command(path, usage, handler).
Register(c) ==
  /\ phase = "idle"
  /\ ~ Registered(c)
  /\ registry' = Append(registry, c)
  /\ UNCHANGED <<phase, args, tree, inserted, node, called>>

\* ~command(): the others keep their order.
Unregister(c) ==
  /\ phase = "idle"
  /\ \E i \in 1 .. Len(registry) :
       /\ registry[i] = c
       /\ registry' = SubSeq(registry, 1, i - 1) \o SubSeq(registry, i + 1, Len(registry))
  /\ UNCHANGED <<phase, args, tree, inserted, node, called>>

----------------------------------------------------------------------------
(* build_command_tree() *)

\* dispatch_command() begins with a tree that has nothing but its root.
Dispatch(a) ==
  /\ phase = "idle"
  /\ phase' = "insert"
  /\ args' = a
  /\ tree' = EmptyTree
  /\ inserted' = 0
  /\ node' = Root
  /\ called' = <<>>
  /\ UNCHANGED registry

Inserting == registry[inserted + 1]

\* Mutant: a child is always created, also when there is one.
AlwaysCreateChild ==
  /\ phase = "insert"
  /\ inserted < Len(registry)
  /\ Len(node) < Len(Path[Inserting])
  /\ LET child == ChildOf(node, Path[Inserting][Len(node) + 1])
     IN /\ tree' = [w \in DOMAIN tree \cup {child} |-> IF w = child THEN Stub ELSE tree[w]]
        /\ node' = child
  /\ UNCHANGED <<registry, phase, args, inserted, called>>

\* insert() takes the next word of the path: get_or_create_child().
GetOrCreateChild ==
  /\ phase = "insert"
  /\ inserted < Len(registry)
  /\ Len(node) < Len(Path[Inserting])
  /\ LET child == ChildOf(node, Path[Inserting][Len(node) + 1])
     IN /\ tree' = [w \in DOMAIN tree \cup {child} |->
                      IF w \in DOMAIN tree THEN tree[w] ELSE Stub]
        /\ node' = child
  /\ UNCHANGED <<registry, phase, args, inserted, called>>

AtEnd ==
  /\ phase = "insert"
  /\ inserted < Len(registry)
  /\ Len(node) = Len(Path[Inserting])

\* Mutant: a command replaces whatever is there.
SetAnyCommand ==
  /\ AtEnd
  /\ tree' = [tree EXCEPT ![node] = Inserting]
  /\ inserted' = inserted + 1
  /\ node' = Root
  /\ UNCHANGED <<registry, phase, args, called>>

\* insert() sets the node's command, which must be a stub.
SetCommand ==
  /\ AtEnd
  /\ tree[node] = Stub
  /\ tree' = [tree EXCEPT ![node] = Inserting]
  /\ inserted' = inserted + 1
  /\ node' = Root
  /\ UNCHANGED <<registry, phase, args, called>>

\* "duplicate command": the exception leaves dispatch_command().
Duplicate ==
  /\ AtEnd
  /\ tree[node] # Stub
  /\ phase' = "thrown"
  /\ UNCHANGED <<registry, args, tree, inserted, node, called>>

Built ==
  /\ phase = "insert"
  /\ inserted = Len(registry)
  /\ phase' = "find"
  /\ UNCHANGED <<registry, args, tree, inserted, node, called>>

----------------------------------------------------------------------------
(* find() and invoke() *)

NextArg == ChildOf(node, args[Len(node) + 1])

\* Mutant: get_child() does not look whether there is a child.
AnyNext == Len(node) < Len(args)

\* get_child() finds a node for the next argument.
HasNext == Len(node) < Len(args) /\ NextArg \in DOMAIN tree

\* take_while() goes on as long as the word names a child.
Descend ==
  /\ phase = "find"
  /\ HasNext
  /\ node' = NextArg
  /\ UNCHANGED <<registry, phase, args, tree, inserted, called>>

\* Mutant: find() may stop where it can go on.
Stop ==
  /\ phase = "find"
  /\ tree[node] # Stub \/ ~ HasNext
  /\ phase' = "invoke"
  /\ UNCHANGED <<registry, args, tree, inserted, node, called>>

\* The first word that names no child, or the end of the arguments.
Found ==
  /\ phase = "find"
  /\ ~ HasNext
  /\ phase' = "invoke"
  /\ UNCHANGED <<registry, args, tree, inserted, node, called>>

\* The number of arguments that find() says are left: it drops as many as it
\* did not take.
Rest == Len(args) - (Len(args) - Len(node))

\* dispatch_command() keeps one more argument for getopt(), and passes the
\* handler the last nrest arguments.
NRest == IF Rest < Len(args) THEN Rest + 1 ELSE Rest

Invoke ==
  /\ phase = "invoke"
  /\ tree[node] # Stub
  /\ phase' = "called"
  /\ called' = SubSeq(args, Len(args) - NRest + 1, Len(args))
  /\ UNCHANGED <<registry, args, tree, inserted, node>>

\* A stub cannot be invoked: its children are printed.
PrintUsage ==
  /\ phase = "invoke"
  /\ tree[node] = Stub
  /\ phase' = "usage"
  /\ UNCHANGED <<registry, args, tree, inserted, node, called>>

\* The caller has the result, or has caught the exception.
Return ==
  /\ phase \in {"called", "usage", "thrown"}
  /\ phase' = "idle"
  /\ args' = <<>>
  /\ tree' = EmptyTree
  /\ inserted' = 0
  /\ node' = Root
  /\ called' = <<>>
  /\ UNCHANGED registry

Next ==
  \/ \E c \in Command : Register(c) \/ Unregister(c)
  \/ \E a \in Args : Dispatch(a)
  \/ GetOrCreateChild \/ SetCommand \/ Duplicate \/ Built
  \/ Descend \/ Found \/ Invoke \/ PrintUsage \/ Return

Spec == Init /\ [][Next]_vars

----------------------------------------------------------------------------
(* Properties *)

\* What the tree holds of the commands inserted so far, in whatever order they
\* came: each at the node of its path, every node on the way there and on the
\* way to the command that is being inserted, and nothing else.  So the order
\* in which global objects are constructed does not show.
TreeHoldsCommands ==
  phase # "idle" =>
    /\ \A i \in 1 .. inserted : tree[Path[registry[i]]] = registry[i]
    /\ \A w \in DOMAIN tree :
         /\ \/ IsPrefixOf(w, node)
            \/ \E i \in 1 .. inserted : IsPrefixOf(w, Path[registry[i]])
         /\ tree[w] # Stub => \E i \in 1 .. inserted : tree[w] = registry[i] /\ Path[registry[i]] = w

\* Two commands with one path never go unnoticed, and nothing else is taken
\* for it.
SamePath ==
  \E i, j \in 1 .. Len(registry) : i # j /\ Path[registry[i]] = Path[registry[j]]

DuplicatesThrow ==
  /\ phase = "thrown" => SamePath
  /\ phase \in {"find", "invoke", "called", "usage"} => ~ SamePath

\* What is looked up in the tree is what is registered: the search ends at the
\* longest beginning of the arguments that begins some command's path.  So a
\* command is called if it was named in full and no longer name goes on, and
\* the usage message is printed for a name that is not complete.
FindsLongest ==
  phase \in {"invoke", "called", "usage"} =>
    LET Begins(n) ==
          n = 0 \/ \E i \in 1 .. Len(registry) :
                     IsPrefixOf(SubSeq(args, 1, n), Path[registry[i]])
    IN /\ node = SubSeq(args, 1, Len(node))
       /\ Begins(Len(node))
       /\ \A n \in 0 .. Len(args) : Begins(n) => n <= Len(node)
       /\ phase = "called" => \E i \in 1 .. Len(registry) : Path[registry[i]] = node
       /\ phase = "usage" => ~ \E i \in 1 .. Len(registry) : Path[registry[i]] = node

\* What the comment at command_tree.ccm:139 says of find(): "Returns the node
\* and the remaining unprocessed arguments", before which dispatch_command()
\* keeps one for getopt().
HandlerGetsRest ==
  phase = "called" /\ node # Root => called = SubSeq(args, Len(node), Len(args))
=============================================================================
