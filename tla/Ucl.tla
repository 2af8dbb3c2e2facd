-------------------------------- MODULE Ucl --------------------------------
(***************************************************************************)
(* nihil.ucl: the references that C++ objects and UCL containers hold to   *)
(* libucl's objects, which count them.                                     *)
(*                                                                         *)
(* A node is an object of libucl.  A cell is a place that holds a pointer  *)
(* to a node: m_object of a C++ object, or an entry of an array or a map.  *)
(* Whether a call of nihil.ucl counts the pointer it makes (ref_t, or      *)
(* ucl_object_ref()) or takes one over that is counted already (noref_t)   *)
(* is what can be wrong here, call by call.                                *)
(*                                                                         *)
(* A cell of a container stands for the entry, whatever its index or key   *)
(* is: array::at(), *iterator, map::find() and *map_iterator differ in how *)
(* they find the entry, and do the same with it.                           *)
(***************************************************************************)
EXTENDS Naturals, FiniteSetsExt

CONSTANTS
  Cell,
  Node,
  Array, \* the nodes that are arrays
  Map,   \* the nodes that are maps
  None   \* a null pointer, no node

ASSUME UclAssumption ==
  /\ IsFiniteSet(Cell)
  /\ Array \subseteq Node
  /\ Map \subseteq Node
  /\ None \notin Node

VARIABLES
  role,   \* what cell c is
  target, \* target[c]: the node that c points to, or None
  owner,  \* owner[c]: the container whose entry c is, or None
  source, \* source[c]: the node that ucl_object_copy() is to copy for c, or None
  refs    \* refs[n]: the reference count of node n, 0 when there is no such node

vars == <<role, target, owner, source, refs>>

Container == Array \cup Map

\* A cell is no cell at present, a C++ object, an entry of a container, a
\* reference that is being given up, or one that was counted and forgotten.
Roles == {"free", "object", "entry", "dying", "lost"}

TypeOK ==
  /\ role \in [Cell -> Roles]
  /\ target \in [Cell -> Node \cup {None}]
  /\ owner \in [Cell -> Container \cup {None}]
  /\ source \in [Cell -> Node \cup {None}]
  /\ refs \in [Node -> Nat]

Init ==
  /\ role = [c \in Cell |-> "free"]
  /\ target = [c \in Cell |-> None]
  /\ owner = [c \in Cell |-> None]
  /\ source = [c \in Cell |-> None]
  /\ refs = [n \in Node |-> 0]

----------------------------------------------------------------------------

\* libucl is not in the middle of freeing or of copying something.
Quiet == \A c \in Cell : role[c] # "dying" /\ source[c] = None

Free(c) == Quiet /\ role[c] = "free"

\* get_ucl_object() returns the node of a C++ object, and throws when there is
\* none.
HasNode(c) == Quiet /\ role[c] = "object" /\ target[c] # None

Entries(n) == {c \in Cell : owner[c] = n}

SameKind(m, n) == /\ m \in Array <=> n \in Array
                  /\ m \in Map <=> n \in Map

\* Mutant: what libucl made and counted is counted again.
CreateCounted(c, n) ==
  /\ Free(c)
  /\ refs[n] = 0
  /\ role' = [role EXCEPT ![c] = "object"]
  /\ target' = [target EXCEPT ![c] = n]
  /\ refs' = [refs EXCEPT ![n] = 2]
  /\ UNCHANGED <<owner, source>>

\* array(), map(), string(), integer() and the like: a new node whose count is
\* 1, not counted again.
Create(c, n) ==
  /\ Free(c)
  /\ refs[n] = 0
  /\ role' = [role EXCEPT ![c] = "object"]
  /\ target' = [target EXCEPT ![c] = n]
  /\ refs' = [refs EXCEPT ![n] = 1]
  /\ UNCHANGED <<owner, source>>

\* object(ref, node): a new C++ object for a node that cell d points to.
Ref(c, d) ==
  /\ Free(c)
  /\ role' = [role EXCEPT ![c] = "object"]
  /\ target' = [target EXCEPT ![c] = target[d]]
  /\ refs' = [refs EXCEPT ![target[d]] = @ + 1]
  /\ UNCHANGED <<owner, source>>

\* ref() of a C++ object, and object_cast() to another type.
RefObject(c, d) == HasNode(d) /\ Ref(c, d)

\* Mutant: the object that is returned for an entry is not counted.
FetchNoRef(c, d, e) ==
  /\ HasNode(d)
  /\ e \in Entries(target[d])
  /\ Free(c)
  /\ role' = [role EXCEPT ![c] = "object"]
  /\ target' = [target EXCEPT ![c] = target[e]]
  /\ UNCHANGED <<owner, source, refs>>

\* at(), find(), *iterator, of an entry of object d's container.
Fetch(c, d, e) == HasNode(d) /\ e \in Entries(target[d]) /\ Ref(c, e)

\* Mutant: the moved-from object keeps its pointer.
MoveAndKeep(c, d) ==
  /\ Free(c)
  /\ role[d] = "object"
  /\ role' = [role EXCEPT ![c] = "object"]
  /\ target' = [target EXCEPT ![c] = target[d]]
  /\ UNCHANGED <<owner, source, refs>>

\* object(object &&).
MoveConstruct(c, d) ==
  /\ Free(c)
  /\ role[d] = "object"
  /\ role' = [role EXCEPT ![c] = "object"]
  /\ target' = [target EXCEPT ![c] = target[d], ![d] = None]
  /\ UNCHANGED <<owner, source, refs>>

\* operator=(object &&) of an object that is empty.
AssignEmpty(c, d) ==
  /\ Quiet
  /\ c # d
  /\ role[c] = "object"
  /\ role[d] = "object"
  /\ target[c] = None
  /\ target' = [target EXCEPT ![c] = target[d], ![d] = None]
  /\ UNCHANGED <<role, owner, source, refs>>

\* operator=(object &&) of an object that has a node: what m_object counted is
\* forgotten, not given up.  Cell l stands for the forgotten reference.
AssignFull(c, d, l) ==
  /\ Free(l)
  /\ c # d
  /\ role[c] = "object"
  /\ role[d] = "object"
  /\ target[c] # None
  /\ role' = [role EXCEPT ![l] = "lost"]
  /\ target' = [target EXCEPT ![c] = target[d], ![d] = None, ![l] = target[c]]
  /\ UNCHANGED <<owner, source, refs>>

Swap(c, d) ==
  /\ Quiet
  /\ c # d
  /\ role[c] = "object"
  /\ role[d] = "object"
  /\ target' = [target EXCEPT ![c] = target[d], ![d] = target[c]]
  /\ UNCHANGED <<role, owner, source, refs>>

----------------------------------------------------------------------------
(* Containers *)

\* Mutant: the container takes the node without counting it.
InsertNoRef(d, v, e) ==
  /\ HasNode(d) /\ target[d] \in Container
  /\ HasNode(v)
  /\ Free(e)
  /\ role' = [role EXCEPT ![e] = "entry"]
  /\ target' = [target EXCEPT ![e] = target[v]]
  /\ owner' = [owner EXCEPT ![e] = target[d]]
  /\ UNCHANGED <<source, refs>>

\* push_back(), push_front() and insert(): the container of object d gets an
\* entry for the node of object v, and nothing looks whether the container is
\* within that node.  A program does not insert a key that the map has.
Insert(d, v, e) ==
  /\ HasNode(d) /\ target[d] \in Container
  /\ HasNode(v)
  /\ Free(e)
  /\ role' = [role EXCEPT ![e] = "entry"]
  /\ target' = [target EXCEPT ![e] = target[v]]
  /\ owner' = [owner EXCEPT ![e] = target[d]]
  /\ refs' = [refs EXCEPT ![target[v]] = @ + 1]
  /\ UNCHANGED source

\* The same calls when libucl refuses the entry, which they do not look at, or
\* when object d was moved from and get_ucl_object() throws: the node of v has
\* been counted already.
InsertLost(d, v, l) ==
  /\ role[d] = "object"
  /\ target[d] \in Container \cup {None}
  /\ HasNode(v)
  /\ Free(l)
  /\ role' = [role EXCEPT ![l] = "lost"]
  /\ target' = [target EXCEPT ![l] = target[v]]
  /\ refs' = [refs EXCEPT ![target[v]] = @ + 1]
  /\ UNCHANGED <<owner, source>>

\* An entry of the map of object d leaves the map and becomes something else.
TakeOut(d, e, what) ==
  /\ HasNode(d) /\ target[d] \in Map
  /\ e \in Entries(target[d])
  /\ role' = [role EXCEPT ![e] = what]
  /\ owner' = [owner EXCEPT ![e] = None]
  /\ UNCHANGED <<target, source, refs>>

\* map::remove(): libucl gives the entry's reference up.
Remove(d, e) == TakeOut(d, e, "dying")

\* map::pop(): the C++ object that is returned takes the reference over.
Pop(d, e) == TakeOut(d, e, "object")

\* map<T>::pop() of an entry that is not a T: T(noref, uobj) throws
\* type_mismatch when the entry is out of the map already.
PopMismatch(d, e) == TakeOut(d, e, "lost")

----------------------------------------------------------------------------
(* ucl_object_copy() *)

\* How many nodes of kind K a copy of node n has: a node that is in two entries
\* is copied twice.
CopyCount[K \in {Array, Map, Node \ Container, Node}, n \in Node] ==
  (IF n \in K THEN 1 ELSE 0)
    + MapThenSumSet(LAMBDA e : CopyCount[K, target[e]], Entries(n))

\* Among any of these nodes there is one that no other of them has as an entry:
\* they are not within themselves.
WellFounded(nodes) ==
  \A S \in (SUBSET nodes) \ {{}} :
    \E n \in S : \A c \in Cell : owner[c] \in S => target[c] # n

\* The nodes that can be copied: neither they nor what is within them is within
\* itself.
Copyable ==
  UNION {inside \in SUBSET Node :
           /\ \A c \in Cell : owner[c] \in inside => target[c] \in inside
           /\ WellFounded(inside)}

\* The bound on memory: a copy is made only when there is room for all of it,
\* and none is that would not end.
CopyFits(n) ==
  /\ n \in Copyable
  /\ \A K \in {Array, Map, Node \ Container} :
       CopyCount[K, n] <= Cardinality({m \in K : refs[m] = 0})
  /\ CopyCount[Node, n] <= Cardinality({c \in Cell : role[c] = "free"})

\* object(object const &): copies the node of d and what is within it.  The
\* copy assignment is this for a temporary, then operator=(object &&), then
\* the destruction of the temporary.
CopyConstruct(c, d) ==
  /\ HasNode(d)
  /\ Free(c)
  /\ CopyFits(target[d])
  /\ role' = [role EXCEPT ![c] = "object"]
  /\ source' = [source EXCEPT ![c] = target[d]]
  /\ UNCHANGED <<target, owner, refs>>

\* One node is copied for cell c: the new node m is counted once, and its
\* entries are to be copied next.
CopyNode(c, m) ==
  /\ source[c] # None
  /\ refs[m] = 0
  /\ SameKind(m, source[c])
  /\ \E new \in [Entries(source[c]) -> {e \in Cell : role[e] = "free"}] :
       LET From(x) == CHOOSE e \in Entries(source[c]) : new[e] = x
           New == {new[e] : e \in Entries(source[c])}
       IN /\ \A e, f \in Entries(source[c]) : new[e] = new[f] => e = f
          /\ role' = [x \in Cell |-> IF x \in New THEN "entry" ELSE role[x]]
          /\ owner' = [x \in Cell |-> IF x \in New THEN m ELSE owner[x]]
          /\ source' = [x \in Cell |-> IF x \in New THEN target[From(x)]
                                       ELSE IF x = c THEN None ELSE source[x]]
  /\ target' = [target EXCEPT ![c] = m]
  /\ refs' = [refs EXCEPT ![m] = 1]

----------------------------------------------------------------------------
(* Destruction *)

\* ~object() of an object that was moved from.
DestroyEmpty(c) ==
  /\ Quiet
  /\ role[c] = "object"
  /\ target[c] = None
  /\ role' = [role EXCEPT ![c] = "free"]
  /\ UNCHANGED <<target, owner, source, refs>>

\* ~object().
Destroy(c) ==
  /\ HasNode(c)
  /\ role' = [role EXCEPT ![c] = "dying"]
  /\ UNCHANGED <<target, owner, source, refs>>

\* Mutant: what is within a node is not given up with the node.
UnrefOne(c) ==
  /\ role[c] = "dying"
  /\ role' = [role EXCEPT ![c] = "free"]
  /\ target' = [target EXCEPT ![c] = None]
  /\ refs' = [refs EXCEPT ![target[c]] = @ - 1]
  /\ UNCHANGED <<owner, source>>

\* ucl_object_unref(): with the last reference to a node its entries are given
\* up too.
Unref(c) ==
  /\ role[c] = "dying"
  /\ LET n == target[c]
         dead == IF refs[n] = 1 THEN Entries(n) ELSE {}
     IN /\ role' = [x \in Cell |-> IF x = c THEN "free"
                                   ELSE IF x \in dead THEN "dying" ELSE role[x]]
        /\ owner' = [x \in Cell |-> IF x \in dead THEN None ELSE owner[x]]
        /\ target' = [target EXCEPT ![c] = None]
        /\ refs' = [refs EXCEPT ![n] = @ - 1]
  /\ UNCHANGED source

Next ==
  \/ \E c \in Cell, n \in Node : Create(c, n) \/ CopyNode(c, n)
  \/ \E c, d \in Cell :
       \/ RefObject(c, d)
       \/ MoveConstruct(c, d)
       \/ AssignEmpty(c, d)
       \/ Swap(c, d)
       \/ CopyConstruct(c, d)
       \/ Remove(c, d)
       \/ Pop(c, d)
       \/ PopMismatch(c, d)
  \/ \E c, d, e \in Cell : Fetch(c, d, e) \/ Insert(c, d, e)
                         \/ InsertLost(c, d, e) \/ AssignFull(c, d, e)
  \/ \E c \in Cell : DestroyEmpty(c) \/ Destroy(c) \/ Unref(c)

Spec == Init /\ [][Next]_vars

----------------------------------------------------------------------------
(* Properties *)

Live == {n \in Node : refs[n] > 0}

Holders(n) == {c \in Cell : target[c] = n}

\* A node's count is the number of cells that point to it, after every call
\* and at every step within one, whatever the program copies, shares, moves,
\* puts into containers and takes out of them.
CountExact == \A n \in Node : refs[n] = Cardinality(Holders(n))

\* The entries of a container exist as long as the container does, and an entry
\* of a container that was freed is never reached.
EntriesLive == \A c \in Cell : owner[c] # None => refs[owner[c]] > 0

\* The program has no C++ object left, and what it gave up has been freed.
NoneLeft == \A c \in Cell : role[c] \notin {"object", "dying"}

\* Destroying every C++ object frees every node, in whatever order they were
\* shared, copied, moved, entered and taken out, except for what a forgotten
\* reference leads to and what is within itself, or within something that is.
Reclaimed ==
  NoneLeft =>
    \A kept \in SUBSET Live :
      /\ \A c \in Cell : role[c] = "lost" \/ owner[c] \in kept => target[c] \in kept
      /\ WellFounded(Live \ kept)
      => kept = Live

\* What the comment at object.ccm:46 says, "Free our object on destruction":
\* when every C++ object was destroyed, every node was freed.
AllFreed == NoneLeft => Live = {}

\* Every step of nihil.ucl is one that shared ownership allows, the counts
\* being what decides when a node dies.
Abstract == INSTANCE Sharing
              WITH Holder <- Cell, Resource <- Node, holds <- target, live <- Live

ImplementsSharing == Abstract!Spec
=============================================================================
