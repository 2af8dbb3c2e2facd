---------------------------- MODULE Ucl_proofs ----------------------------
(***************************************************************************)
(* Proofs about Ucl, for any cells, nodes, arrays and maps.                *)
(***************************************************************************)
EXTENDS Ucl, FiniteSetTheorems, TLAPS

\* What a cell of each role has: only entries have an owner, a cell points to a
\* node or is to get a copy of one, and what is being given up or was forgotten
\* points to a node.
Shape ==
  \A c \in Cell :
    /\ role[c] = "free" => target[c] = None /\ owner[c] = None /\ source[c] = None
    /\ role[c] \in {"object", "dying", "lost"} => owner[c] = None
    /\ role[c] = "entry" => owner[c] # None /\ (target[c] # None \/ source[c] # None)
    /\ role[c] \in {"dying", "lost"} => target[c] # None /\ source[c] = None
    /\ source[c] # None => target[c] = None

\* libucl does not copy and free at a time.
Apart == (\A c \in Cell : role[c] # "dying") \/ (\A c \in Cell : source[c] = None)

\* What is being copied was complete when copying began, and stays as it was.
CopySources ==
  \E Old \in SUBSET Live :
    /\ \A c \in Cell : source[c] # None => source[c] \in Old
    /\ \A c \in Cell : owner[c] \in Old => target[c] \in Old

\* The inductive invariant.
IInv ==
  /\ TypeOK
  /\ Shape
  /\ Apart
  /\ CopySources
  /\ CountExact
  /\ EntriesLive

----------------------------------------------------------------------------
(* Counting the cells that point to a node *)

\* The cells that t takes to n.
At(t, n) == {c \in Cell : t[c] = n}

LEMMA AtFinite ==
  ASSUME NEW t, NEW n
  PROVE  IsFiniteSet(At(t, n)) /\ Cardinality(At(t, n)) \in Nat
  BY UclAssumption, FS_Subset, FS_CardinalityType DEF At

\* A cell that pointed to nothing and points to n is one more for n.
LEMMA CountAdd ==
  ASSUME NEW t \in [Cell -> Node \cup {None}], NEW c \in Cell, NEW n \in Node, t[c] = None
  PROVE  LET u == [t EXCEPT ![c] = n]
         IN /\ Cardinality(At(u, n)) = Cardinality(At(t, n)) + 1
            /\ \A k \in Node \ {n} : At(u, k) = At(t, k)
<1> DEFINE u == [t EXCEPT ![c] = n]
<1>1. At(u, n) = At(t, n) \cup {c} /\ c \notin At(t, n)
  BY UclAssumption DEF At
<1>2. \A k \in Node \ {n} : At(u, k) = At(t, k)
  BY UclAssumption DEF At
<1> HIDE DEF u
<1>3. Cardinality(At(u, n)) = Cardinality(At(t, n)) + 1
  BY <1>1, AtFinite, FS_AddElement
<1> QED
  BY <1>2, <1>3 DEF u

\* A cell that pointed to n and points to nothing is one less for n.
LEMMA CountRemove ==
  ASSUME NEW t \in [Cell -> Node \cup {None}], NEW c \in Cell, NEW n \in Node, t[c] = n
  PROVE  LET u == [t EXCEPT ![c] = None]
         IN /\ Cardinality(At(u, n)) = Cardinality(At(t, n)) - 1
            /\ \A k \in Node \ {n} : At(u, k) = At(t, k)
<1> DEFINE u == [t EXCEPT ![c] = None]
<1>1. At(u, n) = At(t, n) \ {c} /\ c \in At(t, n)
  BY UclAssumption DEF At
<1>2. \A k \in Node \ {n} : At(u, k) = At(t, k)
  BY UclAssumption DEF At
<1> HIDE DEF u
<1>3. Cardinality(At(u, n)) = Cardinality(At(t, n)) - 1
  BY <1>1, AtFinite, FS_RemoveElement
<1> QED
  BY <1>2, <1>3 DEF u

\* One cell in the place of another.
LEMMA Replace ==
  ASSUME NEW S, IsFiniteSet(S), NEW x \in S, NEW y, y \notin S
  PROVE  Cardinality((S \ {x}) \cup {y}) = Cardinality(S)
<1>1. IsFiniteSet(S \ {x}) /\ Cardinality(S \ {x}) = Cardinality(S) - 1
  BY FS_RemoveElement
<1>2. Cardinality((S \ {x}) \cup {y}) = Cardinality(S \ {x}) + 1
  BY <1>1, FS_AddElement
<1>3. Cardinality(S) \in Nat
  BY FS_CardinalityType
<1> QED
  BY <1>1, <1>2, <1>3

\* A move from d to c changes no count.
LEMMA CountMove ==
  ASSUME NEW t, NEW u, NEW c \in Cell, NEW d \in Cell, NEW k \in Node,
         t[c] = None, u[c] = t[d], u[d] = None,
         \A x \in Cell : x # c /\ x # d => u[x] = t[x]
  PROVE  Cardinality(At(u, k)) = Cardinality(At(t, k))
<1>1. CASE t[d] = k
  <2>1. At(u, k) = (At(t, k) \ {d}) \cup {c} /\ d \in At(t, k) /\ c \notin At(t, k)
    BY <1>1, UclAssumption DEF At
  <2>2. Cardinality((At(t, k) \ {d}) \cup {c}) = Cardinality(At(t, k))
    BY <2>1, AtFinite, Replace
  <2> QED
    BY <2>1, <2>2
<1>2. CASE t[d] # k
  <2>1. At(u, k) = At(t, k)
    BY <1>2, UclAssumption DEF At
  <2> QED
    BY <2>1
<1> QED
  BY <1>1, <1>2

\* Nor does a swap.
LEMMA CountSwap ==
  ASSUME NEW t, NEW u, NEW c \in Cell, NEW d \in Cell, NEW k \in Node,
         u[c] = t[d], u[d] = t[c],
         \A x \in Cell : x # c /\ x # d => u[x] = t[x]
  PROVE  Cardinality(At(u, k)) = Cardinality(At(t, k))
<1>1. CASE (t[c] = k) <=> (t[d] = k)
  <2>1. At(u, k) = At(t, k)
    BY <1>1 DEF At
  <2> QED
    BY <2>1
<1>2. CASE t[c] = k /\ t[d] # k
  <2>1. At(u, k) = (At(t, k) \ {c}) \cup {d} /\ c \in At(t, k) /\ d \notin At(t, k)
    BY <1>2 DEF At
  <2>2. Cardinality((At(t, k) \ {c}) \cup {d}) = Cardinality(At(t, k))
    BY <2>1, AtFinite, Replace
  <2> QED
    BY <2>1, <2>2
<1>3. CASE t[c] # k /\ t[d] = k
  <2>1. At(u, k) = (At(t, k) \ {d}) \cup {c} /\ d \in At(t, k) /\ c \notin At(t, k)
    BY <1>3 DEF At
  <2>2. Cardinality((At(t, k) \ {d}) \cup {c}) = Cardinality(At(t, k))
    BY <2>1, AtFinite, Replace
  <2> QED
    BY <2>1, <2>2
<1> QED
  BY <1>1, <1>2, <1>3

\* The holders of a node are counted in the same way.
LEMMA HoldersAt ==
  /\ \A n : Holders(n) = At(target, n)
  /\ \A n : Holders(n)' = At(target', n)
  BY DEF Holders, At

\* A node exists exactly when some cell points to it.
LEMMA LiveHeld ==
  ASSUME TypeOK, CountExact, NEW n \in Node
  PROVE  refs[n] > 0 <=> \E c \in Cell : target[c] = n
<1>1. IsFiniteSet(At(target, n))
  BY AtFinite
<1>2. refs[n] = Cardinality(At(target, n)) /\ refs[n] \in Nat
  BY HoldersAt DEF CountExact, TypeOK
<1>3. refs[n] = 0 <=> At(target, n) = {}
  BY <1>1, <1>2, FS_EmptySet
<1> QED
  BY <1>2, <1>3 DEF At

----------------------------------------------------------------------------
(* What the steps have in common *)

\* One more cell points to n, and n is counted once more.
LEMMA CountUp ==
  ASSUME TypeOK, CountExact, NEW c \in Cell, NEW n \in Node, target[c] = None,
         target' = [target EXCEPT ![c] = n], refs' = [refs EXCEPT ![n] = @ + 1]
  PROVE  CountExact'
<1>1. target \in [Cell -> Node \cup {None}] /\ refs \in [Node -> Nat]
  BY DEF TypeOK
<1>2. /\ Cardinality(At(target', n)) = Cardinality(At(target, n)) + 1
      /\ \A k \in Node \ {n} : At(target', k) = At(target, k)
  BY <1>1, CountAdd
<1>3. \A k \in Node : refs[k] = Cardinality(At(target, k))
  BY HoldersAt DEF CountExact
<1>4. \A k \in Node : refs'[k] = Cardinality(At(target', k))
  BY <1>1, <1>2, <1>3
<1> QED
  BY <1>4, HoldersAt DEF CountExact

\* One cell less points to n, and n is counted once less.
LEMMA CountDown ==
  ASSUME TypeOK, CountExact, NEW c \in Cell, NEW n \in Node, target[c] = n,
         target' = [target EXCEPT ![c] = None], refs' = [refs EXCEPT ![n] = @ - 1]
  PROVE  CountExact'
<1>1. target \in [Cell -> Node \cup {None}] /\ refs \in [Node -> Nat]
  BY DEF TypeOK
<1>2. /\ Cardinality(At(target', n)) = Cardinality(At(target, n)) - 1
      /\ \A k \in Node \ {n} : At(target', k) = At(target, k)
  BY <1>1, CountRemove
<1>3. \A k \in Node : refs[k] = Cardinality(At(target, k))
  BY HoldersAt DEF CountExact
<1>4. \A k \in Node : refs'[k] = Cardinality(At(target', k))
  BY <1>1, <1>2, <1>3
<1> QED
  BY <1>4, HoldersAt DEF CountExact

\* As many cells as before point to each node, and no count changes.
LEMMA CountSame ==
  ASSUME CountExact, refs' = refs,
         \A k \in Node : Cardinality(At(target', k)) = Cardinality(At(target, k))
  PROVE  CountExact'
  BY HoldersAt DEF CountExact

\* A move changes no count.
LEMMA CountMoved ==
  ASSUME TypeOK, CountExact, NEW c \in Cell, NEW d \in Cell, target[c] = None,
         target' = [target EXCEPT ![c] = target[d], ![d] = None], refs' = refs
  PROVE  CountExact'
<1>1. /\ c \in Cell /\ d \in Cell /\ target[c] = None
      /\ target'[c] = target[d] /\ target'[d] = None
      /\ \A x \in Cell : x # c /\ x # d => target'[x] = target[x]
  BY DEF TypeOK
<1>2. \A k \in Node : Cardinality(At(target', k)) = Cardinality(At(target, k))
  BY ONLY <1>1, CountMove
<1> QED
  BY <1>2, CountSame

\* Nor does a swap.
LEMMA CountSwapped ==
  ASSUME TypeOK, CountExact, NEW c \in Cell, NEW d \in Cell,
         target' = [target EXCEPT ![c] = target[d], ![d] = target[c]], refs' = refs
  PROVE  CountExact'
<1>1. /\ c \in Cell /\ d \in Cell
      /\ target'[c] = target[d] /\ target'[d] = target[c]
      /\ \A x \in Cell : x # c /\ x # d => target'[x] = target[x]
  BY DEF TypeOK
<1>2. \A k \in Node : Cardinality(At(target', k)) = Cardinality(At(target, k))
  BY ONLY <1>1, CountSwap
<1> QED
  BY <1>2, CountSame

\* When nothing is being copied there is nothing to say of what is copied.
LEMMA NoSources ==
  ASSUME \A c \in Cell : source'[c] = None
  PROVE  CopySources' /\ Apart'
<1>1. Apart'
  BY DEF Apart
<1>2. CopySources'
  <2>1. {} \in SUBSET Live' /\ \A c \in Cell : source'[c] # None => source'[c] \in {}
    OBVIOUS
  <2> QED
    BY <2>1 DEF CopySources
<1> QED
  BY <1>1, <1>2

\* Entries live on when no count goes down and none gets another owner.
LEMMA EntriesKept ==
  ASSUME TypeOK, TypeOK', EntriesLive, \A n \in Node : refs'[n] >= refs[n],
         \A c \in Cell : owner'[c] # None => owner'[c] = owner[c]
  PROVE  EntriesLive'
<1> SUFFICES ASSUME NEW c \in Cell, owner'[c] # None
             PROVE  refs'[owner'[c]] > 0
  BY DEF EntriesLive
<1>1. owner[c] \in Node /\ owner'[c] = owner[c] /\ refs[owner[c]] > 0
  BY UclAssumption DEF EntriesLive, TypeOK, Container
<1> QED
  BY <1>1 DEF TypeOK

----------------------------------------------------------------------------
(* Each step keeps the invariant *)

\* A new node has the object that is made for it.
LEMMA CreateInv ==
  ASSUME IInv, NEW c \in Cell, NEW n \in Node, Create(c, n)
  PROVE  IInv'
<1> USE UclAssumption DEF IInv
<1>1. TypeOK'
  BY DEF TypeOK, Roles, Shape, Container, Create, Quiet, Free, HasNode
<1>2. Shape'
  BY DEF TypeOK, Shape, Create, Quiet, Free, HasNode
<1>3. CopySources' /\ Apart'
  BY NoSources DEF Create, Quiet, Free, HasNode
<1>4. CountExact'
  <2>1. target[c] = None /\ n \in Node
    BY DEF TypeOK, Shape, Create, Quiet, Free, HasNode
  <2>2. target' = [target EXCEPT ![c] = n] /\ refs' = [refs EXCEPT ![n] = @ + 1]
    BY DEF TypeOK, Create, Quiet, Free, HasNode
  <2> QED
    BY <2>1, <2>2, CountUp
<1>5. EntriesLive'
  BY <1>1, EntriesKept DEF TypeOK, Create, Quiet, Free, HasNode
<1> QED
  BY <1>1, <1>2, <1>3, <1>4, <1>5

\* An object is made for a node that a cell points to.
LEMMA RefInv ==
  ASSUME IInv, NEW c \in Cell, NEW d \in Cell, target[d] # None, Ref(c, d)
  PROVE  IInv'
<1> USE UclAssumption DEF IInv
<1>1. TypeOK'
  BY DEF TypeOK, Roles, Shape, Container, Ref, Quiet, Free, HasNode
<1>2. Shape'
  BY DEF TypeOK, Shape, Ref, Quiet, Free, HasNode
<1>3. CopySources' /\ Apart'
  BY NoSources DEF Ref, Quiet, Free, HasNode
<1>4. CountExact'
  <2>1. target[c] = None /\ target[d] \in Node
    BY DEF TypeOK, Shape, Ref, Quiet, Free, HasNode
  <2>2. target' = [target EXCEPT ![c] = target[d]] /\ refs' = [refs EXCEPT ![target[d]] = @ + 1]
    BY DEF TypeOK, Ref, Quiet, Free, HasNode
  <2> QED
    BY <2>1, <2>2, CountUp
<1>5. EntriesLive'
  BY <1>1, EntriesKept DEF TypeOK, Ref, Quiet, Free, HasNode
<1> QED
  BY <1>1, <1>2, <1>3, <1>4, <1>5

\* A new object takes the node of another.
LEMMA MoveConstructInv ==
  ASSUME IInv, NEW c \in Cell, NEW d \in Cell, MoveConstruct(c, d)
  PROVE  IInv'
<1> USE UclAssumption DEF IInv
<1>1. TypeOK'
  BY DEF TypeOK, Roles, Shape, Container, MoveConstruct, Quiet, Free, HasNode
<1>2. Shape'
  BY DEF TypeOK, Shape, MoveConstruct, Quiet, Free, HasNode
<1>3. CopySources' /\ Apart'
  BY NoSources DEF MoveConstruct, Quiet, Free, HasNode
<1>4. CountExact'
  <2>1. target[c] = None
    BY DEF TypeOK, Shape, MoveConstruct, Quiet, Free, HasNode
  <2>2. target' = [target EXCEPT ![c] = target[d], ![d] = None] /\ refs' = refs
    BY DEF MoveConstruct, Quiet, Free, HasNode
  <2> QED
    BY <2>1, <2>2, CountMoved
<1>5. EntriesLive'
  BY <1>1, EntriesKept DEF TypeOK, MoveConstruct, Quiet, Free, HasNode
<1> QED
  BY <1>1, <1>2, <1>3, <1>4, <1>5

\* An object without a node takes that of another.
LEMMA AssignEmptyInv ==
  ASSUME IInv, NEW c \in Cell, NEW d \in Cell, AssignEmpty(c, d)
  PROVE  IInv'
<1> USE UclAssumption DEF IInv
<1>1. TypeOK'
  BY DEF TypeOK, Roles, Shape, Container, AssignEmpty, Quiet, Free, HasNode
<1>2. Shape'
  BY DEF TypeOK, Shape, AssignEmpty, Quiet, Free, HasNode
<1>3. CopySources' /\ Apart'
  BY NoSources DEF AssignEmpty, Quiet, Free, HasNode
<1>4. CountExact'
  <2>1. target[c] = None
    BY DEF TypeOK, Shape, AssignEmpty, Quiet, Free, HasNode
  <2>2. target' = [target EXCEPT ![c] = target[d], ![d] = None] /\ refs' = refs
    BY DEF AssignEmpty, Quiet, Free, HasNode
  <2> QED
    BY <2>1, <2>2, CountMoved
<1>5. EntriesLive'
  BY <1>1, EntriesKept DEF TypeOK, AssignEmpty, Quiet, Free, HasNode
<1> QED
  BY <1>1, <1>2, <1>3, <1>4, <1>5

\* An object with a node takes that of another, and its own is forgotten: two moves.
LEMMA AssignFullInv ==
  ASSUME IInv, NEW c \in Cell, NEW d \in Cell, NEW l \in Cell, AssignFull(c, d, l)
  PROVE  IInv'
<1> USE UclAssumption DEF IInv
<1>1. TypeOK'
  BY DEF TypeOK, Roles, Shape, Container, AssignFull, Quiet, Free, HasNode
<1>2. Shape'
  BY DEF TypeOK, Shape, AssignFull, Quiet, Free, HasNode
<1>3. CopySources' /\ Apart'
  BY NoSources DEF AssignFull, Quiet, Free, HasNode
<1>4. CountExact'
  <2>1. \A k \in Node : Cardinality(At(target', k)) = Cardinality(At(target, k))
    <3> DEFINE t == [target EXCEPT ![l] = target[c], ![c] = None]
    <3>1. target \in [Cell -> Node \cup {None}] /\ target[l] = None /\ l # c /\ l # d /\ c # d
      BY DEF TypeOK, Shape, AssignFull, Quiet, Free, HasNode
    <3>2. /\ t[l] = target[c] /\ t[c] = None
          /\ \A x \in Cell : x # l /\ x # c => t[x] = target[x]
      BY <3>1
    <3>3. /\ target'[c] = t[d] /\ target'[d] = None
          /\ \A x \in Cell : x # c /\ x # d => target'[x] = t[x]
      BY <3>1 DEF AssignFull, Quiet, Free, HasNode
    <3> HIDE DEF t, IInv
    <3>4. \A k \in Node : Cardinality(At(t, k)) = Cardinality(At(target, k))
      BY <3>1, <3>2, CountMove
    <3>5. \A k \in Node : Cardinality(At(target', k)) = Cardinality(At(t, k))
      BY <3>2, <3>3, CountMove
    <3> QED
      BY <3>4, <3>5
  <2> QED
    BY <2>1, CountSame DEF AssignFull, Quiet, Free, HasNode
<1>5. EntriesLive'
  BY <1>1, EntriesKept DEF TypeOK, AssignFull, Quiet, Free, HasNode
<1> QED
  BY <1>1, <1>2, <1>3, <1>4, <1>5

\* Two objects exchange their nodes.
LEMMA SwapInv ==
  ASSUME IInv, NEW c \in Cell, NEW d \in Cell, Swap(c, d)
  PROVE  IInv'
<1> USE UclAssumption DEF IInv
<1>1. TypeOK'
  BY DEF TypeOK, Roles, Shape, Container, Swap, Quiet, Free, HasNode
<1>2. Shape'
  BY DEF TypeOK, Shape, Swap, Quiet, Free, HasNode
<1>3. CopySources' /\ Apart'
  BY NoSources DEF Swap, Quiet, Free, HasNode
<1>4. CountExact'
  <2>1. target' = [target EXCEPT ![c] = target[d], ![d] = target[c]] /\ refs' = refs
    BY DEF Swap, Quiet, Free, HasNode
  <2> QED
    BY <2>1, CountSwapped
<1>5. EntriesLive'
  BY <1>1, EntriesKept DEF TypeOK, Swap, Quiet, Free, HasNode
<1> QED
  BY <1>1, <1>2, <1>3, <1>4, <1>5

\* An entry leaves its map and points to its node still.
LEMMA TakeOutInv ==
  ASSUME IInv, NEW d \in Cell, NEW e \in Cell,
         NEW what \in {"object", "dying", "lost"}, TakeOut(d, e, what)
  PROVE  IInv'
<1> USE UclAssumption DEF IInv
<1>1. TypeOK'
  BY DEF TypeOK, Roles, Shape, Container, TakeOut, Entries, Quiet, Free, HasNode
<1>2. Shape'
  BY DEF TypeOK, Roles, Shape, TakeOut, Entries, Quiet, Free, HasNode
<1>3. CopySources' /\ Apart'
  BY NoSources DEF TakeOut, Entries, Quiet, Free, HasNode
<1>4. CountExact'
  BY CountSame DEF TakeOut, Entries, Quiet, Free, HasNode
<1>5. EntriesLive'
  BY <1>1, EntriesKept DEF TypeOK, TakeOut, Entries, Quiet, Free, HasNode
<1> QED
  BY <1>1, <1>2, <1>3, <1>4, <1>5

\* An object without a node goes.
LEMMA DestroyEmptyInv ==
  ASSUME IInv, NEW c \in Cell, DestroyEmpty(c)
  PROVE  IInv'
<1> USE UclAssumption DEF IInv
<1>1. TypeOK'
  BY DEF TypeOK, Roles, Shape, Container, DestroyEmpty, Quiet, Free, HasNode
<1>2. Shape'
  BY DEF TypeOK, Shape, DestroyEmpty, Quiet, Free, HasNode
<1>3. CopySources' /\ Apart'
  BY NoSources DEF DestroyEmpty, Quiet, Free, HasNode
<1>4. CountExact'
  BY CountSame DEF DestroyEmpty, Quiet, Free, HasNode
<1>5. EntriesLive'
  BY <1>1, EntriesKept DEF TypeOK, DestroyEmpty, Quiet, Free, HasNode
<1> QED
  BY <1>1, <1>2, <1>3, <1>4, <1>5

\* An object with a node is about to give it up.
LEMMA DestroyInv ==
  ASSUME IInv, NEW c \in Cell, Destroy(c)
  PROVE  IInv'
<1> USE UclAssumption DEF IInv
<1>1. TypeOK'
  BY DEF TypeOK, Roles, Shape, Container, Destroy, Quiet, Free, HasNode
<1>2. Shape'
  BY DEF TypeOK, Shape, Destroy, Quiet, Free, HasNode
<1>3. CopySources' /\ Apart'
  BY NoSources DEF Destroy, Quiet, Free, HasNode
<1>4. CountExact'
  BY CountSame DEF Destroy, Quiet, Free, HasNode
<1>5. EntriesLive'
  BY <1>1, EntriesKept DEF TypeOK, Destroy, Quiet, Free, HasNode
<1> QED
  BY <1>1, <1>2, <1>3, <1>4, <1>5

\* A container gets an entry for a node.
LEMMA InsertInv ==
  ASSUME IInv, NEW d \in Cell, NEW v \in Cell, NEW e \in Cell, Insert(d, v, e)
  PROVE  IInv'
<1> USE UclAssumption DEF IInv
<1>0. /\ target[d] \in Container /\ target[v] \in Node /\ Container \subseteq Node
      /\ role[e] = "free" /\ target[e] = None /\ owner[e] = None /\ Quiet
  BY DEF TypeOK, Shape, Insert, Free, HasNode, Container
<1>a. /\ role' = [role EXCEPT ![e] = "entry"]
      /\ target' = [target EXCEPT ![e] = target[v]]
      /\ owner' = [owner EXCEPT ![e] = target[d]]
      /\ refs' = [refs EXCEPT ![target[v]] = @ + 1]
      /\ source' = source
  BY DEF Insert
<1>1. TypeOK'
  BY <1>0, <1>a DEF TypeOK, Roles
<1>2. Shape'
  BY <1>0, <1>a DEF TypeOK, Shape
<1>3. CopySources' /\ Apart'
  BY <1>0, <1>a, NoSources DEF Quiet
<1>4. CountExact'
  BY <1>0, <1>a, CountUp
<1>5. EntriesLive'
  <2>1. \A n \in Node : refs'[n] >= refs[n]
    BY <1>0, <1>a DEF TypeOK
  <2>2. refs[target[d]] > 0
    BY <1>0, LiveHeld
  <2> QED
    BY <1>0, <1>1, <1>a, <2>1, <2>2 DEF EntriesLive, TypeOK
<1> QED
  BY <1>1, <1>2, <1>3, <1>4, <1>5

\* A reference that was counted for an entry, and is forgotten.
LEMMA InsertLostInv ==
  ASSUME IInv, NEW d \in Cell, NEW v \in Cell, NEW l \in Cell, InsertLost(d, v, l)
  PROVE  IInv'
<1> USE UclAssumption DEF IInv
<1>1. TypeOK'
  BY DEF TypeOK, Roles, Shape, Container, InsertLost, Quiet, Free, HasNode
<1>2. Shape'
  BY DEF TypeOK, Shape, InsertLost, Quiet, Free, HasNode
<1>3. CopySources' /\ Apart'
  BY NoSources DEF InsertLost, Quiet, Free, HasNode
<1>4. CountExact'
  <2>1. target[l] = None /\ target[v] \in Node
    BY DEF TypeOK, Shape, InsertLost, Quiet, Free, HasNode
  <2>2. target' = [target EXCEPT ![l] = target[v]] /\ refs' = [refs EXCEPT ![target[v]] = @ + 1]
    BY DEF InsertLost
  <2> QED
    BY <2>1, <2>2, CountUp
<1>5. EntriesLive'
  BY <1>1, EntriesKept DEF TypeOK, InsertLost, Quiet, Free, HasNode
<1> QED
  BY <1>1, <1>2, <1>3, <1>4, <1>5

----------------------------------------------------------------------------
(* Copying *)

\* A copy begins when all that exists is complete.
LEMMA CopyConstructInv ==
  ASSUME IInv, NEW c \in Cell, NEW d \in Cell, CopyConstruct(c, d)
  PROVE  IInv'
<1> USE UclAssumption DEF IInv
<1>0. /\ target[d] \in Node /\ Quiet
      /\ role[c] = "free" /\ target[c] = None /\ owner[c] = None
  BY DEF TypeOK, Shape, CopyConstruct, Free, HasNode
<1>a. /\ role' = [role EXCEPT ![c] = "object"]
      /\ source' = [source EXCEPT ![c] = target[d]]
      /\ UNCHANGED <<target, owner, refs>>
  BY DEF CopyConstruct
<1>1. TypeOK'
  BY <1>0, <1>a DEF TypeOK, Roles
<1>2. Shape'
  BY <1>0, <1>a DEF TypeOK, Shape
<1>3. Apart'
  BY <1>0, <1>a DEF Apart, Quiet, TypeOK
<1>4. CopySources'
  <2>1. Live' \in SUBSET Live'
    OBVIOUS
  <2>2. ASSUME NEW x \in Cell, source'[x] # None
        PROVE  source'[x] \in Live'
    <3>1. source'[x] = target[d]
      BY <1>0, <1>a, <2>2 DEF TypeOK, Quiet
    <3>2. refs[target[d]] > 0
      BY <1>0, LiveHeld
    <3> QED
      BY <1>0, <1>a, <3>1, <3>2 DEF Live
  <2>3. ASSUME NEW x \in Cell, owner'[x] \in Live'
        PROVE  target'[x] \in Live'
    <3>1. owner[x] # None
      BY <1>a, <2>3 DEF Live
    <3>2. role[x] = "entry"
      BY <3>1 DEF TypeOK, Roles, Shape
    <3>3. target[x] \in Node
      BY <1>0, <3>2 DEF TypeOK, Shape, Quiet
    <3>4. refs[target[x]] > 0
      BY <3>3, LiveHeld
    <3> QED
      BY <1>a, <3>3, <3>4 DEF Live
  <2> QED
    BY <2>1, <2>2, <2>3 DEF CopySources
<1>5. CountExact' /\ EntriesLive'
  BY <1>a DEF CountExact, Holders, EntriesLive
<1> QED
  BY <1>1, <1>2, <1>3, <1>4, <1>5

\* The new node is in the place of its cell, and its entries, which are to be
\* copied next, are cells that nothing used.
LEMMA CopyNodeInv ==
  ASSUME IInv, NEW c \in Cell, NEW m \in Node, CopyNode(c, m)
  PROVE  IInv'
<1> USE UclAssumption DEF IInv
<1> DEFINE old == Entries(source[c])
<1>1. /\ source[c] \in Node /\ target[c] = None /\ refs[m] = 0
      /\ role[c] \in {"object", "entry"} /\ \A x \in Cell : role[x] # "dying"
  BY DEF TypeOK, Roles, Shape, Apart, CopyNode
<1>2. PICK new \in [old -> {e \in Cell : role[e] = "free"}] :
        LET From(x) == CHOOSE e \in old : new[e] = x
            New == {new[e] : e \in old}
        IN /\ \A e, f \in old : new[e] = new[f] => e = f
           /\ role' = [x \in Cell |-> IF x \in New THEN "entry" ELSE role[x]]
           /\ owner' = [x \in Cell |-> IF x \in New THEN m ELSE owner[x]]
           /\ source' = [x \in Cell |-> IF x \in New THEN target[From(x)]
                                        ELSE IF x = c THEN None ELSE source[x]]
  BY DEF CopyNode
<1> DEFINE From(x) == CHOOSE e \in old : new[e] = x
           New == {new[e] : e \in old}
<1>3. \A x \in New : From(x) \in old /\ x \in Cell /\ role[x] = "free"
  OBVIOUS
<1>4. c \notin New
  BY <1>1, <1>3
<1>5. /\ target' = [target EXCEPT ![c] = m]
      /\ refs' = [refs EXCEPT ![m] = 1]
  BY DEF CopyNode
<1>6. PICK Old \in SUBSET Live :
        /\ \A x \in Cell : source[x] # None => source[x] \in Old
        /\ \A x \in Cell : owner[x] \in Old => target[x] \in Old
  BY DEF CopySources
<1>7. source[c] \in Old /\ m \notin Old /\ owner[c] \notin Old /\ None \notin Old
  BY <1>1, <1>6 DEF Live
<1>8. \A x \in New : target[From(x)] \in Old
  BY <1>3, <1>6, <1>7 DEF Entries
<1>9. \A x \in Cell : owner[x] # m
  BY <1>1 DEF EntriesLive, TypeOK
<1>10. New # {} => m \in Container
  BY <1>1, <1>3 DEF CopyNode, SameKind, Entries, TypeOK, Container
<1>11. /\ role' = [x \in Cell |-> IF x \in New THEN "entry" ELSE role[x]]
       /\ owner' = [x \in Cell |-> IF x \in New THEN m ELSE owner[x]]
       /\ source' = [x \in Cell |-> IF x \in New THEN target[From(x)]
                                    ELSE IF x = c THEN None ELSE source[x]]
  BY <1>2
<1> HIDE DEF New, From, old
<1>12. TypeOK'
  <2>1. Old \subseteq Node
    BY DEF Live
  <2> QED
    BY <1>5, <1>8, <1>10, <1>11, <2>1 DEF TypeOK, Roles
<1>13. Shape'
  <2> SUFFICES ASSUME NEW x \in Cell
               PROVE  /\ role'[x] = "free" => target'[x] = None /\ owner'[x] = None /\ source'[x] = None
                      /\ role'[x] \in {"object", "dying", "lost"} => owner'[x] = None
                      /\ role'[x] = "entry" => owner'[x] # None /\ (target'[x] # None \/ source'[x] # None)
                      /\ role'[x] \in {"dying", "lost"} => target'[x] # None /\ source'[x] = None
                      /\ source'[x] # None => target'[x] = None
    BY DEF Shape
  <2>1. CASE x \in New
    <3>1. role'[x] = "entry" /\ owner'[x] = m /\ source'[x] = target[From(x)]
      BY <1>11, <2>1
    <3>2. target'[x] = None
      BY <1>3, <1>4, <1>5, <2>1 DEF Shape, TypeOK
    <3> QED
      BY <1>7, <1>8, <2>1, <3>1, <3>2
  <2>2. CASE x = c
    BY <1>1, <1>4, <1>5, <1>11, <2>2 DEF Shape, TypeOK
  <2>3. CASE x \notin New /\ x # c
    BY <1>5, <1>11, <2>3 DEF Shape, TypeOK
  <2> QED
    BY <2>1, <2>2, <2>3
<1>14. Apart'
  BY <1>1, <1>11 DEF Apart
<1>15. CopySources'
  <2>1. Old \in SUBSET Live'
    BY <1>5, <1>7 DEF Live, TypeOK
  <2>2. ASSUME NEW x \in Cell, source'[x] # None
        PROVE  source'[x] \in Old
    BY <1>6, <1>8, <1>11, <2>2
  <2>3. ASSUME NEW x \in Cell, owner'[x] \in Old
        PROVE  target'[x] \in Old
    <3>1. owner[x] \in Old
      BY <1>7, <1>11, <2>3
    <3>2. x # c
      BY <1>7, <3>1
    <3> QED
      BY <1>5, <1>6, <3>1, <3>2 DEF TypeOK
  <2> QED
    BY <2>1, <2>2, <2>3 DEF CopySources
<1>16. CountExact'
  <2>1. refs' = [refs EXCEPT ![m] = @ + 1]
    BY <1>1, <1>5 DEF TypeOK
  <2> QED
    BY <1>1, <1>5, <2>1, CountUp
<1>17. EntriesLive'
  <2> SUFFICES ASSUME NEW x \in Cell, owner'[x] # None
               PROVE  refs'[owner'[x]] > 0
    BY DEF EntriesLive
  <2>1. CASE x \in New
    BY <1>5, <1>11, <2>1 DEF TypeOK
  <2>2. CASE x \notin New
    BY <1>5, <1>9, <1>11, <2>2 DEF EntriesLive, TypeOK, Container
  <2> QED
    BY <2>1, <2>2
<1> QED
  BY <1>12, <1>13, <1>14, <1>15, <1>16, <1>17

----------------------------------------------------------------------------
(* Giving up a reference *)

\* With the last reference to a container its entries are given up.
LEMMA UnrefInv ==
  ASSUME IInv, NEW c \in Cell, Unref(c)
  PROVE  IInv'
<1> USE UclAssumption DEF IInv
<1> DEFINE n == target[c]
           dead == IF refs[n] = 1 THEN Entries(n) ELSE {}
<1>1. /\ n \in Node /\ owner[c] = None /\ refs[n] > 0
      /\ role[c] = "dying" /\ \A x \in Cell : source[x] = None
  <2>1. role[c] = "dying"
    BY DEF Unref
  <2>2. n \in Node /\ owner[c] = None /\ \A x \in Cell : source[x] = None
    BY <2>1 DEF TypeOK, Shape, Apart
  <2> QED
    BY <2>1, <2>2, LiveHeld
<1>2. /\ role' = [x \in Cell |-> IF x = c THEN "free"
                                 ELSE IF x \in dead THEN "dying" ELSE role[x]]
      /\ owner' = [x \in Cell |-> IF x \in dead THEN None ELSE owner[x]]
      /\ target' = [target EXCEPT ![c] = None]
      /\ refs' = [refs EXCEPT ![n] = @ - 1]
      /\ source' = source
  BY DEF Unref
<1>3. \A x \in dead : x \in Cell /\ x # c /\ owner[x] = n /\ target[x] # None
  <2> SUFFICES ASSUME NEW x \in dead
               PROVE  x \in Cell /\ x # c /\ owner[x] = n /\ target[x] # None
    OBVIOUS
  <2>1. x \in Cell /\ owner[x] = n
    BY DEF Entries
  <2>2. role[x] = "entry"
    BY <1>1, <2>1 DEF TypeOK, Roles, Shape
  <2> QED
    BY <1>1, <2>1, <2>2 DEF Shape
<1>4. refs[n] = 1 => \A x \in Cell : owner[x] = n => x \in dead
  BY DEF Entries
<1> HIDE DEF dead
<1>5. TypeOK'
  BY <1>1, <1>2 DEF TypeOK, Roles
<1>6. Shape'
  BY <1>1, <1>2, <1>3 DEF TypeOK, Shape
<1>7. CopySources' /\ Apart'
  BY <1>1, <1>2, NoSources
<1>8. CountExact'
  BY <1>1, <1>2, CountDown
<1>9. EntriesLive'
  <2> SUFFICES ASSUME NEW x \in Cell, owner'[x] # None
               PROVE  refs'[owner'[x]] > 0
    BY DEF EntriesLive
  <2>1. x \notin dead /\ owner[x] # None /\ owner'[x] = owner[x]
    BY <1>2
  <2>2. owner[x] \in Node /\ refs[owner[x]] > 0
    BY <2>1 DEF EntriesLive, TypeOK, Container
  <2>3. CASE owner[x] = n
    BY <1>1, <1>2, <1>4, <2>1, <2>2, <2>3 DEF TypeOK
  <2>4. CASE owner[x] # n
    BY <1>2, <2>1, <2>2, <2>4 DEF TypeOK
  <2> QED
    BY <2>3, <2>4
<1> QED
  BY <1>5, <1>6, <1>7, <1>8, <1>9

----------------------------------------------------------------------------
(* The invariant *)

\* There is nothing at the start.
LEMMA InitIInv == Init => IInv
<1> SUFFICES ASSUME Init
             PROVE  IInv
  OBVIOUS
<1> USE UclAssumption DEF Init
<1>1. TypeOK /\ Shape /\ Apart /\ EntriesLive
  BY DEF TypeOK, Roles, Shape, Apart, EntriesLive
<1>2. CopySources
  <2>1. {} \in SUBSET Live /\ \A c \in Cell : source[c] # None => source[c] \in {}
    OBVIOUS
  <2> QED
    BY <2>1 DEF CopySources
<1>3. CountExact
  <2> SUFFICES ASSUME NEW n \in Node
               PROVE  refs[n] = Cardinality(Holders(n))
    BY DEF CountExact
  <2>1. Holders(n) = {}
    BY DEF Holders
  <2> QED
    BY <2>1, FS_EmptySet
<1> QED
  BY <1>1, <1>2, <1>3 DEF IInv

\* Objects that are made for a node that the program or a container points to.
LEMMA FetchInv ==
  ASSUME IInv, NEW c \in Cell, NEW d \in Cell, NEW e \in Cell,
         RefObject(c, d) \/ Fetch(c, d, e)
  PROVE  IInv'
<1> USE UclAssumption
<1>1. CASE RefObject(c, d)
  BY <1>1, RefInv DEF RefObject, HasNode
<1>2. CASE Fetch(c, d, e)
  <2>1. owner[e] # None /\ Quiet
    BY <1>2 DEF Fetch, HasNode, Entries
  <2>2. target[e] # None
    BY <2>1 DEF IInv, TypeOK, Roles, Shape, Quiet
  <2> QED
    BY <1>2, <2>2, RefInv DEF Fetch
<1> QED
  BY <1>1, <1>2

\* Every step keeps the invariant.
LEMMA StepIInv == IInv /\ [Next]_vars => IInv'
<1> SUFFICES ASSUME IInv, [Next]_vars
             PROVE  IInv'
  OBVIOUS
<1>1. ASSUME NEW c \in Cell, NEW n \in Node, Create(c, n) \/ CopyNode(c, n)
      PROVE  IInv'
  BY <1>1, CreateInv, CopyNodeInv
<1>2. ASSUME NEW c \in Cell, NEW d \in Cell, RefObject(c, d)
      PROVE  IInv'
  BY <1>2, FetchInv
<1>3. ASSUME NEW c \in Cell, NEW d \in Cell,
             MoveConstruct(c, d) \/ AssignEmpty(c, d) \/ Swap(c, d) \/ CopyConstruct(c, d)
      PROVE  IInv'
  BY <1>3, MoveConstructInv, AssignEmptyInv, SwapInv, CopyConstructInv
<1>4. ASSUME NEW c \in Cell, NEW d \in Cell, Remove(c, d) \/ Pop(c, d) \/ PopMismatch(c, d)
      PROVE  IInv'
  BY <1>4, TakeOutInv DEF Remove, Pop, PopMismatch
<1>5. ASSUME NEW c \in Cell, NEW d \in Cell, NEW e \in Cell,
             Fetch(c, d, e) \/ Insert(c, d, e) \/ InsertLost(c, d, e) \/ AssignFull(c, d, e)
      PROVE  IInv'
  BY <1>5, FetchInv, InsertInv, InsertLostInv, AssignFullInv
<1>6. ASSUME NEW c \in Cell, DestroyEmpty(c) \/ Destroy(c) \/ Unref(c)
      PROVE  IInv'
  BY <1>6, DestroyEmptyInv, DestroyInv, UnrefInv
<1>7. CASE UNCHANGED vars
  BY <1>7
  DEF vars, IInv, TypeOK, Shape, Apart, CopySources, CountExact, EntriesLive, Live, Holders
<1> QED
  BY <1>1, <1>2, <1>3, <1>4, <1>5, <1>6, <1>7 DEF Next

\* The invariant holds in every state of every behaviour.
LEMMA IInvAlways == Spec => []IInv
  BY InitIInv, StepIInv, PTL DEF Spec

----------------------------------------------------------------------------
(* The theorems *)

\* Counts are natural numbers at every step: none ever falls below zero.
THEOREM TypeCorrect == Spec => []TypeOK
<1>1. IInv => TypeOK
  BY DEF IInv
<1> QED
  BY <1>1, IInvAlways, PTL

\* Whatever the calls of nihil.ucl do, in any order and with any containers, a
\* node's count is the number of references to it.
THEOREM CountExactAlways == Spec => []CountExact
<1>1. IInv => CountExact
  BY DEF IInv
<1> QED
  BY <1>1, IInvAlways, PTL

\* An entry's container exists, in every state.
THEOREM EntriesLiveAlways == Spec => []EntriesLive
<1>1. IInv => EntriesLive
  BY DEF IInv
<1> QED
  BY <1>1, IInvAlways, PTL

\* Once the program has no C++ object left, what it gave up has been freed, but
\* for what a reference that was forgotten, or a cycle, keeps.
THEOREM ReclaimedAlways == Spec => []Reclaimed
<1>1. ASSUME IInv
      PROVE  Reclaimed
  <2> USE UclAssumption, <1>1 DEF IInv
  <2> SUFFICES ASSUME NoneLeft, NEW kept \in SUBSET Live,
                      \A c \in Cell : role[c] = "lost" \/ owner[c] \in kept => target[c] \in kept,
                      WellFounded(Live \ kept), kept # Live
               PROVE  FALSE
    BY DEF Reclaimed
  <2>1. Live \ kept \in (SUBSET (Live \ kept)) \ {{}}
    OBVIOUS
  <2>2. PICK n \in Live \ kept : \A c \in Cell : owner[c] \in Live \ kept => target[c] # n
    BY <2>1 DEF WellFounded
  <2>3. n \in Node /\ refs[n] > 0
    BY <2>2 DEF Live
  <2>4. PICK c \in Cell : target[c] = n
    BY <2>3, LiveHeld
  <2>5. role[c] = "entry"
    <3>1. role[c] \in Roles /\ role[c] \notin {"object", "dying"} /\ role[c] # "lost"
      BY <2>2, <2>4 DEF NoneLeft, TypeOK
    <3>2. role[c] # "free"
      BY <2>3, <2>4 DEF Shape
    <3> QED
      BY <3>1, <3>2 DEF Roles
  <2>6. owner[c] \in Live
    <3>1. owner[c] # None
      BY <2>5 DEF Shape
    <3>2. owner[c] \in Node /\ refs[owner[c]] > 0
      BY <3>1 DEF TypeOK, Container, EntriesLive
    <3> QED
      BY <3>2 DEF Live
  <2> QED
    BY <2>2, <2>4, <2>6
<1> QED
  BY <1>1, IInvAlways, PTL

----------------------------------------------------------------------------
(* nihil.ucl implements Sharing *)

LEMMA InitSharing == Init => Abstract!Init
  BY DEF Init, Abstract!Init, Live

\* A step that changes no pointer and no count changes nothing that is shared.
LEMMA Stutter ==
  ASSUME UNCHANGED <<target, refs>>
  PROVE  UNCHANGED Abstract!vars
  BY DEF Abstract!vars, Live

\* Counting once more, or once less but not to zero, keeps the same nodes alive.
LEMMA LiveSame ==
  ASSUME TypeOK, NEW n \in Node, refs[n] > 0, refs' = [refs EXCEPT ![n] = @ + 1]
  PROVE  Live' = Live
  BY DEF TypeOK, Live

LEMMA CreateSharing ==
  ASSUME TypeOK, NEW c \in Cell, NEW n \in Node, target[c] = None, refs[n] = 0,
         target' = [target EXCEPT ![c] = n], refs' = [refs EXCEPT ![n] = 1]
  PROVE  Abstract!Create(c, n)
<1>1. Live' = Live \cup {n} /\ n \notin Live
  BY DEF TypeOK, Live
<1> QED
  BY <1>1 DEF Abstract!Create

LEMMA ShareSharing ==
  ASSUME IInv, NEW c \in Cell, NEW d \in Cell, target[c] = None, target[d] # None,
         target' = [target EXCEPT ![c] = target[d]], refs' = [refs EXCEPT ![target[d]] = @ + 1]
  PROVE  Abstract!Share(c, d)
<1>1. target[d] \in Node
  BY DEF IInv, TypeOK
<1>2. refs[target[d]] > 0
  BY <1>1, LiveHeld DEF IInv
<1>3. Live' = Live
  BY <1>1, <1>2, LiveSame DEF IInv
<1> QED
  BY <1>3 DEF Abstract!Share

LEMMA GiveSharing ==
  ASSUME TypeOK, NEW c \in Cell, NEW d \in Cell, target[c] = None,
         target' = [target EXCEPT ![c] = target[d], ![d] = None], refs' = refs
  PROVE  Abstract!Give(c, d) \/ UNCHANGED Abstract!vars
<1>1. Live' = Live
  BY DEF Live
<1>2. CASE target[d] # None
  BY <1>1, <1>2 DEF Abstract!Give
<1>3. CASE target[d] = None
  <2>1. target' = target
    BY <1>3 DEF TypeOK
  <2> QED
    BY <1>1, <2>1 DEF Abstract!vars
<1> QED
  BY <1>2, <1>3

LEMMA DropSharing ==
  ASSUME IInv, NEW c \in Cell, target[c] # None,
         target' = [target EXCEPT ![c] = None], refs' = [refs EXCEPT ![target[c]] = @ - 1]
  PROVE  Abstract!Drop(c)
<1> DEFINE n == target[c]
<1>1. n \in Node /\ refs \in [Node -> Nat] /\ target \in [Cell -> Node \cup {None}]
  BY DEF IInv, TypeOK
<1>2. IsFiniteSet(At(target, n)) /\ refs[n] = Cardinality(At(target, n)) /\ c \in At(target, n)
  <2>1. c \in At(target, n)
    BY DEF At
  <2>2. refs[n] = Cardinality(Holders(n))
    BY <1>1 DEF IInv, CountExact
  <2> HIDE DEF n
  <2> QED
    BY <2>1, <2>2, AtFinite, HoldersAt
<1> HIDE DEF n
<1>3. refs[n] = 1 <=> At(target, n) = {c}
  BY <1>2, FS_Singleton
<1>4. At(target, n) = {c} <=> ~ \E x \in Cell \ {c} : target[x] = n
  BY <1>2 DEF At
<1>5. refs[n] # 0
  BY <1>2, FS_EmptySet
<1>6. refs' = [refs EXCEPT ![n] = @ - 1]
  BY DEF n
<1>7. Live' = IF refs[n] = 1 THEN Live \ {n} ELSE Live
  BY <1>1, <1>5, <1>6 DEF Live
<1> QED
  BY <1>3, <1>4, <1>7 DEF Abstract!Drop, n

\* Each step is one of Sharing, or changes nothing that is shared.
LEMMA StepSharing == IInv /\ [Next]_vars => [Abstract!Next]_(Abstract!vars)
<1> SUFFICES ASSUME IInv, [Next]_vars
             PROVE  Abstract!Next \/ UNCHANGED Abstract!vars
  OBVIOUS
<1> USE UclAssumption DEF IInv
<1>1. ASSUME NEW c \in Cell, NEW n \in Node, Create(c, n)
      PROVE  Abstract!Next
  <2>1. target[c] = None
    BY <1>1 DEF Create, Free, Shape
  <2>2. Abstract!Create(c, n)
    BY <1>1, <2>1, CreateSharing DEF Create
  <2> QED
    BY <2>2 DEF Abstract!Next
<1>2. ASSUME NEW c \in Cell, NEW n \in Node, CopyNode(c, n)
      PROVE  Abstract!Next
  <2>1. target[c] = None
    BY <1>2 DEF CopyNode, Shape
  <2>2. Abstract!Create(c, n)
    BY <1>2, <2>1, CreateSharing DEF CopyNode
  <2> QED
    BY <2>2 DEF Abstract!Next
<1>3. ASSUME NEW c \in Cell, NEW d \in Cell, Ref(c, d), target[d] # None
      PROVE  Abstract!Next
  <2>1. target[c] = None
    BY <1>3 DEF Ref, Free, Shape
  <2>2. Abstract!Share(c, d)
    BY <1>3, <2>1, ShareSharing DEF Ref
  <2> QED
    BY <2>2 DEF Abstract!Next
<1>4. ASSUME NEW c \in Cell, NEW d \in Cell, RefObject(c, d)
      PROVE  Abstract!Next
  BY <1>3, <1>4 DEF RefObject, HasNode
<1>5. ASSUME NEW c \in Cell, NEW d \in Cell, NEW e \in Cell, Fetch(c, d, e)
      PROVE  Abstract!Next
  <2>1. owner[e] # None /\ Quiet
    BY <1>5 DEF Fetch, HasNode, Entries
  <2>2. target[e] # None
    BY <2>1 DEF TypeOK, Roles, Shape, Quiet
  <2> QED
    BY <1>3, <1>5, <2>2 DEF Fetch
<1>6. ASSUME NEW c \in Cell, NEW d \in Cell, MoveConstruct(c, d) \/ AssignEmpty(c, d)
      PROVE  Abstract!Next \/ UNCHANGED Abstract!vars
  <2>1. target[c] = None
    BY <1>6 DEF MoveConstruct, AssignEmpty, Free, Shape
  <2>2. target' = [target EXCEPT ![c] = target[d], ![d] = None] /\ refs' = refs
    BY <1>6 DEF MoveConstruct, AssignEmpty
  <2>3. Abstract!Give(c, d) \/ UNCHANGED Abstract!vars
    BY <2>1, <2>2, GiveSharing
  <2> QED
    BY <2>3 DEF Abstract!Next
<1>7. ASSUME NEW c \in Cell, NEW d \in Cell, NEW l \in Cell, AssignFull(c, d, l)
      PROVE  Abstract!Next
  <2>1. /\ target[l] = None /\ l # c /\ l # d /\ c # d /\ Live' = Live
        /\ target' = [target EXCEPT ![c] = target[d], ![d] = None, ![l] = target[c]]
    BY <1>7 DEF AssignFull, Free, Shape, Live
  <2>2. Abstract!Pass(c, d, l)
    BY <2>1 DEF Abstract!Pass
  <2> QED
    BY <2>2 DEF Abstract!Next
<1>8. ASSUME NEW c \in Cell, NEW d \in Cell, Swap(c, d)
      PROVE  Abstract!Next
  <2>1. Abstract!Exchange(c, d)
    BY <1>8 DEF Swap, Abstract!Exchange, Live
  <2> QED
    BY <2>1 DEF Abstract!Next
<1>9. ASSUME NEW c \in Cell, NEW d \in Cell, NEW e \in Cell, Insert(c, d, e)
      PROVE  Abstract!Next
  <2>1. target[e] = None /\ target[d] # None
    BY <1>9 DEF Insert, Free, HasNode, Shape
  <2>2. Abstract!Share(e, d)
    BY <1>9, <2>1, ShareSharing DEF Insert
  <2> QED
    BY <2>2 DEF Abstract!Next
<1>10. ASSUME NEW c \in Cell, Unref(c)
       PROVE  Abstract!Next
  <2>1. target[c] # None
    BY <1>10 DEF Unref, Shape
  <2>2. /\ target' = [target EXCEPT ![c] = None]
        /\ refs' = [refs EXCEPT ![target[c]] = @ - 1]
    BY <1>10 DEF Unref
  <2>3. Abstract!Drop(c)
    BY <2>1, <2>2, DropSharing
  <2> QED
    BY <2>3 DEF Abstract!Next
<1>11. ASSUME NEW c \in Cell, NEW d \in Cell,
              CopyConstruct(c, d) \/ Remove(c, d) \/ Pop(c, d) \/ PopMismatch(c, d)
       PROVE  UNCHANGED Abstract!vars
  BY <1>11, Stutter DEF CopyConstruct, Remove, Pop, PopMismatch, TakeOut
<1>12. ASSUME NEW c \in Cell, DestroyEmpty(c) \/ Destroy(c)
       PROVE  UNCHANGED Abstract!vars
  BY <1>12, Stutter DEF DestroyEmpty, Destroy
<1>13. CASE UNCHANGED vars
  BY <1>13, Stutter DEF vars
<1>14. ASSUME NEW c \in Cell, NEW d \in Cell, NEW l \in Cell, InsertLost(c, d, l)
       PROVE  Abstract!Next
  <2>1. target[l] = None /\ target[d] # None
    BY <1>14 DEF InsertLost, Free, HasNode, Shape
  <2>2. Abstract!Share(l, d)
    BY <1>14, <2>1, ShareSharing DEF InsertLost
  <2> QED
    BY <2>2 DEF Abstract!Next
<1> QED
  BY <1>1, <1>2, <1>4, <1>5, <1>6, <1>7, <1>8, <1>9, <1>10, <1>11, <1>12, <1>13, <1>14
  DEF Next

\* Reference counting as nihil.ucl does it is shared ownership: a node dies at
\* the moment the last reference to it is given up.
THEOREM UclImplementsSharing == Spec => ImplementsSharing
  BY InitSharing, StepSharing, IInvAlways, PTL
  DEF Spec, ImplementsSharing, Abstract!Spec
=============================================================================
