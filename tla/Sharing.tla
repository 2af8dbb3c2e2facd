------------------------------ MODULE Sharing ------------------------------
(***************************************************************************)
(* What shared ownership promises, with nothing about how it is kept.  A   *)
(* resource lives as long as some holder holds it: it comes to life in the *)
(* hands of one holder, whoever holds it may let others hold it, and it    *)
(* dies at the moment the last of them lets go, neither before nor after.  *)
(***************************************************************************)
CONSTANTS
  Holder,   \* who may hold a resource
  Resource,
  None      \* no resource

VARIABLES
  holds,    \* holds[h]: the resource that h holds, or None
  live      \* the resources that live

vars == <<holds, live>>

Init ==
  /\ holds = [h \in Holder |-> None]
  /\ live = {}

Create(h, r) ==
  /\ holds[h] = None
  /\ r \notin live
  /\ holds' = [holds EXCEPT ![h] = r]
  /\ live' = live \cup {r}

\* g lets h hold its resource too.
Share(h, g) ==
  /\ holds[h] = None
  /\ holds[g] # None
  /\ holds' = [holds EXCEPT ![h] = holds[g]]
  /\ UNCHANGED live

\* g hands its resource to h.
Give(h, g) ==
  /\ holds[h] = None
  /\ holds[g] # None
  /\ holds' = [holds EXCEPT ![h] = holds[g], ![g] = None]
  /\ UNCHANGED live

\* g hands its resource to h, and h what it had to k.
Pass(h, g, k) ==
  /\ h # g
  /\ holds[k] = None
  /\ k \notin {h, g}
  /\ holds' = [holds EXCEPT ![h] = holds[g], ![g] = None, ![k] = holds[h]]
  /\ UNCHANGED live

Exchange(h, g) ==
  /\ holds' = [holds EXCEPT ![h] = holds[g], ![g] = holds[h]]
  /\ UNCHANGED live

\* The last one to let go ends the resource.
Drop(h) ==
  /\ holds[h] # None
  /\ holds' = [holds EXCEPT ![h] = None]
  /\ live' = IF \E g \in Holder \ {h} : holds[g] = holds[h]
             THEN live
             ELSE live \ {holds[h]}

Next ==
  \E h \in Holder :
    \/ Drop(h)
    \/ \E r \in Resource : Create(h, r)
    \/ \E g \in Holder : Share(h, g) \/ Give(h, g) \/ Exchange(h, g)
    \/ \E g, k \in Holder : Pass(h, g, k)

Spec == Init /\ [][Next]_vars
=============================================================================
