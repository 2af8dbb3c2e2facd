SPECIFICATION Spec
CONSTANTS
  c1 = c1
  c2 = c2
  c3 = c3
  c4 = c4
  c5 = c5
  a1 = a1
  m1 = m1
  m2 = m2
  x1 = x1
  x2 = x2
  None = None
  Cell <- MCCell
  Node <- MCNode
  Array <- MCArray
  Map <- MCMap
SYMMETRY MCSymmetry
INVARIANTS
  TypeOK
  CountExact
  EntriesLive
  Reclaimed
PROPERTIES
  ImplementsSharing
