SPECIFICATION Spec
CONSTANTS
  p1 = p1
  p2 = p2
  o1 = o1
  o2 = o2
  n1 = n1
  n2 = n2
  f1 = f1
  f2 = f2
  Foreign = Foreign
  None = None
  Proc <- MCProc
  Obj <- MCObj
  Name <- MCName
  File <- MCFile
INVARIANTS
  TypeOK
  NamesOwnFile
  NoLitter
PROPERTIES
  Returns
