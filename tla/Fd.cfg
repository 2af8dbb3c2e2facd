SPECIFICATION Spec
CONSTANTS
  o1 = o1
  o2 = o2
  o3 = o3
  Invalid = Invalid
  Dead = Dead
  OverwritesOpen = FALSE
  Obj <- MCObj
  Fileno <- MCFileno
  Inherited <- MCInherited
SYMMETRY MCSymmetry
INVARIANTS
  TypeOK
  OneHolder
  HeldIsOpen
  NoLeak
PROPERTIES
  ImplementsHandles
