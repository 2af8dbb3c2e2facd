SPECIFICATION Spec
CONSTANTS
  o1 = o1
  o2 = o2
  o3 = o3
  p1 = p1
  p2 = p2
  p3 = p3
  p4 = p4
  None = None
  Dead = Dead
  OverwritesHeld = FALSE
  Interrupts = FALSE
  ReusesPid = FALSE
  Obj <- MCObj
  Pid <- MCPid
SYMMETRY MCSymmetry
INVARIANTS
  TypeOK
  OneHolder
  HeldIsChild
  NoLeak
PROPERTIES
  ImplementsHandles
