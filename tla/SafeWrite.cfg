SPECIFICATION Spec
CONSTANTS
  w1 = w1
  w2 = w2
  w3 = w3
  a = a
  b = b
  o = o
  None = None
  Writer <- MCWriter
  Block <- MCBlock
  Payload <- MCPayload
  Original <- MCOriginal
  MayOverlap = TRUE
  MayCrash = TRUE
  MayWriteShort = TRUE
SYMMETRY MCSymmetry
INVARIANTS
  TypeOK
  NoLitter
PROPERTIES
  SuccessWrites
  ErrorKeepsTarget
  ReplacedAtOnce
