SPECIFICATION Spec
CONSTANTS
  p1 = p1
  a = a
  b = b
  u = u
  v = v
  Other = Other
  Foreign = Foreign
  None = None
  Prog <- MCProg
  Names <- MCNames
  Value <- MCValue
  Edits <- MCEdits
  MayOverlap = FALSE
  MayCrash = TRUE
  MayWriteShort = TRUE
INVARIANTS
  TypeOK
PROPERTIES
  SettingsSurvive
  NothingLost
