SPECIFICATION FairSpec
CONSTANTS
  NChildren = 2
  Jobs <- MCJobs
  MaxFileno = 8
  Capacity = 2
  Input = 2
  Output = 3
  Inserting = TRUE
  ReadFails = FALSE
  None = None
CHECK_DEADLOCK FALSE
INVARIANTS
  TypeOK
  ChildWired
  CaptureComplete
  ParentEnds
PROPERTIES
  Terminates
