SPECIFICATION Spec
CONSTANTS
  Stub = Stub
  Command <- MCCommand
  Word <- MCWord
  Path <- MCPath
  Args <- MCArgs
INVARIANTS
  TypeOK
  TreeHoldsCommands
  DuplicatesThrow
  FindsLongest
