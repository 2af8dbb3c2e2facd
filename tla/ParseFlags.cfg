SPECIFICATION FlagsSpec
CONSTANTS
  Char <- MCChar
  Argvs <- MCArgvs
  Flags <- MCFlags
  Arguments <- MCArguments
  Digit <- MCDigit
  MaxDigits = 1
  None = None
INVARIANTS
  FlagsTypeOK
  FollowsGuidelines
CHECK_DEADLOCK FALSE
