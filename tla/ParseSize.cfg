SPECIFICATION SizeSpec
CONSTANTS
  Limits <- MCLimits
  Inputs <- MCInputs
  Kilo = 4
INVARIANTS
  NothingWraps
  Correct
CHECK_DEADLOCK FALSE
