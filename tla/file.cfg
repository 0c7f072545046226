CONSTANTS
  PrefixLen = 3
  PostfixLen = 2
  BufLen = 3
  Records = 2
SPECIFICATION LiveSpec
\* The records are bounded.
CHECK_DEADLOCK FALSE
INVARIANTS
  FileInv
  CallConserves
PROPERTIES
  CallReturns
