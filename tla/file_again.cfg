CONSTANTS
  PrefixLen = 3
  PostfixLen = 2
  BufLen = 3
  Records = 2
SPECIFICATION Spec
\* The records are bounded.
CHECK_DEADLOCK FALSE
INVARIANTS
  WholeRecord
