CONSTANTS
  Alphabet = {"0", "1", "-", "+", ".", "e", "quote", "ctl", "word"}
  MaxLen = 6
  EscapeMul = 6
SPECIFICATION Spec
\* The value ends.
CHECK_DEADLOCK FALSE
INVARIANTS
  BareIffLiteral
  EscapedWhole
