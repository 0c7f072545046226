CONSTANTS
  ChunkSize = 3
  Newline = nl
  Bytes = {a, b}
  MaxInput = 6
SPECIFICATION FrameLiveSpec
\* The writer exits.
CHECK_DEADLOCK FALSE
INVARIANTS
  FrameInv
  NothingLost
PROPERTIES
  SplitsLines
  BlockFinished
