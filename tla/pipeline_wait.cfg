CONSTANTS
  Capacity = 2
  Policy = "wait"
  Data <- MCData
  Empty <- MCEmpty
  Finalizers = {watcher}
  ChunkSize = 2
  MaxSent = 3
  Newline = 0
  Bytes = {1, 2, 3}
  MaxInput = 3
  NewlineSets = {{1, 3}}
SPECIFICATION PLiveSpec
\* The threads exit.
CHECK_DEADLOCK FALSE
INVARIANTS
  PInv
  ShutdownLossBounded
PROPERTIES
  QueueContract
  ImplementsLines
  LinesArrive
  EofDrains
