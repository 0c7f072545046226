CONSTANTS
  Capacity = 1
  Policy = "drop"
  Data <- MCData
  Empty <- MCEmpty
  Finalizers = {watcher}
  ChunkSize = 2
  MaxSent = 3
  Newline = 0
  Bytes = {1, 2, 3}
  MaxInput = 3
  NewlineSets = {{2}}
SPECIFICATION PStuckSpec
\* The threads exit.
CHECK_DEADLOCK FALSE
PROPERTIES
  QueueContract
  ImplementsLines
  DropKeepsReading
