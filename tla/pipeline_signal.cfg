CONSTANTS
  Capacity = 1
  Policy = "wait"
  Data <- MCData
  Empty <- MCEmpty
  Finalizers = {watcher}
  ChunkSize = 2
  MaxSent = 2
  Newline = 0
  Bytes = {1, 2}
  MaxInput = 2
  NewlineSets = {{2}}
SPECIFICATION PLiveSpec
\* The threads exit.
CHECK_DEADLOCK FALSE
PROPERTIES
  GracefulShutdown
