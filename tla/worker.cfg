CONSTANTS
  Capacity = 2
  Policy = "wait"
  Data = {d}
  Empty = Empty
  Finalizers = {"main", "watcher"}
  Faults = TRUE
  TextLen = 200
SPECIFICATION WLiveSpec
\* The process ends, or hangs after a failed pthread_create.
CHECK_DEADLOCK FALSE
INVARIANTS
  WInv
  WorkersGoneAtDestroy
  FailureExplained
  ErrorRowFits
PROPERTIES
  ProcessEnds
  CancelledEnd
