CONSTANTS
  Capacity = 1
  Policy = "wait"
  Data = {d}
  Empty = Empty
  Finalizers = {"main", "watcher"}
  Faults = FALSE
  TextLen = 200
SPECIFICATION WSpec
\* The process ends, or hangs after a failed pthread_create.
CHECK_DEADLOCK FALSE
INVARIANTS
  NoUseAfterDestroy
