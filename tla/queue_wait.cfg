CONSTANTS
  Capacity = 3
  Policy = "wait"
  Data = {d1, d2}
  Empty = Empty
  Finalizers = {"watcher"}
SPECIFICATION LiveSpec
\* Every thread may be done with the queue.
CHECK_DEADLOCK FALSE
INVARIANTS
  IInv
  NoSharedBlock
PROPERTIES
  HeldBlockStable
  ImplementsChannel
  PushAnswered
  FinalizeEndsStream
