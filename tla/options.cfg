CONSTANTS
  Names = {k1, k2, k3}
  Vals = {"bare", "ctl"}
  Cap = 3
  MaxKey = 32
  MaxVal = 512
  KeyLens = {0, 32, 33}
  ValLens = {0, 512, 513}
  TextLen = 200
  Modulus = 64
  KB = 4
  ChunkMin = 4
  ChunkDef = 8
  ChunkMax = 32
  BufferMin = 1
  BufferDef = 4
  BufferMax = 10
  PathMax = 8
  ChunkNumbers <- MCChunkNumbers
  BufferNumbers <- MCBufferNumbers
  Paths <- MCPaths
  Cwd <- MCCwd
  Plain <- MCPlain
  MaxOptions = 4
  CountMod = 4
  FlagCounts = {0, 2, 4}
SPECIFICATION CSpec
SYMMETRY MCSymmetry
\* The program ends.
CHECK_DEADLOCK FALSE
INVARIANTS
  LastValueWins
  SizesAsRead
  QueueGetsSaneSizes
  PrefixFits
  PrefixAwaitsValue
  FailureExplained
PROPERTIES
  OutDirMade
