SPECIFICATION MCSpec
CHECK_DEADLOCK FALSE
CONSTANTS
  Irps = {i1, i2, i3, i4}
  NoIrp = NoIrp
  Callers = {c1, c2}
  Keys = {1, 2, 3}
  Lowest = 4
  Highest = 31
  PageSize = 2
  Granularity = 4
  Sizes = {1, 7, 12}
  Bases = {9, 22}
  Limits = {31, 15, 3}
  Volumes = {v1, v2}
  NoVolume = NoVolume
  FscPages = {1, 2}
  FirstSize = 2
  Growth = 1
  MaxSize = 5
  PtesPerTable = 4
  Tables = 2
  EvenPages = 8
  OddPages = 0
  Requests = {1, 2, 5, 7}
  PoolSize = 32
  ChunkOverhead = 1
  ChunkUnit = 4
  PoolPages = 3
  PoolBytes = {11, 15, 16, 33}
INVARIANTS
    DqOneAtATime
    VadsPartition
    SmPtesPartition
    PoolBlocksApart
    FscMappedStays
PROPERTIES
    DqNearestOldestNext
    VadImplementsAddressSpace
