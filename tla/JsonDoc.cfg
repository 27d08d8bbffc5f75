SPECIFICATION MCSpec
CONSTANTS
  Parts = {"array", "object", "pool", "dyn", "doc", "file"}
  MaxValues = 4
  Keys = {k1, k2, k3}
  Vals = {v1, v2, v3}
  Names = {a, b}
  Buffers = {7, 8, 25}
  Sizes = {1, 3, 6, 10}
  MinGrowth = 4
  DynSizes = {1, 3, 5}
  Step = 2
  Addresses = {1, 2, 3}
  Docs = {1}
  Lens = {0, 2}
  Counts = {3}
  PoolSizes = {4}
  FirstChunk = 2
  LargestChunk = 4
  MostChunks = 2
  MostBytes = 3
  Padding = 2
  ChunkMin = 1
  ChunkMax = 2
SYMMETRY Symmetry
VIEW View
INVARIANTS
  PoolTiles
  DynListsExact
  RoomIsOwned
  FilesWhole
PROPERTIES
  ImplementsSequence
  ImplementsPairs
CHECK_DEADLOCK FALSE
