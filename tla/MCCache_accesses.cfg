\* Each organization: more blocks than a set, or the cache, has room for.
CONSTANTS
  Orgs = {0, 1, 2}
  Addr = {0, 1, 2, 4, 6, 8}
  Value = {0, 1}
  WORDS_PER_BLOCK = 2
  BLOCKS_IN_MEMORY = 5
  BLOCKS_IN_CACHE = 4
  NUM_OF_SET = 2
  Tag = {0, 1, 2, 3, 4, 9}
  CounterSize = 32
  InitTag = {9}
  InitData <- MCZeroData
  MaxAccesses = 6
  MaxPuts = 2
SPECIFICATION HSpec
INVARIANTS
  TypeOK
  Coherent
  KeepsMostRecent
  TimeAccounted
PROPERTY ImplementsMemory
CHECK_DEADLOCK FALSE
