\* naive6.cpp and smart6.cpp, each organization by itself.
CONSTANTS
  N = 6
  Orders = {"naive", "smart"}
  Orgs = {0, 1, 2}
  Addr <- MCAddr
  Value <- MCValue
  WORDS_PER_BLOCK = 4
  BLOCKS_IN_MEMORY = 32
  BLOCKS_IN_CACHE = 8
  NUM_OF_SET = 4
  Tag <- MCTag
  CounterSize = 65536
  InitTag = {32}
  InitData <- MCData
  MaxAccesses = 864
  MaxPuts = 216
SPECIFICATION OnceSpec
INVARIANTS
  PartialSums
  SmartReuses
CHECK_DEADLOCK FALSE
