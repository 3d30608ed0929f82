\* naive6.cpp as it is.
CONSTANTS
  N = 6
  Orders = {"naive"}
  Orgs = {0}
  Addr <- MCAddr
  Value <- MCValue
  WORDS_PER_BLOCK = 4
  BLOCKS_IN_MEMORY = 512
  BLOCKS_IN_CACHE = 8
  NUM_OF_SET = 4
  Tag <- MCTag
  CounterSize = 65536
  InitTag = {512}
  InitData <- MCData
  MaxAccesses = 0
  MaxPuts = 0
SPECIFICATION MainSpec
INVARIANT OperandsLoaded
CHECK_DEADLOCK FALSE
