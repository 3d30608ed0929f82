\* Programs are loaded, then lines typed and executed, in any order.
CONSTANTS
  ByteSize = 2
  AddrSize = 64
  MEM_REGIONS <- MCRegions
  Access <- MCAccess
  RL_BUFSIZE = 4
  TOK_BUFSIZE = 2
  Lines <- MCLines
  NULL = NULL
  NotSet = NotSet
  FileLists <- MCFileLists
  Junk = Junk
  MEM_TEXT_START = 8
  Builtin <- MCBuiltin
  Number <- MCNumber
  StoreValues = {2, 11}
  MaxStores = 1
SPECIFICATION FairSpec
INVARIANTS
  MemTypeOK
  StoresInside
  LastFileWins
  DumpIsExact
PROPERTIES
  ImplementsWordMemory
  LoadingEnds
  DumpEnds
CHECK_DEADLOCK FALSE
