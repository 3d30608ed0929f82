\* A register set at the prompt between two cycles.
CONSTANTS
  Half = 4
  NumRegs = 4
  PCMod = 8
  DataAddr = {7, 8, 9}
  BitOr <- MCBitOr
  InitRegs <- MCInitRegs
  LagCap = 5
  Insts <- QuietInsts
  ProgLen = 5
  Programs <- WriteThenRead
  RunCounts = {1}
  InputValues = {0, 7}
  MaxInputs = 1
SPECIFICATION SSpec
INVARIANT InputIsRead
CHECK_DEADLOCK FALSE
