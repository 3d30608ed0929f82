\* The instruction behind a load.
CONSTANTS
  Half = 4
  NumRegs = 4
  PCMod = 8
  DataAddr = {7, 8, 9}
  BitOr <- MCBitOr
  InitRegs <- MCInitRegs
  LagCap = 5
  Insts <- LoadUseInsts
  ProgLen = 3
  Programs <- LoadUsePrograms
SPECIFICATION HSpec
INVARIANT OperandsAreCurrent
CHECK_DEADLOCK FALSE
