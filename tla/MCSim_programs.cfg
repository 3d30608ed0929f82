\* Every program of four words, opcodes without a case among them.
CONSTANTS
  Half = 4
  NumRegs = 4
  PCMod = 8
  DataAddr = {7, 8, 9}
  BitOr <- MCBitOr
  InitRegs <- MCInitRegs
  Insts <- SimInsts
  ProgLen = 4
  Programs <- AllPrograms
SPECIFICATION FairSpec
INVARIANT TypeOK
PROPERTIES
  ImplementsISA
  AddOverflowIsReal
  ForwardProgramsEnd
CHECK_DEADLOCK FALSE
