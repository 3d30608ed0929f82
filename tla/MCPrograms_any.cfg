\* Every program: control flow and the record of the last write.
CONSTANTS
  Half = 4
  NumRegs = 4
  PCMod = 8
  DataAddr = {7, 8, 9}
  BitOr <- MCBitOr
  InitRegs <- MCInitRegs
  Insts <- AnyInsts
  ProgLen = 4
  Programs <- AllPrograms
SPECIFICATION Spec
INVARIANTS
  TypeOK
  DecodesInProgramOrder
  LastWriteOnRecord
CHECK_DEADLOCK FALSE
