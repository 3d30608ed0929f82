\* A taken branch to the end of the program.
CONSTANTS
  Half = 4
  NumRegs = 4
  PCMod = 8
  DataAddr = {7, 8, 9}
  BitOr <- MCBitOr
  InitRegs <- MCInitRegs
  LagCap = 5
  Insts <- ControlInsts
  ProgLen = 2
  Programs <- BranchToEndPrograms
SPECIFICATION HFairSpec
PROPERTY GoCompletes
CHECK_DEADLOCK FALSE
