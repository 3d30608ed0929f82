\* Programs scheduled around the hazards: the pipeline executes the ISA.
CONSTANTS
  Half = 4
  NumRegs = 4
  PCMod = 8
  DataAddr = {7, 8, 9}
  BitOr <- MCBitOr
  InitRegs <- MCInitRegs
  LagCap = 5
  Insts <- DataInsts
  ProgLen = 4
  Programs <- EndingPrograms
SPECIFICATION HFairSpec
INVARIANTS
  OperandsAreCurrent
  StoresCurrentValue
  HaltsDrained
  TimingIsExact
PROPERTIES
  ImplementsISA
  GoCompletes
CHECK_DEADLOCK FALSE
