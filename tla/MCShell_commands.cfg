\* Programs of three words, under any sequence of commands.
CONSTANTS
  Half = 4
  NumRegs = 4
  PCMod = 8
  DataAddr = {7, 8, 9}
  BitOr <- MCBitOr
  InitRegs <- MCInitRegs
  LagCap = 5
  Insts <- ShellInsts
  ProgLen = 3
  Programs <- ScheduledPrograms
  RunCounts = {1, 5}
  InputValues = {7}
  MaxInputs = 1
SPECIFICATION SFairSpec
INVARIANT OtherInputIsRead
PROPERTIES
  SessionFollowsISA
  GoEnds
  RunEnds
CHECK_DEADLOCK FALSE
