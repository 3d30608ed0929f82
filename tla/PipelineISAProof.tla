-------------------------- MODULE PipelineISAProof --------------------------
(***************************************************************************)
(* The pipeline executes the instruction set: in every program it was      *)
(* given its schedule for, each instruction has, once and in the order of  *)
(* the program, the effect MipsISA says, at the cycle it is due.           *)
(*                                                                         *)
(* The invariant relates `apc', where the instruction set stands, to what  *)
(* is in the five stages; and what EXMEM and MEMWB hold to the registers.  *)
(* At the end, the same for a session of commands (PipelineShell).         *)
(***************************************************************************)
EXTENDS PipelineShell, PipelineProof

USE DEF OpR, OpJ, OpBeq, OpBne, OpBgtz, OpAddi, OpAddiu, OpSlti, OpOri,
        OpLui, OpLw, OpSw,
        FnAdd, FnAddu, FnSub, FnSubu, FnSlt, FnSltu,
        ISA!OpR, ISA!OpJ, ISA!OpJal, ISA!OpBeq, ISA!OpBne, ISA!OpBgtz,
        ISA!OpAddi, ISA!OpAddiu, ISA!OpSlti, ISA!OpOri, ISA!OpLui,
        ISA!OpLw, ISA!OpSw,
        ISA!FnAdd, ISA!FnAddu, ISA!FnSub, ISA!FnSubu, ISA!FnSlt, ISA!FnSltu

\* What the theorems ask: every program is scheduled, and register 0 is
\* zero before the first cycle.  MEMWB starts with a zero for register 0,
\* which the first store may take for its value.
ProgramsScheduled ==
  /\ \A prog \in Programs : Scheduled(prog)
  /\ \A r \in InitRegs : r[0] = 0

ControlOp == BranchOp \union {OpJ}

SupportedOp ==
  {OpR, OpAddi, OpAddiu, OpSlti, OpOri, OpLui, OpLw, OpSw} \union ControlOp

-----------------------------------------------------------------------------
(* The inductive invariant.                                                *)

\* The instruction in IDEX has yet to take effect.  A jump has taken effect
\* when it gets there.
Pending == stage # "id" /\ InIdEx /\ idex.opcode # OpJ

\* The address of the instruction to be decoded next.
NextDecoded == IF Pending THEN NextPC(apc) ELSE apc

\* The instruction in IDEX is the next one to take effect, and the one behind
\* it is in IFDE or is fetched next.
InStep ==
  ~idex.done =>
    /\ Pending => DecodedFrom(apc)
    /\ stage = "if" \/ ifde.nop => pc = NextDecoded
    /\ stage # "if" /\ ~ifde.nop =>
         /\ ifde.PCval = NextPC(NextDecoded)
         /\ ifde.instruction = text[NextDecoded]

\* The done bit is set by the end of the program and nothing else.
AtEnd == idex.done => text[apc] = ZeroWord

\* Where a redirect has emptied IFDE, the fetch is held back until it is its
\* turn.
Held == stage \in {"wb", "mem", "ex"} => ~ifde.nofetch

\* The cycles since the last instruction that took effect, by how far its
\* successor has got.
LagNow ==
  CASE stage = "id" -> IF ~ifde.nop THEN 2
                       ELSE IF ifde.nofetch THEN 0 ELSE 1
    [] stage = "if" -> IF Pending THEN 2 ELSE IF ifde.nofetch THEN 0 ELSE 1
    [] OTHER        -> (IF Pending THEN 2 ELSE IF ~ifde.nop THEN 1 ELSE 0)
                         + (IF stage = "wb" THEN 0 ELSE 1)

OnTime == ~idex.done => lag = LagNow

\* What follows a branch or a jump is no store.
BehindControl ==
  ~idex.done /\ (\/ InExMem /\ exmem.opcode \in ControlOp
                 \/ InIdEx /\ idex.opcode = OpJ)
    => text[apc].op # OpSw

\* A value in MEMWB that is not in its register was left by a branch or a
\* jump.
MemWbCurrent == AfterMemWb[memwb.dest] = memwb.data

Settled ==
  ~exmem.done =>
    \/ MemWbCurrent
    \/ /\ ~exmem.nop /\ exmem.opcode # OpSw
       /\ stage = "ex" => exmem.opcode \in ControlOp

\* Each stage has finished with what it passed on.
WrittenBack == stage = "mem" => AfterMemWb = regs

PassedOn == stage = "ex" => ArchRegs = AfterMemWb /\ ArchMem = dmem

\* A store in EXMEM has the value of its register, forwarded or not.
StoreReady ==
  InExMem /\ exmem.opcode = OpSw => StoreValue = AfterMemWb[exmem.rt]

FromProgram == ~exmem.nop => exmem.opcode \in SupportedOp

\* The done bit goes through the pipeline, and nothing is behind it.
Halting ==
  /\ memwb.done => exmem.done
  /\ ~run => memwb.done /\ AfterMemWb = regs

\* Control: the stages are filled in the order of the program.
ControlInv ==
  /\ Scheduled(text)
  /\ apc \in PC
  /\ InStep
  /\ AtEnd
  /\ Held
  /\ BehindControl

\* Data: what has taken effect reaches the registers and memory.
DataInv ==
  /\ Settled
  /\ WrittenBack
  /\ PassedOn
  /\ StoreReady
  /\ FromProgram
  /\ Halting

ISAInv == ForwardInv /\ ControlInv /\ DataInv

-----------------------------------------------------------------------------
(* The instruction set is an instance: its vocabulary is the pipeline's.   *)

LEMMA SameOperators ==
  /\ \A i : ISA!ToWord(i) = ToWord(i)
  /\ \A w : ISA!Signed(w) = Signed(w)
  /\ \A h : ISA!SignExtend(h) = SignExtend(h)
  /\ \A p : ISA!NextPC(p) = NextPC(p)
  /\ \A p, off : ISA!OffsetPC(p, off) = OffsetPC(p, off)
  /\ \A m, a : ISA!ReadWord(m, a) = ReadWord(m, a)
  /\ \A m, a, v : ISA!WriteWord(m, a, v) = WriteWord(m, a, v)
  /\ \A b : ISA!Truth(b) = Truth(b)
<1>1. ISA!WordSize = WordSize
  BY DEF WordSize, ISA!WordSize
<1>2. /\ \A i : ISA!ToWord(i) = ToWord(i)
      /\ \A w : ISA!Signed(w) = Signed(w)
  BY <1>1 DEF ToWord, ISA!ToWord, Signed, ISA!Signed
<1>3. /\ \A h : ISA!SignExtend(h) = SignExtend(h)
      /\ \A p : ISA!NextPC(p) = NextPC(p)
      /\ \A p, off : ISA!OffsetPC(p, off) = OffsetPC(p, off)
  BY DEF SignExtend, ISA!SignExtend, NextPC, ISA!NextPC, OffsetPC,
         ISA!OffsetPC
<1>4. /\ \A m, a : ISA!ReadWord(m, a) = ReadWord(m, a)
      /\ \A m, a, v : ISA!WriteWord(m, a, v) = WriteWord(m, a, v)
      /\ \A b : ISA!Truth(b) = Truth(b)
  BY DEF ReadWord, ISA!ReadWord, WriteWord, ISA!WriteWord, Truth, ISA!Truth
<1> QED
  BY <1>2, <1>3, <1>4

LEMMA SameSets ==
  /\ ISA!Word = Word /\ ISA!Reg = Reg /\ ISA!PC = PC /\ ISA!Instr = Instr
  /\ ISA!ZeroMem = ZeroMem /\ ISA!BranchOp = BranchOp
  /\ ISA!RFunct = {FnAdd, FnAddu, FnSub, FnSubu, FnSlt, FnSltu}
  /\ ISA!IAluOp = {OpAddi, OpAddiu, OpSlti, OpOri, OpLui}
<1>1. ISA!Word = Word /\ ISA!Reg = Reg /\ ISA!PC = PC /\ ISA!HalfWord = HalfWord
  BY DEF Word, ISA!Word, WordSize, ISA!WordSize, Reg, ISA!Reg, PC, ISA!PC,
         HalfWord, ISA!HalfWord
<1>2. ISA!Instr = Instr
  BY <1>1 DEF Instr, ISA!Instr, Opcode, ISA!Opcode, Funct, ISA!Funct
<1> QED
  BY <1>1, <1>2 DEF ZeroMem, ISA!ZeroMem, BranchOp, ISA!BranchOp, ISA!RFunct,
     ISA!IAluOp

-----------------------------------------------------------------------------
(* What a step does to the history variables.                              *)

LEMMA NotCommitted ==
  ASSUME HNext, ~ExCommits, ~IdCommits
  PROVE  apc' = apc
BY DEF HNext

LEMMA InOrderOfStages ==
  /\ stage # "ex" => ~ExCommits
  /\ stage # "id" => ~IdCommits
BY DEF ExCommits, ExLive, IdCommits, IdLive

LEMMA Committed ==
  ASSUME HNext, ExCommits
  PROVE  apc' = IF BranchTaken THEN pc' ELSE idex.PCval
<1>1. BranchTaken \in BOOLEAN
  BY DEF BranchTaken, Taken
<1>2. CASE BranchTaken
  BY <1>2 DEF HNext
<1>3. CASE ~BranchTaken
  <2>1. ~IdCommits
    BY InOrderOfStages
  <2>2. apc' = idex.PCval
    BY <1>3, <2>1 DEF HNext
  <2> QED
    BY <1>3, <2>2
<1> QED
  BY <1>1, <1>2, <1>3

\* Write-back and the memory stage leave alone what the front of the pipeline
\* holds.
LEMMA BackStages ==
  ASSUME TypeOK, HNext, pipe_stage_wb \/ pipe_stage_mem
  PROVE  /\ UNCHANGED <<text, pc, ifde, idex, apc>>
         /\ exmem'.nop = exmem.nop /\ exmem'.done = exmem.done
         /\ exmem'.opcode = exmem.opcode
         /\ exmem'.reg_write = exmem.reg_write
         /\ exmem'.dest = exmem.dest /\ exmem'.rt = exmem.rt
         /\ exmem'.ALUresult = exmem.ALUresult
         /\ \/ stage = "wb" /\ stage' = "mem" /\ exmem' = exmem
            \/ stage = "mem" /\ stage' = "ex"
<1>1. CASE pipe_stage_wb
  <2>1. stage = "wb" /\ stage' = "mem" /\ UNCHANGED <<text, pc, ifde, idex, exmem>>
    BY <1>1 DEF pipe_stage_wb, WbBubble, WbInstr, Step, pipeRegs
  <2>2. apc' = apc
    BY <2>1, NotCommitted, InOrderOfStages
  <2> QED
    BY <2>1, <2>2
<1>2. CASE pipe_stage_mem
  <2>1. stage = "mem" /\ stage' = "ex" /\ UNCHANGED <<text, pc, ifde, idex>>
    BY <1>2 DEF pipe_stage_mem, MemBubble, MemDone, MemStore, MemOther, Step,
                pipeRegs
  <2>2. apc' = apc
    BY <2>1, NotCommitted, InOrderOfStages
  <2>3. exmem' = exmem \/ exmem' = [exmem EXCEPT !.mem_write_val = StoreValue]
    BY <1>2 DEF pipe_stage_mem, MemBubble, MemDone, MemStore, MemOther,
                pipeRegs
  <2> QED
    BY <2>1, <2>2, <2>3 DEF TypeOK, EXMEM
<1> QED
  BY <1>1, <1>2

-----------------------------------------------------------------------------
(* Control is preserved.                                                   *)

\* What is said of the program only depends on the program.
LEMMA SameProgram ==
  ASSUME text' = text
  PROVE  /\ Scheduled(text)' <=> Scheduled(text)
         /\ \A p \in PC : AfterControl(text, p)' = AfterControl(text, p)
BY DEF Scheduled, Supported, KeepsZeroReg, LoadUseFree, Conflict,
       NoStoreAfterControl, AfterControl, TargetOf

\* Control says nothing of what the registers hold.
LEMMA ControlSame ==
  ASSUME ControlInv,
         UNCHANGED <<text, pc, ifde, idex, exmem, stage, apc>>
  PROVE  ControlInv'
<1>1. Scheduled(text)' /\ apc' \in PC
  BY SameProgram DEF ControlInv
<1>2. (InStep /\ AtEnd /\ Held /\ BehindControl)'
  BY DEF ControlInv, InStep, NextDecoded, Pending, InIdEx, DecodedFrom,
         ReadsOperands, AtEnd, Held, BehindControl, InExMem
<1> QED
  BY <1>1, <1>2 DEF ControlInv

LEMMA ControlBack ==
  TypeOK /\ ControlInv /\ HNext /\ (pipe_stage_wb \/ pipe_stage_mem)
    => ControlInv'
<1> SUFFICES ASSUME TypeOK, ControlInv, HNext,
                    pipe_stage_wb \/ pipe_stage_mem
             PROVE  ControlInv'
  OBVIOUS
<1> USE DEF ControlInv
<1>1. /\ UNCHANGED <<text, pc, ifde, idex, apc>>
      /\ exmem'.nop = exmem.nop /\ exmem'.done = exmem.done
      /\ exmem'.opcode = exmem.opcode
      /\ stage \in {"wb", "mem"} /\ stage' \in {"mem", "ex"}
  BY BackStages
<1>2. (Scheduled(text) /\ apc \in PC)'
  BY <1>1, SameProgram
<1>3. (AtEnd /\ Held /\ BehindControl)'
  BY <1>1 DEF AtEnd, Held, BehindControl, InIdEx, InExMem
<1>4. InStep'
  BY <1>1 DEF InStep, Pending, NextDecoded, InIdEx, DecodedFrom, ReadsOperands
<1> QED
  BY <1>2, <1>3, <1>4

\* An instruction that takes effect is the one at apc.
LEMMA CommitsAtApc ==
  ASSUME TypeOK, ControlInv, ExCommits
  PROVE  /\ DecodedFrom(apc) /\ NextDecoded = NextPC(apc)
         /\ text[apc] \in Instr /\ Supported(text[apc])
         /\ KeepsZeroReg(text[apc])
         /\ \A q \in AfterControl(text, apc) : text[q].op # OpSw
<1>1. Pending /\ ~idex.done
  BY DEF ExCommits, ExLive, Pending, InIdEx
<1> QED
  BY <1>1 DEF ControlInv, InStep, NextDecoded, Scheduled, NoStoreAfterControl,
              TypeOK

LEMMA ControlExecute ==
  TypeOK /\ FlowInv /\ ControlInv /\ HNext /\ pipe_stage_execute
    => ControlInv'
<1> SUFFICES ASSUME TypeOK, FlowInv, ControlInv, HNext, pipe_stage_execute
             PROVE  ControlInv'
  OBVIOUS
<1> USE DEF ControlInv
<1>1. stage = "ex" /\ stage' = "id" /\ text' = text
  BY DEF pipe_stage_execute, ExBubble, ExDone, ExNext, ExTaken, Step
<1>2. Scheduled(text)' /\ Held' /\ ~Pending'
  BY <1>1, SameProgram DEF Held, Pending
<1>3. ASSUME idex' = idex, ifde' = ifde, pc' = pc, ~ExCommits, ~Pending,
             InExMem' => InExMem, exmem'.opcode = exmem.opcode
      PROVE  ControlInv'
  <2>1. apc' = apc
    BY <1>1, <1>3, NotCommitted, InOrderOfStages
  <2>2. InStep'
    BY <1>1, <1>2, <1>3, <2>1 DEF InStep, NextDecoded
  <2>3. (AtEnd /\ BehindControl)'
    BY <1>1, <1>3, <2>1 DEF AtEnd, BehindControl, InIdEx
  <2> QED
    BY <1>2, <2>1, <2>2, <2>3
<1>4. CASE ExBubble
  <2>1. idex.nop /\ UNCHANGED <<idex, ifde, pc, exmem>>
    BY <1>4 DEF ExBubble, pipeRegs
  <2> QED
    BY <1>3, <2>1 DEF ExCommits, ExLive, Pending, InIdEx, InExMem
<1>5. CASE ExDone
  <2>1. idex.done /\ UNCHANGED <<idex, ifde, pc>>
        /\ exmem' = [exmem EXCEPT !.done = TRUE]
    BY <1>5 DEF ExDone
  <2> QED
    BY <1>3, <2>1 DEF ExCommits, ExLive, Pending, InIdEx, InExMem, TypeOK, EXMEM
<1>6. ASSUME ExNext \/ ExTaken
      PROVE  /\ ExLive /\ InIdEx
             /\ idex'.opcode = idex.opcode /\ ~idex'.done
             /\ InExMem' /\ exmem'.opcode = idex.opcode
  <2>1. CASE ExNext
    BY <1>1, <2>1 DEF ExNext, ToExMem, ExLive, InIdEx, InExMem, TypeOK, IDEX
  <2>2. CASE ExTaken
    BY <1>1, <2>2 DEF ExTaken, ToExMem, ExLive, InIdEx, InExMem, TypeOK, IDEX
  <2> QED
    BY <1>6, <2>1, <2>2
<1>7. CASE ExNext /\ idex.opcode = OpJ
  <2>1. apc' = apc
    BY <1>1, <1>7, NotCommitted, InOrderOfStages DEF ExCommits
  <2>2. ifde' = ifde /\ pc' = pc /\ ~Pending
    BY <1>7 DEF ExNext, Pending
  <2>3. InStep'
    BY <1>1, <1>2, <1>6, <1>7, <2>1, <2>2 DEF InStep, NextDecoded, InIdEx
  <2>4. (AtEnd /\ BehindControl)'
    BY <1>1, <1>6, <1>7, <2>1 DEF AtEnd, BehindControl, InIdEx
  <2> QED
    BY <1>2, <2>1, <2>3, <2>4
<1>8. CASE ExNext /\ idex.opcode # OpJ
  <2>1. ExCommits /\ ~BranchTaken
    BY <1>6, <1>8 DEF ExCommits, ExNext
  <2>2. /\ apc' = idex.PCval /\ idex.PCval = NextPC(apc)
        /\ NextDecoded = NextPC(apc) /\ idex.opcode = text[apc].op
    BY <2>1, CommitsAtApc, Committed DEF DecodedFrom
  <2>3. ifde' = ifde /\ pc' = pc
    BY <1>8 DEF ExNext
  <2>4. apc' \in PC
    BY <2>2, PCType
  <2>5. InStep'
    BY <1>1, <1>2, <1>6, <1>8, <2>2, <2>3 DEF InStep, NextDecoded, InIdEx
  <2>6. idex.opcode \in ControlOp => text[apc'].op # OpSw
    <3> SUFFICES ASSUME idex.opcode \in BranchOp
                 PROVE  text[apc'].op # OpSw
      BY <1>8 DEF ControlOp
    <3>1. apc' \in AfterControl(text, apc)
      BY <2>2 DEF AfterControl, BranchOp
    <3> QED
      BY <2>1, <3>1, CommitsAtApc
  <2>7. (AtEnd /\ BehindControl)'
    BY <1>1, <1>6, <1>8, <2>6 DEF AtEnd, BehindControl
  <2> QED
    BY <1>2, <2>4, <2>5, <2>7
<1>9. CASE ExTaken
  <2>1. ExCommits /\ BranchTaken /\ idex.opcode \in BranchOp
    BY <1>6, <1>9 DEF ExTaken, ExCommits, BranchTaken, Taken, BranchOp
  <2>2. /\ apc' = pc' /\ idex.PCval = NextPC(apc) /\ idex.opcode = text[apc].op
        /\ idex.imm = SignExtend(text[apc].imm)
    BY <2>1, CommitsAtApc, Committed DEF DecodedFrom, BranchOp
  <2>3. /\ pc' = OffsetPC(idex.PCval, idex.imm) /\ ifde'.nop
        /\ idex.imm \in Int /\ idex.PCval \in PC
    BY <1>9 DEF ExTaken, Redirected, TypeOK, IFDE, IDEX
  <2>4. apc' \in PC
    BY <2>2, <2>3, PCType
  <2>5. InStep'
    BY <1>1, <1>2, <2>2, <2>3 DEF InStep, NextDecoded
  <2>6. text[apc'].op # OpSw
    <3>1. apc' = TargetOf(text, apc)
      BY <2>1, <2>2, <2>3 DEF TargetOf, BranchOp
    <3>2. apc' \in AfterControl(text, apc)
      BY <2>1, <2>2, <3>1 DEF AfterControl, BranchOp
    <3> QED
      BY <2>1, <3>2, CommitsAtApc
  <2>7. (AtEnd /\ BehindControl)'
    BY <1>1, <1>6, <1>9, <2>6 DEF AtEnd, BehindControl
  <2> QED
    BY <1>2, <2>4, <2>5, <2>7
<1> QED
  BY <1>4, <1>5, <1>7, <1>8, <1>9 DEF pipe_stage_execute

\* What is decoded is the next instruction.
LEMMA DecodesAtApc ==
  ASSUME TypeOK, ControlInv, IdLive
  PROVE  /\ ifde.instruction = text[apc] /\ ifde.PCval = NextPC(apc)
         /\ text[apc] # ZeroWord /\ text[apc] \in Instr
         /\ Supported(text[apc])
         /\ \A q \in AfterControl(text, apc) : text[q].op # OpSw
<1>1. stage = "id" /\ ~ifde.nop /\ ~idex.done /\ ~Pending
      /\ ifde.instruction # ZeroWord
  BY DEF IdLive, Pending
<1> QED
  BY <1>1 DEF ControlInv, InStep, NextDecoded, Scheduled, NoStoreAfterControl,
              TypeOK

LEMMA ControlDecode ==
  TypeOK /\ FlowInv /\ ControlInv /\ HNext /\ pipe_stage_decode
    => ControlInv'
<1> SUFFICES ASSUME TypeOK, FlowInv, ControlInv, HNext, pipe_stage_decode
             PROVE  ControlInv'
  OBVIOUS
<1> USE DEF ControlInv
<1> DEFINE ins == ifde.instruction
<1>1. stage = "id" /\ stage' = "if" /\ text' = text /\ exmem' = exmem
  BY DEF pipe_stage_decode, IdBubble, IdDone, IdR, IdI, IdJ, IdOther, Step,
         pipeRegs
<1>2. Scheduled(text)' /\ Held' /\ ~ExCommits /\ ~Pending
  BY <1>1, SameProgram, InOrderOfStages DEF Held, Pending
<1>3. CASE IdBubble
  <2>1. ifde.nop /\ UNCHANGED <<idex, ifde, pc>> /\ ~IdCommits
    BY <1>3 DEF IdBubble, pipeRegs, IdCommits, IdLive
  <2>2. apc' = apc
    BY <1>2, <2>1, NotCommitted
  <2>3. ~Pending'
    BY <2>1 DEF FlowInv, Drained, Pending, InIdEx
  <2>4. InStep'
    BY <1>1, <1>2, <2>1, <2>2, <2>3 DEF InStep, NextDecoded
  <2>5. (AtEnd /\ BehindControl)'
    BY <1>1, <2>1, <2>2 DEF AtEnd, BehindControl, InExMem, InIdEx
  <2> QED
    BY <1>2, <2>2, <2>4, <2>5
<1>4. CASE IdDone
  <2>1. ~ifde.nop /\ (ins = ZeroWord \/ idex.done) /\ idex'.done /\ ~IdCommits
    BY <1>4 DEF IdDone, TypeOK, IDEX, IdCommits, IdLive
  <2>2. apc' = apc
    BY <1>2, <2>1, NotCommitted
  <2>3. text[apc] = ZeroWord
    BY <1>1, <1>2, <2>1 DEF InStep, NextDecoded, AtEnd
  <2> QED
    BY <1>1, <1>2, <2>1, <2>2, <2>3 DEF InStep, AtEnd, BehindControl
<1>5. CASE IdR \/ IdI
  <2>1. IdLive /\ ~LoadUse(ins)
    BY <1>5, NoLoadUse DEF IdR, IdI
  <2>2. /\ ins = text[apc] /\ ifde.PCval = NextPC(apc) /\ ins # ZeroWord
        /\ ins \in Instr
    BY <2>1, DecodesAtApc
  <2>3. ins.op \in Int /\ (ins.op = OpR \/ ins.op > 3) /\ ~IdCommits
    BY <1>5, <2>2 DEF IdR, IdI, Instr, Opcode, IdCommits
  <2>4. apc' = apc
    BY <1>2, <2>3, NotCommitted
  <2>5. ifde' = ifde /\ pc' = pc /\ ~ifde.nop /\ pc = ifde.PCval
    BY <1>5, <2>1 DEF IdR, IdI, Stalled, TypeOK, IFDE, IdLive, FlowInv, Fetched
  <2>6. DecodedFrom(apc)' /\ idex'.opcode = ins.op /\ ~idex'.nop /\ ~idex'.done
    <3>1. CASE IdR
      BY <1>1, <2>1, <2>2, <2>4, <3>1
         DEF IdR, IdLive, TypeOK, IDEX, DestOf, DecodedFrom, ReadsOperands
    <3>2. CASE IdI
      BY <1>1, <2>1, <2>2, <2>3, <2>4, <3>2
         DEF IdI, IdLive, TypeOK, IDEX, DestOf, DecodedFrom, ReadsOperands
    <3> QED
      BY <1>5, <3>1, <3>2
  <2>7. Pending' /\ idex'.opcode # OpJ
    BY <1>1, <2>3, <2>6 DEF Pending, InIdEx
  <2>8. InStep'
    BY <1>1, <2>2, <2>4, <2>5, <2>6, <2>7 DEF InStep, NextDecoded
  <2>9. (AtEnd /\ BehindControl)'
    BY <1>1, <2>1, <2>4, <2>6, <2>7 DEF AtEnd, BehindControl, InExMem, IdLive
  <2> QED
    BY <1>2, <2>4, <2>8, <2>9
<1>6. CASE IdJ
  <2>1. IdLive /\ ins.op = OpJ
    BY <1>6 DEF IdJ
  <2>2. ins = text[apc] /\ ins \in Instr
        /\ \A q \in AfterControl(text, apc) : text[q].op # OpSw
    BY <2>1, DecodesAtApc
  <2>3. apc' = pc' /\ pc' = ins.addr /\ ins.addr \in PC
    BY <1>2, <1>6, <2>1, <2>2 DEF HNext, IdJ, IdCommits, Instr
  <2>4. /\ idex'.opcode = OpJ /\ ~idex'.done /\ ifde'.nop
    BY <1>6, <2>1 DEF IdJ, TypeOK, IDEX, IFDE, IdLive
  <2>5. InStep'
    BY <1>1, <2>3, <2>4 DEF InStep, NextDecoded, Pending
  <2>6. text[apc'].op # OpSw
    BY <2>1, <2>2, <2>3 DEF AfterControl, TargetOf
  <2>7. (AtEnd /\ BehindControl)'
    BY <1>1, <2>4, <2>6 DEF AtEnd, BehindControl
  <2> QED
    BY <1>2, <2>3, <2>5, <2>7
<1>7. CASE IdOther
  <2>1. IdLive /\ ins.op \in {1, 3}
    BY <1>7 DEF IdOther
  <2>2. Supported(ins) /\ ins # ZeroWord
    BY <2>1, DecodesAtApc
  <2> QED
    BY <2>1, <2>2, SameSets DEF Supported, BranchOp
<1> QED
  BY <1>3, <1>4, <1>5, <1>6, <1>7 DEF pipe_stage_decode

LEMMA ControlFetch ==
  TypeOK /\ FlowInv /\ ControlInv /\ HNext /\ pipe_stage_fetch => ControlInv'
<1> SUFFICES ASSUME TypeOK, FlowInv, ControlInv, HNext, pipe_stage_fetch
             PROVE  ControlInv'
  OBVIOUS
<1> USE DEF ControlInv
<1>1. /\ stage = "if" /\ stage' = "wb"
      /\ UNCHANGED <<text, idex, exmem, apc>>
  <2>1. stage = "if" /\ stage' = "wb" /\ UNCHANGED <<text, idex, exmem>>
    BY DEF pipe_stage_fetch, IfHeld, IfFetch, Step
  <2> QED
    BY <2>1, NotCommitted, InOrderOfStages
<1>2. /\ Scheduled(text)' /\ apc' \in PC
      /\ (AtEnd /\ BehindControl)'
      /\ Pending' = Pending /\ NextDecoded' = NextDecoded
  BY <1>1, SameProgram
     DEF AtEnd, BehindControl, InExMem, InIdEx, Pending, NextDecoded
<1>3. ASSUME Pending, ~idex.done PROVE DecodedFrom(apc)'
  BY <1>1, <1>3 DEF InStep, DecodedFrom, ReadsOperands
<1>4. CASE IfHeld
  <2>1. ifde.nop /\ ifde'.nop /\ ~ifde'.nofetch /\ pc' = pc
    BY <1>4 DEF IfHeld, TypeOK, IFDE, FlowInv, Fetched
  <2>2. InStep' /\ Held'
    BY <1>1, <1>2, <1>3, <2>1 DEF InStep, Held
  <2> QED
    BY <1>2, <2>2
<1>5. CASE IfFetch
  <2>1. /\ ~ifde'.nop /\ ~ifde'.nofetch /\ ifde'.instruction = text[pc]
        /\ ifde'.PCval = NextPC(pc)
    BY <1>5 DEF IfFetch, TypeOK, IFDE
  <2>2. InStep' /\ Held'
    BY <1>1, <1>2, <1>3, <2>1 DEF InStep, Held
  <2> QED
    BY <1>2, <2>2
<1> QED
  BY <1>4, <1>5 DEF pipe_stage_fetch

-----------------------------------------------------------------------------
(* Data is preserved, and no stage but execute disturbs what the           *)
(* instruction set sees.                                                   *)

ArchSame == ArchRegs' = ArchRegs /\ ArchMem' = ArchMem

LEMMA ArchWriteBack ==
  TypeOK /\ pipe_stage_wb => ArchSame /\ (WrittenBack /\ PassedOn)'
<1> SUFFICES ASSUME TypeOK, pipe_stage_wb
             PROVE  ArchSame /\ (WrittenBack /\ PassedOn)'
  OBVIOUS
<1>1. stage' = "mem" /\ UNCHANGED <<dmem, exmem>>
  BY DEF pipe_stage_wb, WbBubble, WbInstr, Step, pipeRegs
<1>2. /\ memwb'.nop = memwb.nop /\ memwb'.reg_write = memwb.reg_write
      /\ memwb'.dest = memwb.dest /\ memwb'.data = memwb.data
  BY DEF pipe_stage_wb, WbBubble, WbInstr, Recorded, TypeOK, MEMWB, pipeRegs
<1>3. regs' = AfterMemWb
  BY DEF pipe_stage_wb, WbBubble, WbInstr, AfterMemWb, TypeOK, MEMWB
<1>4. AfterMemWb' = AfterMemWb
  BY <1>2, <1>3 DEF AfterMemWb, TypeOK, MEMWB
<1>5. StoreValue' = StoreValue /\ MemResult' = MemResult
  BY <1>1, <1>2 DEF StoreValue, MemResult, ReadWord
<1>6. ArchSame
  BY <1>1, <1>4, <1>5 DEF ArchSame, ArchRegs, ArchMem, InExMem, WriteWord
<1> QED
  BY <1>1, <1>3, <1>4, <1>6 DEF WrittenBack, PassedOn

\* What the memory stage does to EXMEM and MEMWB when there is an instruction.
LEMMA MemoryPasses ==
  ASSUME TypeOK, FlowInv, MemStore \/ MemOther
  PROVE  /\ InExMem /\ InExMem'
         /\ exmem'.nop = exmem.nop /\ exmem'.done = exmem.done
         /\ exmem'.opcode = exmem.opcode
         /\ exmem'.reg_write = exmem.reg_write
         /\ exmem'.dest = exmem.dest /\ exmem'.rt = exmem.rt
         /\ exmem'.ALUresult = exmem.ALUresult
         /\ exmem'.mem_write_val = StoreValue
         /\ exmem.reg_write = WritesReg(exmem.opcode)
         /\ ~memwb'.done /\ ~memwb'.nop
         /\ memwb'.reg_write = exmem.reg_write
<1>1. /\ ~exmem.nop /\ ~exmem.done
      /\ exmem' = [exmem EXCEPT !.mem_write_val = StoreValue]
      /\ ~memwb'.done /\ ~memwb'.nop
      /\ memwb'.reg_write = exmem.reg_write
  BY DEF MemStore, MemOther, TypeOK, MEMWB
<1> QED
  BY <1>1 DEF InExMem, FlowInv, InOrder, TypeOK, EXMEM

\* A store's effect on memory moves from EXMEM to memory, and leaves the
\* registers and what MEMWB says of them alone.
LEMMA StorePasses ==
  ASSUME TypeOK, FlowInv, WrittenBack, MemStore
  PROVE  /\ ArchSame /\ PassedOn' /\ AfterMemWb = regs
         /\ AfterMemWb' = AfterMemWb /\ StoreValue' = StoreValue
         /\ memwb'.dest = memwb.dest /\ memwb'.data = memwb.data
<1>1. stage = "mem" /\ regs' = regs
  BY DEF MemStore, Step
<1>2. AfterMemWb = regs
  BY <1>1 DEF WrittenBack
<1>3. /\ exmem.opcode = OpSw /\ ~exmem.reg_write
      /\ dmem' = WriteWord(dmem, exmem.ALUresult, StoreValue)
      /\ memwb'.dest = memwb.dest /\ memwb'.data = memwb.data
  BY MemoryPasses DEF MemStore, WritesReg, TypeOK, MEMWB
<1>4. AfterMemWb' = AfterMemWb
  BY <1>1, <1>2, <1>3, MemoryPasses DEF AfterMemWb
<1>5. StoreValue' = StoreValue
  BY <1>3, MemoryPasses DEF StoreValue
<1>6. WriteWord(dmem', exmem.ALUresult, StoreValue) = dmem'
  BY <1>3 DEF WriteWord, TypeOK
<1>7. ArchMem = dmem' /\ ArchMem' = dmem'
  BY <1>3, <1>5, <1>6, MemoryPasses DEF ArchMem
<1>8. ArchRegs = AfterMemWb /\ ArchRegs' = AfterMemWb'
  BY <1>3, MemoryPasses DEF ArchRegs
<1> QED
  BY <1>2, <1>3, <1>4, <1>5, <1>7, <1>8 DEF ArchSame, PassedOn

\* A result moves from EXMEM to MEMWB.
LEMMA ResultPasses ==
  ASSUME TypeOK, FlowInv, WrittenBack, MemOther
  PROVE  /\ ArchSame /\ PassedOn' /\ exmem.opcode # OpSw
         /\ memwb'.dest = exmem.dest /\ memwb'.data = MemResult
         /\ exmem.reg_write => AfterMemWb'[exmem.dest] = MemResult
<1>1. stage = "mem" /\ regs' = regs
  BY DEF MemOther, Step
<1>2. AfterMemWb = regs
  BY <1>1 DEF WrittenBack
<1>3. /\ exmem.opcode # OpSw /\ dmem' = dmem
      /\ memwb'.dest = exmem.dest /\ memwb'.data = MemResult
  BY DEF MemOther, TypeOK, MEMWB
<1>4. MemResult' = MemResult
  BY <1>3, MemoryPasses DEF MemResult, ReadWord
<1>5. exmem.dest \in Reg /\ exmem.reg_write \in BOOLEAN
  BY DEF TypeOK, EXMEM
<1>6. AfterMemWb' = ArchRegs
  BY <1>1, <1>2, <1>3, <1>5, MemoryPasses DEF AfterMemWb, ArchRegs
<1>7. /\ ArchRegs' = AfterMemWb'
      /\ exmem.reg_write => AfterMemWb'[exmem.dest] = MemResult
  BY <1>1, <1>2, <1>3, <1>4, <1>5, <1>6, MemoryPasses DEF ArchRegs, TypeOK
<1>8. ArchMem = dmem /\ ArchMem' = dmem'
  BY <1>3, MemoryPasses DEF ArchMem
<1> QED
  BY <1>3, <1>6, <1>7, <1>8 DEF ArchSame, PassedOn

\* With nothing for the memory stage to do, nothing moves.
LEMMA NothingPasses ==
  ASSUME TypeOK, MemBubble \/ MemDone
  PROVE  /\ exmem.nop \/ exmem.done
         /\ regs' = regs /\ exmem' = exmem /\ AfterMemWb' = AfterMemWb
         /\ memwb'.dest = memwb.dest /\ memwb'.data = memwb.data
         /\ ArchSame /\ PassedOn'
<1>1. /\ exmem.nop \/ exmem.done
      /\ UNCHANGED <<dmem, exmem, regs>>
      /\ memwb'.nop = memwb.nop /\ memwb'.reg_write = memwb.reg_write
      /\ memwb'.dest = memwb.dest /\ memwb'.data = memwb.data
  BY DEF MemBubble, MemDone, pipeRegs, TypeOK, MEMWB
<1>2. AfterMemWb' = AfterMemWb
  BY <1>1 DEF AfterMemWb
<1>3. ArchSame /\ PassedOn'
  BY <1>1, <1>2 DEF ArchSame, PassedOn, ArchRegs, ArchMem, InExMem
<1> QED
  BY <1>1, <1>2, <1>3

LEMMA ArchMemory ==
  TypeOK /\ FlowInv /\ WrittenBack /\ pipe_stage_mem
    => ArchSame /\ (WrittenBack /\ PassedOn)'
<1> SUFFICES ASSUME TypeOK, FlowInv, WrittenBack, pipe_stage_mem
             PROVE  ArchSame /\ (WrittenBack /\ PassedOn)'
  OBVIOUS
<1>1. WrittenBack'
  BY DEF pipe_stage_mem, MemBubble, MemDone, MemStore, MemOther, Step,
         WrittenBack
<1> QED
  BY <1>1, NothingPasses, StorePasses, ResultPasses DEF pipe_stage_mem

\* Decode and fetch leave alone what is behind them.
LEMMA ArchFront ==
  ASSUME pipe_stage_decode \/ pipe_stage_fetch
  PROVE  /\ AfterMemWb' = AfterMemWb /\ StoreValue' = StoreValue
         /\ ArchSame /\ (WrittenBack /\ PassedOn)'
<1>1. /\ stage' \in {"if", "wb"}
      /\ UNCHANGED <<dmem, regs, exmem, memwb>>
  BY DEF pipe_stage_decode, IdBubble, IdDone, IdR, IdI, IdJ, IdOther, Step,
         pipeRegs, pipe_stage_fetch, IfHeld, IfFetch
<1>2. AfterMemWb' = AfterMemWb /\ StoreValue' = StoreValue
      /\ MemResult' = MemResult
  BY <1>1 DEF AfterMemWb, StoreValue, MemResult, ReadWord
<1>3. ArchSame
  BY <1>1, <1>2 DEF ArchSame, ArchRegs, ArchMem, InExMem, WriteWord
<1> QED
  BY <1>1, <1>2, <1>3 DEF WrittenBack, PassedOn

LEMMA DataWriteBack == TypeOK /\ DataInv /\ pipe_stage_wb => DataInv'
<1> SUFFICES ASSUME TypeOK, DataInv, pipe_stage_wb PROVE DataInv'
  OBVIOUS
<1> USE DEF DataInv
<1>1. stage' = "mem" /\ exmem' = exmem
  BY DEF pipe_stage_wb, WbBubble, WbInstr, Step, pipeRegs
<1>2. /\ memwb'.nop = memwb.nop /\ memwb'.reg_write = memwb.reg_write
      /\ memwb'.dest = memwb.dest /\ memwb'.data = memwb.data
      /\ memwb'.done = memwb.done
  BY DEF pipe_stage_wb, WbBubble, WbInstr, Recorded, TypeOK, MEMWB, pipeRegs
<1>3. /\ regs' = AfterMemWb
      /\ run' \/ memwb.done
  <2>1. CASE WbBubble
    BY <2>1 DEF WbBubble, AfterMemWb
  <2>2. CASE WbInstr
    BY <2>2 DEF WbInstr, Finished, AfterMemWb, TypeOK, MEMWB
  <2> QED
    BY <2>1, <2>2 DEF pipe_stage_wb
<1>4. AfterMemWb' = AfterMemWb /\ AfterMemWb' = regs'
  BY <1>2, <1>3 DEF AfterMemWb, TypeOK, MEMWB
<1>5. StoreValue' = StoreValue
  BY <1>1, <1>2 DEF StoreValue
<1>6. (Settled /\ StoreReady /\ FromProgram /\ Halting)'
  BY <1>1, <1>2, <1>3, <1>4, <1>5
     DEF Settled, MemWbCurrent, StoreReady, FromProgram, Halting, InExMem
<1> QED
  BY <1>6, ArchWriteBack

LEMMA DataMemory == TypeOK /\ FlowInv /\ DataInv /\ pipe_stage_mem => DataInv'
<1> SUFFICES ASSUME TypeOK, FlowInv, DataInv, pipe_stage_mem PROVE DataInv'
  OBVIOUS
<1> USE DEF DataInv
<1>1. stage = "mem" /\ stage' = "ex" /\ UNCHANGED <<regs, run>>
  BY DEF pipe_stage_mem, MemBubble, MemDone, MemStore, MemOther, Step,
         pipeRegs
<1>2. AfterMemWb = regs /\ (WrittenBack /\ PassedOn)'
  BY <1>1, ArchMemory DEF WrittenBack
<1>3. CASE MemBubble
  BY <1>1, <1>2, <1>3, NothingPasses
     DEF MemBubble, Settled, MemWbCurrent, StoreReady, FromProgram, Halting,
         InExMem, pipeRegs
<1>4. CASE MemDone
  <2>1. exmem.done /\ exmem' = exmem /\ memwb'.done
    BY <1>4 DEF MemDone, TypeOK, MEMWB
  <2> QED
    BY <1>1, <1>2, <1>4, <2>1, NothingPasses
       DEF Settled, StoreReady, FromProgram, Halting, InExMem
<1>5. ASSUME MemStore \/ MemOther
      PROVE  /\ run /\ run' /\ ~memwb'.done
             /\ exmem'.opcode \in SupportedOp /\ exmem'.opcode = exmem.opcode
  <2>1. InExMem /\ ~memwb'.done /\ exmem'.opcode = exmem.opcode
    BY <1>5, MemoryPasses
  <2> QED
    BY <1>1, <2>1 DEF InExMem, Halting, FromProgram, TypeOK
<1>6. CASE MemStore
  <2>1. exmem.opcode = OpSw
    BY <1>6 DEF MemStore
  <2>2. MemWbCurrent /\ MemWbCurrent'
    BY <1>6, <2>1, StorePasses, MemoryPasses DEF Settled, MemWbCurrent, InExMem
  <2> QED
    BY <1>2, <1>5, <1>6, <2>2, StorePasses, MemoryPasses
       DEF Settled, StoreReady, FromProgram, Halting, InExMem
<1>7. CASE MemOther
  <2>1. Settled'
    <3>1. CASE exmem.reg_write
      BY <1>7, <3>1, ResultPasses DEF Settled, MemWbCurrent
    <3>2. CASE ~exmem.reg_write
      <4>1. exmem.opcode \in SupportedOp /\ ~WritesReg(exmem.opcode)
        BY <1>5, <1>7, <3>2, MemoryPasses
      <4>2. exmem.opcode \in ControlOp
        BY <1>7, <4>1, ResultPasses
           DEF SupportedOp, ControlOp, BranchOp, WritesReg
      <4> QED
        BY <1>5, <1>7, <4>2, ResultPasses, MemoryPasses DEF Settled, InExMem
    <3> QED
      BY <3>1, <3>2
  <2>2. (StoreReady /\ FromProgram /\ Halting)'
    BY <1>5, <1>7, ResultPasses DEF StoreReady, FromProgram, Halting, InExMem
  <2> QED
    BY <1>2, <2>1, <2>2
<1> QED
  BY <1>3, <1>4, <1>6, <1>7 DEF pipe_stage_mem

\* There is no branch or jump right ahead of a store that takes effect.
LEMMA StoreAlone ==
  ASSUME TypeOK, FlowInv, ControlInv, ExCommits, idex.opcode = OpSw
  PROVE  /\ stage = "ex" /\ ~exmem.done
         /\ ~(~exmem.nop /\ exmem.opcode \in ControlOp)
<1>1. stage = "ex" /\ ~exmem.done /\ ~idex.done
  BY DEF ExCommits, ExLive, FlowInv, InOrder
<1>2. text[apc].op = OpSw
  BY CommitsAtApc DEF DecodedFrom
<1> QED
  BY <1>1, <1>2 DEF ControlInv, BehindControl, InExMem

\* It finds in MEMWB what its register holds.
LEMMA StoreFindsSettled ==
  ASSUME TypeOK, FlowInv, ControlInv, DataInv, ExCommits, idex.opcode = OpSw
  PROVE  MemWbCurrent
BY StoreAlone DEF DataInv, Settled

LEMMA CommittedOpcode ==
  ASSUME TypeOK, ControlInv, ExLive
  PROVE  idex.opcode \in SupportedOp
<1>1. CASE idex.opcode = OpJ
  BY <1>1 DEF SupportedOp, ControlOp
<1>2. CASE idex.opcode # OpJ
  <2>1. /\ idex.opcode = text[apc].op /\ text[apc] # ZeroWord
        /\ Supported(text[apc])
    BY <1>2, CommitsAtApc DEF ExCommits, DecodedFrom
  <2> QED
    BY <2>1, SameSets DEF Supported, SupportedOp, ControlOp
<1> QED
  BY <1>1, <1>2

LEMMA DataExecute ==
  TypeOK /\ ForwardInv /\ ControlInv /\ DataInv /\ pipe_stage_execute
    => DataInv'
<1> SUFFICES ASSUME TypeOK, ForwardInv, ControlInv, DataInv,
                    pipe_stage_execute
             PROVE  DataInv'
  OBVIOUS
<1> USE DEF DataInv
<1>1. stage = "ex" /\ stage' = "id" /\ UNCHANGED <<dmem, regs, memwb, run>>
  BY DEF pipe_stage_execute, ExBubble, ExDone, ExNext, ExTaken, Step, pipeRegs
<1>2. AfterMemWb' = AfterMemWb /\ (MemWbCurrent <=> MemWbCurrent')
  BY <1>1 DEF AfterMemWb, MemWbCurrent
<1>3. (WrittenBack /\ PassedOn)'
  BY <1>1 DEF WrittenBack, PassedOn
<1>4. CASE ExBubble
  <2>1. exmem' = exmem
    BY <1>4 DEF ExBubble, pipeRegs
  <2>2. StoreValue' = StoreValue
    BY <1>1, <2>1 DEF StoreValue
  <2> QED
    BY <1>1, <1>2, <1>3, <2>1, <2>2
       DEF Settled, StoreReady, FromProgram, Halting, InExMem
<1>5. CASE ExDone
  <2>1. /\ exmem'.done /\ exmem'.nop = exmem.nop
        /\ exmem'.opcode = exmem.opcode
    BY <1>5 DEF ExDone, TypeOK, EXMEM
  <2> QED
    BY <1>1, <1>2, <1>3, <2>1
       DEF Settled, StoreReady, FromProgram, Halting, InExMem
<1>6. CASE ExNext \/ ExTaken
  <2>1. ExLive /\ ToExMem
    BY <1>1, <1>6 DEF ExNext, ExTaken, ExLive
  <2>2. /\ ~exmem'.nop /\ ~exmem'.done /\ exmem'.opcode = idex.opcode
        /\ exmem'.rt = idex.rt
        /\ idex.opcode = OpSw => exmem'.mem_write_val = Operand2
    BY <2>1 DEF ToExMem
  <2>3. idex.opcode = OpSw => MemWbCurrent
    BY <2>1, StoreFindsSettled DEF ExCommits, ForwardInv
  <2>4. Settled'
    BY <1>1, <1>2, <2>2, <2>3 DEF Settled
  <2>5. ASSUME idex.opcode = OpSw
        PROVE  StoreValue' = AfterMemWb'[exmem'.rt]
    <3>1. Operand2 = AfterMemWb[idex.rt]
      BY <2>1, <2>5, ForwardInvGives DEF NamedAreCurrent, ReadsOperands
    <3>2. StoreValue' = IF memwb.dest = idex.rt THEN memwb.data ELSE Operand2
      BY <1>1, <2>2, <2>5 DEF StoreValue
    <3> QED
      BY <1>2, <2>2, <2>3, <2>5, <3>1, <3>2 DEF MemWbCurrent
  <2>6. FromProgram'
    BY <2>1, <2>2, CommittedOpcode DEF FromProgram
  <2>7. Halting'
    <3>1. ~exmem.done
      BY <2>1 DEF ForwardInv, FlowInv, InOrder, ExLive
    <3> QED
      BY <1>1, <3>1 DEF Halting
  <2> QED
    BY <1>3, <2>2, <2>4, <2>5, <2>6, <2>7 DEF StoreReady
<1> QED
  BY <1>4, <1>5, <1>6 DEF pipe_stage_execute

LEMMA DataFront ==
  TypeOK /\ DataInv /\ (pipe_stage_decode \/ pipe_stage_fetch) => DataInv'
<1> SUFFICES ASSUME TypeOK, DataInv, pipe_stage_decode \/ pipe_stage_fetch
             PROVE  DataInv'
  OBVIOUS
<1> USE DEF DataInv
<1>1. /\ stage' \in {"if", "wb"}
      /\ UNCHANGED <<regs, exmem, memwb, run>>
  BY DEF pipe_stage_decode, IdBubble, IdDone, IdR, IdI, IdJ, IdOther, Step,
         pipeRegs, pipe_stage_fetch, IfHeld, IfFetch
<1> QED
  BY <1>1, ArchFront
     DEF Settled, MemWbCurrent, StoreReady, FromProgram, Halting, InExMem

-----------------------------------------------------------------------------
(* Time is kept.                                                           *)

LEMMA LagStep ==
  ASSUME HNext, lag \in Int, lag + NewCycle - Cost =< LagCap
  PROVE  lag' = lag + NewCycle - Cost
<1>1. NewCycle \in Int
  BY DEF NewCycle
<1>2. Cost \in Int
  BY DEF Cost
<1> QED
  BY <1>1, <1>2, LagCapAssumption DEF HNext

LEMMA TimeBack ==
  ASSUME LagCap > 2, TypeOK, OnTime, HNext, pipe_stage_wb \/ pipe_stage_mem
  PROVE  OnTime'
<1> SUFFICES ASSUME ~idex'.done PROVE lag' = LagNow'
  BY DEF OnTime
<1>1. /\ UNCHANGED <<ifde, idex>>
      /\ \/ stage = "wb" /\ stage' = "mem"
         \/ stage = "mem" /\ stage' = "ex"
  BY BackStages
<1>2. lag = LagNow
  BY <1>1 DEF OnTime
<1>3. Pending' = Pending
  BY <1>1 DEF Pending, InIdEx
<1>4. Cost = 0
  BY <1>1, InOrderOfStages DEF Cost
<1>5. /\ LagNow' = LagNow + NewCycle
      /\ LagNow' \in 0 .. 3 /\ LagNow \in 0 .. 3 /\ NewCycle \in 0 .. 1
  BY <1>1, <1>3 DEF LagNow, NewCycle
<1> QED
  BY <1>2, <1>4, <1>5, LagStep, LagCapAssumption

LEMMA TimeExecute ==
  ASSUME LagCap > 2, TypeOK, FlowInv, Held, OnTime, HNext, pipe_stage_execute
  PROVE  OnTime'
<1> SUFFICES ASSUME ~idex'.done PROVE lag' = LagNow'
  BY DEF OnTime
<1>1. stage = "ex" /\ stage' = "id" /\ NewCycle = 0 /\ ~IdCommits
  BY InOrderOfStages
     DEF pipe_stage_execute, ExBubble, ExDone, ExNext, ExTaken, Step, NewCycle
<1>2. ~idex.done
  BY DEF pipe_stage_execute, ExBubble, ExDone, pipeRegs, ExNext, ExTaken,
         TypeOK, IDEX
<1>3. lag = LagNow
  BY <1>2 DEF OnTime
<1>4. CASE ~ExCommits
  <2>1. ~Pending /\ ifde' = ifde /\ ~ifde.nofetch
    BY <1>1, <1>2, <1>4
       DEF pipe_stage_execute, ExBubble, ExDone, ExNext, ExTaken, pipeRegs,
           ExCommits, ExLive, Pending, InIdEx, Held, BranchTaken, Taken
  <2>2. Cost = 0
    BY <1>1, <1>4 DEF Cost
  <2>3. LagNow' = LagNow /\ LagNow \in 0 .. 3
    BY <1>1, <2>1 DEF LagNow
  <2> QED
    BY <1>1, <1>3, <2>2, <2>3, LagStep, LagCapAssumption
<1>5. CASE ExCommits
  <2>1. Pending /\ ~ifde.nop /\ lag = 3
    <3>1. Pending /\ InIdEx /\ idex.opcode # OpJ
      BY <1>1, <1>5 DEF ExCommits, ExLive, Pending, InIdEx
    <3> QED
      BY <1>1, <1>3, <3>1 DEF FlowInv, Drained, LagNow
  <2>2. CASE BranchTaken
    <3>1. ifde'.nop /\ ifde'.nofetch
      BY <1>5, <2>2 DEF pipe_stage_execute, ExBubble, ExDone, ExNext, ExTaken,
                        ExCommits, ExLive, Redirected, TypeOK, IFDE
    <3>2. Cost = 3
      BY <1>1, <1>5, <2>2 DEF Cost
    <3>3. LagNow' = 0
      BY <1>1, <3>1 DEF LagNow
    <3> QED
      BY <1>1, <2>1, <3>2, <3>3, LagStep, LagCapAssumption
  <2>3. CASE ~BranchTaken
    <3>1. ifde' = ifde
      BY <1>5, <2>3 DEF pipe_stage_execute, ExBubble, ExDone, ExNext, ExTaken,
                        ExCommits, ExLive
    <3>2. Cost = 1
      BY <1>1, <1>5, <2>3 DEF Cost
    <3>3. LagNow' = 2
      BY <1>1, <2>1, <3>1 DEF LagNow
    <3> QED
      BY <1>1, <2>1, <3>2, <3>3, LagStep, LagCapAssumption
  <2> QED
    BY <2>2, <2>3
<1> QED
  BY <1>4, <1>5

LEMMA TimeDecode ==
  ASSUME LagCap > 2, TypeOK, FlowInv, ControlInv, OnTime, HNext,
         pipe_stage_decode
  PROVE  OnTime'
<1> SUFFICES ASSUME ~idex'.done PROVE lag' = LagNow'
  BY DEF OnTime
<1> DEFINE ins == ifde.instruction
<1>1. stage = "id" /\ stage' = "if" /\ NewCycle = 0 /\ ~ExCommits
  BY InOrderOfStages
     DEF pipe_stage_decode, IdBubble, IdDone, IdR, IdI, IdJ, IdOther, Step,
         NewCycle
<1>2. CASE IdBubble
  <2>1. /\ ifde.nop /\ UNCHANGED <<idex, ifde>> /\ ~IdCommits
        /\ ~Pending'
    BY <1>2 DEF IdBubble, pipeRegs, IdCommits, IdLive, Pending, InIdEx,
                FlowInv, Drained
  <2>2. Cost = 0 /\ lag = LagNow
    BY <1>1, <2>1 DEF Cost, OnTime
  <2>3. LagNow' = LagNow /\ LagNow \in 0 .. 3
    BY <1>1, <2>1 DEF LagNow
  <2> QED
    BY <1>1, <2>2, <2>3, LagStep, LagCapAssumption
<1>3. CASE IdDone
  BY <1>3 DEF IdDone, TypeOK, IDEX
<1>4. CASE IdR \/ IdI
  <2>1. IdLive /\ (ins.op = OpR \/ ins.op > 3) /\ idex'.opcode = ins.op
        /\ ~idex'.nop /\ ins.op \in Int
    <3>1. ins.op \in Int
      BY DEF TypeOK, IFDE, Instr, Opcode
    <3> QED
      BY <1>4, <3>1 DEF IdR, IdI, TypeOK, IDEX
  <2>2. ~ifde.nop /\ ~idex.done /\ ~IdCommits /\ Pending'
    BY <1>1, <2>1 DEF IdLive, IdCommits, Pending, InIdEx
  <2>3. Cost = 0 /\ lag = 2 /\ LagNow' = 2
    BY <1>1, <2>2 DEF Cost, OnTime, LagNow
  <2> QED
    BY <1>1, <2>3, LagStep, LagCapAssumption
<1>5. CASE IdJ
  <2>1. IdCommits /\ idex'.opcode = OpJ /\ ifde'.nop /\ ifde'.nofetch
        /\ ~ifde.nop /\ ~idex.done
    BY <1>5 DEF IdJ, IdCommits, IdLive, TypeOK, IDEX, IFDE
  <2>2. Cost = 2 /\ lag = 2 /\ LagNow' = 0
    BY <1>1, <2>1 DEF Cost, OnTime, LagNow, Pending
  <2> QED
    BY <1>1, <2>2, LagStep, LagCapAssumption
<1>6. CASE IdOther
  <2>1. IdLive /\ ins.op \in {1, 3}
    BY <1>6 DEF IdOther
  <2>2. Supported(ins) /\ ins # ZeroWord
    BY <2>1, DecodesAtApc
  <2> QED
    BY <2>1, <2>2, SameSets DEF Supported, BranchOp
<1> QED
  BY <1>2, <1>3, <1>4, <1>5, <1>6 DEF pipe_stage_decode

LEMMA TimeFetch ==
  ASSUME LagCap > 2, TypeOK, FlowInv, OnTime, HNext, pipe_stage_fetch
  PROVE  OnTime'
<1> SUFFICES ASSUME ~idex'.done PROVE lag' = LagNow'
  BY DEF OnTime
<1>1. stage = "if" /\ stage' = "wb" /\ NewCycle = 0 /\ idex' = idex
      /\ ~ExCommits /\ ~IdCommits
  BY InOrderOfStages DEF pipe_stage_fetch, IfHeld, IfFetch, Step, NewCycle
<1>2. Cost = 0 /\ lag = LagNow
  BY <1>1 DEF Cost, OnTime
<1>3. Pending' = Pending
  BY <1>1 DEF Pending, InIdEx
<1>4. LagNow' = LagNow /\ LagNow \in 0 .. 3
  <2>1. CASE IfHeld
    BY <1>1, <1>3, <2>1 DEF IfHeld, TypeOK, IFDE, FlowInv, Fetched, LagNow
  <2>2. CASE IfFetch
    BY <1>1, <1>3, <2>2 DEF IfFetch, TypeOK, IFDE, LagNow
  <2> QED
    BY <2>1, <2>2 DEF pipe_stage_fetch
<1> QED
  BY <1>1, <1>2, <1>4, LagStep, LagCapAssumption

-----------------------------------------------------------------------------
(* The invariant is inductive.                                             *)

LEMMA ISAInit == ProgramsScheduled /\ HInit => ISAInv
<1> SUFFICES ASSUME ProgramsScheduled, HInit PROVE ISAInv
  OBVIOUS
<1> USE DEF HInit, Init
<1>1. ForwardInv
  BY ForwardInit DEF ProgramsScheduled, ProgramsForwardable, Scheduled,
                     ForwardableProgram
<1>2. Scheduled(text) /\ apc \in PC
  BY PCType DEF ProgramsScheduled
<1>3. InStep /\ AtEnd /\ Held /\ BehindControl
  BY DEF InStep, NextDecoded, Pending, InIdEx, AtEnd, Held, BehindControl,
         InExMem
<1>4. AfterMemWb = regs /\ regs[0] = 0
  BY DEF AfterMemWb, ProgramsScheduled
<1>5. Settled /\ WrittenBack /\ PassedOn
  BY <1>4 DEF Settled, MemWbCurrent, WrittenBack, PassedOn
<1>6. StoreReady /\ FromProgram /\ Halting
  BY DEF StoreReady, FromProgram, Halting, InExMem
<1> QED
  BY <1>1, <1>2, <1>3, <1>5, <1>6 DEF ISAInv, ControlInv, DataInv

LEMMA ISAStep == TypeOK /\ ISAInv /\ [HNext]_hvars => ISAInv'
<1> SUFFICES ASSUME TypeOK, ISAInv, [HNext]_hvars PROVE ISAInv'
  OBVIOUS
<1> USE DEF ISAInv
<1>1. CASE HNext
  <2>1. FlowInv /\ Next
    BY <1>1 DEF ForwardInv, HNext
  <2>2. ForwardInv'
    BY <2>1, ForwardStep
  <2>3. ControlInv'
    BY <1>1, <2>1, ControlBack, ControlExecute, ControlDecode, ControlFetch
       DEF Next
  <2>4. DataInv'
    BY <2>1, DataWriteBack, DataMemory, DataExecute, DataFront DEF Next
  <2> QED
    BY <2>2, <2>3, <2>4
<1>2. CASE UNCHANGED hvars
  <2>1. ForwardInv'
    BY <1>2, ForwardStep DEF hvars, vars
  <2>2. UNCHANGED <<text, dmem, regs, pc, ifde, idex, exmem, memwb, run,
                    stage, apc>>
    BY <1>2 DEF hvars
  <2>3. ControlInv'
    BY <1>2, <2>2, ControlSame DEF hvars
  <2>4. DataInv'
    <3>1. /\ AfterMemWb' = AfterMemWb /\ StoreValue' = StoreValue
          /\ MemResult' = MemResult
      BY <2>2 DEF AfterMemWb, StoreValue, MemResult, ReadWord
    <3>2. ArchRegs' = ArchRegs /\ ArchMem' = ArchMem
      BY <2>2, <3>1 DEF ArchRegs, ArchMem, InExMem, WriteWord
    <3> QED
      BY <2>2, <3>1, <3>2
         DEF DataInv, Settled, MemWbCurrent, WrittenBack, PassedOn,
             StoreReady, FromProgram, Halting, InExMem
  <2> QED
    BY <2>1, <2>3, <2>4
<1> QED
  BY <1>1, <1>2

LEMMA TimeInit == HInit => OnTime
BY DEF HInit, Init, OnTime, LagNow, Pending, InIdEx

LEMMA TimeStep ==
  ASSUME LagCap > 2
  PROVE  TypeOK /\ ISAInv /\ OnTime /\ [HNext]_hvars => OnTime'
<1> SUFFICES ASSUME TypeOK, ISAInv, OnTime, [HNext]_hvars PROVE OnTime'
  OBVIOUS
<1>1. CASE HNext
  <2>1. FlowInv /\ Held /\ ControlInv /\ Next
    BY <1>1 DEF ISAInv, ForwardInv, ControlInv, HNext
  <2> QED
    BY <1>1, <2>1, TimeBack, TimeExecute, TimeDecode, TimeFetch DEF Next
<1>2. CASE UNCHANGED hvars
  BY <1>2 DEF hvars, OnTime, LagNow, Pending, InIdEx
<1> QED
  BY <1>1, <1>2

LEMMA HSpecIsSpec ==
  /\ HInit => Init
  /\ [HNext]_hvars => [Next]_vars
BY DEF HInit, HNext, hvars, vars

\* The invariant holds of every program scheduled around the hazards.
LEMMA ISAAlways ==
  ASSUME ProgramsScheduled
  PROVE  HSpec => [](TypeOK /\ ISAInv)
<1>1. HInit => TypeOK /\ ISAInv
  BY InitType, HSpecIsSpec, ISAInit
<1>2. TypeOK /\ ISAInv /\ [HNext]_hvars => (TypeOK /\ ISAInv)'
  BY StepType, HSpecIsSpec, ISAStep
<1> QED
  BY <1>1, <1>2, PTL DEF HSpec

-----------------------------------------------------------------------------
(* What follows from it.                                                   *)

\* A store writes the value its register has when everything ahead of it has
\* been written back, whether mem-mem forwarding (pipe.c:61-64) replaced what
\* the store had read or not.
THEOREM StoresCurrentCorrect ==
  ASSUME ProgramsScheduled
  PROVE  HSpec => []StoresCurrentValue
<1>1. TypeOK /\ ISAInv => StoresCurrentValue
  BY DEF ISAInv, DataInv, StoreReady, WrittenBack, StoresCurrentValue, MemLive,
         InExMem
<1> QED
  BY <1>1, ISAAlways, PTL

\* When RUN_BIT is cleared (pipe.c:50-51) everything the program computed is in
\* the registers and in memory, and the program has come to its end.
THEOREM HaltsDrainedCorrect ==
  ASSUME ProgramsScheduled
  PROVE  HSpec => []HaltsDrained
<1>1. TypeOK /\ ISAInv => HaltsDrained
  <2> SUFFICES ASSUME TypeOK, ISAInv, ~run PROVE
               regs = ArchRegs /\ dmem = ArchMem /\ text[apc] = ZeroWord
    BY DEF HaltsDrained
  <2>1. exmem.done /\ AfterMemWb = regs
    BY DEF ISAInv, DataInv, Halting
  <2>2. idex.done
    BY <2>1 DEF ISAInv, ForwardInv, FlowInv, InOrder
  <2> QED
    BY <2>1, <2>2 DEF ISAInv, ControlInv, AtEnd, ArchRegs, ArchMem, InExMem
<1> QED
  BY <1>1, ISAAlways, PTL

\* An instruction takes effect one cycle after the one ahead of it, three
\* after a taken branch, two after a jump was decoded, and no instruction of
\* the program is ever waited for longer.
THEOREM TimingCorrect ==
  ASSUME ProgramsScheduled, LagCap > 2
  PROVE  HSpec => []TimingIsExact
<1>1. TypeOK /\ ISAInv /\ OnTime => TimingIsExact
  <2> SUFFICES ASSUME TypeOK, ISAInv, OnTime PROVE TimingIsExact
    OBVIOUS
  <2>1. ExCommits => lag = 3
    BY DEF ExCommits, ExLive, OnTime, LagNow, Pending, InIdEx
  <2>2. IdCommits => lag = 2
    BY DEF IdCommits, IdLive, OnTime, LagNow
  <2>3. text[apc] # ZeroWord => lag =< 3
    BY DEF ISAInv, ControlInv, AtEnd, OnTime, LagNow
  <2> QED
    BY <2>1, <2>2, <2>3 DEF TimingIsExact
<1>2. HSpec => []OnTime
  BY TimeInit, TimeStep, ISAAlways, PTL DEF HSpec
<1> QED
  BY <1>1, <1>2, ISAAlways, PTL

-----------------------------------------------------------------------------
(* The refinement.  The execute stage computes what the instruction set    *)
(* does, on the values the registers have for the instruction set.         *)

\* The instruction in the execute stage finds what the instructions ahead of
\* it leave in its registers; a store, also in MEMWB.
ReadsCurrent ==
  /\ UsesRs => Operand1 = AfterMemWb[idex.rs]
  /\ UsesRt => Operand2 = AfterMemWb[idex.rt]
  /\ idex.opcode = OpSw /\ memwb.dest = idex.rt =>
       memwb.data = AfterMemWb[idex.rt]

LEMMA InvReadsCurrent ==
  ASSUME TypeOK, ISAInv, ExCommits
  PROVE  ReadsCurrent
<1>1. /\ UsesRs => Operand1 = AfterMemWb[idex.rs]
      /\ UsesRt => Operand2 = AfterMemWb[idex.rt]
  BY ForwardInvGives, UsedIsRead DEF ISAInv, NamedAreCurrent, ExCommits
<1>2. idex.opcode = OpSw => MemWbCurrent
  BY StoreFindsSettled DEF ISAInv, ForwardInv
<1> QED
  BY <1>1, <1>2 DEF ReadsCurrent, MemWbCurrent

\* What the instruction that takes effect in the execute stage reads.
LEMMA ExecuteReads ==
  ASSUME TypeOK, ControlInv, PassedOn, ReadsCurrent, ExCommits
  PROVE  /\ DecodedFrom(apc) /\ Supported(text[apc]) /\ text[apc] \in Instr
         /\ ReadsOperands
         /\ UsesRs => Operand1 = ArchRegs[text[apc].rs]
         /\ UsesRt => Operand2 = ArchRegs[text[apc].rt]
         /\ ArchRegs = AfterMemWb /\ ArchMem = dmem
<1>1. DecodedFrom(apc) /\ Supported(text[apc]) /\ text[apc] \in Instr
  BY CommitsAtApc
<1>2. ReadsOperands
  BY <1>1, SameSets
     DEF DecodedFrom, Supported, ReadsOperands, ExCommits, BranchOp
<1>3. ArchRegs = AfterMemWb /\ ArchMem = dmem
  BY DEF PassedOn, ExCommits, ExLive
<1> QED
  BY <1>1, <1>2, <1>3 DEF DecodedFrom, ReadsCurrent

\* What the instruction that takes effect leaves in flight.
LEMMA ExecuteWrites ==
  ASSUME TypeOK, ControlInv, PassedOn, ReadsCurrent, HNext, ExCommits
  PROVE  /\ text' = text
         /\ ArchRegs' = IF WritesReg(idex.opcode)
                        THEN [ArchRegs EXCEPT ![DestOf(text[apc])] =
                                IF idex.opcode = OpLw
                                THEN ReadWord(ArchMem, AluResult)
                                ELSE AluResult]
                        ELSE ArchRegs
         /\ ArchMem' = IF idex.opcode = OpSw
                       THEN WriteWord(ArchMem, AluResult, Operand2)
                       ELSE ArchMem
<1>1. /\ stage = "ex" /\ ToExMem
      /\ UNCHANGED <<text, dmem, regs, memwb>>
  <2>1. pipe_stage_execute
    BY DEF HNext, Next, ExCommits, ExLive, pipe_stage_wb, WbBubble, WbInstr,
           pipe_stage_mem, MemBubble, MemDone, MemStore, MemOther,
           pipe_stage_decode, IdBubble, IdDone, IdR, IdI, IdJ, IdOther,
           pipe_stage_fetch, IfHeld, IfFetch, Step
  <2> QED
    BY <2>1 DEF ExCommits, ExLive, pipe_stage_execute, ExBubble, ExDone,
                ExNext, ExTaken
<1>2. AfterMemWb' = AfterMemWb
  BY <1>1 DEF AfterMemWb
<1>3. /\ ~exmem'.nop /\ ~exmem'.done /\ exmem'.opcode = idex.opcode
      /\ exmem'.ALUresult = AluResult /\ exmem'.dest = idex.dest
      /\ exmem'.rt = idex.rt
      /\ exmem'.reg_write = WritesReg(idex.opcode)
      /\ idex.opcode = OpSw => exmem'.mem_write_val = Operand2
  BY <1>1 DEF ToExMem
<1>4. /\ ReadsOperands /\ ArchRegs = AfterMemWb /\ ArchMem = dmem
      /\ idex.dest = DestOf(text[apc])
  BY ExecuteReads DEF DecodedFrom
<1>5. MemResult' = IF idex.opcode = OpLw THEN ReadWord(dmem, AluResult)
                                         ELSE AluResult
  BY <1>1, <1>3 DEF MemResult, ReadWord
<1>6. ArchRegs' = IF WritesReg(idex.opcode)
                  THEN [AfterMemWb EXCEPT ![idex.dest] = MemResult']
                  ELSE AfterMemWb
  BY <1>2, <1>3 DEF ArchRegs, InExMem
<1>7. ASSUME idex.opcode = OpSw PROVE StoreValue' = Operand2
  <2>1. StoreValue' = IF memwb.dest = idex.rt THEN memwb.data ELSE Operand2
    BY <1>1, <1>3, <1>7 DEF StoreValue
  <2>2. UsesRt
    BY <1>7 DEF UsesRt
  <2> QED
    BY <1>7, <2>1, <2>2 DEF ReadsCurrent
<1>8. ArchMem' = IF idex.opcode = OpSw
                 THEN WriteWord(dmem, AluResult, StoreValue') ELSE dmem
  BY <1>1, <1>3 DEF ArchMem, InExMem, WriteWord
<1> QED
  BY <1>1, <1>4, <1>5, <1>6, <1>7, <1>8

\* Where control goes.
LEMMA ExecuteGoes ==
  ASSUME TypeOK, ControlInv, HNext, ExCommits
  PROVE  apc' = IF BranchTaken
                THEN OffsetPC(NextPC(apc), SignExtend(text[apc].imm))
                ELSE NextPC(apc)
<1>1. DecodedFrom(apc)
  BY CommitsAtApc
<1>2. ASSUME BranchTaken
      PROVE  pc' = OffsetPC(idex.PCval, idex.imm) /\ idex.opcode > 3
  <2>1. ExTaken
    BY <1>2
       DEF HNext, Next, ExCommits, ExLive, pipe_stage_wb, WbBubble, WbInstr,
           pipe_stage_mem, MemBubble, MemDone, MemStore, MemOther,
           pipe_stage_execute, ExBubble, ExDone, ExNext,
           pipe_stage_decode, IdBubble, IdDone, IdR, IdI, IdJ, IdOther,
           pipe_stage_fetch, IfHeld, IfFetch, Step
  <2> QED
    BY <1>2, <2>1 DEF ExTaken, BranchTaken, Taken
<1> QED
  BY <1>1, <1>2, Committed DEF DecodedFrom

\* The ALU computes what the instruction set says of the instruction at apc.
LEMMA SameAlu ==
  ASSUME TypeOK, ControlInv, PassedOn, ReadsCurrent, ExCommits,
         NEW a, a = ArchRegs[text[apc].rs], NEW b, b = ArchRegs[text[apc].rt],
         NEW imm, imm = SignExtend(text[apc].imm)
  PROVE  /\ idex.opcode = OpR =>
              /\ text[apc].funct \in ISA!RFunct
              /\ AluResult = ISA!RResult(text[apc].funct, a, b)
         /\ idex.opcode \in ISA!IAluOp =>
              AluResult = ISA!IResult(idex.opcode, a, imm)
         /\ idex.opcode \in {OpLw, OpSw} => AluResult = ToWord(a + imm)
<1>1. /\ UsesRs => Operand1 = a
      /\ UsesRt => Operand2 = b
      /\ DecodedFrom(apc) /\ Supported(text[apc])
  BY ExecuteReads
<1>2. CASE idex.opcode = OpR
  <2>1. /\ idex.ALUfunc = text[apc].funct
        /\ text[apc].funct \in ISA!RFunct \ {FnSltu}
    BY <1>1, <1>2, SameSets DEF DecodedFrom, Supported, BranchOp
  <2>2. AluResult = AluR(a, b)
    BY <1>1, <1>2 DEF AluResult, UsesRs, UsesRt
  <2>3. AluR(a, b) = ISA!RResult(text[apc].funct, a, b)
    BY <2>1, SameSets, SameOperators DEF AluR, ISA!RResult
  <2> QED
    BY <1>2, <2>1, <2>2, <2>3, SameSets
<1>3. CASE idex.opcode \in ISA!IAluOp \union {OpLw, OpSw}
  <2>1. idex.imm = imm
    BY <1>1, <1>3, SameSets DEF DecodedFrom
  <2>2. AluResult = AluI(Operand1, imm)
    BY <1>1, <1>3, <2>1, SameSets DEF AluResult
  <2>3. CASE idex.opcode = OpLui
    <3>1. AluI(Operand1, imm) = ISA!IResult(idex.opcode, a, imm)
      BY <2>3, SameOperators DEF AluI, ISA!IResult
    <3> QED
      BY <2>2, <2>3, <3>1
  <2>4. CASE idex.opcode # OpLui
    <3>1. Operand1 = a
      BY <1>1, <1>3, <2>4 DEF UsesRs
    <3>2. idex.opcode \in ISA!IAluOp
            => AluI(a, imm) = ISA!IResult(idex.opcode, a, imm)
      BY SameSets, SameOperators DEF AluI, AluSum, OriImm, ISA!IResult
    <3>3. idex.opcode \in {OpLw, OpSw} => AluI(a, imm) = ToWord(a + imm)
      BY DEF AluI, AluSum
    <3> QED
      BY <1>3, <2>2, <3>1, <3>2, <3>3, SameSets
  <2> QED
    BY <2>3, <2>4
<1> QED
  BY <1>2, <1>3

LEMMA ExecutesOne ==
  ASSUME TypeOK, ControlInv, PassedOn, ReadsCurrent, HNext, ExCommits
  PROVE  ISA!Exec
<1> DEFINE ins == text[apc]
           a   == ArchRegs[ins.rs]
           b   == ArchRegs[ins.rt]
           imm == SignExtend(ins.imm)
<1>1. /\ idex.opcode = ins.op /\ Supported(ins) /\ ins # ZeroWord
      /\ idex.opcode # OpJ
      /\ BranchTaken <=> Taken(ins.op, a, b)
  <2>1. /\ idex.opcode = ins.op /\ Supported(ins) /\ ins # ZeroWord
        /\ idex.opcode # OpJ
        /\ UsesRs => Operand1 = a
        /\ UsesRt => Operand2 = b
    BY ExecuteReads DEF DecodedFrom, ExCommits
  <2>2. BranchTaken <=> Taken(ins.op, a, b)
    BY <2>1 DEF BranchTaken, Taken, UsesRs, UsesRt, BranchOp
  <2> QED
    BY <2>1, <2>2
<1>2. /\ text' = text
      /\ ArchRegs' = IF WritesReg(ins.op)
                     THEN [ArchRegs EXCEPT ![DestOf(ins)] =
                             IF ins.op = OpLw THEN ReadWord(ArchMem, AluResult)
                                              ELSE AluResult]
                     ELSE ArchRegs
      /\ ArchMem' = IF ins.op = OpSw THEN WriteWord(ArchMem, AluResult, b)
                                     ELSE ArchMem
  BY <1>1, ExecuteWrites, ExecuteReads DEF UsesRt
<1>3. /\ ins.op \in BranchOp =>
           apc' = IF Taken(ins.op, a, b) THEN OffsetPC(NextPC(apc), imm)
                                         ELSE NextPC(apc)
      /\ ins.op \notin BranchOp => apc' = NextPC(apc)
  BY <1>1, ExecuteGoes DEF Taken, BranchOp
<1>4. CASE ins.op = OpR
  <2>1. /\ ins.funct \in ISA!RFunct
        /\ AluResult = ISA!RResult(ins.funct, a, b)
    BY <1>1, <1>4, SameAlu
  <2>2. ArchRegs' = [ArchRegs EXCEPT ![ins.rd] = AluResult]
        /\ ArchMem' = ArchMem /\ apc' = NextPC(apc)
    BY <1>2, <1>3, <1>4 DEF WritesReg, DestOf, BranchOp
  <2> QED
    BY <1>2, <1>4, <2>1, <2>2, SameOperators DEF ISA!Exec, ISA!ExecR
<1>5. CASE ins.op \in ISA!IAluOp
  <2>1. AluResult = ISA!IResult(ins.op, a, imm)
    BY <1>1, <1>5, SameAlu
  <2>2. ArchRegs' = [ArchRegs EXCEPT ![ins.rt] = AluResult]
        /\ ArchMem' = ArchMem /\ apc' = NextPC(apc)
    <3>1. ins.op \in {OpAddi, OpAddiu, OpSlti, OpOri, OpLui}
      BY <1>5, SameSets
    <3>2. /\ WritesReg(ins.op) /\ ins.op # OpSw /\ ins.op # OpLw
          /\ DestOf(ins) = ins.rt /\ ins.op \notin BranchOp
      BY <3>1 DEF WritesReg, DestOf, BranchOp
    <3> QED
      BY <1>2, <1>3, <3>2
  <2> QED
    BY <1>2, <1>5, <2>1, <2>2, SameOperators DEF ISA!Exec, ISA!ExecIAlu
<1>6. CASE ins.op = OpLw
  <2>1. AluResult = ISA!EffectiveAddr(ins)
    BY <1>1, <1>6, SameAlu, SameOperators DEF ISA!EffectiveAddr
  <2>2. ArchRegs' = [ArchRegs EXCEPT ![ins.rt] = ReadWord(ArchMem, AluResult)]
        /\ ArchMem' = ArchMem /\ apc' = NextPC(apc)
    BY <1>2, <1>3, <1>6 DEF WritesReg, DestOf, BranchOp
  <2> QED
    BY <1>2, <1>6, <2>1, <2>2, SameOperators DEF ISA!Exec, ISA!ExecLoad
<1>7. CASE ins.op = OpSw
  <2>1. AluResult = ISA!EffectiveAddr(ins)
    BY <1>1, <1>7, SameAlu, SameOperators DEF ISA!EffectiveAddr
  <2>2. ArchRegs' = ArchRegs /\ ArchMem' = WriteWord(ArchMem, AluResult, b)
        /\ apc' = NextPC(apc)
    BY <1>2, <1>3, <1>7 DEF WritesReg, BranchOp
  <2> QED
    BY <1>2, <1>7, <2>1, <2>2, SameOperators DEF ISA!Exec, ISA!ExecStore
<1>8. CASE ins.op \in BranchOp
  <2>1. ArchRegs' = ArchRegs /\ ArchMem' = ArchMem
    BY <1>2, <1>8 DEF WritesReg, BranchOp
  <2>2. ISA!Taken(ins.op, a, b) <=> Taken(ins.op, a, b)
    BY SameOperators DEF Taken, ISA!Taken
  <2> QED
    BY <1>2, <1>3, <1>8, <2>1, <2>2, SameOperators, SameSets
       DEF ISA!Exec, ISA!ExecBranch
<1> QED
  BY <1>1, <1>4, <1>5, <1>6, <1>7, <1>8 DEF Supported

\* A jump takes effect when it is decoded.
LEMMA DecodesJump ==
  ASSUME TypeOK, ControlInv, HNext, pipe_stage_decode, IdCommits
  PROVE  ISA!Exec
<1>1. IdLive /\ ifde.instruction = text[apc] /\ text[apc].op = OpJ
  BY DecodesAtApc DEF IdCommits
<1>2. text' = text /\ pc' = text[apc].addr
  BY <1>1 DEF pipe_stage_decode, IdBubble, IdDone, IdR, IdI, IdJ, IdOther,
              IdLive
<1>3. apc' = pc'
  BY InOrderOfStages DEF HNext, IdCommits, IdLive
<1>4. ArchRegs' = ArchRegs /\ ArchMem' = ArchMem
  BY ArchFront DEF ArchSame
<1> QED
  BY <1>1, <1>2, <1>3, <1>4 DEF ISA!Exec, ISA!ExecJump

\* Every step is one instruction or changes nothing the instruction set sees,
\* if the instruction reads what it should.
LEMMA StepImplements ==
  TypeOK /\ FlowInv /\ ControlInv /\ WrittenBack /\ PassedOn
    /\ (ExCommits => ReadsCurrent) /\ [HNext]_hvars
    => [ISA!Exec]_(ISA!isaVars)
<1> SUFFICES ASSUME TypeOK, FlowInv, ControlInv, WrittenBack, PassedOn,
                    ExCommits => ReadsCurrent, [HNext]_hvars, ~ISA!Exec
             PROVE  UNCHANGED ISA!isaVars
  OBVIOUS
<1> SUFFICES text' = text /\ apc' = apc /\ ArchSame
  BY DEF ISA!isaVars, ArchSame
<1>1. CASE HNext /\ (pipe_stage_wb \/ pipe_stage_mem)
  BY <1>1, BackStages, ArchWriteBack, ArchMemory
<1>2. CASE HNext /\ pipe_stage_execute
  <2>1. ~ExCommits
    BY <1>2, ExecutesOne
  <2>2. /\ stage = "ex" /\ UNCHANGED <<text, dmem, regs, memwb>>
    BY <1>2 DEF pipe_stage_execute, ExBubble, ExDone, ExNext, ExTaken, Step,
                pipeRegs
  <2>3. apc' = apc
    BY <1>2, <2>1, <2>2, NotCommitted, InOrderOfStages
  <2>4. AfterMemWb' = AfterMemWb
    BY <2>2 DEF AfterMemWb
  <2>5. ArchRegs = AfterMemWb /\ ArchMem = dmem
    BY <2>2 DEF PassedOn
  <2>6. CASE ExBubble
    <3>1. exmem' = exmem
      BY <2>6 DEF ExBubble, pipeRegs
    <3> QED
      BY <2>2, <2>3, <2>4, <3>1
         DEF ArchSame, ArchRegs, ArchMem, InExMem, MemResult, ReadWord,
             StoreValue, WriteWord
  <2>7. CASE ExDone
    <3>1. ~InExMem'
      BY <2>7 DEF ExDone, InExMem, TypeOK, EXMEM
    <3> QED
      BY <2>2, <2>3, <2>4, <2>5, <3>1 DEF ArchSame, ArchRegs, ArchMem
  <2>8. CASE ExNext \/ ExTaken
    <3>1. ToExMem /\ idex.opcode = OpJ
      BY <2>1, <2>2, <2>8 DEF ExNext, ExTaken, ExCommits, ExLive
    <3>2. ~WritesReg(idex.opcode) /\ idex.opcode # OpSw
      BY <3>1 DEF WritesReg
    <3>3. ~exmem'.reg_write /\ exmem'.opcode # OpSw
      BY <3>1, <3>2 DEF ToExMem
    <3> QED
      BY <2>2, <2>3, <2>4, <2>5, <3>3 DEF ArchSame, ArchRegs, ArchMem
  <2> QED
    BY <1>2, <2>6, <2>7, <2>8 DEF pipe_stage_execute
<1>3. CASE HNext /\ (pipe_stage_decode \/ pipe_stage_fetch)
  <2>1. ~IdCommits
    BY <1>3, DecodesJump
       DEF IdCommits, IdLive, pipe_stage_fetch, IfHeld, IfFetch, Step
  <2>2. text' = text /\ stage # "ex"
    BY <1>3 DEF pipe_stage_decode, IdBubble, IdDone, IdR, IdI, IdJ, IdOther,
                pipe_stage_fetch, IfHeld, IfFetch, Step
  <2>3. apc' = apc
    BY <1>3, <2>1, <2>2, NotCommitted, InOrderOfStages
  <2> QED
    BY <1>3, <2>2, <2>3, ArchFront
<1>4. CASE UNCHANGED hvars
  BY <1>4 DEF hvars, ArchSame, ArchRegs, ArchMem, AfterMemWb, InExMem,
              MemResult, ReadWord, StoreValue, WriteWord
<1> QED
  BY <1>1, <1>2, <1>3, <1>4 DEF HNext, Next

LEMMA InitImplements == HInit => ISA!Init
<1> SUFFICES ASSUME HInit PROVE ISA!Init
  OBVIOUS
<1>1. TypeOK /\ apc = 0
  BY InitType DEF HInit
<1>2. ArchRegs = regs /\ ArchMem = ZeroMem
  BY DEF HInit, Init, ArchRegs, ArchMem, AfterMemWb, InExMem
<1> QED
  BY <1>1, <1>2, SameSets DEF ISA!Init, TypeOK

\* The pipeline implements the instruction set: seen through what is in
\* flight, every step executes the next instruction of the program or none.
\* No instruction is lost, repeated, reordered or executed on a wrong path,
\* whatever branches (pipe.c:142-147), forwarding (252-275) and dropped
\* fetches (385-388) do.
THEOREM PipelineImplementsISA ==
  ASSUME ProgramsScheduled
  PROVE  HSpec => ImplementsISA
<1>1. HInit => ISA!Init
  BY InitImplements
<1>2. TypeOK /\ ISAInv /\ [HNext]_hvars => [ISA!Exec]_(ISA!isaVars)
  BY StepImplements, InvReadsCurrent DEF ISAInv, ForwardInv, DataInv
<1> QED
  BY <1>1, <1>2, ISAAlways, PTL DEF HSpec, ImplementsISA

-----------------------------------------------------------------------------
(* The command loop around the pipeline.                                   *)

\* What a step of the shell is for the machine.
LEMMA ShellSteps ==
  ASSUME SNext
  PROVE  \/ StageCall /\ HNext /\ inputs' = inputs
         \/ UNCHANGED hvars /\ UNCHANGED handVars /\ inputs' = inputs
         \/ input_cmd
BY DEF SNext, Go, Run, exit_shell, GoCycle, RunCycle, GoReturns, RunReturns,
       shellVars, StageCall

LEMMA InputStep ==
  ASSUME TypeOK, inputs \in Nat, input_cmd
  PROVE  /\ TypeOK' /\ inputs' \in Nat /\ inputs' # inputs
         /\ UNCHANGED <<text, dmem, pc, ifde, idex, exmem, memwb, run, stage,
                        apc>>
         /\ \E r \in Reg, v \in InputValues :
              /\ regs' = [regs EXCEPT ![r] = v]
              /\ typed' = typed \union {r} /\ unread' = unread \union {r}
<1>1. /\ UNCHANGED <<text, dmem, pc, ifde, idex, exmem, memwb, run, stage,
                     apc>>
      /\ \E r \in Reg, v \in InputValues :
           /\ regs' = [regs EXCEPT ![r] = v]
           /\ typed' = typed \union {r} /\ unread' = unread \union {r}
  BY DEF input_cmd, pipeRegs
<1>2. regs' \in [Reg -> Word]
  BY <1>1, InputValuesAssumption DEF TypeOK
<1>3. inputs' \in Nat /\ inputs' # inputs
  BY DEF input_cmd
<1> QED
  BY <1>1, <1>2, <1>3 DEF TypeOK

LEMMA ShellType == SSpec => [](TypeOK /\ inputs \in Nat)
<1>1. SInit => TypeOK /\ inputs \in Nat
  BY InitType DEF SInit, HInit
<1>2. TypeOK /\ inputs \in Nat /\ [SNext]_svars
        => (TypeOK /\ inputs \in Nat)'
  <2> SUFFICES ASSUME TypeOK, inputs \in Nat, [SNext]_svars
               PROVE  (TypeOK /\ inputs \in Nat)'
    OBVIOUS
  <2>1. CASE HNext /\ inputs' = inputs
    BY <2>1, StepType DEF HNext
  <2>2. CASE UNCHANGED hvars /\ inputs' = inputs
    BY <2>2, StepType DEF hvars, vars
  <2>3. CASE input_cmd
    BY <2>3, InputStep
  <2>4. CASE UNCHANGED svars
    BY <2>4, StepType DEF svars, vars
  <2> QED
    BY <2>1, <2>2, <2>3, <2>4, ShellSteps
<1> QED
  BY <1>1, <1>2, PTL DEF SSpec

\* FlowInv says nothing of the registers, so that input leaves it alone.
LEMMA FlowInput ==
  ASSUME FlowInv,
         UNCHANGED <<text, pc, ifde, idex, exmem, memwb, stage>>
  PROVE  FlowInv'
BY DEF FlowInv, ForwardableProgram, LoadUseFree, Conflict, Fetched, Decoded,
       DecodedFrom, Drained, EmptiedByBranch, InOrder, Passed, Executed,
       BehindLoad, AheadLoad, InIdEx, ReadsOperands

LEMMA ShellFlow ==
  ASSUME ProgramsForwardable
  PROVE  SSpec => []FlowInv
<1>1. SInit => FlowInv
  BY FlowInit DEF SInit, HInit
<1>2. TypeOK /\ inputs \in Nat /\ FlowInv /\ [SNext]_svars => FlowInv'
  <2> SUFFICES ASSUME TypeOK, inputs \in Nat, FlowInv, [SNext]_svars
               PROVE  FlowInv'
    OBVIOUS
  <2>1. CASE HNext /\ inputs' = inputs
    BY <2>1, FlowStep DEF HNext
  <2>2. CASE UNCHANGED hvars /\ inputs' = inputs
    BY <2>2, FlowStep DEF hvars, vars
  <2>3. CASE input_cmd
    BY <2>3, InputStep, FlowInput
  <2>4. CASE UNCHANGED svars
    BY <2>4, FlowStep DEF svars, vars
  <2> QED
    BY <2>1, <2>2, <2>3, <2>4, ShellSteps
<1> QED
  BY <1>1, <1>2, ShellType, PTL DEF SSpec

-----------------------------------------------------------------------------
(* Registers set by hand.  The invariant of the forwarding proof without   *)
(* what an input puts out of date: the record of the last write-back, and  *)
(* what decode has read.                                                   *)

RecordSeen ==
  memwb.reg_wrote # 0 /\ memwb.reg_wrote \notin typed
    => regs[memwb.reg_wrote] = memwb.wrote_val

OperandsSeen ==
  stage # "id" /\ InIdEx /\ ReadsOperands =>
    /\ idex.rs \notin unread => StillRead(idex.rs, idex.reg_val1)
    /\ idex.rt \notin unread => StillRead(idex.rt, idex.reg_val2)

LEMMA RecordStep ==
  ASSUME TypeOK, RecordSeen, StageCall
  PROVE  RecordSeen'
<1>1. CASE WbInstr
  <2>1. CASE memwb.reg_write
    <3>1. /\ memwb'.reg_wrote = memwb.dest /\ memwb'.wrote_val = memwb.data
          /\ regs' = [regs EXCEPT ![memwb.dest] = memwb.data]
          /\ memwb.dest \in Reg
      BY <1>1, <2>1 DEF WbInstr, Recorded, TypeOK, MEMWB
    <3> QED
      BY <3>1 DEF RecordSeen, TypeOK
  <2>2. CASE ~memwb.reg_write
    <3>1. UNCHANGED <<regs, memwb>> /\ Written = {}
      BY <1>1, <2>2 DEF WbInstr, Written
    <3> QED
      BY <3>1 DEF RecordSeen, StageCall
  <2> QED
    BY <2>1, <2>2 DEF TypeOK, MEMWB
<1>2. CASE ~WbInstr
  <2>1. /\ regs' = regs /\ Written = {}
        /\ memwb'.reg_wrote = memwb.reg_wrote
        /\ memwb'.wrote_val = memwb.wrote_val
    BY <1>2 DEF StageCall, HNext, Next, pipe_stage_wb, WbBubble,
       pipe_stage_mem, MemBubble, MemDone, MemStore, MemOther,
       pipe_stage_execute, ExBubble, ExDone, ExNext, ExTaken,
       pipe_stage_decode, IdBubble, IdDone, IdR, IdI, IdJ, IdOther,
       pipe_stage_fetch, IfHeld, IfFetch, Step, Written, TypeOK, MEMWB,
       pipeRegs
  <2> QED
    BY <2>1 DEF RecordSeen, StageCall
<1> QED
  BY <1>1, <1>2

LEMMA ReadStep ==
  ASSUME TypeOK, FlowInv, OperandsSeen, StageCall
  PROVE  OperandsSeen'
<1>1. CASE pipe_stage_wb
  <2>1. /\ stage = "wb" /\ stage' = "mem" /\ idex' = idex
        /\ unread' = unread \ Written
    BY <1>1 DEF pipe_stage_wb, WbBubble, WbInstr, Step, pipeRegs, StageCall
  <2>2. ASSUME NEW r \in Reg, NEW val \in Word,
               r \notin unread => StillRead(r, val), r \notin unread'
        PROVE  StillRead(r, val)'
    <3>1. CASE WbInstr /\ memwb.reg_write /\ memwb.dest = r
      BY <2>1, <3>1 DEF WbInstr, Recorded, StillRead, FlowInv, InOrder,
                        TypeOK, MEMWB
    <3>2. CASE ~(WbInstr /\ memwb.reg_write /\ memwb.dest = r)
      <4>1. r \notin Written /\ regs'[r] = regs[r]
        BY <1>1, <2>1, <3>2 DEF pipe_stage_wb, WbBubble, WbInstr, Written,
                                TypeOK, MEMWB
      <4> QED
        BY <2>1, <2>2, <4>1 DEF StillRead
    <3> QED
      BY <3>1, <3>2
  <2>3. /\ idex.rs \in Reg /\ idex.rt \in Reg
        /\ idex.reg_val1 \in Word /\ idex.reg_val2 \in Word
    BY DEF TypeOK, IDEX
  <2> QED
    BY <2>1, <2>2, <2>3 DEF OperandsSeen, InIdEx, ReadsOperands
<1>2. CASE pipe_stage_mem
  <2>1. /\ stage = "mem" /\ stage' = "ex" /\ idex' = idex /\ regs' = regs
        /\ memwb'.reg_wrote = memwb.reg_wrote
    BY <1>2 DEF pipe_stage_mem, MemBubble, MemDone, MemStore, MemOther, Step,
                TypeOK, MEMWB, pipeRegs
  <2>2. unread' = unread
    BY <2>1 DEF StageCall, Written
  <2> QED
    BY <2>1, <2>2 DEF OperandsSeen, StillRead, InIdEx, ReadsOperands
<1>3. CASE pipe_stage_execute
  BY <1>3 DEF pipe_stage_execute, ExBubble, ExDone, ExNext, ExTaken, Step,
              OperandsSeen
<1>4. CASE pipe_stage_decode
  BY <1>4, OperandsDecode DEF OperandsRead, OperandsSeen
<1>5. CASE pipe_stage_fetch
  <2>1. /\ stage = "if" /\ stage' = "wb"
        /\ UNCHANGED <<regs, idex, memwb>>
    BY <1>5 DEF pipe_stage_fetch, IfHeld, IfFetch, Step
  <2>2. unread' = unread
    BY <2>1 DEF StageCall, Written
  <2> QED
    BY <2>1, <2>2 DEF OperandsSeen, StillRead, InIdEx, ReadsOperands
<1> QED
  BY <1>1, <1>2, <1>3, <1>4, <1>5 DEF StageCall, HNext, Next

LEMMA SeenStep ==
  ASSUME TypeOK, inputs \in Nat, FlowInv, RecordSeen, OperandsSeen,
         [SNext]_svars
  PROVE  RecordSeen' /\ OperandsSeen'
<1>1. CASE StageCall
  BY <1>1, RecordStep, ReadStep
<1>2. CASE UNCHANGED hvars /\ UNCHANGED handVars
  BY <1>2 DEF hvars, handVars, RecordSeen, OperandsSeen, StillRead, InIdEx,
              ReadsOperands
<1>3. CASE input_cmd
  <2>1. /\ UNCHANGED <<idex, memwb, stage>>
        /\ \E r \in Reg, v \in InputValues :
             /\ regs' = [regs EXCEPT ![r] = v]
             /\ typed' = typed \union {r} /\ unread' = unread \union {r}
    BY <1>3, InputStep
  <2>2. /\ idex.rs \in Reg /\ idex.rt \in Reg /\ memwb.reg_wrote \in Reg
    BY DEF TypeOK, IDEX, MEMWB
  <2>3. RecordSeen'
    BY <2>1, <2>2 DEF RecordSeen, TypeOK
  <2>4. OperandsSeen'
    BY <2>1, <2>2 DEF OperandsSeen, StillRead, InIdEx, ReadsOperands, TypeOK
  <2> QED
    BY <2>3, <2>4
<1>4. CASE UNCHANGED svars
  BY <1>4 DEF svars, RecordSeen, OperandsSeen, StillRead, InIdEx,
              ReadsOperands
<1> QED
  BY <1>1, <1>2, <1>3, <1>4, ShellSteps

LEMMA SeenGives ==
  ASSUME TypeOK, FlowInv, RecordSeen, OperandsSeen
  PROVE  OtherInputIsRead
<1> SUFFICES ASSUME ExLive, NEW r \in Reg, NEW val \in Word, SeenAsSet(r),
                    r \notin unread => StillRead(r, val),
                    exmem.opcode = OpLw /\ ~exmem.nop => exmem.dest # r
             PROVE  Forwarded(r, val) = AfterMemWb[r]
  <2>1. ExLive => stage = "ex" /\ InIdEx
    BY DEF ExLive, InIdEx
  <2> QED
    BY <2>1, UsedIsRead
       DEF OtherInputIsRead, Operand1, Operand2, FlowInv, OperandsSeen,
           AheadLoad, TypeOK, IDEX
<1>1. memwb.reg_wrote # 0 /\ memwb.reg_wrote = r => regs[r] = memwb.wrote_val
  BY DEF SeenAsSet, Masked, RecordSeen
<1>2. regs[r] # val => memwb.reg_wrote # 0 /\ memwb.reg_wrote = r
  BY DEF SeenAsSet, StillRead
<1> QED
  BY <1>1, <1>2, ForwardsCurrent

LEMMA SeenAlways ==
  ASSUME ProgramsForwardable
  PROVE  SSpec => [](RecordSeen /\ OperandsSeen)
<1>1. SInit => RecordSeen /\ OperandsSeen
  BY DEF SInit, HInit, Init, RecordSeen, OperandsSeen, InIdEx
<1> QED
  BY <1>1, SeenStep, ShellType, ShellFlow, PTL DEF SSpec

\* Whatever is typed between two cycles, in every program forwarding works
\* for: execute computes with the registers as they were set at the prompt
\* (shell.c:354-375), but for a register that was decoded before it was set,
\* and for the register of the last write-back (pipe.c:252-275).
THEOREM OtherInputCorrect ==
  ASSUME ProgramsForwardable
  PROVE  SSpec => []OtherInputIsRead
BY SeenGives, SeenAlways, ShellType, ShellFlow, PTL

\* Without input, every session of commands executes the instruction set.
THEOREM SessionsImplementISA ==
  ASSUME ProgramsScheduled, MaxInputs = 0
  PROVE  SSpec => ImplementsISA
<1>1. SInit => HInit
  BY DEF SInit
<1>2. inputs \in Nat /\ [SNext]_svars => [HNext]_hvars
  <2> SUFFICES ASSUME inputs \in Nat, SNext \/ UNCHANGED svars
               PROVE  HNext \/ UNCHANGED hvars
    OBVIOUS
  <2>1. ~input_cmd
    BY DEF input_cmd
  <2>2. UNCHANGED svars => UNCHANGED hvars
    BY DEF svars, hvars
  <2> QED
    BY <2>1, <2>2, ShellSteps
<1>3. SSpec => HSpec
  BY <1>1, <1>2, ShellType, PTL DEF SSpec, HSpec
<1> QED
  BY <1>3, PipelineImplementsISA

-----------------------------------------------------------------------------
(* The end.  That `go' completes (GoCompletes) is a liveness property, and *)
(* out of the prover's reach; what makes it true is not: once the zero     *)
(* word is the next instruction, every stage function pipe_cycle calls     *)
(* brings RUN_BIT nearer to being cleared.                                 *)

\* Every program is scheduled, and none starts with the zero word or has it as
\* the target of a branch.
ProgramsEnd == \A prog \in Programs : Scheduled(prog) /\ EndsInSequence(prog)

\* What of ISAInv is independent of the values in the registers.
EndInv ==
  /\ FlowInv
  /\ ControlInv
  /\ memwb.done => exmem.done

\* The stages the done bit has to go through are not empty when it gets
\* there, and the fetch is not held back for the end by a taken branch.
PassesDone ==
  /\ EndsInSequence(text)
  /\ text[apc] = ZeroWord =>
       ~idex.nop /\ (stage = "id" => ~ifde.nofetch)
  /\ idex.done => ~exmem.nop
  /\ stage = "id" /\ ~idex.nop => ~exmem.nop
  /\ exmem.done \/ (idex.done /\ stage = "ex") => ~memwb.nop

Place == [wb |-> 0, mem |-> 1, ex |-> 2, id |-> 3, if |-> 4]

\* The calls of stage functions up to and including one of `to', when one of
\* `from' is the next.
Calls(from, to) ==
  Place[to] - Place[from] + (IF Place[from] > Place[to] THEN 6 ELSE 1)

\* The end has yet to be fetched, a cycle later or two.
NotFetched == IF stage = "if" THEN ifde.nofetch ELSE ifde.nop

\* The calls there are left until RUN_BIT is cleared.  From each stage to the
\* next the done bit takes four, being passed on against their order.
CallsLeft ==
  IF ~idex.done       THEN Calls(stage, "id") + (IF NotFetched THEN 17 ELSE 12)
  ELSE IF ~exmem.done THEN Calls(stage, "ex") + 8
  ELSE IF ~memwb.done THEN Calls(stage, "mem") + 4
                      ELSE Calls(stage, "wb")

Ending == run /\ text[apc] = ZeroWord

\* With nothing left to execute, every call of a stage function leaves fewer
\* of them, until one clears RUN_BIT.
EndsStepByStep ==
  [][Ending => /\ text'[apc'] = ZeroWord
               /\ run' => CallsLeft' < CallsLeft]_hvars

LEMMA CallsValues ==
  /\ Calls("wb", "wb") = 1 /\ Calls("wb", "mem") = 2
  /\ Calls("wb", "ex") = 3 /\ Calls("wb", "id") = 4
  /\ Calls("mem", "wb") = 5 /\ Calls("mem", "mem") = 1
  /\ Calls("mem", "ex") = 2 /\ Calls("mem", "id") = 3
  /\ Calls("ex", "wb") = 4 /\ Calls("ex", "mem") = 5
  /\ Calls("ex", "ex") = 1 /\ Calls("ex", "id") = 2
  /\ Calls("id", "wb") = 3 /\ Calls("id", "mem") = 4
  /\ Calls("id", "ex") = 5 /\ Calls("id", "id") = 1
  /\ Calls("if", "wb") = 2 /\ Calls("if", "mem") = 3
  /\ Calls("if", "ex") = 4 /\ Calls("if", "id") = 5
<1> DEFINE P == Place
<1>1. P["wb"] = 0 /\ P["mem"] = 1 /\ P["ex"] = 2 /\ P["id"] = 3 /\ P["if"] = 4
  BY DEF Place
<1> HIDE DEF P
<1>2. \A s, t : Calls(s, t) = P[t] - P[s] + (IF P[s] > P[t] THEN 6 ELSE 1)
  BY DEF Calls, P
<1> QED
  BY <1>1, <1>2

LEMMA EndInit == ProgramsEnd /\ HInit => EndInv /\ PassesDone
<1> SUFFICES ASSUME ProgramsEnd, HInit PROVE EndInv /\ PassesDone
  OBVIOUS
<1> USE DEF HInit, Init
<1>1. FlowInv
  BY FlowInit DEF ProgramsEnd, ProgramsForwardable, Scheduled,
                  ForwardableProgram
<1>2. Scheduled(text) /\ apc \in PC
  BY PCType DEF ProgramsEnd
<1>3. InStep /\ AtEnd /\ Held /\ BehindControl
  BY DEF InStep, NextDecoded, Pending, InIdEx, AtEnd, Held, BehindControl,
         InExMem
<1>4. PassesDone
  BY DEF PassesDone, ProgramsEnd, EndsInSequence
<1> QED
  BY <1>1, <1>2, <1>3, <1>4 DEF EndInv, ControlInv

\* What is executed or decoded is an instruction, never the zero word.
LEMMA NothingAtEnd ==
  ASSUME TypeOK, EndInv, text[apc] = ZeroWord
  PROVE  ~ExCommits /\ ~IdLive /\ ~IdCommits
BY CommitsAtApc, DecodesAtApc DEF EndInv, DecodedFrom, IdCommits

LEMMA PassesBack ==
  TypeOK /\ EndInv /\ PassesDone /\ HNext /\ (pipe_stage_wb \/ pipe_stage_mem)
    => PassesDone'
<1> SUFFICES ASSUME TypeOK, EndInv, PassesDone, HNext,
                    pipe_stage_wb \/ pipe_stage_mem
             PROVE  PassesDone'
  OBVIOUS
<1> USE DEF PassesDone
<1>1. /\ UNCHANGED <<text, ifde, idex, apc>>
      /\ exmem'.nop = exmem.nop /\ exmem'.done = exmem.done
      /\ stage' \in {"mem", "ex"}
  BY BackStages
<1>2. EndsInSequence(text)'
  BY <1>1 DEF EndsInSequence, TargetOf
<1>3. exmem'.done \/ (idex'.done /\ stage' = "ex") => ~memwb'.nop
  <2>1. exmem.done => idex.done
    BY DEF EndInv, FlowInv, InOrder
  <2>2. CASE pipe_stage_wb
    <3>1. stage' = "mem"
      BY <2>2 DEF pipe_stage_wb, WbBubble, WbInstr, Step
    <3>2. memwb'.nop = memwb.nop
      BY <2>2 DEF pipe_stage_wb, WbBubble, WbInstr, Recorded, TypeOK, MEMWB,
                  pipeRegs
    <3> QED
      BY <1>1, <3>1, <3>2
  <2>3. CASE pipe_stage_mem
    <3>1. CASE MemBubble
      BY <1>1, <2>1, <3>1 DEF MemBubble
    <3>2. CASE MemDone
      BY <1>1, <3>2 DEF MemDone, TypeOK, MEMWB
    <3>3. CASE MemStore \/ MemOther
      BY <3>3 DEF MemStore, MemOther, TypeOK, MEMWB
    <3> QED
      BY <2>3, <3>1, <3>2, <3>3 DEF pipe_stage_mem
  <2> QED
    BY <2>2, <2>3
<1> QED
  BY <1>1, <1>2, <1>3

LEMMA PassesExecute ==
  TypeOK /\ EndInv /\ PassesDone /\ HNext /\ pipe_stage_execute => PassesDone'
<1> SUFFICES ASSUME TypeOK, EndInv, PassesDone, HNext, pipe_stage_execute
             PROVE  PassesDone'
  OBVIOUS
<1> USE DEF PassesDone
<1>1. stage = "ex" /\ stage' = "id" /\ text' = text /\ memwb' = memwb
  BY DEF pipe_stage_execute, ExBubble, ExDone, ExNext, ExTaken, Step, pipeRegs
<1>2. EndsInSequence(text)'
  BY <1>1 DEF EndsInSequence, TargetOf
<1>3. ~ifde.nofetch
  BY <1>1 DEF EndInv, ControlInv, Held
<1>4. CASE ExBubble \/ ExDone
  <2>1. UNCHANGED <<idex, ifde>> /\ ~ExCommits
    BY <1>4 DEF ExBubble, ExDone, pipeRegs, ExCommits, ExLive
  <2>2. apc' = apc
    BY <1>1, <2>1, NotCommitted, InOrderOfStages
  <2>3. exmem'.nop = exmem.nop /\ (exmem'.done => exmem.done \/ idex.done)
    BY <1>4 DEF ExBubble, ExDone, pipeRegs, TypeOK, EXMEM
  <2>4. ~idex.nop => idex.done
    BY <1>4 DEF ExBubble, ExDone
  <2> QED
    BY <1>1, <1>2, <1>3, <2>1, <2>2, <2>3, <2>4
<1>5. CASE ExNext
  <2>1. /\ ifde' = ifde /\ ~idex'.nop /\ ~idex'.done
        /\ ~exmem'.nop /\ ~exmem'.done
    BY <1>5 DEF ExNext, ToExMem, TypeOK, IDEX
  <2> QED
    BY <1>1, <1>2, <1>3, <2>1
<1>6. CASE ExTaken
  <2>1. /\ ExCommits /\ BranchTaken /\ idex.opcode \in BranchOp
        /\ ~idex'.done /\ ~exmem'.nop /\ ~exmem'.done
    BY <1>6 DEF ExTaken, ToExMem, ExCommits, ExLive, Step, BranchTaken, Taken,
                BranchOp, TypeOK, IDEX
  <2>2. /\ apc' = pc' /\ idex.PCval = NextPC(apc) /\ idex.opcode = text[apc].op
        /\ idex.imm = SignExtend(text[apc].imm) /\ apc \in PC
    BY <2>1, CommitsAtApc, Committed
       DEF DecodedFrom, BranchOp, EndInv, ControlInv
  <2>3. apc' = TargetOf(text, apc)
    BY <1>6, <2>1, <2>2 DEF ExTaken, TargetOf, BranchOp
  <2>4. text'[apc'] # ZeroWord
    BY <1>1, <2>1, <2>2, <2>3 DEF EndsInSequence
  <2> QED
    BY <1>1, <1>2, <2>1, <2>4
<1> QED
  BY <1>4, <1>5, <1>6 DEF pipe_stage_execute

LEMMA PassesFront ==
  TypeOK /\ EndInv /\ PassesDone /\ HNext
    /\ (pipe_stage_decode \/ pipe_stage_fetch) => PassesDone'
<1> SUFFICES ASSUME TypeOK, EndInv, PassesDone, HNext,
                    pipe_stage_decode \/ pipe_stage_fetch
             PROVE  PassesDone'
  OBVIOUS
<1> USE DEF PassesDone
<1>1. /\ stage \in {"id", "if"} /\ stage' \in {"if", "wb"}
      /\ text' = text /\ exmem' = exmem /\ memwb' = memwb
  BY DEF pipe_stage_decode, IdBubble, IdDone, IdR, IdI, IdJ, IdOther,
         pipe_stage_fetch, IfHeld, IfFetch, Step, pipeRegs
<1>2. EndsInSequence(text)' /\ ~ExCommits
  BY <1>1, InOrderOfStages DEF EndsInSequence, TargetOf
<1>3. CASE IdBubble \/ pipe_stage_fetch
  <2>1. idex' = idex /\ ~IdCommits
    BY <1>3 DEF IdBubble, pipe_stage_fetch, IfHeld, IfFetch, Step, pipeRegs,
                IdCommits, IdLive
  <2>2. apc' = apc
    BY <1>2, <2>1, NotCommitted
  <2> QED
    BY <1>1, <1>2, <2>1, <2>2
<1>4. CASE IdDone
  <2>1. stage = "id" /\ idex'.nop = idex.nop /\ ~IdCommits
    BY <1>4 DEF IdDone, Step, TypeOK, IDEX, IdCommits, IdLive
  <2>2. apc' = apc
    BY <1>2, <2>1, NotCommitted
  <2>3. text[apc] = ZeroWord
    BY <1>4 DEF IdDone, Step, EndInv, ControlInv, InStep, NextDecoded, Pending,
                AtEnd
  <2> QED
    BY <1>1, <1>2, <2>1, <2>2, <2>3
<1>5. CASE IdR \/ IdI \/ IdJ \/ IdOther
  <2>1. ~idex'.nop /\ ~idex'.done /\ stage' = "if"
    BY <1>5 DEF IdR, IdI, IdJ, IdOther, IdLive, Step, TypeOK, IDEX
  <2>2. ~exmem.done
    BY <1>5 DEF IdR, IdI, IdJ, IdOther, IdLive, EndInv, FlowInv,
                InOrder
  <2> QED
    BY <1>1, <1>2, <2>1, <2>2
<1> QED
  BY <1>3, <1>4, <1>5 DEF pipe_stage_decode

LEMMA EndStep ==
  TypeOK /\ EndInv /\ PassesDone /\ HNext => EndInv' /\ PassesDone'
<1> SUFFICES ASSUME TypeOK, EndInv, PassesDone, HNext
             PROVE  EndInv' /\ PassesDone'
  OBVIOUS
<1>1. FlowInv /\ ControlInv /\ Next
  BY DEF EndInv, HNext
<1>2. FlowInv'
  BY <1>1, FlowStep
<1>3. ControlInv'
  BY <1>1, ControlBack, ControlExecute, ControlDecode, ControlFetch DEF Next
<1>4. memwb'.done => exmem'.done
  <2>1. (memwb.done => exmem.done) /\ (exmem.done => idex.done)
    BY DEF EndInv, FlowInv, InOrder
  <2>2. CASE pipe_stage_wb
    BY <2>1, <2>2 DEF pipe_stage_wb, WbBubble, WbInstr, Recorded, TypeOK,
                      MEMWB, pipeRegs
  <2>3. CASE pipe_stage_mem
    BY <2>1, <2>3 DEF pipe_stage_mem, MemBubble, MemDone, MemStore, MemOther,
                      TypeOK, MEMWB, pipeRegs
  <2>4. CASE pipe_stage_execute
    BY <2>1, <2>4 DEF pipe_stage_execute, ExBubble, ExDone, ExNext, ExTaken,
                      TypeOK, EXMEM, pipeRegs
  <2>5. CASE pipe_stage_decode \/ pipe_stage_fetch
    BY <2>1, <2>5 DEF pipe_stage_decode, IdBubble, IdDone, IdR, IdI, IdJ,
                      IdOther, pipe_stage_fetch, IfHeld, IfFetch, pipeRegs
  <2> QED
    BY <1>1, <2>2, <2>3, <2>4, <2>5 DEF Next
<1>5. PassesDone'
  BY <1>1, PassesBack, PassesExecute, PassesFront DEF Next
<1> QED
  BY <1>2, <1>3, <1>4, <1>5 DEF EndInv

\* Nor do the registers matter.
LEMMA EndSame ==
  ASSUME EndInv, PassesDone,
         UNCHANGED <<text, dmem, pc, ifde, idex, exmem, memwb, run, stage,
                     apc>>
  PROVE  EndInv' /\ PassesDone'
<1>1. FlowInv' /\ ControlInv'
  BY FlowInput, ControlSame DEF EndInv
<1>2. PassesDone'
  BY DEF PassesDone, EndsInSequence, TargetOf
<1> QED
  BY <1>1, <1>2 DEF EndInv

LEMMA EndAlways ==
  ASSUME ProgramsEnd
  PROVE  HSpec => [](TypeOK /\ EndInv /\ PassesDone)
<1>1. HInit => TypeOK /\ EndInv /\ PassesDone
  BY EndInit, InitType, HSpecIsSpec
<1>2. TypeOK /\ EndInv /\ PassesDone /\ [HNext]_hvars
        => (TypeOK /\ EndInv /\ PassesDone)'
  <2> SUFFICES ASSUME TypeOK, EndInv, PassesDone, [HNext]_hvars
               PROVE  TypeOK' /\ EndInv' /\ PassesDone'
    OBVIOUS
  <2>1. TypeOK'
    BY StepType, HSpecIsSpec
  <2>2. UNCHANGED hvars => EndInv' /\ PassesDone'
    BY EndSame DEF hvars
  <2> QED
    BY <2>1, <2>2, EndStep
<1> QED
  BY <1>1, <1>2, PTL DEF HSpec

\* What CallsLeft is, by how far the done bit has got.
LEMMA CallsByStage ==
  /\ ~idex.done /\ NotFetched => CallsLeft = Calls(stage, "id") + 17
  /\ ~idex.done /\ ~NotFetched => CallsLeft = Calls(stage, "id") + 12
  /\ idex.done /\ ~exmem.done => CallsLeft = Calls(stage, "ex") + 8
  /\ idex.done /\ exmem.done /\ ~memwb.done
       => CallsLeft = Calls(stage, "mem") + 4
  /\ idex.done /\ exmem.done /\ memwb.done => CallsLeft = Calls(stage, "wb")
BY DEF CallsLeft

\* How far the done bit has got, in order.
LEMMA DoneInOrder ==
  ASSUME TypeOK, EndInv
  PROVE  (memwb.done => exmem.done) /\ (exmem.done => idex.done)
BY DEF EndInv, FlowInv, InOrder

LEMMA CallsBounded ==
  TypeOK /\ EndInv => CallsLeft \in 1 .. 22
<1> SUFFICES ASSUME TypeOK, EndInv PROVE CallsLeft \in 1 .. 22
  OBVIOUS
<1>1. /\ Calls(stage, "id") \in 1 .. 5 /\ Calls(stage, "ex") \in 1 .. 5
      /\ Calls(stage, "mem") \in 1 .. 5 /\ Calls(stage, "wb") \in 1 .. 5
  BY CallsValues DEF TypeOK, Stages
<1> QED
  BY <1>1, CallsByStage, DoneInOrder DEF TypeOK, IDEX, EXMEM, MEMWB

\* A call that leaves the done bits and what is fetched as they were is one
\* call less.
LEMMA CallsPass ==
  ASSUME TypeOK, EndInv,
         idex'.done = idex.done, exmem'.done = exmem.done,
         memwb'.done = memwb.done, idex.done \/ NotFetched' = NotFetched,
         \/ stage = "wb" /\ stage' = "mem" /\ ~memwb.done
         \/ stage = "mem" /\ stage' = "ex" /\ (exmem.done => memwb.done)
         \/ stage = "ex" /\ stage' = "id" /\ (idex.done => exmem.done)
         \/ stage = "id" /\ stage' = "if" /\ idex.done
         \/ stage = "if" /\ stage' = "wb"
  PROVE  CallsLeft' < CallsLeft
<1>1. \/ ~idex.done \/ (idex.done /\ ~exmem.done)
      \/ (idex.done /\ exmem.done /\ ~memwb.done)
      \/ (idex.done /\ exmem.done /\ memwb.done)
  OBVIOUS
<1> DEFINE L == CallsLeft
           L1 == CallsLeft'
<1>2. CASE ~idex.done
  <2>1. ~exmem.done /\ ~memwb.done
    BY <1>2, DoneInOrder
  <2>2. \E k \in {12, 17} : /\ L = Calls(stage, "id") + k
                            /\ L1 = Calls(stage', "id") + k
    BY <1>2 DEF CallsLeft
  <2>3. Calls(stage', "id") = Calls(stage, "id") - 1
        /\ Calls(stage, "id") \in Int
    BY <1>2, CallsValues
  <2> QED
    BY <2>2, <2>3
<1>3. CASE idex.done /\ ~exmem.done
  <2>1. L = Calls(stage, "ex") + 8 /\ L1 = Calls(stage', "ex") + 8
    BY <1>3 DEF CallsLeft
  <2>2. Calls(stage', "ex") = Calls(stage, "ex") - 1
        /\ Calls(stage, "ex") \in Int
    BY <1>3, CallsValues
  <2> QED
    BY <2>1, <2>2
<1>4. CASE idex.done /\ exmem.done /\ ~memwb.done
  <2>1. L = Calls(stage, "mem") + 4 /\ L1 = Calls(stage', "mem") + 4
    BY <1>4 DEF CallsLeft
  <2>2. Calls(stage', "mem") = Calls(stage, "mem") - 1
        /\ Calls(stage, "mem") \in Int
    BY <1>4, CallsValues
  <2> QED
    BY <2>1, <2>2
<1>5. CASE idex.done /\ exmem.done /\ memwb.done
  <2>1. L = Calls(stage, "wb") /\ L1 = Calls(stage', "wb")
    BY <1>5 DEF CallsLeft
  <2>2. Calls(stage', "wb") = Calls(stage, "wb") - 1
        /\ Calls(stage, "wb") \in Int
    BY <1>5, CallsValues
  <2> QED
    BY <2>1, <2>2
<1> QED
  BY <1>1, <1>2, <1>3, <1>4, <1>5

\* Nothing takes effect any more.
LEMMA EndingStays ==
  ASSUME TypeOK, EndInv, text[apc] = ZeroWord, HNext
  PROVE  apc' = apc /\ text' = text
<1>1. apc' = apc
  BY NothingAtEnd, NotCommitted
<1>2. text' = text
  BY DEF HNext, Next, pipe_stage_wb, WbBubble, WbInstr,
         pipe_stage_mem, MemBubble, MemDone, MemStore, MemOther,
         pipe_stage_execute, ExBubble, ExDone, ExNext, ExTaken,
         pipe_stage_decode, IdBubble, IdDone, IdR, IdI, IdJ, IdOther,
         pipe_stage_fetch, IfHeld, IfFetch
<1> QED
  BY <1>1, <1>2

LEMMA CallsBack ==
  ASSUME TypeOK, EndInv, PassesDone, HNext, Ending, run',
         pipe_stage_wb \/ pipe_stage_mem
  PROVE  CallsLeft' < CallsLeft
<1>1. /\ UNCHANGED <<ifde, idex>> /\ exmem'.done = exmem.done
      /\ \/ stage = "wb" /\ stage' = "mem"
         \/ stage = "mem" /\ stage' = "ex"
  BY BackStages
<1>2. NotFetched' = NotFetched
  BY <1>1 DEF NotFetched
<1>3. CASE pipe_stage_wb
  <2>1. memwb'.done = memwb.done /\ stage = "wb" /\ ~memwb.done
    BY <1>3, DoneInOrder
       DEF pipe_stage_wb, WbBubble, WbInstr, Recorded, Finished, Step, TypeOK,
           MEMWB, pipeRegs, PassesDone
  <2> QED
    BY <1>1, <1>2, <2>1, CallsPass
<1>4. CASE pipe_stage_mem
  <2>1. stage = "mem" /\ stage' = "ex"
    BY <1>4, <1>1 DEF pipe_stage_mem, MemBubble, MemDone, MemStore, MemOther,
                      Step
  <2>2. CASE exmem.done /\ ~memwb.done
    <3>1. memwb'.done /\ idex.done /\ idex'.done /\ exmem'.done
      BY <1>1, <1>4, <2>2, DoneInOrder
         DEF pipe_stage_mem, MemBubble, MemDone, MemStore, MemOther, TypeOK,
             MEMWB, PassesDone
    <3>2. CallsLeft = Calls("mem", "mem") + 4
      BY <2>1, <2>2, <3>1, CallsByStage
    <3>3. CallsLeft' = Calls("ex", "wb")
      BY <2>1, <3>1 DEF CallsLeft
    <3> QED
      BY <3>2, <3>3, CallsValues
  <2>3. CASE ~(exmem.done /\ ~memwb.done)
    <3>1. memwb'.done = memwb.done
      BY <1>4, <2>3, DoneInOrder
         DEF pipe_stage_mem, MemBubble, MemDone, MemStore, MemOther, TypeOK,
             MEMWB, pipeRegs
    <3> QED
      BY <1>1, <1>2, <2>1, <2>3, <3>1, CallsPass
  <2> QED
    BY <2>2, <2>3
<1> QED
  BY <1>3, <1>4

LEMMA CallsExecute ==
  ASSUME TypeOK, EndInv, PassesDone, HNext, Ending, pipe_stage_execute
  PROVE  CallsLeft' < CallsLeft
<1>1. stage = "ex" /\ stage' = "id" /\ memwb' = memwb
  BY DEF pipe_stage_execute, ExBubble, ExDone, ExNext, ExTaken, Step, pipeRegs
<1>2. ~idex.nop /\ ~ExCommits
  BY NothingAtEnd DEF Ending, PassesDone
<1>3. CASE idex.done /\ ~exmem.done
  <2>1. ExDone
    BY <1>2, <1>3 DEF pipe_stage_execute, ExBubble, ExNext, ExTaken
  <2>2. idex'.done /\ exmem'.done /\ ~memwb'.done
    BY <1>1, <1>3, <2>1, DoneInOrder DEF ExDone, TypeOK, EXMEM
  <2>3. CallsLeft = Calls("ex", "ex") + 8
    BY <1>1, <1>3, CallsByStage
  <2>4. CallsLeft' = Calls("id", "mem") + 4
    BY <1>1, <2>2 DEF CallsLeft
  <2> QED
    BY <2>3, <2>4, CallsValues
<1>4. CASE idex.done /\ exmem.done
  <2>1. ExDone
    BY <1>2, <1>4 DEF pipe_stage_execute, ExBubble, ExNext, ExTaken
  <2>2. idex' = idex /\ exmem'.done = exmem.done
    BY <1>4, <2>1 DEF ExDone, TypeOK, EXMEM
  <2> QED
    BY <1>1, <1>4, <2>2, CallsPass
<1>5. CASE ~idex.done
  <2>1. idex.opcode = OpJ /\ ~exmem.done
    BY <1>1, <1>2, <1>5, DoneInOrder DEF ExCommits, ExLive
  <2>2. ExNext
    BY <1>2, <1>5, <2>1
       DEF pipe_stage_execute, ExBubble, ExDone, ExTaken, BranchTaken, Taken
  <2>3. /\ ifde' = ifde /\ idex'.done = idex.done /\ exmem'.done = exmem.done
    BY <1>5, <2>1, <2>2 DEF ExNext, ToExMem, TypeOK, IDEX, EXMEM
  <2>4. NotFetched' = NotFetched
    BY <1>1, <2>3 DEF NotFetched
  <2> QED
    BY <1>1, <1>5, <2>3, <2>4, CallsPass
<1> QED
  BY <1>3, <1>4, <1>5

LEMMA CallsDecode ==
  ASSUME TypeOK, EndInv, PassesDone, HNext, Ending, pipe_stage_decode
  PROVE  CallsLeft' < CallsLeft
<1>1. /\ stage = "id" /\ stage' = "if" /\ exmem' = exmem /\ memwb' = memwb
      /\ IdBubble \/ IdDone
  BY NothingAtEnd
     DEF pipe_stage_decode, IdBubble, IdDone, IdR, IdI, IdJ, IdOther, Step,
         pipeRegs, Ending
<1>2. CASE idex.done
  <2>1. idex'.done = idex.done
    BY <1>1, <1>2 DEF IdBubble, IdDone, TypeOK, IDEX, pipeRegs
  <2> QED
    BY <1>1, <1>2, <2>1, CallsPass
<1>3. CASE ~idex.done /\ IdBubble
  <2>1. ifde.nop /\ ~ifde.nofetch /\ UNCHANGED <<ifde, idex>>
    BY <1>1, <1>3 DEF IdBubble, pipeRegs, PassesDone, Ending
  <2>2. NotFetched /\ ~NotFetched'
    BY <1>1, <2>1 DEF NotFetched
  <2>3. CallsLeft = Calls("id", "id") + 17
    BY <1>1, <1>3, <2>2, CallsByStage
  <2>4. CallsLeft' = Calls("if", "id") + 12
    BY <1>1, <1>3, <2>1, <2>2 DEF CallsLeft
  <2> QED
    BY <2>3, <2>4, CallsValues
<1>4. CASE ~idex.done /\ IdDone
  <2>1. ~ifde.nop /\ idex'.done /\ ~exmem'.done
    BY <1>1, <1>4, DoneInOrder DEF IdDone, TypeOK, IDEX
  <2>2. ~NotFetched
    BY <1>1, <2>1 DEF NotFetched
  <2>3. CallsLeft = Calls("id", "id") + 12
    BY <1>1, <1>4, <2>2, CallsByStage
  <2>4. CallsLeft' = Calls("if", "ex") + 8
    BY <1>1, <2>1 DEF CallsLeft
  <2> QED
    BY <2>3, <2>4, CallsValues
<1> QED
  BY <1>1, <1>2, <1>3, <1>4

LEMMA CallsFetch ==
  ASSUME TypeOK, EndInv, pipe_stage_fetch
  PROVE  CallsLeft' < CallsLeft
<1>1. /\ stage = "if" /\ stage' = "wb" /\ UNCHANGED <<idex, exmem, memwb>>
  BY DEF pipe_stage_fetch, IfHeld, IfFetch, Step
<1>2. NotFetched' = NotFetched
  <2>1. CASE IfHeld
    BY <1>1, <2>1 DEF IfHeld, NotFetched, TypeOK, IFDE, EndInv, FlowInv,
                      Fetched
  <2>2. CASE IfFetch
    BY <1>1, <2>2 DEF IfFetch, NotFetched, TypeOK, IFDE
  <2> QED
    BY <2>1, <2>2 DEF pipe_stage_fetch
<1> QED
  BY <1>1, <1>2, CallsPass

LEMMA CallsDown ==
  ASSUME TypeOK, EndInv, PassesDone, HNext, Ending
  PROVE  /\ text'[apc'] = ZeroWord
         /\ run' => CallsLeft' < CallsLeft
<1>1. text'[apc'] = ZeroWord
  BY EndingStays DEF Ending
<1>2. run' => CallsLeft' < CallsLeft
  BY CallsBack, CallsExecute, CallsDecode, CallsFetch DEF HNext, Next
<1> QED
  BY <1>1, <1>2

\* Once the program has nothing left to execute it stays so, and RUN_BIT is
\* cleared by one of the next 22 stage functions called (pipe.c:50-51, 58-60,
\* 248-250, 347-349).
THEOREM DoneGetsThrough ==
  ASSUME ProgramsEnd
  PROVE  HSpec => [](CallsLeft \in 1 .. 22) /\ EndsStepByStep
<1>1. TypeOK /\ EndInv => CallsLeft \in 1 .. 22
  BY CallsBounded
<1>2. TypeOK /\ EndInv /\ PassesDone /\ [HNext]_hvars
        => [Ending => /\ text'[apc'] = ZeroWord
                      /\ run' => CallsLeft' < CallsLeft]_hvars
  BY CallsDown
<1> QED
  BY <1>1, <1>2, EndAlways, PTL DEF HSpec, EndsStepByStep

-----------------------------------------------------------------------------
(* Commands come back.  RunEnds and GoEnds are liveness properties too;    *)
(* the countdowns they rest on are proved, whatever is typed between them. *)

InCommand == cmd \in {"go", "run"}

\* The user types between two cycles, and run has a number of them to go.
BetweenCycles ==
  /\ ~InCommand => stage = "wb"
  /\ left \in Nat

\* The stage functions pipe_cycle has yet to call in the cycle it started.
RestOfCycle ==
  CASE stage = "wb"  -> 0
    [] stage = "mem" -> 4
    [] stage = "ex"  -> 3
    [] stage = "id"  -> 2
    [] stage = "if"  -> 1

StagesLeft == 5 * left + RestOfCycle

\* Every step of a run command takes one from StagesLeft, or is the last.
RunCountsDown ==
  [][cmd = "run" => \/ cmd' = "run" /\ StagesLeft' = StagesLeft - 1
                    \/ cmd' = "prompt"]_svars

LEMMA NextStage ==
  ASSUME Next
  PROVE  \/ stage = "wb" /\ stage' = "mem"
         \/ stage = "mem" /\ stage' = "ex"
         \/ stage = "ex" /\ stage' = "id"
         \/ stage = "id" /\ stage' = "if"
         \/ stage = "if" /\ stage' = "wb"
BY DEF Next, pipe_stage_wb, WbBubble, WbInstr,
       pipe_stage_mem, MemBubble, MemDone, MemStore, MemOther,
       pipe_stage_execute, ExBubble, ExDone, ExNext, ExTaken,
       pipe_stage_decode, IdBubble, IdDone, IdR, IdI, IdJ, IdOther,
       pipe_stage_fetch, IfHeld, IfFetch, Step

LEMMA BetweenStep ==
  BetweenCycles /\ [SNext]_svars => BetweenCycles'
<1> SUFFICES ASSUME BetweenCycles, [SNext]_svars PROVE BetweenCycles'
  OBVIOUS
<1> USE DEF BetweenCycles, InCommand
<1>1. CASE Go \/ exit_shell \/ GoReturns \/ RunReturns \/ UNCHANGED svars
  BY <1>1 DEF Go, exit_shell, GoReturns, RunReturns, Prompt, hvars, svars
<1>2. CASE Run
  BY <1>2, RunCountsAssumption DEF Run
<1>3. CASE input_cmd
  BY <1>3 DEF input_cmd
<1>4. CASE GoCycle
  BY <1>4 DEF GoCycle, shellVars
<1>5. CASE RunCycle
  <2>1. cmd' = "run" /\ left' = left - Counted /\ (stage = "wb" => left > 0)
    BY <1>5 DEF RunCycle
  <2>2. Counted = IF stage = "wb" THEN 1 ELSE 0
    BY DEF Counted, NewCycle
  <2> QED
    BY <2>1, <2>2
<1> QED
  BY <1>1, <1>2, <1>3, <1>4, <1>5 DEF SNext

\* `run n' calls no more than 5n stage functions before the prompt is back,
\* whatever the program: it always stops between two cycles, and its countdown
\* has no step that leaves it as it was (shell.c:151-177).
THEOREM RunComesBack ==
  SSpec => []BetweenCycles /\ [](StagesLeft \in Nat) /\ RunCountsDown
<1>1. SInit => BetweenCycles
  BY DEF SInit, HInit, Init, BetweenCycles, InCommand
<1>2. TypeOK /\ BetweenCycles => StagesLeft \in Nat
  <2> SUFFICES ASSUME TypeOK, BetweenCycles PROVE StagesLeft \in Nat
    OBVIOUS
  <2>1. RestOfCycle \in 0 .. 4
    BY DEF RestOfCycle, TypeOK, Stages
  <2> QED
    BY <2>1 DEF StagesLeft, BetweenCycles
<1>3. TypeOK /\ BetweenCycles /\ [SNext]_svars
        => [cmd = "run" => \/ cmd' = "run" /\ StagesLeft' = StagesLeft - 1
                           \/ cmd' = "prompt"]_svars
  <2> SUFFICES ASSUME TypeOK, BetweenCycles, SNext, cmd = "run"
               PROVE  \/ cmd' = "run" /\ StagesLeft' = StagesLeft - 1
                      \/ cmd' = "prompt"
    OBVIOUS
  <2>1. RunCycle \/ RunReturns
    BY DEF SNext, Go, Run, input_cmd, exit_shell, GoCycle, GoReturns, Prompt
  <2>2. CASE RunReturns
    BY <2>2 DEF RunReturns
  <2>3. CASE RunCycle
    <3>1. Next /\ cmd' = "run" /\ left' = left - Counted /\ left \in Nat
      BY <2>3 DEF RunCycle, StageCall, HNext, BetweenCycles
    <3>2. CASE stage = "wb" /\ stage' = "mem"
      <4>1. Counted = 1 /\ RestOfCycle = 0 /\ RestOfCycle' = 4
        BY <3>2 DEF Counted, NewCycle, RestOfCycle
      <4> QED
        BY <3>1, <4>1 DEF StagesLeft
    <3>3. ASSUME stage # "wb", stage \in Stages,
                 RestOfCycle \in Nat, RestOfCycle' = RestOfCycle - 1
          PROVE  StagesLeft' = StagesLeft - 1
      <4>1. Counted = 0
        BY <3>3 DEF Counted, NewCycle
      <4> QED
        BY <3>1, <3>3, <4>1 DEF StagesLeft
    <3>4. CASE stage = "mem" /\ stage' = "ex"
      <4>1. RestOfCycle = 4 /\ RestOfCycle' = 3
        BY <3>4 DEF RestOfCycle
      <4> QED
        BY <3>1, <3>3, <3>4, <4>1 DEF Stages
    <3>5. CASE stage = "ex" /\ stage' = "id"
      <4>1. RestOfCycle = 3 /\ RestOfCycle' = 2
        BY <3>5 DEF RestOfCycle
      <4> QED
        BY <3>1, <3>3, <3>5, <4>1 DEF Stages
    <3>6. CASE stage = "id" /\ stage' = "if"
      <4>1. RestOfCycle = 2 /\ RestOfCycle' = 1
        BY <3>6 DEF RestOfCycle
      <4> QED
        BY <3>1, <3>3, <3>6, <4>1 DEF Stages
    <3>7. CASE stage = "if" /\ stage' = "wb"
      <4>1. RestOfCycle = 1 /\ RestOfCycle' = 0
        BY <3>7 DEF RestOfCycle
      <4> QED
        BY <3>1, <3>3, <3>7, <4>1 DEF Stages
    <3> QED
      BY <3>1, <3>2, <3>4, <3>5, <3>6, <3>7, NextStage
  <2> QED
    BY <2>1, <2>2, <2>3
<1>4. SSpec => []BetweenCycles
  BY <1>1, BetweenStep, PTL DEF SSpec
<1> QED
  BY <1>2, <1>3, <1>4, ShellType, PTL DEF SSpec, RunCountsDown

\* The stage functions `go' has yet to call: those until RUN_BIT is cleared in
\* write-back, and then the other four of that cycle.
GoLeft == IF run THEN CallsLeft + 4 ELSE RestOfCycle

\* At the end of the program every step of `go' is one of those, or the last.
GoCountsDown ==
  [][cmd = "go" /\ text[apc] = ZeroWord =>
       \/ cmd' = "go" /\ text'[apc'] = ZeroWord /\ GoLeft' < GoLeft
       \/ cmd' = "prompt"]_svars

LEMMA EndShell ==
  ASSUME ProgramsEnd
  PROVE  SSpec => [](EndInv /\ PassesDone)
<1>1. SInit => EndInv /\ PassesDone
  BY EndInit DEF SInit
<1>2. TypeOK /\ inputs \in Nat /\ EndInv /\ PassesDone /\ [SNext]_svars
        => EndInv' /\ PassesDone'
  <2> SUFFICES ASSUME TypeOK, inputs \in Nat, EndInv, PassesDone,
                      [SNext]_svars
               PROVE  EndInv' /\ PassesDone'
    OBVIOUS
  <2>1. CASE HNext
    BY <2>1, EndStep
  <2>2. CASE UNCHANGED hvars
    BY <2>2, EndSame DEF hvars
  <2>3. CASE input_cmd
    BY <2>3, InputStep, EndSame
  <2>4. CASE UNCHANGED svars
    BY <2>4, EndSame DEF svars
  <2> QED
    BY <2>1, <2>2, <2>3, <2>4, ShellSteps
<1> QED
  BY <1>1, <1>2, ShellType, PTL DEF SSpec

LEMMA GoSteps ==
  ASSUME TypeOK, EndInv, PassesDone, text[apc] = ZeroWord, HNext
  PROVE  text'[apc'] = ZeroWord /\ GoLeft' < GoLeft
<1>1. text'[apc'] = ZeroWord
  BY EndingStays
<1>2. Next /\ CallsLeft \in 1 .. 22
  BY CallsBounded DEF HNext
<1>3. CASE run /\ run'
  <2>1. CallsLeft' < CallsLeft
    BY <1>3, CallsDown DEF Ending
  <2>2. TypeOK' /\ EndInv'
    BY <1>2, StepType, EndStep
  <2>3. CallsLeft' \in 1 .. 22
    <3>1. (TypeOK /\ EndInv => CallsLeft \in 1 .. 22)'
      BY CallsBounded, PTL
    <3> QED
      BY <2>2, <3>1
  <2>4. GoLeft = CallsLeft + 4 /\ GoLeft' = CallsLeft' + 4
    BY <1>3 DEF GoLeft
  <2> DEFINE c == CallsLeft
             c1 == CallsLeft'
  <2>5. c \in Int /\ c1 \in Int /\ c1 < c /\ GoLeft = c + 4
        /\ GoLeft' = c1 + 4
    BY <1>2, <2>1, <2>3, <2>4
  <2> HIDE DEF c, c1
  <2> QED
    BY <1>1, <2>5
<1>4. CASE run /\ ~run'
  <2>1. RestOfCycle' \in 0 .. 4
    BY <1>2, NextStage DEF RestOfCycle
  <2> QED
    BY <1>1, <1>2, <1>4, <2>1 DEF GoLeft
<1>5. CASE ~run
  <2>1. ~run' /\ stage # "wb"
    BY <1>2, <1>5 DEF Next, pipe_stage_wb, WbBubble, WbInstr,
       pipe_stage_mem, MemBubble, MemDone, MemStore, MemOther,
       pipe_stage_execute, ExBubble, ExDone, ExNext, ExTaken,
       pipe_stage_decode, IdBubble, IdDone, IdR, IdI, IdJ, IdOther,
       pipe_stage_fetch, IfHeld, IfFetch, Step
  <2>2. GoLeft = RestOfCycle /\ GoLeft' = RestOfCycle'
    BY <1>5, <2>1 DEF GoLeft
  <2>3. \/ RestOfCycle = 4 /\ RestOfCycle' = 3
        \/ RestOfCycle = 3 /\ RestOfCycle' = 2
        \/ RestOfCycle = 2 /\ RestOfCycle' = 1
        \/ RestOfCycle = 1 /\ RestOfCycle' = 0
    BY <1>2, <2>1, NextStage DEF RestOfCycle
  <2> QED
    BY <1>1, <2>2, <2>3
<1> QED
  BY <1>3, <1>4, <1>5

\* `go' calls 26 stage functions at most between the end of the program and the
\* prompt, wherever run commands have left the pipeline and whatever registers
\* were set by hand (shell.c:186-198).
THEOREM GoComesBack ==
  ASSUME ProgramsEnd
  PROVE  SSpec => [](GoLeft \in 0 .. 26) /\ GoCountsDown
<1>1. TypeOK /\ EndInv => GoLeft \in 0 .. 26
  <2> SUFFICES ASSUME TypeOK, EndInv PROVE GoLeft \in 0 .. 26
    OBVIOUS
  <2>1. RestOfCycle \in 0 .. 4
    BY DEF RestOfCycle, TypeOK, Stages
  <2>2. CallsLeft \in 1 .. 22
    BY CallsBounded
  <2> QED
    BY <2>1, <2>2 DEF GoLeft, TypeOK
<1>2. TypeOK /\ EndInv /\ PassesDone /\ [SNext]_svars
        => [cmd = "go" /\ text[apc] = ZeroWord =>
              \/ cmd' = "go" /\ text'[apc'] = ZeroWord /\ GoLeft' < GoLeft
              \/ cmd' = "prompt"]_svars
  <2> SUFFICES ASSUME TypeOK, EndInv, PassesDone, SNext, cmd = "go",
                      text[apc] = ZeroWord
               PROVE  \/ cmd' = "go" /\ text'[apc'] = ZeroWord
                         /\ GoLeft' < GoLeft
                      \/ cmd' = "prompt"
    OBVIOUS
  <2>1. GoCycle \/ GoReturns
    BY DEF SNext, Go, Run, input_cmd, exit_shell, RunCycle, RunReturns, Prompt
  <2>2. CASE GoCycle
    <3>1. HNext /\ cmd' = "go"
      BY <2>2 DEF GoCycle, StageCall, shellVars
    <3> QED
      BY <3>1, GoSteps
  <2>3. CASE GoReturns
    BY <2>3 DEF GoReturns
  <2> QED
    BY <2>1, <2>2, <2>3
<1> QED
  BY <1>1, <1>2, ShellType, EndShell, PTL DEF SSpec, GoCountsDown

-----------------------------------------------------------------------------
(* Whole sessions.  An input puts one more thing out of date than the      *)
(* record and what decode has read: the value in MEMWB that mem-mem        *)
(* forwarding takes for that of its register.                              *)

SettledSeen ==
  ~exmem.done =>
    \/ MemWbCurrent
    \/ memwb.dest \in typed
    \/ /\ ~exmem.nop /\ exmem.opcode # OpSw
       /\ stage = "ex" => exmem.opcode \in ControlOp

SessionInv ==
  /\ FlowInv
  /\ RecordSeen /\ OperandsSeen
  /\ ControlInv
  /\ WrittenBack /\ PassedOn
  /\ FromProgram
  /\ SettledSeen

LEMMA SessionInit == ProgramsScheduled /\ SInit => SessionInv
<1> SUFFICES ASSUME ProgramsScheduled, SInit PROVE SessionInv
  OBVIOUS
<1>1. ISAInv
  BY ISAInit DEF SInit
<1>2. RecordSeen /\ OperandsSeen
  BY DEF SInit, HInit, Init, RecordSeen, OperandsSeen, InIdEx
<1> QED
  BY <1>1, <1>2 DEF SessionInv, ISAInv, ForwardInv, DataInv, Settled,
                    SettledSeen

\* An instruction that sees no input reads what it should.
LEMMA SeesNoInput ==
  ASSUME TypeOK, SessionInv, ExCommits, InputsSeen
  PROVE  ReadsCurrent
<1>1. /\ UsesRs => Operand1 = AfterMemWb[idex.rs]
      /\ UsesRt => Operand2 = AfterMemWb[idex.rt]
  BY SeenGives DEF SessionInv, InputsSeen, OtherInputIsRead, ExCommits
<1>2. ASSUME idex.opcode = OpSw, memwb.dest = idex.rt
      PROVE  MemWbCurrent
  BY <1>2, StoreAlone DEF SessionInv, SettledSeen, InputsSeen
<1> QED
  BY <1>1, <1>2 DEF ReadsCurrent, MemWbCurrent

LEMMA SettledWriteBack ==
  ASSUME TypeOK, SettledSeen, StageCall, pipe_stage_wb
  PROVE  SettledSeen'
<1>1. stage' = "mem" /\ exmem' = exmem
  BY DEF pipe_stage_wb, WbBubble, WbInstr, Step, pipeRegs
<1>2. /\ memwb'.nop = memwb.nop /\ memwb'.reg_write = memwb.reg_write
      /\ memwb'.dest = memwb.dest /\ memwb'.data = memwb.data
  BY DEF pipe_stage_wb, WbBubble, WbInstr, Recorded, TypeOK, MEMWB, pipeRegs
<1>3. regs' = AfterMemWb
  BY DEF pipe_stage_wb, WbBubble, WbInstr, AfterMemWb, TypeOK, MEMWB
<1>4. AfterMemWb' = AfterMemWb
  BY <1>2, <1>3 DEF AfterMemWb, TypeOK, MEMWB
<1>5. memwb.dest \in Written => MemWbCurrent
  BY DEF Written, MemWbCurrent, AfterMemWb, TypeOK, MEMWB
<1> QED
  BY <1>1, <1>2, <1>4, <1>5 DEF SettledSeen, MemWbCurrent, StageCall

LEMMA SettledMemory ==
  ASSUME TypeOK, SessionInv, StageCall, pipe_stage_mem
  PROVE  SettledSeen'
<1> USE DEF SessionInv
<1>1. stage = "mem" /\ stage' = "ex"
  BY DEF pipe_stage_mem, MemBubble, MemDone, MemStore, MemOther, Step
<1>2. typed' = typed
  BY <1>1 DEF StageCall, Written
<1>3. CASE MemBubble \/ MemDone
  BY <1>1, <1>2, <1>3, NothingPasses DEF SettledSeen, MemWbCurrent
<1>4. CASE MemStore
  <2>1. exmem.opcode = OpSw
    BY <1>4 DEF MemStore
  <2> QED
    BY <1>2, <1>4, <2>1, StorePasses, MemoryPasses
       DEF SettledSeen, MemWbCurrent, InExMem
<1>5. CASE MemOther
  <2>1. CASE exmem.reg_write
    BY <1>5, <2>1, ResultPasses DEF SettledSeen, MemWbCurrent
  <2>2. CASE ~exmem.reg_write
    <3>1. exmem.opcode \in SupportedOp /\ ~WritesReg(exmem.opcode)
      BY <1>5, <2>2, MemoryPasses DEF FromProgram, InExMem
    <3>2. exmem.opcode \in ControlOp
      BY <1>5, <3>1, ResultPasses
         DEF SupportedOp, ControlOp, BranchOp, WritesReg
    <3> QED
      BY <1>5, <3>2, ResultPasses, MemoryPasses DEF SettledSeen, InExMem
  <2> QED
    BY <2>1, <2>2
<1> QED
  BY <1>3, <1>4, <1>5 DEF pipe_stage_mem

LEMMA SettledExecute ==
  ASSUME TypeOK, SessionInv, StageCall, pipe_stage_execute
  PROVE  SettledSeen' /\ FromProgram'
<1> USE DEF SessionInv
<1>1. stage = "ex" /\ stage' = "id" /\ UNCHANGED <<regs, memwb>>
  BY DEF pipe_stage_execute, ExBubble, ExDone, ExNext, ExTaken, Step, pipeRegs
<1>2. typed' = typed /\ (MemWbCurrent <=> MemWbCurrent')
  BY <1>1 DEF StageCall, Written, AfterMemWb, MemWbCurrent
<1>3. CASE ExBubble
  <2>1. exmem' = exmem
    BY <1>3 DEF ExBubble, pipeRegs
  <2> QED
    BY <1>1, <1>2, <2>1 DEF SettledSeen, FromProgram
<1>4. CASE ExDone
  <2>1. /\ exmem'.done /\ exmem'.nop = exmem.nop
        /\ exmem'.opcode = exmem.opcode
    BY <1>4 DEF ExDone, TypeOK, EXMEM
  <2> QED
    BY <2>1 DEF SettledSeen, FromProgram
<1>5. CASE ExNext \/ ExTaken
  <2>1. ExLive /\ ToExMem
    BY <1>1, <1>5 DEF ExNext, ExTaken, ExLive
  <2>2. ~exmem'.nop /\ exmem'.opcode = idex.opcode
    BY <2>1 DEF ToExMem
  <2>3. idex.opcode = OpSw => MemWbCurrent \/ memwb.dest \in typed
    BY <2>1, StoreAlone DEF ExCommits, SettledSeen
  <2> QED
    BY <1>1, <1>2, <2>1, <2>2, <2>3, CommittedOpcode
       DEF SettledSeen, FromProgram
<1> QED
  BY <1>3, <1>4, <1>5 DEF pipe_stage_execute

LEMMA SettledFront ==
  ASSUME SessionInv, StageCall, pipe_stage_decode \/ pipe_stage_fetch
  PROVE  SettledSeen' /\ FromProgram'
<1>1. /\ stage \in {"id", "if"} /\ stage' \in {"if", "wb"}
      /\ UNCHANGED <<regs, exmem, memwb>>
  BY DEF pipe_stage_decode, IdBubble, IdDone, IdR, IdI, IdJ, IdOther, Step,
         pipeRegs, pipe_stage_fetch, IfHeld, IfFetch
<1>2. typed' = typed
  BY <1>1 DEF StageCall, Written
<1> QED
  BY <1>1, <1>2 DEF SessionInv, SettledSeen, MemWbCurrent, AfterMemWb,
                    FromProgram

LEMMA SessionCall ==
  ASSUME TypeOK, SessionInv, StageCall
  PROVE  SessionInv'
<1> USE DEF SessionInv
<1>1. HNext /\ FlowInv'
  BY FlowStep DEF StageCall, HNext
<1>2. RecordSeen' /\ OperandsSeen'
  BY RecordStep, ReadStep
<1>3. ControlInv'
  BY <1>1, ControlBack, ControlExecute, ControlDecode, ControlFetch
     DEF HNext, Next
<1>4. CASE pipe_stage_wb
  <2>1. FromProgram'
    BY <1>4 DEF pipe_stage_wb, WbBubble, WbInstr, pipeRegs, FromProgram
  <2> QED
    BY <1>1, <1>2, <1>3, <1>4, <2>1, SettledWriteBack, ArchWriteBack
<1>5. CASE pipe_stage_mem
  <2>1. FromProgram'
    BY <1>1, <1>5, BackStages DEF FromProgram
  <2> QED
    BY <1>1, <1>2, <1>3, <1>5, <2>1, SettledMemory, ArchMemory
<1>6. CASE pipe_stage_execute
  <2>1. (WrittenBack /\ PassedOn)'
    BY <1>6 DEF pipe_stage_execute, ExBubble, ExDone, ExNext, ExTaken, Step,
                WrittenBack, PassedOn
  <2> QED
    BY <1>1, <1>2, <1>3, <1>6, <2>1, SettledExecute
<1>7. CASE pipe_stage_decode \/ pipe_stage_fetch
  BY <1>1, <1>2, <1>3, <1>7, SettledFront, ArchFront
<1> QED
  BY <1>1, <1>4, <1>5, <1>6, <1>7 DEF HNext, Next

LEMMA SessionInput ==
  ASSUME TypeOK, inputs \in Nat, BetweenCycles, SessionInv, input_cmd
  PROVE  SessionInv'
<1> USE DEF SessionInv
<1>1. /\ UNCHANGED <<text, pc, ifde, idex, exmem, memwb, stage, apc>>
      /\ \E r \in Reg, v \in InputValues :
           regs' = [regs EXCEPT ![r] = v] /\ typed' = typed \union {r}
  BY InputStep
<1>2. FlowInv' /\ ControlInv' /\ RecordSeen' /\ OperandsSeen'
  BY <1>1, FlowInput, ControlSame, SeenStep DEF SNext
<1>3. (WrittenBack /\ PassedOn /\ FromProgram)'
  BY <1>1 DEF input_cmd, Prompt, BetweenCycles, InCommand, WrittenBack,
              PassedOn, FromProgram
<1>4. MemWbCurrent \/ memwb.dest \in typed
        => MemWbCurrent' \/ memwb.dest \in typed'
  BY <1>1 DEF MemWbCurrent, AfterMemWb, TypeOK, MEMWB
<1>5. SettledSeen'
  BY <1>1, <1>4 DEF SettledSeen
<1> QED
  BY <1>2, <1>3, <1>5

LEMMA SessionStep ==
  TypeOK /\ inputs \in Nat /\ BetweenCycles /\ SessionInv /\ [SNext]_svars
    => SessionInv'
<1> SUFFICES ASSUME TypeOK, inputs \in Nat, BetweenCycles, SessionInv,
                    [SNext]_svars
             PROVE  SessionInv'
  OBVIOUS
<1>1. ASSUME UNCHANGED hvars, UNCHANGED handVars
      PROVE  SessionInv'
  <2> USE <1>1 DEF hvars, handVars
  <2>1. FlowInv' /\ ControlInv'
    BY FlowInput, ControlSame DEF SessionInv
  <2>2. RecordSeen' /\ OperandsSeen'
    BY DEF SessionInv, RecordSeen, OperandsSeen, StillRead, InIdEx,
           ReadsOperands
  <2>3. (WrittenBack /\ PassedOn)'
    BY DEF SessionInv, WrittenBack, PassedOn, ArchRegs, ArchMem, AfterMemWb,
           InExMem, MemResult, ReadWord, StoreValue, WriteWord
  <2>4. (FromProgram /\ SettledSeen)'
    BY DEF SessionInv, FromProgram, SettledSeen, MemWbCurrent, AfterMemWb
  <2> QED
    BY <2>1, <2>2, <2>3, <2>4 DEF SessionInv
<1>2. CASE UNCHANGED svars
  BY <1>1, <1>2 DEF svars, hvars, handVars
<1> QED
  BY <1>1, <1>2, ShellSteps, SessionCall, SessionInput

\* What an input does to the registers as the program sees them.
LEMMA InputSets ==
  ASSUME TypeOK, inputs \in Nat, input_cmd
  PROVE  SetsRegister /\ inputs' # inputs
<1>1. /\ UNCHANGED <<text, dmem, exmem, memwb, apc>> /\ inputs' # inputs
      /\ \E r \in Reg, v \in InputValues : regs' = [regs EXCEPT ![r] = v]
  BY InputStep
<1>2. PICK r \in Reg, v \in InputValues : regs' = [regs EXCEPT ![r] = v]
  BY <1>1
<1>3. /\ StoreValue' = StoreValue /\ MemResult' = MemResult
      /\ InExMem' = InExMem
  BY <1>1 DEF StoreValue, MemResult, ReadWord, InExMem
<1>4. ArchMem' = ArchMem
  BY <1>1, <1>3 DEF ArchMem, WriteWord
<1> DEFINE writes == ~memwb.nop /\ memwb.reg_write
           passes == InExMem /\ exmem.reg_write
<1>5. /\ writes \in BOOLEAN /\ passes \in BOOLEAN
      /\ memwb.dest \in Reg /\ exmem.dest \in Reg
      /\ regs \in [Reg -> Word]
  BY DEF TypeOK, MEMWB, EXMEM, InExMem
<1>6. AfterMemWb = IF writes THEN [regs EXCEPT ![memwb.dest] = memwb.data]
                             ELSE regs
  BY DEF AfterMemWb
<1>7. AfterMemWb' = IF writes /\ memwb.dest = r THEN AfterMemWb
                    ELSE [AfterMemWb EXCEPT ![r] = v]
  <2>1. AfterMemWb' = IF writes
                      THEN [regs' EXCEPT ![memwb.dest] = memwb.data]
                      ELSE regs'
    BY <1>1 DEF AfterMemWb
  <2> QED
    BY <1>2, <1>5, <1>6, <2>1
<1>8. ArchRegs' = IF r \in OnTheWay THEN ArchRegs
                  ELSE [ArchRegs EXCEPT ![r] = v]
  <2>1. ArchRegs = IF passes THEN [AfterMemWb EXCEPT ![exmem.dest] = MemResult]
                             ELSE AfterMemWb
    BY DEF ArchRegs
  <2>2. ArchRegs' = IF passes
                    THEN [AfterMemWb' EXCEPT ![exmem.dest] = MemResult]
                    ELSE AfterMemWb'
    BY <1>1, <1>3 DEF ArchRegs
  <2>3. r \in OnTheWay <=> \/ writes /\ memwb.dest = r
                           \/ passes /\ exmem.dest = r
    BY DEF OnTheWay
  <2>4. DOMAIN AfterMemWb = Reg
    BY <1>5, <1>6
  <2>5. AfterMemWb = [q \in Reg |-> AfterMemWb[q]]
    BY <1>5, <1>6
  <2> HIDE DEF writes, passes
  <2> QED
    BY <1>5, <1>7, <2>1, <2>2, <2>3, <2>4, <2>5
<1> QED
  BY <1>1, <1>4, <1>8 DEF SetsRegister

\* Of a whole session, whatever is typed: between the inputs, and on the
\* registers as these leave them, the pipeline executes the program.  Only an
\* instruction that was decoded before a register of its was set, that names
\* the register of the last write-back, or that stores a register MEMWB has
\* an older value of, may do something else (shell.c:354-375, pipe.c:61-64,
\* 252-275).
THEOREM SessionCorrect ==
  ASSUME ProgramsScheduled
  PROVE  SSpec => SessionFollowsISA
<1>1. SInit => ISA!Init
  BY InitImplements DEF SInit
<1>2. SInit => SessionInv
  BY SessionInit
<1>3. SSpec => []SessionInv
  BY <1>2, SessionStep, ShellType, RunComesBack, PTL DEF SSpec
<1>4. TypeOK /\ inputs \in Nat /\ SessionInv /\ [SNext]_svars
        => [IF inputs' = inputs
            THEN ISA!Exec \/ UNCHANGED ISA!isaVars
                 \/ (ExCommits /\ ~InputsSeen)
            ELSE SetsRegister]_svars
  <2> SUFFICES ASSUME TypeOK, inputs \in Nat, SessionInv, SNext
               PROVE  IF inputs' = inputs
                      THEN ISA!Exec \/ UNCHANGED ISA!isaVars
                           \/ (ExCommits /\ ~InputsSeen)
                      ELSE SetsRegister
    OBVIOUS
  <2>1. CASE input_cmd
    BY <2>1, InputSets
  <2>2. CASE [HNext]_hvars /\ inputs' = inputs
    BY <2>2, StepImplements, SeesNoInput DEF SessionInv
  <2> QED
    BY <2>1, <2>2, ShellSteps
<1> QED
  BY <1>1, <1>3, <1>4, ShellType, PTL DEF SSpec, SessionFollowsISA
=============================================================================
