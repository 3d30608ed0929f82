--------------------------- MODULE PipelineProof ---------------------------
(***************************************************************************)
(* Theorems about the pipeline, for words, register files, memories and    *)
(* programs of any size.                                                   *)
(***************************************************************************)
EXTENDS PipelineISA, MipsProof

USE DEF OpR, OpJ, OpBeq, OpBne, OpBgtz, OpAddi, OpAddiu, OpSlti, OpOri,
        OpLui, OpLw, OpSw

-----------------------------------------------------------------------------
(* Type correctness.                                                       *)

\* What write-back and forwarding read, and what the ALU computes, are words.
LEMMA ValueTypes ==
  ASSUME TypeOK
  PROVE  /\ StoreValue \in Word
         /\ MemResult \in Word
         /\ Operand1 \in Word
         /\ Operand2 \in Word
<1> USE DEF TypeOK
<1>1. exmem.ALUresult \in Word /\ exmem.mem_write_val \in Word
  BY DEF EXMEM
<1>2. memwb.data \in Word /\ memwb.wrote_val \in Word
  BY DEF MEMWB
<1>3. idex.reg_val1 \in Word /\ idex.reg_val2 \in Word
  BY DEF IDEX
<1>4. StoreValue \in Word
  BY <1>1, <1>2 DEF StoreValue
<1>5. MemResult \in Word
  BY <1>1, MemoryType DEF MemResult
<1>6. Operand1 \in Word /\ Operand2 \in Word
  BY <1>1, <1>2, <1>3 DEF Operand1, Operand2, Forwarded
<1> QED
  BY <1>4, <1>5, <1>6

LEMMA AluType == TypeOK => AluResult \in Word
<1> SUFFICES ASSUME TypeOK PROVE AluResult \in Word
  OBVIOUS
<1>1. exmem.ALUresult \in Word
  BY DEF TypeOK, EXMEM
<1>2. idex.imm \in Int
  BY DEF TypeOK, IDEX
<1>3. Operand1 \in Word /\ Operand2 \in Word /\ Operand1 \in Int /\ Operand2 \in Int
  BY ValueTypes, SignedType
<1>4. \A b : Truth(b) \in Word
  BY WordSizeFacts DEF Truth
<1>5. ASSUME idex.opcode = OpR PROVE AluResult \in Word
  <2>1. ToWord(Operand1 + Operand2) \in Word /\ ToWord(Operand1 - Operand2) \in Word
    <3>1. Operand1 + Operand2 \in Int /\ Operand1 - Operand2 \in Int
      BY <1>3
    <3> QED
      BY <3>1, ToWordType
  <2>2. AluR(Operand1, Operand2) \in Word
    BY <2>1, <1>1, <1>4 DEF AluR
  <2> QED
    BY <1>5, <2>2 DEF AluResult
<1>6. ASSUME idex.opcode # OpR PROVE AluResult \in Word
  <2>1. ToWord(Operand1 + idex.imm) \in Word /\ ToWord(idex.imm * Half) \in Word
    <3>1. Operand1 + idex.imm \in Int /\ idex.imm * Half \in Int
      BY <1>2, <1>3, HalfAssumption
    <3> QED
      BY <3>1, ToWordType
  <2>2. BitOr(Operand1, idex.imm % Half) \in Word
    <3>1. idex.imm % Half \in HalfWord
      BY <1>2, HalfAssumption DEF HalfWord
    <3> QED
      BY <3>1, <1>3, WordSizeFacts, BitOrAssumption
  <2>3. AluI(Operand1, idex.imm) \in Word
    BY <2>1, <2>2, <1>1, <1>4 DEF AluI, AluSum, OriImm
  <2> QED
    BY <1>6, <2>3 DEF AluResult
<1> QED
  BY <1>5, <1>6

LEMMA InitType == Init => TypeOK
<1> SUFFICES ASSUME Init PROVE TypeOK
  OBVIOUS
<1>1. 0 \in Word /\ 0 \in Reg /\ 0 \in PC /\ 0 \in HalfWord
  BY WordSizeFacts, NumRegsAssumption, PCType, HalfAssumption DEF Reg, HalfWord
<1>2. ZeroWord \in Instr
  BY <1>1 DEF ZeroWord, Instr, Opcode, Funct
<1>3. text \in [PC -> Instr] /\ regs \in [Reg -> Word]
  BY ProgramsAssumption, InitRegsAssumption DEF Init
<1>4. dmem \in [DataAddr -> Word]
  BY <1>1 DEF Init, ZeroMem
<1>5. ifde \in IFDE
  BY <1>1, <1>2 DEF Init, IFDE
<1>6. idex \in IDEX
  BY <1>1 DEF Init, IDEX, Opcode, Funct
<1>7. exmem \in EXMEM /\ memwb \in MEMWB
  BY <1>1 DEF Init, EXMEM, MEMWB, Opcode
<1> QED
  BY <1>1, <1>3, <1>4, <1>5, <1>6, <1>7 DEF Init, TypeOK, Stages

LEMMA WriteBackType == TypeOK /\ pipe_stage_wb => TypeOK'
<1> SUFFICES ASSUME TypeOK, pipe_stage_wb PROVE TypeOK'
  OBVIOUS
<1>1. CASE WbBubble
  BY <1>1 DEF WbBubble, TypeOK, Step, Stages, pipeRegs
<1>2. CASE WbInstr
  <2>1. memwb.dest \in Reg /\ memwb.data \in Word /\ memwb.done \in BOOLEAN
    BY DEF TypeOK, MEMWB
  <2>2. regs' \in [Reg -> Word]
    BY <1>2, <2>1 DEF WbInstr, Recorded, Finished, TypeOK
  <2>3. memwb' \in MEMWB
    BY <1>2, <2>1 DEF WbInstr, Recorded, Finished, TypeOK, MEMWB
  <2> QED
    BY <1>2, <2>1, <2>2, <2>3 DEF WbInstr, Recorded, Finished, TypeOK, Step, Stages
<1> QED
  BY <1>1, <1>2 DEF pipe_stage_wb

LEMMA MemoryStageType == TypeOK /\ pipe_stage_mem => TypeOK'
<1> SUFFICES ASSUME TypeOK, pipe_stage_mem PROVE TypeOK'
  OBVIOUS
<1>1. CASE MemBubble
  BY <1>1 DEF MemBubble, TypeOK, Step, Stages, pipeRegs
<1>2. CASE MemDone
  <2>1. memwb' \in MEMWB
    BY <1>2 DEF MemDone, TypeOK, MEMWB
  <2> QED
    BY <1>2, <2>1 DEF MemDone, TypeOK, Step, Stages
<1>3. CASE MemStore
  <2>1. exmem' \in EXMEM
    BY <1>3, ValueTypes DEF MemStore, TypeOK, EXMEM
  <2>2. memwb' \in MEMWB
    BY <1>3 DEF MemStore, TypeOK, EXMEM, MEMWB
  <2>3. dmem' \in [DataAddr -> Word]
    BY <1>3, ValueTypes, MemoryType DEF MemStore, TypeOK, EXMEM
  <2> QED
    BY <1>3, <2>1, <2>2, <2>3 DEF MemStore, TypeOK, Step, Stages
<1>4. CASE MemOther
  <2>1. exmem' \in EXMEM
    BY <1>4, ValueTypes DEF MemOther, TypeOK, EXMEM
  <2>2. memwb' \in MEMWB
    BY <1>4, ValueTypes DEF MemOther, TypeOK, EXMEM, MEMWB
  <2> QED
    BY <1>4, <2>1, <2>2 DEF MemOther, TypeOK, Step, Stages
<1> QED
  BY <1>1, <1>2, <1>3, <1>4 DEF pipe_stage_mem

LEMMA ExecuteType == TypeOK /\ pipe_stage_execute => TypeOK'
<1> SUFFICES ASSUME TypeOK, pipe_stage_execute PROVE TypeOK'
  OBVIOUS
<1>1. ASSUME ToExMem PROVE exmem' \in EXMEM
  <2>1. /\ AluResult \in Word
        /\ Operand2 \in Word
        /\ exmem.mem_write_val \in Word
    BY AluType, ValueTypes DEF TypeOK, EXMEM
  <2>2. /\ idex.opcode \in Opcode
        /\ idex.dest \in Reg
        /\ idex.rt \in Reg
        /\ WritesReg(idex.opcode) \in BOOLEAN
    BY DEF TypeOK, IDEX, WritesReg
  <2> QED
    BY <1>1, <2>1, <2>2 DEF ToExMem, EXMEM
<1>2. CASE ExBubble
  BY <1>2 DEF ExBubble, TypeOK, Step, Stages, pipeRegs
<1>3. CASE ExDone
  <2>1. exmem' \in EXMEM
    BY <1>3 DEF ExDone, TypeOK, EXMEM
  <2> QED
    BY <1>3, <2>1 DEF ExDone, TypeOK, Step, Stages
<1>4. CASE ExNext
  <2>1. idex' \in IDEX
    BY <1>4, ValueTypes DEF ExNext, TypeOK, IDEX
  <2> QED
    BY <1>1, <1>4, <2>1 DEF ExNext, TypeOK, Step, Stages
<1>5. CASE ExTaken
  <2>1. idex' \in IDEX
    BY <1>5, ValueTypes DEF ExTaken, Redirected, TypeOK, IDEX
  <2>2. ifde' \in IFDE
    BY <1>5 DEF ExTaken, Redirected, TypeOK, IFDE
  <2>3. pc' \in PC
    BY <1>5, PCType DEF ExTaken, Redirected, TypeOK, IDEX
  <2> QED
    BY <1>1, <1>5, <2>1, <2>2, <2>3 DEF ExTaken, Redirected, TypeOK, Step, Stages
<1> QED
  BY <1>2, <1>3, <1>4, <1>5 DEF pipe_stage_execute

LEMMA DecodeType == TypeOK /\ pipe_stage_decode => TypeOK'
<1> SUFFICES ASSUME TypeOK, pipe_stage_decode PROVE TypeOK'
  OBVIOUS
<1> DEFINE ins == ifde.instruction
<1>1. /\ ins \in Instr
      /\ ifde.PCval \in PC
      /\ ins.op \in Opcode /\ ins.rs \in Reg /\ ins.rt \in Reg
      /\ ins.rd \in Reg /\ ins.funct \in Funct /\ ins.addr \in PC
      /\ SignExtend(ins.imm) \in Int
      /\ regs[ins.rs] \in Word /\ regs[ins.rt] \in Word
  BY SignedType DEF TypeOK, IFDE, Instr
<1>2. Stalled(ins) \in IFDE
  BY DEF Stalled, LoadUse, Conflict, TypeOK, IFDE
<1> HIDE DEF ins
<1>3. CASE IdBubble
  BY <1>3 DEF IdBubble, TypeOK, Step, Stages, pipeRegs
<1>4. CASE IdDone
  <2>1. idex' \in IDEX
    BY <1>4 DEF IdDone, TypeOK, IDEX
  <2> QED
    BY <1>4, <2>1 DEF IdDone, TypeOK, Step, Stages
<1>5. CASE IdR
  <2>1. idex' \in IDEX
    BY <1>5, <1>1 DEF IdR, TypeOK, IDEX, Opcode, ins
  <2> QED
    BY <1>5, <1>2, <2>1 DEF IdR, TypeOK, Step, Stages, ins
<1>6. CASE IdI
  <2>1. idex' \in IDEX
    BY <1>6, <1>1 DEF IdI, TypeOK, IDEX, ins
  <2> QED
    BY <1>6, <1>2, <2>1 DEF IdI, TypeOK, Step, Stages, ins
<1>7. CASE IdJ
  <2>1. idex' \in IDEX
    BY <1>7, <1>1 DEF IdJ, TypeOK, IDEX, Opcode, ins
  <2>2. ifde' \in IFDE /\ pc' \in PC
    BY <1>7, <1>1 DEF IdJ, TypeOK, IFDE, ins
  <2> QED
    BY <1>7, <2>1, <2>2 DEF IdJ, TypeOK, Step, Stages
<1>8. CASE IdOther
  <2>1. idex' \in IDEX
    BY <1>8, <1>1 DEF IdOther, TypeOK, IDEX, ins
  <2> QED
    BY <1>8, <1>2, <2>1 DEF IdOther, TypeOK, Step, Stages, ins
<1> QED
  BY <1>3, <1>4, <1>5, <1>6, <1>7, <1>8 DEF pipe_stage_decode

LEMMA FetchType == TypeOK /\ pipe_stage_fetch => TypeOK'
<1> SUFFICES ASSUME TypeOK, pipe_stage_fetch PROVE TypeOK'
  OBVIOUS
<1>1. CASE IfHeld
  <2>1. ifde' \in IFDE
    BY <1>1 DEF IfHeld, TypeOK, IFDE
  <2> QED
    BY <1>1, <2>1 DEF IfHeld, TypeOK, Step, Stages
<1>2. CASE IfFetch
  <2>1. NextPC(pc) \in PC /\ text[pc] \in Instr
    BY PCType DEF TypeOK
  <2>2. ifde' \in IFDE
    BY <1>2, <2>1 DEF IfFetch, TypeOK, IFDE
  <2> QED
    BY <1>2, <2>1, <2>2 DEF IfFetch, TypeOK, Step, Stages
<1> QED
  BY <1>1, <1>2 DEF pipe_stage_fetch

LEMMA StepType == TypeOK /\ [Next]_vars => TypeOK'
<1> SUFFICES ASSUME TypeOK, [Next]_vars PROVE TypeOK'
  OBVIOUS
<1>1. CASE Next
  BY <1>1, WriteBackType, MemoryStageType, ExecuteType, DecodeType, FetchType
     DEF Next
<1>2. CASE UNCHANGED vars
  BY <1>2 DEF vars, TypeOK
<1> QED
  BY <1>1, <1>2

\* Whatever the program, the pipeline registers, the registers and memory
\* keep to their widths: every result is cut to a word, every program
\* counter stays in the text region.
THEOREM TypeCorrect == Spec => []TypeOK
BY InitType, StepType, PTL DEF Spec

-----------------------------------------------------------------------------
(* The record of the last write.                                           *)

LEMMA LastWriteStep ==
  TypeOK /\ LastWriteOnRecord /\ [Next]_vars => LastWriteOnRecord'
<1> SUFFICES ASSUME TypeOK, LastWriteOnRecord, [Next]_vars
             PROVE  LastWriteOnRecord'
  OBVIOUS
<1> USE DEF LastWriteOnRecord
<1>1. CASE WbInstr
  BY <1>1 DEF WbInstr, Recorded, Finished, TypeOK, MEMWB
<1>2. CASE pipe_stage_mem
  BY <1>2 DEF pipe_stage_mem, MemBubble, MemDone, MemStore, MemOther,
              TypeOK, MEMWB, pipeRegs
<1>3. CASE pipe_stage_execute
  BY <1>3 DEF pipe_stage_execute, ExBubble, ExDone, ExNext, ExTaken, Redirected, pipeRegs
<1>4. CASE pipe_stage_decode
  BY <1>4 DEF pipe_stage_decode, IdBubble, IdDone, IdR, IdI, IdJ, IdOther,
              pipeRegs
<1>5. CASE pipe_stage_fetch
  BY <1>5 DEF pipe_stage_fetch, IfHeld, IfFetch
<1>6. CASE WbBubble \/ UNCHANGED vars
  BY <1>6 DEF WbBubble, vars, pipeRegs
<1> QED
  BY <1>1, <1>2, <1>3, <1>4, <1>5, <1>6 DEF Next, pipe_stage_wb

\* The register forwarded from write-back holds the forwarded value, in every
\* program: what `reg_wrote' and `wrote_val' say never goes stale.
THEOREM LastWriteCorrect == Spec => []LastWriteOnRecord
<1>1. Init => LastWriteOnRecord
  BY DEF Init, LastWriteOnRecord
<1> QED
  BY <1>1, LastWriteStep, TypeCorrect, PTL DEF Spec

-----------------------------------------------------------------------------
(* Decode follows the program.                                             *)

\* What is in IFDE was fetched from the address before pc, and may be decoded
\* after what is in IDEX; when IFDE is empty this holds of the next fetch.
FollowsProgram ==
  /\ ~ifde.nop =>
       /\ pc = ifde.PCval
       /\ \E p \in PC : /\ ifde.instruction = text[p]
                        /\ ifde.PCval = NextPC(p)
                        /\ stage # "if" /\ ~idex.done => MayFollow(p)
  /\ ~ifde.nop /\ ~idex.done /\ stage = "if" =>
       /\ idex.PCval = pc
       /\ idex.opcode # OpJ
       /\ ~idex.nop
  /\ ifde.nop => MayFollow(pc)

LEMMA FollowsInit == Init => FollowsProgram
BY DEF Init, FollowsProgram, MayFollow, BranchOp

\* MayFollow reads the program and four fields of IDEX.
LEMMA MayFollowStable ==
  ASSUME NEW p \in PC, MayFollow(p), text' = text,
         idex'.opcode = idex.opcode, idex'.nop = idex.nop,
         idex'.PCval = idex.PCval, idex'.imm = idex.imm
  PROVE  MayFollow(p)'
BY DEF MayFollow

LEMMA FollowsExecute ==
  TypeOK /\ FollowsProgram /\ pipe_stage_execute => FollowsProgram'
<1> SUFFICES ASSUME TypeOK, FollowsProgram, pipe_stage_execute
             PROVE  FollowsProgram'
  OBVIOUS
<1>1. CASE ExBubble \/ ExDone
  BY <1>1 DEF ExBubble, ExDone, pipeRegs, Step, FollowsProgram, MayFollow
<1>2. CASE ExNext
  <2>1. /\ idex'.opcode = idex.opcode /\ idex'.nop = idex.nop
        /\ idex'.PCval = idex.PCval /\ idex'.imm = idex.imm
        /\ idex'.done = idex.done
    BY <1>2 DEF ExNext, TypeOK, IDEX
  <2>2. text' = text /\ pc' = pc /\ ifde' = ifde /\ stage = "ex" /\ stage' = "id"
    BY <1>2 DEF ExNext, Step
  <2>3. \A p \in PC : MayFollow(p) => MayFollow(p)'
    BY <2>1, <2>2, MayFollowStable
  <2> QED
    BY <2>1, <2>2, <2>3 DEF FollowsProgram, TypeOK
<1>3. CASE ExTaken
  <2>1. /\ idex'.opcode \in BranchOp /\ idex'.nop
        /\ idex'.PCval = idex.PCval /\ idex'.imm = idex.imm
    BY <1>3 DEF ExTaken, Redirected, TypeOK, IDEX, BranchTaken, Taken, BranchOp
  <2>2. ifde'.nop /\ pc' = OffsetPC(idex.PCval, idex.imm)
    BY <1>3 DEF ExTaken, Redirected, TypeOK, IFDE
  <2> QED
    BY <2>1, <2>2 DEF FollowsProgram, MayFollow, BranchOp
<1> QED
  BY <1>1, <1>2, <1>3 DEF pipe_stage_execute

LEMMA FollowsDecode ==
  TypeOK /\ FollowsProgram /\ pipe_stage_decode => FollowsProgram'
<1> SUFFICES ASSUME TypeOK, FollowsProgram, pipe_stage_decode
             PROVE  FollowsProgram'
  OBVIOUS
<1>1. CASE IdBubble
  BY <1>1 DEF IdBubble, pipeRegs, Step, FollowsProgram, MayFollow
<1>2. CASE IdDone
  <2>1. idex'.done /\ ~ifde.nop /\ ifde' = ifde /\ pc' = pc /\ text' = text
    BY <1>2 DEF IdDone, TypeOK, IDEX
  <2> QED
    BY <2>1 DEF FollowsProgram
<1>3. CASE IdR \/ IdI \/ IdOther
  <2>1. /\ idex'.PCval = ifde.PCval /\ idex'.opcode # OpJ /\ ~idex'.nop
        /\ stage' = "if" /\ pc' = pc /\ text' = text
    <3>1. ifde.instruction.op \in Int
      BY DEF TypeOK, IFDE, Instr, Opcode
    <3>2. CASE IdR
      BY <3>2 DEF IdR, Step, TypeOK, IDEX
    <3>3. CASE IdI
      BY <3>1, <3>3 DEF IdI, Step, TypeOK, IDEX
    <3>4. CASE IdOther
      BY <3>4 DEF IdOther, Step, TypeOK, IDEX
    <3> QED
      BY <1>3, <3>2, <3>3, <3>4
  <2>2. /\ ~ifde.nop /\ ~ifde'.nop
        /\ ifde'.PCval = ifde.PCval /\ ifde'.instruction = ifde.instruction
    BY <1>3 DEF IdR, IdI, IdOther, IdLive, Stalled, TypeOK, IFDE
  <2> QED
    BY <2>1, <2>2 DEF FollowsProgram
<1>4. CASE IdJ
  <2>1. /\ idex'.PCval = ifde.PCval /\ idex'.opcode = OpJ
        /\ pc' = ifde.instruction.addr /\ ifde'.nop /\ ~ifde.nop
        /\ text' = text
    BY <1>4 DEF IdJ, IdLive, TypeOK, IDEX, IFDE
  <2>2. PICK q \in PC : ifde.instruction = text[q] /\ ifde.PCval = NextPC(q)
    BY <2>1 DEF FollowsProgram
  <2> QED
    BY <2>1, <2>2 DEF FollowsProgram, MayFollow
<1> QED
  BY <1>1, <1>2, <1>3, <1>4 DEF pipe_stage_decode

LEMMA FollowsFetch ==
  TypeOK /\ FollowsProgram /\ pipe_stage_fetch => FollowsProgram'
<1> SUFFICES ASSUME TypeOK, FollowsProgram, pipe_stage_fetch
             PROVE  FollowsProgram'
  OBVIOUS
<1>1. CASE IfHeld
  <2>1. /\ ifde'.nop = ifde.nop /\ ifde'.PCval = ifde.PCval
        /\ ifde'.instruction = ifde.instruction
        /\ pc' = pc /\ text' = text /\ idex' = idex
        /\ stage = "if" /\ stage' = "wb"
    BY <1>1 DEF IfHeld, Step, TypeOK, IFDE
  <2>2. ASSUME ifde.nop PROVE MayFollow(pc)'
    BY <2>1, <2>2 DEF FollowsProgram, MayFollow
  <2>3. ASSUME ~ifde.nop
        PROVE  \E p \in PC : /\ ifde.instruction = text[p]
                             /\ ifde.PCval = NextPC(p)
                             /\ ~idex.done => MayFollow(p)
    BY <2>1, <2>3 DEF FollowsProgram, MayFollow
  <2>4. ASSUME NEW p \in PC, ~idex.done => MayFollow(p)
        PROVE  ~idex'.done => MayFollow(p)'
    BY <2>1, <2>4 DEF MayFollow
  <2> QED
    BY <2>1, <2>2, <2>3, <2>4 DEF FollowsProgram
<1>2. CASE IfFetch
  <2>1. /\ ~ifde'.nop /\ ifde'.PCval = pc' /\ pc' = NextPC(pc)
        /\ ifde'.instruction = text[pc] /\ text' = text /\ idex' = idex
        /\ stage = "if" /\ stage' = "wb"
    BY <1>2 DEF IfFetch, Step, TypeOK, IFDE
  <2>2. ~idex.done => MayFollow(pc)
    BY <2>1 DEF FollowsProgram, MayFollow
  <2>3. PICK p \in PC : p = pc
    BY DEF TypeOK
  <2>4. ~idex'.done => MayFollow(p)'
    BY <2>1, <2>2, <2>3 DEF MayFollow
  <2> QED
    BY <2>1, <2>3, <2>4 DEF FollowsProgram
<1> QED
  BY <1>1, <1>2 DEF pipe_stage_fetch

LEMMA FollowsStep ==
  TypeOK /\ FollowsProgram /\ [Next]_vars => FollowsProgram'
<1> SUFFICES ASSUME TypeOK, FollowsProgram, [Next]_vars
             PROVE  FollowsProgram'
  OBVIOUS
<1>1. CASE pipe_stage_wb
  BY <1>1 DEF pipe_stage_wb, WbBubble, WbInstr, Recorded, Finished, pipeRegs, Step,
              FollowsProgram, MayFollow
<1>2. CASE pipe_stage_mem
  BY <1>2 DEF pipe_stage_mem, MemBubble, MemDone, MemStore, MemOther,
              pipeRegs, Step, FollowsProgram, MayFollow
<1>3. CASE UNCHANGED vars
  BY <1>3 DEF vars, FollowsProgram, MayFollow
<1> QED
  BY <1>1, <1>2, <1>3, FollowsExecute, FollowsDecode, FollowsFetch DEF Next

\* Whatever the program, a stage never decodes an instruction that was
\* fetched behind a redirect: decode visits addresses in an order the
\* program's jumps and branches allow.
THEOREM DecodeOrderCorrect == Spec => []DecodesInProgramOrder
<1>1. FollowsProgram => DecodesInProgramOrder
  BY DEF FollowsProgram, DecodesInProgramOrder, IdLive
<1> QED
  BY <1>1, FollowsInit, FollowsStep, TypeCorrect, PTL DEF Spec

-----------------------------------------------------------------------------
(* Forwarding is correct: an instruction computes with the values the      *)
(* instructions ahead of it leave in its registers, in every program that  *)
(* writes no result to register 0 and never names a register right behind  *)
(* the load of it.                                                         *)
(*                                                                         *)
(* The value Forwarded chooses comes from three places filled in different *)
(* stages, so the invariant follows an instruction around the pipeline:    *)
(* what it read when it was decoded, what the write-back behind it changed *)
(* since, and what its predecessor handed to EXMEM and MEMWB.              *)

ForwardableProgram(prog) ==
  LoadUseFree(prog) /\ \A p \in PC : KeepsZeroReg(prog[p])

ProgramsForwardable == \A prog \in Programs : ForwardableProgram(prog)

\* An instruction in IDEX that has not been dropped, and is not the end.
InIdEx == ~idex.nop /\ ~idex.done

\* Decode read rs and rt for the instruction in IDEX, to be used or not.
ReadsOperands == idex.opcode = OpR \/ idex.opcode > 3

-----------------------------------------------------------------------------
(* The inductive invariant.                                                *)

\* IFDE holds the word before pc, and the fetch is held back only when there
\* is nothing in IFDE.
Fetched ==
  /\ ~ifde.nop => /\ pc = ifde.PCval
                  /\ \E p \in PC : /\ ifde.PCval = NextPC(p)
                                   /\ ifde.instruction = text[p]
  /\ ifde.nofetch => ifde.nop

\* IDEX holds what decode makes of the word at p.
DecodedFrom(p) ==
  /\ idex.PCval = NextPC(p)
  /\ text[p] # ZeroWord
  /\ idex.opcode = text[p].op
  /\ ReadsOperands => /\ idex.rs = text[p].rs
                      /\ idex.rt = text[p].rt
                      /\ idex.dest = DestOf(text[p])
  /\ idex.opcode = OpR => idex.ALUfunc = text[p].funct
  /\ idex.opcode > 3 => idex.imm = SignExtend(text[p].imm)

Decoded == InIdEx => \E p \in PC : DecodedFrom(p)

\* Behind an empty IFDE there is nothing left to execute but a jump.
Drained == InIdEx /\ ifde.nop => idex.opcode = OpJ

\* Only a branch leaves IDEX empty.
EmptiedByBranch ==
  idex.nop => idex.opcode # OpLw /\ (exmem.nop \/ exmem.opcode \in BranchOp)

\* What EXMEM and MEMWB hold comes from an instruction, in order.
InOrder ==
  /\ exmem.nop => memwb.nop /\ ~exmem.reg_write
  /\ ~exmem.nop => exmem.reg_write = WritesReg(exmem.opcode)
  /\ exmem.done => idex.done
  /\ exmem.reg_write => exmem.dest # 0
  /\ memwb.reg_write => memwb.dest # 0

\* Once the memory stage has run, MEMWB holds the result EXMEM forwards.
Passed ==
  stage = "ex" /\ ~exmem.nop /\ ~exmem.done =>
    /\ ~memwb.nop
    /\ memwb.reg_write = exmem.reg_write
    /\ exmem.reg_write =>
         /\ memwb.dest = exmem.dest
         /\ exmem.opcode # OpLw => memwb.data = exmem.ALUresult

\* Once the execute stage has run, EXMEM holds the instruction in IDEX.
Executed ==
  stage = "id" /\ InIdEx =>
    /\ ~exmem.nop
    /\ exmem.opcode = idex.opcode
    /\ exmem.dest = idex.dest

\* The word behind a load in IDEX is the next one of the program.
BehindLoad ==
  InIdEx /\ idex.opcode = OpLw =>
    IF stage = "if" THEN pc = idex.PCval
                    ELSE ifde.instruction = text[idex.PCval]

\* The instruction behind a load does not name what it loads.
AheadLoad ==
  stage # "id" /\ InIdEx /\ ReadsOperands /\ ~exmem.nop
    /\ exmem.opcode = OpLw => exmem.dest \notin {idex.rs, idex.rt}

\* A register that was read still has the value it was decoded with, or the
\* last write-back went to it.
StillRead(r, val) ==
  \/ regs[r] = val
  \/ stage \in {"mem", "ex"} /\ memwb.reg_wrote # 0 /\ memwb.reg_wrote = r

OperandsRead ==
  stage # "id" /\ InIdEx /\ ReadsOperands =>
    StillRead(idex.rs, idex.reg_val1) /\ StillRead(idex.rt, idex.reg_val2)

\* How instructions go through the pipeline; it says nothing of what the
\* registers hold.
FlowInv ==
  /\ ForwardableProgram(text)
  /\ Fetched
  /\ Decoded
  /\ Drained
  /\ EmptiedByBranch
  /\ InOrder
  /\ Passed
  /\ Executed
  /\ BehindLoad
  /\ AheadLoad

ForwardInv == FlowInv /\ OperandsRead /\ LastWriteOnRecord

-----------------------------------------------------------------------------
(* The invariant gives the property, and more: of the registers an         *)
(* instruction names without a use for them too.                           *)

NamedAreCurrent ==
  ExLive /\ ReadsOperands =>
    /\ Operand1 = AfterMemWb[idex.rs]
    /\ Operand2 = AfterMemWb[idex.rt]

LEMMA UsedIsRead ==
  ASSUME UsesRs \/ UsesRt
  PROVE  ReadsOperands
BY DEF UsesRs, UsesRt, ReadsOperands, BranchOp, ISA!IAluOp, ISA!OpAddi,
       ISA!OpAddiu, ISA!OpSlti, ISA!OpOri, ISA!OpLui

\* Forwarding finds the value of a register if the register has the value
\* that was decoded or is on record, and the record of it is not stale.
LEMMA ForwardsCurrent ==
  ASSUME TypeOK, FlowInv, ExLive, NEW r \in Reg, NEW val \in Word,
         exmem.opcode = OpLw /\ ~exmem.nop => exmem.dest # r,
         memwb.reg_wrote # 0 /\ memwb.reg_wrote = r
           => regs[r] = memwb.wrote_val,
         regs[r] # val => memwb.reg_wrote # 0 /\ memwb.reg_wrote = r
  PROVE  Forwarded(r, val) = AfterMemWb[r]
<1>1. ~exmem.done
  BY DEF FlowInv, InOrder, ExLive
<1>2. /\ memwb.reg_write \in BOOLEAN /\ memwb.dest \in Reg
      /\ exmem.reg_write \in BOOLEAN /\ exmem.nop \in BOOLEAN
      /\ memwb.nop \in BOOLEAN
      /\ regs \in [Reg -> Word]
  BY DEF TypeOK, MEMWB, EXMEM
<1>3. CASE exmem.reg_write /\ exmem.dest = r
  <2>1. ~exmem.nop /\ exmem.dest # 0 /\ exmem.opcode # OpLw
    BY <1>2, <1>3 DEF FlowInv, InOrder
  <2>2. /\ ~memwb.nop /\ memwb.reg_write /\ memwb.dest = r
        /\ memwb.data = exmem.ALUresult
    BY <1>1, <1>2, <1>3, <2>1 DEF FlowInv, Passed, ExLive
  <2> QED
    BY <1>2, <1>3, <2>1, <2>2 DEF Forwarded, AfterMemWb
<1>4. CASE ~(exmem.reg_write /\ exmem.dest = r)
  <2>1. memwb.nop \/ ~memwb.reg_write \/ memwb.dest # r
    BY <1>1, <1>2, <1>4 DEF FlowInv, InOrder, Passed, ExLive
  <2>2. AfterMemWb[r] = regs[r]
    BY <1>2, <2>1 DEF AfterMemWb
  <2>3. Forwarded(r, val) = IF memwb.reg_wrote # 0 /\ memwb.reg_wrote = r
                            THEN memwb.wrote_val ELSE val
    BY <1>4 DEF Forwarded
  <2> QED
    BY <2>2, <2>3
<1> QED
  BY <1>3, <1>4

LEMMA ForwardInvGives == TypeOK /\ ForwardInv => NamedAreCurrent
<1> SUFFICES ASSUME TypeOK, ForwardInv, ExLive, ReadsOperands,
                    NEW r \in Reg, NEW val \in Word,
                    StillRead(r, val), exmem.opcode = OpLw /\ ~exmem.nop
                                         => exmem.dest # r
             PROVE  Forwarded(r, val) = AfterMemWb[r]
  BY DEF NamedAreCurrent, Operand1, Operand2, ForwardInv, FlowInv, OperandsRead,
         AheadLoad, ExLive, InIdEx, TypeOK, IDEX
<1> QED
  BY ForwardsCurrent DEF ForwardInv, LastWriteOnRecord, StillRead

-----------------------------------------------------------------------------
(* The invariant is inductive.                                             *)

LEMMA FlowInit == ProgramsForwardable /\ Init => FlowInv
<1> SUFFICES ASSUME ProgramsForwardable, Init PROVE FlowInv
  OBVIOUS
<1> USE DEF Init
<1>1. ForwardableProgram(text)
  BY DEF ProgramsForwardable
<1>4. Fetched /\ Decoded /\ Drained
  BY DEF Fetched, Decoded, DecodedFrom, Drained, InIdEx
<1>2. EmptiedByBranch /\ InOrder /\ Passed /\ Executed
  BY DEF EmptiedByBranch, InOrder, Passed, Executed, InIdEx
<1>3. BehindLoad /\ AheadLoad
  BY DEF BehindLoad, AheadLoad, InIdEx
<1> QED
  BY <1>1, <1>2, <1>3, <1>4 DEF FlowInv

\* Write-back disturbs only the registers and their record.
LEMMA FlowWriteBack ==
  TypeOK /\ FlowInv /\ pipe_stage_wb => FlowInv'
<1> SUFFICES ASSUME TypeOK, FlowInv, pipe_stage_wb PROVE FlowInv'
  OBVIOUS
<1> USE DEF FlowInv
<1>1. /\ stage = "wb" /\ stage' = "mem"
      /\ text' = text /\ pc' = pc /\ ifde' = ifde /\ idex' = idex
      /\ exmem' = exmem
  BY DEF pipe_stage_wb, WbBubble, WbInstr, Recorded, Finished, Step, pipeRegs
<1>2. /\ memwb'.nop = memwb.nop /\ memwb'.dest = memwb.dest
      /\ memwb'.reg_write = memwb.reg_write
  BY DEF pipe_stage_wb, WbBubble, WbInstr, Recorded, Finished, TypeOK, MEMWB, pipeRegs
<1>3. (ForwardableProgram(text) /\ Fetched /\ Decoded /\ Drained
         /\ EmptiedByBranch)'
  BY <1>1 DEF ForwardableProgram, LoadUseFree, Conflict, Fetched,
              Decoded, DecodedFrom,
              Drained, EmptiedByBranch, InIdEx, ReadsOperands
<1>4. (InOrder /\ Passed /\ Executed /\ BehindLoad /\ AheadLoad)'
  BY <1>1, <1>2 DEF InOrder, Passed, Executed, BehindLoad, AheadLoad, InIdEx,
                    ReadsOperands
<1> QED
  BY <1>1, <1>3, <1>4

\* The memory stage fills MEMWB from EXMEM and leaves the record alone.
LEMMA FlowMemory ==
  TypeOK /\ FlowInv /\ pipe_stage_mem => FlowInv'
<1> SUFFICES ASSUME TypeOK, FlowInv, pipe_stage_mem PROVE FlowInv'
  OBVIOUS
<1> USE DEF FlowInv
<1>1. /\ stage = "mem" /\ stage' = "ex"
      /\ text' = text /\ pc' = pc /\ ifde' = ifde /\ idex' = idex
      /\ regs' = regs
  BY DEF pipe_stage_mem, MemBubble, MemDone, MemStore, MemOther, Step,
         pipeRegs
<1>2. /\ exmem'.nop = exmem.nop /\ exmem'.opcode = exmem.opcode
      /\ exmem'.reg_write = exmem.reg_write /\ exmem'.dest = exmem.dest
      /\ exmem'.done = exmem.done /\ exmem'.ALUresult = exmem.ALUresult
  BY DEF pipe_stage_mem, MemBubble, MemDone, MemStore, MemOther, TypeOK,
         EXMEM, pipeRegs
<1>4. (ForwardableProgram(text) /\ Fetched /\ Decoded /\ Drained
         /\ EmptiedByBranch)'
  BY <1>1, <1>2 DEF ForwardableProgram, LoadUseFree, Conflict, Fetched,
                    Decoded, DecodedFrom, Drained, EmptiedByBranch, InIdEx, ReadsOperands
<1>5. (Executed /\ BehindLoad /\ AheadLoad)'
  BY <1>1, <1>2 DEF Executed, BehindLoad, AheadLoad, InIdEx, ReadsOperands
<1>7. (InOrder /\ Passed)'
  <2> USE DEF InOrder, Passed
  <2>1. CASE MemBubble \/ MemDone
    BY <1>1, <2>1 DEF MemBubble, MemDone, TypeOK, MEMWB, pipeRegs
  <2>2. CASE MemStore
    <3>1. exmem.nop = FALSE /\ exmem.reg_write = FALSE
      BY <2>2 DEF MemStore, WritesReg, TypeOK, EXMEM
    <3>2. memwb'.reg_write = FALSE /\ memwb'.nop = FALSE
      BY <2>2, <3>1 DEF MemStore, TypeOK, MEMWB
    <3> QED
      BY <1>1, <1>2, <3>1, <3>2
  <2>3. CASE MemOther
    <3>1. /\ ~memwb'.nop /\ memwb'.reg_write = exmem.reg_write
          /\ memwb'.dest = exmem.dest
          /\ exmem.opcode # OpLw => memwb'.data = exmem.ALUresult
      BY <2>3 DEF MemOther, MemResult, TypeOK, MEMWB
    <3>2. ~exmem.nop
      BY <2>3 DEF MemOther
    <3> QED
      BY <1>1, <1>2, <3>1, <3>2
  <2> QED
    BY <2>1, <2>2, <2>3 DEF pipe_stage_mem
<1> QED
  BY <1>1, <1>4, <1>5, <1>7

\* The execute stage fills EXMEM from IDEX.
LEMMA FlowExecute ==
  TypeOK /\ FlowInv /\ pipe_stage_execute => FlowInv'
<1> SUFFICES ASSUME TypeOK, FlowInv, pipe_stage_execute PROVE FlowInv'
  OBVIOUS
<1> USE DEF FlowInv
<1>1. /\ stage = "ex" /\ stage' = "id"
      /\ text' = text /\ regs' = regs /\ memwb' = memwb
  BY DEF pipe_stage_execute, ExBubble, ExDone, ExNext, ExTaken, Redirected, Step,
         pipeRegs
<1>2. (Passed /\ AheadLoad)'
  BY <1>1 DEF Passed, AheadLoad
<1>3. CASE ExBubble
  <2>1. idex' = idex /\ exmem' = exmem /\ ifde' = ifde /\ pc' = pc
        /\ idex.nop
    BY <1>3 DEF ExBubble, pipeRegs
  <2> QED
    BY <1>1, <1>2, <2>1
       DEF Fetched,
           Decoded, DecodedFrom, Drained, EmptiedByBranch, InOrder, Executed,
           BehindLoad, InIdEx, ReadsOperands
<1>4. CASE ExDone
  <2>1. /\ idex' = idex /\ ifde' = ifde /\ pc' = pc
        /\ ~idex.nop /\ idex.done
        /\ exmem'.nop = exmem.nop /\ exmem'.opcode = exmem.opcode
        /\ exmem'.reg_write = exmem.reg_write /\ exmem'.dest = exmem.dest
    BY <1>4 DEF ExDone, TypeOK, EXMEM
  <2> QED
    BY <1>1, <1>2, <2>1
       DEF Fetched,
           Decoded, DecodedFrom, Drained, EmptiedByBranch, InOrder, Executed,
           BehindLoad, InIdEx, ReadsOperands
<1>5. ASSUME ~idex.nop, ~idex.done, ToExMem
      PROVE  /\ ~exmem'.nop /\ ~exmem'.done
             /\ exmem'.opcode = idex.opcode /\ exmem'.dest = idex.dest
             /\ exmem'.reg_write = WritesReg(idex.opcode)
             /\ exmem'.reg_write => exmem'.dest # 0
  <2>1. /\ ~exmem'.nop /\ ~exmem'.done
        /\ exmem'.opcode = idex.opcode /\ exmem'.dest = idex.dest
        /\ exmem'.reg_write = WritesReg(idex.opcode)
    BY <1>5 DEF ToExMem
  <2>2. WritesReg(idex.opcode) => idex.dest # 0
    <3>1. idex.opcode \in Int
      BY DEF TypeOK, IDEX, Opcode
    <3> SUFFICES ASSUME WritesReg(idex.opcode) PROVE idex.dest # 0
      OBVIOUS
    <3>2. ReadsOperands /\ idex.opcode \notin BranchOp \union {OpSw, OpJ}
      BY <3>1 DEF WritesReg, ReadsOperands, BranchOp
    <3>3. PICK p \in PC : /\ text[p] # ZeroWord
                          /\ idex.opcode = text[p].op
                          /\ idex.dest = DestOf(text[p])
      BY <1>5, <3>2 DEF Decoded, DecodedFrom, InIdEx
    <3>4. KeepsZeroReg(text[p])
      BY DEF ForwardableProgram
    <3> QED
      BY <3>2, <3>3, <3>4 DEF KeepsZeroReg
  <2> QED
    BY <2>1, <2>2
<1>6. CASE ExNext
  <2>1. /\ idex'.nop = idex.nop /\ idex'.done = idex.done
        /\ idex'.opcode = idex.opcode /\ idex'.PCval = idex.PCval
        /\ idex'.rs = idex.rs /\ idex'.rt = idex.rt
        /\ idex'.dest = idex.dest
        /\ idex'.ALUfunc = idex.ALUfunc /\ idex'.imm = idex.imm
        /\ ifde' = ifde /\ pc' = pc /\ ~idex.nop /\ ~idex.done /\ ToExMem
    BY <1>6 DEF ExNext, TypeOK, IDEX
  <2>2. (ForwardableProgram(text) /\ Fetched /\ Decoded /\ Drained)'
    BY <1>1, <2>1
       DEF ForwardableProgram, LoadUseFree, Conflict, Fetched,
           Decoded, DecodedFrom,
           Drained, InIdEx, ReadsOperands
  <2>3. (EmptiedByBranch /\ InOrder /\ Executed /\ BehindLoad)'
    BY <1>1, <1>5, <2>1
       DEF EmptiedByBranch, InOrder, Executed, BehindLoad, InIdEx
  <2> QED
    BY <1>2, <2>2, <2>3
<1>7. CASE ExTaken
  <2>1. /\ idex'.nop /\ idex'.done = idex.done
        /\ idex'.opcode = idex.opcode /\ idex.opcode \in BranchOp
        /\ ifde'.nop /\ ~idex.nop /\ ~idex.done /\ ToExMem
    BY <1>7 DEF ExTaken, Redirected, TypeOK, IDEX, IFDE, BranchTaken, Taken, BranchOp
  <2>2. (ForwardableProgram(text) /\ Fetched /\ Decoded /\ Drained)'
    BY <1>1, <2>1
       DEF ForwardableProgram, LoadUseFree, Conflict, Fetched,
           Decoded, DecodedFrom,
           Drained, InIdEx
  <2>3. (EmptiedByBranch /\ InOrder /\ Executed /\ BehindLoad)'
    BY <1>1, <1>5, <2>1
       DEF EmptiedByBranch, InOrder, Executed, BehindLoad, InIdEx, BranchOp
  <2> QED
    BY <1>2, <2>2, <2>3
<1> QED
  BY <1>3, <1>4, <1>6, <1>7 DEF pipe_stage_execute

\* Behind a load, decode finds the next instruction of the program, which
\* does not name the loaded register.
LEMMA NoLoadUse ==
  TypeOK /\ FlowInv /\ IdLive => ~LoadUse(ifde.instruction)
<1> SUFFICES ASSUME TypeOK, FlowInv, IdLive, LoadUse(ifde.instruction)
             PROVE  FALSE
  OBVIOUS
<1> USE DEF FlowInv
<1>1. idex.opcode = OpLw /\ Conflict(idex.rt, ifde.instruction)
  BY DEF LoadUse
<1>2. InIdEx
  BY <1>1 DEF EmptiedByBranch, InIdEx, IdLive
<1>3. PICK p \in PC : /\ idex.PCval = NextPC(p)
                      /\ text[p].op = OpLw
                      /\ idex.rt = text[p].rt
  BY <1>1, <1>2 DEF Decoded, DecodedFrom, ReadsOperands
<1>4. ifde.instruction = text[NextPC(p)] /\ ifde.instruction # ZeroWord
  BY <1>1, <1>2, <1>3 DEF BehindLoad, IdLive
<1> QED
  BY <1>1, <1>3, <1>4 DEF ForwardableProgram, LoadUseFree

\* Decode fills IDEX from IFDE, and never stalls.
LEMMA FlowDecode ==
  TypeOK /\ FlowInv /\ pipe_stage_decode => FlowInv'
<1> SUFFICES ASSUME TypeOK, FlowInv, pipe_stage_decode PROVE FlowInv'
  OBVIOUS
<1> USE DEF FlowInv
<1> DEFINE ins == ifde.instruction
<1>1. /\ stage = "id" /\ stage' = "if"
      /\ text' = text /\ regs' = regs /\ memwb' = memwb /\ exmem' = exmem
  BY DEF pipe_stage_decode, IdBubble, IdDone, IdR, IdI, IdJ, IdOther, Step,
         pipeRegs
<1>2. (ForwardableProgram(text) /\ Passed /\ Executed)'
  BY <1>1 DEF ForwardableProgram, LoadUseFree, Conflict, Passed, Executed
<1>3. ins.op \in Int
  BY DEF TypeOK, IFDE, Instr, Opcode
<1>4. CASE IdBubble
  <2>1. idex' = idex /\ ifde' = ifde /\ pc' = pc /\ ifde.nop
    BY <1>4 DEF IdBubble, pipeRegs
  <2>2. InIdEx => idex.opcode = OpJ
    BY <2>1 DEF Drained
  <2>3. (Fetched /\ Decoded /\ Drained /\ EmptiedByBranch /\ InOrder)'
    BY <1>1, <2>1
       DEF Fetched,
           Decoded, DecodedFrom, Drained, EmptiedByBranch, InOrder, InIdEx,
           ReadsOperands
  <2>4. (BehindLoad /\ AheadLoad)'
    BY <2>1, <2>2
       DEF BehindLoad, AheadLoad, InIdEx, ReadsOperands
  <2> QED
    BY <1>2, <2>3, <2>4
<1>5. CASE IdDone
  <2>1. /\ ifde' = ifde /\ pc' = pc /\ idex'.done
        /\ idex'.nop = idex.nop /\ idex'.opcode = idex.opcode
    BY <1>5 DEF IdDone, TypeOK, IDEX
  <2>2. (Fetched /\ Decoded /\ Drained /\ EmptiedByBranch /\ InOrder)'
    BY <1>1, <2>1
       DEF Fetched,
           Decoded, DecodedFrom, Drained, EmptiedByBranch, InOrder, InIdEx
  <2>3. (BehindLoad /\ AheadLoad)'
    BY <2>1 DEF BehindLoad, AheadLoad, InIdEx
  <2> QED
    BY <1>2, <2>2, <2>3
<1>6. ASSUME IdLive, Stalled(ins) = ifde'
      PROVE  ifde' = ifde
  BY <1>6, NoLoadUse DEF Stalled, TypeOK, IFDE
<1>7. CASE IdR \/ IdI
  <2>1. /\ IdLive /\ ifde' = Stalled(ins) /\ pc' = pc
        /\ ins.op = OpR \/ ins.op > 3
    BY <1>7 DEF IdR, IdI
  <2>2. /\ ~idex'.nop /\ idex'.done = idex.done
        /\ idex'.opcode = ins.op /\ idex'.PCval = ifde.PCval
        /\ idex'.rs = ins.rs /\ idex'.rt = ins.rt
        /\ idex'.reg_val1 = regs[ins.rs] /\ idex'.reg_val2 = regs[ins.rt]
        /\ idex'.dest = DestOf(ins)
        /\ ins.op = OpR => idex'.ALUfunc = ins.funct
        /\ ins.op > 3 => idex'.imm = SignExtend(ins.imm)
    <3>1. CASE IdR
      BY <3>1 DEF IdR, TypeOK, IDEX, DestOf
    <3>2. CASE IdI
      BY <3>2, <1>3 DEF IdI, TypeOK, IDEX, DestOf
    <3> QED
      BY <1>7, <3>1, <3>2
  <2>3. ifde' = ifde
    BY <1>6, <2>1
  <2>4. PICK p \in PC : ifde.PCval = NextPC(p) /\ ins = text[p]
    BY <2>1 DEF IdLive, Fetched
  <2>5. ins # ZeroWord /\ ~ifde.nop /\ ~idex.done /\ pc = ifde.PCval
    BY <2>1 DEF IdLive, Fetched
  <2>6. (Fetched /\ Decoded /\ Drained)'
    BY <1>1, <2>1, <2>2, <2>3, <2>4, <2>5 DEF Fetched,
                                              Decoded, DecodedFrom, Drained
  <2>7. (EmptiedByBranch /\ InOrder /\ BehindLoad)'
    BY <1>1, <2>1, <2>2, <2>5
       DEF EmptiedByBranch, InOrder, BehindLoad
  <2>9. AheadLoad'
    <3> SUFFICES ASSUME ~exmem.nop, exmem.opcode = OpLw
                 PROVE  exmem.dest \notin {ins.rs, ins.rt}
      BY <1>1, <2>2 DEF AheadLoad
    <3>1. InIdEx /\ idex.opcode = OpLw /\ idex.dest = exmem.dest
      BY <1>1, <2>5 DEF EmptiedByBranch, Executed, InIdEx, BranchOp
    <3>2. idex.dest = idex.rt
      BY <3>1 DEF Decoded, DecodedFrom, ReadsOperands, DestOf
    <3>3. ~LoadUse(ins)
      BY <2>1, NoLoadUse
    <3> QED
      BY <2>1, <3>1, <3>2, <3>3 DEF LoadUse, Conflict
  <2> QED
    BY <1>2, <2>6, <2>7, <2>9
<1>8. CASE IdJ
  <2>1. /\ ifde'.nop /\ ~idex'.nop /\ idex'.opcode = OpJ
        /\ idex'.PCval = ifde.PCval /\ idex'.done = idex.done
        /\ IdLive /\ ins.op = OpJ
    BY <1>8 DEF IdJ, TypeOK, IDEX, IFDE
  <2>2. PICK p \in PC : ifde.PCval = NextPC(p) /\ ins = text[p]
    BY <2>1 DEF IdLive, Fetched
  <2>3. (Fetched /\ Decoded /\ Drained /\ EmptiedByBranch /\ InOrder)'
    BY <1>1, <2>1, <2>2
       DEF Fetched,
           Decoded, DecodedFrom, Drained, EmptiedByBranch, InOrder, InIdEx,
           IdLive, ReadsOperands
  <2>4. (BehindLoad /\ AheadLoad)'
    BY <2>1 DEF BehindLoad, AheadLoad, InIdEx, ReadsOperands
  <2> QED
    BY <1>2, <2>3, <2>4
<1>9. CASE IdOther
  <2>1. /\ IdLive /\ ifde' = Stalled(ins) /\ pc' = pc /\ ins.op \in {1, 3}
        /\ ~idex'.nop /\ idex'.opcode = ins.op
        /\ idex'.PCval = ifde.PCval /\ idex'.done = idex.done
    BY <1>9 DEF IdOther, TypeOK, IDEX
  <2>2. ifde' = ifde
    BY <1>6, <2>1
  <2>3. PICK p \in PC : ifde.PCval = NextPC(p) /\ ins = text[p]
    BY <2>1 DEF IdLive, Fetched
  <2>4. (Fetched /\ Decoded /\ Drained /\ EmptiedByBranch /\ InOrder)'
    BY <1>1, <2>1, <2>2, <2>3
       DEF Fetched,
           Decoded, DecodedFrom, Drained, EmptiedByBranch, InOrder, InIdEx,
           IdLive, ReadsOperands
  <2>5. (BehindLoad /\ AheadLoad)'
    BY <2>1 DEF BehindLoad, AheadLoad, InIdEx, ReadsOperands
  <2> QED
    BY <1>2, <2>4, <2>5
<1> QED
  BY <1>4, <1>5, <1>7, <1>8, <1>9 DEF pipe_stage_decode

\* Fetch fills IFDE with the word behind the one just decoded.
LEMMA FlowFetch ==
  TypeOK /\ FlowInv /\ pipe_stage_fetch => FlowInv'
<1> SUFFICES ASSUME TypeOK, FlowInv, pipe_stage_fetch PROVE FlowInv'
  OBVIOUS
<1> USE DEF FlowInv
<1>1. /\ stage = "if" /\ stage' = "wb" /\ text' = text /\ regs' = regs
      /\ idex' = idex /\ exmem' = exmem /\ memwb' = memwb
  BY DEF pipe_stage_fetch, IfHeld, IfFetch, Step
<1>2. (ForwardableProgram(text) /\ Decoded /\ EmptiedByBranch /\ InOrder)'
  BY <1>1 DEF ForwardableProgram, LoadUseFree, Conflict, Decoded, DecodedFrom,
              EmptiedByBranch, InOrder, InIdEx, ReadsOperands
<1>3. (Passed /\ Executed /\ AheadLoad)'
  BY <1>1 DEF Passed, Executed, AheadLoad, InIdEx, ReadsOperands
<1>4. CASE IfHeld
  <2>1. ifde.nop /\ ifde'.nop /\ ~ifde'.nofetch /\ pc' = pc
    BY <1>4 DEF IfHeld, Fetched, TypeOK, IFDE
  <2>2. (Fetched /\ Drained /\ BehindLoad)'
    BY <1>1, <2>1 DEF Fetched, Drained, BehindLoad, InIdEx
  <2> QED
    BY <1>2, <1>3, <2>2
<1>5. CASE IfFetch
  <2>1. /\ ~ifde'.nop /\ ~ifde'.nofetch
        /\ ifde'.instruction = text[pc] /\ ifde'.PCval = NextPC(pc)
        /\ pc' = NextPC(pc) /\ pc \in PC
    BY <1>5 DEF IfFetch, TypeOK, IFDE
  <2>2. (Fetched /\ Drained)'
    BY <1>1, <2>1 DEF Fetched, Drained
  <2>3. BehindLoad'
    BY <1>1, <2>1 DEF BehindLoad, InIdEx
  <2> QED
    BY <1>2, <1>3, <2>2, <2>3
<1> QED
  BY <1>4, <1>5 DEF pipe_stage_fetch

LEMMA FlowStep == TypeOK /\ FlowInv /\ [Next]_vars => FlowInv'
<1> SUFFICES ASSUME TypeOK, FlowInv, [Next]_vars PROVE FlowInv'
  OBVIOUS
<1>1. CASE Next
  BY <1>1, FlowWriteBack, FlowMemory, FlowExecute, FlowDecode,
     FlowFetch DEF Next
<1>2. CASE UNCHANGED vars
  BY <1>2 DEF vars, FlowInv, ForwardableProgram, LoadUseFree, Conflict,
              Fetched,
              Decoded, DecodedFrom, Drained, EmptiedByBranch, InOrder, Passed,
              Executed, BehindLoad, AheadLoad, InIdEx, ReadsOperands
<1> QED
  BY <1>1, <1>2

-----------------------------------------------------------------------------
(* What was read stays good.                                               *)

LEMMA OperandsWriteBack ==
  TypeOK /\ FlowInv /\ OperandsRead /\ pipe_stage_wb => OperandsRead'
<1> SUFFICES ASSUME TypeOK, FlowInv, OperandsRead, pipe_stage_wb
             PROVE  OperandsRead'
  OBVIOUS
<1>1. stage = "wb" /\ stage' = "mem" /\ idex' = idex
  BY DEF pipe_stage_wb, WbBubble, WbInstr, Step, pipeRegs
<1>2. ASSUME NEW r \in Reg, NEW val \in Word, StillRead(r, val)
      PROVE  StillRead(r, val)'
  <2>1. regs[r] = val
    BY <1>1, <1>2 DEF StillRead
  <2>2. CASE WbBubble
    BY <2>1, <2>2 DEF WbBubble, StillRead
  <2>3. CASE WbInstr
    <3>1. CASE memwb.reg_write /\ memwb.dest = r
      BY <1>1, <2>3, <3>1
         DEF WbInstr, Recorded, Finished, StillRead, FlowInv, InOrder,
             TypeOK, MEMWB
    <3>2. CASE ~(memwb.reg_write /\ memwb.dest = r)
      <4>1. regs'[r] = regs[r]
        BY <2>3, <3>2 DEF WbInstr, Recorded, Finished, TypeOK, MEMWB
      <4> QED
        BY <2>1, <4>1 DEF StillRead
    <3> QED
      BY <3>1, <3>2
  <2> QED
    BY <2>2, <2>3 DEF pipe_stage_wb
<1>3. /\ idex.rs \in Reg /\ idex.rt \in Reg
      /\ idex.reg_val1 \in Word /\ idex.reg_val2 \in Word
  BY DEF TypeOK, IDEX
<1> QED
  BY <1>1, <1>2, <1>3 DEF OperandsRead, InIdEx, ReadsOperands

LEMMA OperandsDecode ==
  TypeOK /\ FlowInv /\ pipe_stage_decode => OperandsRead'
<1> SUFFICES ASSUME TypeOK, FlowInv, pipe_stage_decode PROVE OperandsRead'
  OBVIOUS
<1>1. regs' = regs
  BY DEF pipe_stage_decode, IdBubble, IdDone, IdR, IdI, IdJ, IdOther
<1>2. CASE IdBubble
  BY <1>2 DEF IdBubble, FlowInv, Drained, OperandsRead, InIdEx,
              ReadsOperands, pipeRegs
<1>3. CASE IdDone
  BY <1>3 DEF IdDone, OperandsRead, InIdEx, TypeOK, IDEX
<1>4. CASE IdR
  BY <1>1, <1>4 DEF IdR, OperandsRead, StillRead, TypeOK, IDEX
<1>5. CASE IdI
  BY <1>1, <1>5 DEF IdI, OperandsRead, StillRead, TypeOK, IDEX
<1>6. CASE IdJ \/ IdOther
  <2>1. idex'.opcode \in {1, 2, 3}
    BY <1>6 DEF IdJ, IdOther, TypeOK, IDEX
  <2> QED
    BY <2>1 DEF OperandsRead, ReadsOperands
<1> QED
  BY <1>2, <1>3, <1>4, <1>5, <1>6 DEF pipe_stage_decode

LEMMA OperandsStep ==
  TypeOK /\ FlowInv /\ OperandsRead /\ [Next]_vars => OperandsRead'
<1> SUFFICES ASSUME TypeOK, FlowInv, OperandsRead, [Next]_vars
             PROVE  OperandsRead'
  OBVIOUS
<1>1. CASE pipe_stage_mem
  <2>1. /\ stage = "mem" /\ idex' = idex /\ regs' = regs
        /\ memwb'.reg_wrote = memwb.reg_wrote
    BY <1>1 DEF pipe_stage_mem, MemBubble, MemDone, MemStore, MemOther, Step,
                TypeOK, MEMWB, pipeRegs
  <2>2. stage' = "ex"
    BY <1>1 DEF pipe_stage_mem, MemBubble, MemDone, MemStore, MemOther, Step
  <2> QED
    BY <2>1, <2>2 DEF OperandsRead, StillRead, InIdEx, ReadsOperands
<1>2. CASE pipe_stage_execute
  BY <1>2 DEF pipe_stage_execute, ExBubble, ExDone, ExNext, ExTaken, Step,
              OperandsRead
<1>3. CASE pipe_stage_fetch
  BY <1>3 DEF pipe_stage_fetch, IfHeld, IfFetch, Step, OperandsRead,
              StillRead, InIdEx, ReadsOperands
<1>4. CASE UNCHANGED vars
  BY <1>4 DEF vars, OperandsRead, StillRead, InIdEx, ReadsOperands
<1> QED
  BY <1>1, <1>2, <1>3, <1>4, OperandsWriteBack, OperandsDecode DEF Next

LEMMA ForwardInit == ProgramsForwardable /\ Init => ForwardInv
BY FlowInit
   DEF Init, ForwardInv, OperandsRead, InIdEx, LastWriteOnRecord

LEMMA ForwardStep == TypeOK /\ ForwardInv /\ [Next]_vars => ForwardInv'
BY FlowStep, OperandsStep, LastWriteStep DEF ForwardInv

\* In every program that never names a register right behind the load of it
\* and writes no result to register 0, for every register file it starts
\* with: the operands of the execute stage are the values the instructions
\* ahead leave in the registers they were named by.
THEOREM ForwardingCorrect ==
  ASSUME ProgramsForwardable
  PROVE  Spec => []OperandsAreCurrent
<1>1. Init => ForwardInv
  BY ForwardInit
<1>2. TypeOK /\ ForwardInv => OperandsAreCurrent
  BY ForwardInvGives, UsedIsRead DEF OperandsAreCurrent, NamedAreCurrent
<1> QED
  BY <1>1, <1>2, ForwardStep, TypeCorrect, PTL DEF Spec
=============================================================================
