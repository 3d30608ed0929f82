------------------------------ MODULE Pipeline ------------------------------
(***************************************************************************)
(* The five-stage pipeline of lab3/pipe.c.                                 *)
(*                                                                         *)
(* pipe_cycle() runs the stages from write-back to fetch, one function     *)
(* after the other, on one copy of the pipeline registers: what a stage    *)
(* reads has already been changed in the same cycle by the stages behind   *)
(* it.  Each stage function is one step here, and `stage' says which one   *)
(* pipe_cycle calls next; stage = "wb" is the boundary between two cycles. *)
(* The pipeline registers keep the field names of pipe.h.                  *)
(***************************************************************************)
EXTENDS Mips

CONSTANTS
  Programs,   \* the programs to load: text regions, see Mips!Loaded
  InitRegs    \* register files at the first cycle: zero, or set by `input'

ASSUME ProgramsAssumption == Programs \subseteq [PC -> Instr]
ASSUME InitRegsAssumption == InitRegs \subseteq [Reg -> Word]

VARIABLES
  text,    \* the text region
  dmem,    \* the data region
  regs,    \* CURRENT_STATE.REGS
  pc,      \* CURRENT_STATE.PC, the next address to fetch
  ifde,    \* PIPE_REG_IFDE
  idex,    \* PIPE_REG_IDEX
  exmem,   \* PIPE_REG_EXMEM
  memwb,   \* PIPE_REG_MEMWB
  run,     \* RUN_BIT
  stage    \* the stage function pipe_cycle calls next

pipeRegs == <<ifde, idex, exmem, memwb>>
vars == <<text, dmem, regs, pc, ifde, idex, exmem, memwb, run, stage>>

Stages == {"wb", "mem", "ex", "id", "if"}

IFDE == [instruction : Instr, PCval : PC, nop : BOOLEAN, nofetch : BOOLEAN]

IDEX == [ALUfunc : Funct, opcode : Opcode, rs : Reg, rt : Reg,
         reg_val1 : Word, reg_val2 : Word, dest : Reg, imm : Int,
         PCval : PC, done : BOOLEAN, nop : BOOLEAN]

EXMEM == [opcode : Opcode, ALUresult : Word, dest : Reg,
          mem_write_val : Word, reg_write : BOOLEAN, done : BOOLEAN,
          rt : Reg, nop : BOOLEAN]

MEMWB == [data : Word, dest : Reg, reg_write : BOOLEAN, done : BOOLEAN,
          nop : BOOLEAN, reg_wrote : Reg, wrote_val : Word]

\* The pipeline registers are static: zero, but for nop.
Init ==
  /\ text \in Programs
  /\ dmem = ZeroMem
  /\ regs \in InitRegs
  /\ pc = 0
  /\ ifde = [instruction |-> ZeroWord, PCval |-> 0, nop |-> TRUE,
             nofetch |-> FALSE]
  /\ idex = [ALUfunc |-> 0, opcode |-> 0, rs |-> 0, rt |-> 0,
             reg_val1 |-> 0, reg_val2 |-> 0, dest |-> 0, imm |-> 0,
             PCval |-> 0, done |-> FALSE, nop |-> TRUE]
  /\ exmem = [opcode |-> 0, ALUresult |-> 0, dest |-> 0,
              mem_write_val |-> 0, reg_write |-> FALSE, done |-> FALSE,
              rt |-> 0, nop |-> TRUE]
  /\ memwb = [data |-> 0, dest |-> 0, reg_write |-> FALSE, done |-> FALSE,
              nop |-> TRUE, reg_wrote |-> 0, wrote_val |-> 0]
  /\ run = TRUE
  /\ stage = "wb"

Step(from, to) == stage = from /\ stage' = to

-----------------------------------------------------------------------------
(* pipe_stage_wb.  The shell starts a cycle only while RUN_BIT is set.     *)
(* What was written stays in reg_wrote and wrote_val until the next write. *)

WbBubble ==
  /\ Step("wb", "mem") /\ run
  /\ memwb.nop
  /\ UNCHANGED <<text, dmem, regs, pc, pipeRegs, run>>

\* Variant: the value that was written is not recorded.
Recorded_NoValue == [memwb EXCEPT !.reg_wrote = memwb.dest]

Recorded ==
  [memwb EXCEPT !.reg_wrote = memwb.dest, !.wrote_val = memwb.data]

\* Variant: RUN_BIT follows the done bit of decode.
Finished_Early == idex.done

Finished == memwb.done

WbInstr ==
  /\ Step("wb", "mem") /\ run
  /\ ~memwb.nop
  /\ IF memwb.reg_write
     THEN /\ regs' = [regs EXCEPT ![memwb.dest] = memwb.data]
          /\ memwb' = Recorded
     ELSE UNCHANGED <<regs, memwb>>
  /\ run' = ~Finished
  /\ UNCHANGED <<text, dmem, pc, ifde, idex, exmem>>

-----------------------------------------------------------------------------
(* pipe_stage_mem.  EXMEM is not emptied: while the stages in front are    *)
(* idle the same instruction goes through here once more in every cycle.   *)

MemLive == stage = "mem" /\ ~exmem.nop /\ ~exmem.done

\* Variant: forward without comparing registers.
StoreValue_Always == memwb.data

\* Mem-mem forwarding, on the data of whatever is in MEMWB.
StoreValue ==
  IF memwb.dest = exmem.rt THEN memwb.data ELSE exmem.mem_write_val

MemBubble ==
  /\ Step("mem", "ex")
  /\ exmem.nop
  /\ UNCHANGED <<text, dmem, regs, pc, pipeRegs, run>>

MemDone ==
  /\ Step("mem", "ex")
  /\ ~exmem.nop /\ exmem.done
  /\ memwb' = [memwb EXCEPT !.done = TRUE]
  /\ UNCHANGED <<text, dmem, regs, pc, ifde, idex, exmem, run>>

\* A store leaves the destination and the data of MEMWB as they were.
MemStore ==
  /\ Step("mem", "ex")
  /\ ~exmem.nop /\ ~exmem.done /\ exmem.opcode = OpSw
  /\ exmem' = [exmem EXCEPT !.mem_write_val = StoreValue]
  /\ dmem' = WriteWord(dmem, exmem.ALUresult, StoreValue)
  /\ memwb' = [memwb EXCEPT !.reg_write = exmem.reg_write,
                            !.done = FALSE, !.nop = FALSE]
  /\ UNCHANGED <<text, regs, pc, ifde, idex, run>>

\* What an instruction other than a store hands to write-back.
MemResult ==
  IF exmem.opcode = OpLw THEN ReadWord(dmem, exmem.ALUresult)
                         ELSE exmem.ALUresult

MemOther ==
  /\ Step("mem", "ex")
  /\ ~exmem.nop /\ ~exmem.done /\ exmem.opcode # OpSw
  /\ exmem' = [exmem EXCEPT !.mem_write_val = StoreValue]
  /\ memwb' = [memwb EXCEPT !.data = MemResult,
                            !.dest = exmem.dest,
                            !.reg_write = exmem.reg_write,
                            !.done = FALSE, !.nop = FALSE]
  /\ UNCHANGED <<text, dmem, regs, pc, ifde, idex, run>>

-----------------------------------------------------------------------------
(* pipe_stage_execute.                                                     *)

\* Variant: the older of the two results wins.
Forwarded_WbFirst(r, val) ==
  IF memwb.reg_wrote # 0 /\ memwb.reg_wrote = r THEN memwb.wrote_val
  ELSE IF exmem.reg_write /\ exmem.dest # 0 /\ exmem.dest = r
       THEN exmem.ALUresult ELSE val

\* Variant: the instruction ahead need not write its destination.
Forwarded_FromAny(r, val) ==
  CASE exmem.dest # 0 /\ exmem.dest = r -> exmem.ALUresult
    [] OTHER -> IF memwb.reg_wrote # 0 /\ memwb.reg_wrote = r
                THEN memwb.wrote_val ELSE val

\* The operand of register r, decoded as val: the result of the instruction
\* ahead if it writes r, else the value written back last if it went to r.
Forwarded(r, val) ==
  CASE exmem.reg_write /\ exmem.dest # 0 /\ exmem.dest = r -> exmem.ALUresult
    [] OTHER -> IF memwb.reg_wrote # 0 /\ memwb.reg_wrote = r
                THEN memwb.wrote_val ELSE val

Operand1 == Forwarded(idex.rs, idex.reg_val1)
Operand2 == Forwarded(idex.rt, idex.reg_val2)

\* execute_r: both comparisons are on int32_t operands.  A function that is
\* not implemented leaves the previous result.
AluR(a, b) ==
  CASE idex.ALUfunc \in {FnAdd, FnAddu} -> ToWord(a + b)
    [] idex.ALUfunc \in {FnSub, FnSubu} -> ToWord(a - b)
    [] idex.ALUfunc \in {FnSlt, FnSltu} -> Truth(Signed(a) < Signed(b))
    [] OTHER                            -> exmem.ALUresult

\* Variant: sums are not cut to the width of a word.
AluSum_Wide(a, imm) == a + imm

AluSum(a, imm) == ToWord(a + imm)

\* Variant: ori takes the sign-extended immediate.
OriImm_Signed(imm) == ToWord(imm)

OriImm(imm) == imm % Half

\* execute_i, but for branches: imm is sign-extended, and ori masks it.
AluI(a, imm) ==
  CASE idex.opcode \in {OpAddi, OpAddiu, OpLw, OpSw} -> AluSum(a, imm)
    [] idex.opcode = OpSlti -> Truth(Signed(a) < imm)
    [] idex.opcode = OpOri  -> BitOr(a, OriImm(imm))
    [] idex.opcode = OpLui  -> ToWord(imm * Half)
    [] OTHER                -> exmem.ALUresult

AluResult ==
  IF idex.opcode = OpR THEN AluR(Operand1, Operand2)
                       ELSE AluI(Operand1, idex.imm)

WritesReg(op) == op # OpSw /\ (op > OpBgtz \/ op = OpR)

ExLive == stage = "ex" /\ ~idex.nop /\ ~idex.done

BranchTaken == Taken(idex.opcode, Operand1, Operand2)

ExBubble ==
  /\ Step("ex", "id")
  /\ idex.nop
  /\ UNCHANGED <<text, dmem, regs, pc, pipeRegs, run>>

\* Variant: the done bit stops here.
ExDone_Dropped ==
  /\ Step("ex", "id")
  /\ ~idex.nop /\ idex.done
  /\ UNCHANGED <<text, dmem, regs, pc, pipeRegs, run>>

ExDone ==
  /\ Step("ex", "id")
  /\ ~idex.nop /\ idex.done
  /\ exmem' = [exmem EXCEPT !.done = TRUE]
  /\ UNCHANGED <<text, dmem, regs, pc, ifde, idex, memwb, run>>

\* What every instruction hands to the memory stage.
ToExMem ==
  exmem' = [opcode        |-> idex.opcode,
            ALUresult     |-> AluResult,
            dest          |-> idex.dest,
            mem_write_val |-> IF idex.opcode = OpSw THEN Operand2
                              ELSE exmem.mem_write_val,
            reg_write     |-> WritesReg(idex.opcode),
            done          |-> FALSE,
            rt            |-> idex.rt,
            nop           |-> FALSE]

ExNext ==
  /\ Step("ex", "id")
  /\ ~idex.nop /\ ~idex.done /\ ~BranchTaken
  /\ ToExMem
  /\ idex' = [idex EXCEPT !.reg_val1 = Operand1, !.reg_val2 = Operand2]
  /\ UNCHANGED <<text, dmem, regs, pc, ifde, memwb, run>>

\* Variant: the instruction behind the branch is not dropped.
Redirected_Kept == [ifde EXCEPT !.nofetch = TRUE]

\* Variant: the target is fetched in the cycle of the branch.
Redirected_NoHold == [ifde EXCEPT !.nop = TRUE]

Redirected == [ifde EXCEPT !.nofetch = TRUE, !.nop = TRUE]

\* branch(): the target is fetched next, and the instruction fetched behind
\* the branch is dropped before it is decoded.
ExTaken ==
  /\ Step("ex", "id")
  /\ ~idex.nop /\ ~idex.done /\ BranchTaken
  /\ ToExMem
  /\ pc' = OffsetPC(idex.PCval, idex.imm)
  /\ idex' = [idex EXCEPT !.reg_val1 = Operand1, !.reg_val2 = Operand2,
                          !.nop = TRUE]
  /\ ifde' = Redirected
  /\ UNCHANGED <<text, dmem, regs, memwb, run>>

-----------------------------------------------------------------------------
(* pipe_stage_decode.                                                      *)

\* The instruction ahead loads a register this one names.
Conflict(loadRt, ins) == ins.op # OpJ /\ loadRt \in {ins.rs, ins.rt}

LoadUse(ins) == idex.opcode = OpLw /\ Conflict(idex.rt, ins)

IdLive ==
  /\ stage = "id" /\ ~ifde.nop
  /\ ifde.instruction # ZeroWord /\ ~idex.done

IdBubble ==
  /\ Step("id", "if")
  /\ ifde.nop
  /\ UNCHANGED <<text, dmem, regs, pc, pipeRegs, run>>

\* The zero word ends the program, and `done' stays set.
IdDone ==
  /\ Step("id", "if")
  /\ ~ifde.nop /\ (ifde.instruction = ZeroWord \/ idex.done)
  /\ idex' = [idex EXCEPT !.done = TRUE]
  /\ UNCHANGED <<text, dmem, regs, pc, ifde, exmem, memwb, run>>

\* A load-use conflict holds the fetch back for a cycle.  The bubble put in
\* IDEX at the same time is overwritten at the end of the function: the
\* instruction goes on now and is decoded again in the next cycle.
Stalled(ins) == [ifde EXCEPT !.nofetch = @ \/ LoadUse(ins)]

IdR ==
  LET ins == ifde.instruction IN
  /\ Step("id", "if") /\ IdLive
  /\ ins.op = OpR
  /\ idex' = [idex EXCEPT !.opcode = OpR, !.PCval = ifde.PCval,
                          !.ALUfunc = ins.funct, !.dest = ins.rd,
                          !.rs = ins.rs, !.reg_val1 = regs[ins.rs],
                          !.rt = ins.rt, !.reg_val2 = regs[ins.rt],
                          !.nop = FALSE]
  /\ ifde' = Stalled(ins)
  /\ UNCHANGED <<text, dmem, regs, pc, exmem, memwb, run>>

IdI ==
  LET ins == ifde.instruction IN
  /\ Step("id", "if") /\ IdLive
  /\ ins.op > 3
  /\ idex' = [idex EXCEPT !.opcode = ins.op, !.PCval = ifde.PCval,
                          !.imm = SignExtend(ins.imm), !.dest = ins.rt,
                          !.rs = ins.rs, !.reg_val1 = regs[ins.rs],
                          !.rt = ins.rt, !.reg_val2 = regs[ins.rt],
                          !.nop = FALSE]
  /\ ifde' = Stalled(ins)
  /\ UNCHANGED <<text, dmem, regs, pc, exmem, memwb, run>>

\* A jump redirects the fetch here and goes on as a bubble of its own.
IdJ ==
  LET ins == ifde.instruction IN
  /\ Step("id", "if") /\ IdLive
  /\ ins.op = OpJ
  /\ idex' = [idex EXCEPT !.opcode = OpJ, !.PCval = ifde.PCval,
                          !.nop = FALSE]
  /\ pc' = ins.addr
  /\ ifde' = [ifde EXCEPT !.nofetch = TRUE, !.nop = TRUE]
  /\ UNCHANGED <<text, dmem, regs, exmem, memwb, run>>

\* Opcodes 1 and 3 are passed on without being decoded.
IdOther ==
  LET ins == ifde.instruction IN
  /\ Step("id", "if") /\ IdLive
  /\ ins.op \in {1, 3}
  /\ idex' = [idex EXCEPT !.opcode = ins.op, !.PCval = ifde.PCval,
                          !.nop = FALSE]
  /\ ifde' = Stalled(ins)
  /\ UNCHANGED <<text, dmem, regs, pc, exmem, memwb, run>>

-----------------------------------------------------------------------------
(* pipe_stage_fetch.                                                       *)

IfHeld ==
  /\ Step("if", "wb")
  /\ ifde.nofetch
  /\ ifde' = [ifde EXCEPT !.nofetch = FALSE]
  /\ UNCHANGED <<text, dmem, regs, pc, idex, exmem, memwb, run>>

IfFetch ==
  /\ Step("if", "wb")
  /\ ~ifde.nofetch
  /\ ifde' = [ifde EXCEPT !.instruction = text[pc], !.PCval = NextPC(pc),
                          !.nop = FALSE]
  /\ pc' = NextPC(pc)
  /\ UNCHANGED <<text, dmem, regs, idex, exmem, memwb, run>>

-----------------------------------------------------------------------------
pipe_stage_wb      == WbBubble \/ WbInstr
pipe_stage_mem     == MemBubble \/ MemDone \/ MemStore \/ MemOther
pipe_stage_execute == ExBubble \/ ExDone \/ ExNext \/ ExTaken
pipe_stage_decode  == IdBubble \/ IdDone \/ IdR \/ IdI \/ IdJ \/ IdOther
pipe_stage_fetch   == IfHeld \/ IfFetch

Next ==
  \/ pipe_stage_wb
  \/ pipe_stage_mem
  \/ pipe_stage_execute
  \/ pipe_stage_decode
  \/ pipe_stage_fetch

Spec == Init /\ [][Next]_vars

\* `go' calls one stage after the other for as long as RUN_BIT is set.
FairSpec == Spec /\ WF_vars(Next)

-----------------------------------------------------------------------------
TypeOK ==
  /\ text \in [PC -> Instr]
  /\ dmem \in [DataAddr -> Word]
  /\ regs \in [Reg -> Word]
  /\ pc \in PC
  /\ ifde \in IFDE
  /\ idex \in IDEX
  /\ exmem \in EXMEM
  /\ memwb \in MEMWB
  /\ run \in BOOLEAN
  /\ stage \in Stages

\* Where the decode stage may find itself after the instruction now in IDEX:
\* at the target of a jump or of a taken branch and nowhere else, otherwise at
\* the next address or at the same one again.  Only a load-use stall has a
\* reason to decode a word twice, but IDEX does not tell that there was one,
\* and a second decoding is allowed here without it.
MayFollow(p) ==
  \/ /\ idex.opcode = OpJ
     /\ \E q \in PC : NextPC(q) = idex.PCval /\ p = text[q].addr
  \/ /\ idex.opcode \in BranchOp /\ idex.nop
     /\ p = OffsetPC(idex.PCval, idex.imm)
  \/ /\ idex.opcode # OpJ
     /\ ~(idex.opcode \in BranchOp /\ idex.nop)
     /\ p = idex.PCval \/ NextPC(p) = idex.PCval

\* Whatever the program and its hazards, what is decoded is an instruction
\* of the program that the control flow leads to: nothing fetched behind a
\* redirect is ever decoded (pipe.c:142-147, 372-377, 385-388).
DecodesInProgramOrder ==
  IdLive => \E p \in PC : /\ ifde.instruction = text[p]
                          /\ ifde.PCval = NextPC(p)
                          /\ MayFollow(p)

\* The register named in reg_wrote still holds wrote_val, however long ago
\* the write was: forwarding from it late is harmless (pipe.h:57-60).
LastWriteOnRecord ==
  memwb.reg_wrote # 0 => regs[memwb.reg_wrote] = memwb.wrote_val
=============================================================================
