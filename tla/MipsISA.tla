------------------------------ MODULE MipsISA -------------------------------
(***************************************************************************)
(* The instruction set as a machine that executes one whole instruction    *)
(* per step: the registers, the program counter and the data memory of     *)
(* lab2/sim.c, without its flags and without its latches.  It is what a    *)
(* pipelined execution of the same program promises.                       *)
(*                                                                         *)
(* Instructions lab2 does not implement have no step here.                 *)
(***************************************************************************)
EXTENDS Mips

VARIABLES
  text,   \* the program, one instruction word per program counter
  pc,     \* CURRENT_STATE.PC
  regs,   \* CURRENT_STATE.REGS
  dmem    \* the data region

isaVars == <<text, pc, regs, dmem>>

-----------------------------------------------------------------------------
(* What each instruction computes.                                         *)

RResult(funct, a, b) ==
  CASE funct \in {FnAdd, FnAddu} -> ToWord(a + b)
    [] funct \in {FnSub, FnSubu} -> ToWord(a - b)
    [] funct = FnSlt             -> Truth(Signed(a) < Signed(b))
    [] funct = FnSltu            -> Truth(a < b)

RFunct == {FnAdd, FnAddu, FnSub, FnSubu, FnSlt, FnSltu}

IResult(op, a, imm) ==
  CASE op \in {OpAddi, OpAddiu} -> ToWord(a + imm)
    [] op = OpSlti              -> Truth(Signed(a) < imm)
    [] op = OpOri               -> BitOr(a, imm % Half)
    [] op = OpLui               -> ToWord(imm * Half)

IAluOp == {OpAddi, OpAddiu, OpSlti, OpOri, OpLui}

EffectiveAddr(ins) == ToWord(regs[ins.rs] + SignExtend(ins.imm))

-----------------------------------------------------------------------------
Init ==
  /\ text \in [PC -> Instr]
  /\ pc = 0
  /\ regs \in [Reg -> Word]
  /\ dmem = ZeroMem

ExecR ==
  LET ins == text[pc] IN
  /\ ins.op = OpR /\ ins.funct \in RFunct
  /\ regs' = [regs EXCEPT ![ins.rd] =
                RResult(ins.funct, regs[ins.rs], regs[ins.rt])]
  /\ pc' = NextPC(pc)
  /\ UNCHANGED <<text, dmem>>

ExecIAlu ==
  LET ins == text[pc] IN
  /\ ins.op \in IAluOp
  /\ regs' = [regs EXCEPT ![ins.rt] =
                IResult(ins.op, regs[ins.rs], SignExtend(ins.imm))]
  /\ pc' = NextPC(pc)
  /\ UNCHANGED <<text, dmem>>

ExecLoad ==
  LET ins == text[pc] IN
  /\ ins.op = OpLw
  /\ regs' = [regs EXCEPT ![ins.rt] = ReadWord(dmem, EffectiveAddr(ins))]
  /\ pc' = NextPC(pc)
  /\ UNCHANGED <<text, dmem>>

ExecStore ==
  LET ins == text[pc] IN
  /\ ins.op = OpSw
  /\ dmem' = WriteWord(dmem, EffectiveAddr(ins), regs[ins.rt])
  /\ pc' = NextPC(pc)
  /\ UNCHANGED <<text, regs>>

ExecBranch ==
  LET ins == text[pc] IN
  /\ ins.op \in BranchOp
  /\ pc' = IF Taken(ins.op, regs[ins.rs], regs[ins.rt])
           THEN OffsetPC(NextPC(pc), SignExtend(ins.imm))
           ELSE NextPC(pc)
  /\ UNCHANGED <<text, regs, dmem>>

ExecJump ==
  LET ins == text[pc] IN
  /\ ins.op = OpJ
  /\ pc' = ins.addr
  /\ UNCHANGED <<text, regs, dmem>>

\* jal: the return address goes to the last register.
ExecJumpLink ==
  LET ins == text[pc] IN
  /\ ins.op = OpJal
  /\ regs' = [regs EXCEPT ![NumRegs - 1] = ToWord(NextPC(pc))]
  /\ pc' = ins.addr
  /\ UNCHANGED <<text, dmem>>

\* The zero word, whose funct is not implemented, has no step: it ends the
\* program.
Exec ==
  \/ ExecR \/ ExecIAlu
  \/ ExecLoad \/ ExecStore
  \/ ExecBranch \/ ExecJump \/ ExecJumpLink
=============================================================================
