---------------------------- MODULE PipelineISA ----------------------------
(***************************************************************************)
(* The pipeline of lab3 against the instruction set of MipsISA.            *)
(*                                                                         *)
(* An instruction takes effect, for the instruction set, when it leaves    *)
(* the execute stage; a jump, whose only effect is on the PC, when it is   *)
(* decoded.  Two history variables follow these moments: `apc' is the      *)
(* address of the next instruction to take effect, `lag' counts the cycles *)
(* that are not accounted for by the instructions that took effect.  What  *)
(* has taken effect and is still on its way to the registers or to memory  *)
(* is read off EXMEM and MEMWB.                                            *)
(***************************************************************************)
EXTENDS Pipeline

CONSTANT LagCap   \* `lag' is counted up to here

ASSUME LagCapAssumption == LagCap \in Nat

VARIABLES apc, lag

hvars == <<text, dmem, regs, pc, ifde, idex, exmem, memwb, run, stage,
           apc, lag>>

-----------------------------------------------------------------------------
(* The moments at which an instruction takes effect.                       *)

ExCommits == ExLive /\ idex.opcode # OpJ
IdCommits == IdLive /\ ifde.instruction.op = OpJ

\* One cycle for an instruction, two more for a taken branch, one more for
\* a jump.
Cost ==
  CASE ExCommits /\ BranchTaken  -> 3
    [] ExCommits /\ ~BranchTaken -> 1
    [] IdCommits                 -> 2
    [] OTHER                     -> 0

NewCycle == IF stage = "wb" THEN 1 ELSE 0

HInit == Init /\ apc = 0 /\ lag = 0

HNext ==
  /\ Next
  /\ apc' = CASE ExCommits /\ BranchTaken  -> pc'
              [] ExCommits /\ ~BranchTaken -> idex.PCval
              [] IdCommits                 -> pc'
              [] OTHER                     -> apc
  /\ lag' = IF lag + NewCycle - Cost > LagCap THEN LagCap
                                              ELSE lag + NewCycle - Cost

HSpec == HInit /\ [][HNext]_hvars

\* `go' calls one stage after the other for as long as RUN_BIT is set.
HFairSpec == HSpec /\ WF_hvars(HNext)

-----------------------------------------------------------------------------
(* The architectural state: what is in the registers and in memory, with   *)
(* what MEMWB and then EXMEM still have to write.                          *)

AfterMemWb ==
  IF ~memwb.nop /\ memwb.reg_write
  THEN [regs EXCEPT ![memwb.dest] = memwb.data] ELSE regs

InExMem == ~exmem.nop /\ ~exmem.done

ArchRegs ==
  IF InExMem /\ exmem.reg_write
  THEN [AfterMemWb EXCEPT ![exmem.dest] = MemResult] ELSE AfterMemWb

ArchMem ==
  IF InExMem /\ exmem.opcode = OpSw
  THEN WriteWord(dmem, exmem.ALUresult, StoreValue) ELSE dmem

ISA == INSTANCE MipsISA WITH pc <- apc, regs <- ArchRegs, dmem <- ArchMem

-----------------------------------------------------------------------------
(* What a program must avoid for the pipeline to execute it as lab2 does.  *)

\* The pipeline does not implement jal and the other opcodes without a case
\* in execute_i, and compares signed words in sltu.
Supported(ins) ==
  \/ ins = ZeroWord
  \/ ins.op = OpR /\ ins.funct \in ISA!RFunct \ {FnSltu}
  \/ ins.op \in ISA!IAluOp \union BranchOp \union {OpLw, OpSw, OpJ}

\* Register 0 is an ordinary register for write-back, but results that go
\* to it are not forwarded.
KeepsZeroReg(ins) ==
  ins = ZeroWord \/ ins.op \in BranchOp \union {OpSw, OpJ} \/ DestOf(ins) # 0

\* The instruction behind a load names the loaded register.
LoadUseFree(prog) ==
  \A p \in PC : prog[p].op = OpLw =>
    LET next == prog[NextPC(p)] IN
    next = ZeroWord \/ ~Conflict(prog[p].rt, next)

\* The addresses control may go to from a branch or a jump at p.
TargetOf(prog, p) ==
  IF prog[p].op = OpJ THEN prog[p].addr
  ELSE OffsetPC(NextPC(p), SignExtend(prog[p].imm))

AfterControl(prog, p) ==
  IF prog[p].op = OpJ THEN {TargetOf(prog, p)}
  ELSE IF prog[p].op \in BranchOp THEN {NextPC(p), TargetOf(prog, p)}
  ELSE {}

\* A branch or a jump leaves in MEMWB a destination and a value that do not
\* belong together, and a store looks there for the value to write.
NoStoreAfterControl(prog) ==
  \A p \in PC : \A q \in AfterControl(prog, p) : prog[q].op # OpSw

\* A taken branch to the zero word, or a program that starts with it, is
\* never seen by the execute stage.
EndsInSequence(prog) ==
  /\ prog[0] # ZeroWord
  /\ \A p \in PC : prog[p].op \in BranchOp =>
       prog[TargetOf(prog, p)] # ZeroWord

Scheduled(prog) ==
  /\ \A p \in PC : Supported(prog[p]) /\ KeepsZeroReg(prog[p])
  /\ LoadUseFree(prog)
  /\ NoStoreAfterControl(prog)

-----------------------------------------------------------------------------
(* Properties.                                                             *)

\* The registers the instruction in IDEX computes with, branches on or
\* stores: decode reads rs and rt for every instruction but a jump, and a
\* load, for one, makes no use of rt.
UsesRs ==
  idex.opcode \in {OpR, OpLw, OpSw} \union BranchOp
                   \union (ISA!IAluOp \ {OpLui})

UsesRt == idex.opcode \in {OpR, OpBeq, OpBne, OpSw}

\* The operands the execute stage computes with, after forwarding from EXMEM
\* and from the last write-back (pipe.c:252-275), are the values the
\* instructions ahead leave in those registers, whether or not they have
\* been written back.
OperandsAreCurrent ==
  ExLive =>
    /\ UsesRs => Operand1 = AfterMemWb[idex.rs]
    /\ UsesRt => Operand2 = AfterMemWb[idex.rt]

\* A store writes the value its source register has when every instruction
\* ahead has been written back, even when mem-mem forwarding (pipe.c:61-64)
\* replaces what it read.
StoresCurrentValue ==
  MemLive /\ exmem.opcode = OpSw => StoreValue = regs[exmem.rt]

\* Every effect of the pipeline on registers, memory and control flow is the
\* effect of the next instruction of the program, in program order: no
\* instruction is lost, repeated, or executed on the wrong path.
ImplementsISA == ISA!Init /\ [][ISA!Exec]_(ISA!isaVars)

\* RUN_BIT is cleared only when nothing is left in flight: the registers and
\* the memory the shell dumps after a halt are those of the whole program,
\* and the program did reach its end.
HaltsDrained ==
  ~run => regs = ArchRegs /\ dmem = ArchMem /\ text[apc] = ZeroWord

\* The timing the simulator exists to show: an instruction takes effect one
\* cycle after the one ahead of it, three cycles after a taken branch, and
\* two after a jump has been decoded ("Insert 1 bubble for jump").  It never
\* waits longer while the program has a next instruction.
TimingIsExact ==
  /\ ExCommits => lag = 3
  /\ IdCommits => lag = 2
  /\ text[apc] # ZeroWord => lag <= 3

\* `go' ends once the program does (shell.c:187, "Simulate MIPS until
\* HALTed"): when the next instruction to execute is the zero word, the done
\* bit gets through the pipeline and RUN_BIT is cleared.
GoCompletes == text[apc] = ZeroWord ~> ~run
=============================================================================
