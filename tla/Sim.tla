-------------------------------- MODULE Sim --------------------------------
(***************************************************************************)
(* The single-cycle simulator of lab2: one step is one cycle() of the      *)
(* shell, which runs process_instruction() on CURRENT_STATE and            *)
(* NEXT_STATE and then copies the second to the first.  Between cycles the *)
(* two are equal, so one copy is kept here.                                *)
(*                                                                         *)
(* The decoded fields are globals: an opcode that decode does not handle   *)
(* leaves those of the instruction decoded last, kept in `latched'.        *)
(***************************************************************************)
EXTENDS Mips

CONSTANTS
  Programs,   \* the programs to load
  InitRegs    \* register files at the first cycle: zero, or set by `input'

ASSUME ProgramsAssumption == Programs \subseteq [PC -> Instr]
ASSUME InitRegsAssumption == InitRegs \subseteq [Reg -> Word]

VARIABLES text, dmem, regs, pc, flags, latched, run

vars == <<text, dmem, regs, pc, flags, latched, run>>

ISA == INSTANCE MipsISA

Flags == [N : BOOLEAN, Z : BOOLEAN, V : BOOLEAN, C : BOOLEAN]

Cleared == [N |-> FALSE, Z |-> FALSE, V |-> FALSE, C |-> FALSE]

Init ==
  /\ text \in Programs
  /\ dmem = ZeroMem
  /\ regs \in InitRegs
  /\ pc = 0
  /\ flags = Cleared
  /\ latched = ZeroWord
  /\ run = TRUE

-----------------------------------------------------------------------------
(* Flags.  No carry is ever found: the sums and differences are compared   *)
(* with limits their type cannot exceed.                                   *)

Fits(i) == i \in -(WordSize \div 2) .. WordSize \div 2 - 1

\* The values a test of `res' may see where res is computed in int32_t.  A
\* result that does not fit is undefined: the register gets the wrapped word,
\* but a test that the build (gcc -O2) decides from the operands' signs goes
\* the way of the exact result.
Tested(exact) == {exact, Signed(ToWord(exact))}

\* Variant: the first operand's sign is enough.
check_overflow_OneSign(a, b, res) ==
  \/ a > 0 /\ res < 0
  \/ a < 0 /\ res > 0

check_overflow(a, b, res) ==
  \/ a > 0 /\ b > 0 /\ res < 0
  \/ a < 0 /\ b < 0 /\ res > 0

\* The flags an instruction may leave that tests the values in tested, for
\* the flags it sets; the others have been cleared.
FlagsOf(sets, a, b, tested) ==
  { [N |-> "N" \in sets /\ n < 0,
     Z |-> "Z" \in sets /\ z = 0,
     V |-> "V" \in sets /\ check_overflow(a, b, v),
     C |-> FALSE] : n, z, v \in tested }

\* R-type, on the words a and b and the word res left in rd.
RFlags(funct, a, b, res) ==
  CASE funct = FnAdd -> FlagsOf({"N", "Z", "V"}, Signed(a), Signed(b),
                                Tested(Signed(a) + Signed(b)))
    [] funct = FnSub -> FlagsOf({"N", "Z", "V"}, Signed(a), Signed(b),
                                Tested(Signed(a) - Signed(b)))
    [] funct = FnSubu -> FlagsOf({"N", "Z"}, 0, 0, {Signed(res)})
    [] OTHER          -> FlagsOf({"Z"}, 0, 0, {Signed(res)})

\* I-type; slti sets no flag.
IFlags(op, a, imm, res) ==
  CASE op = OpAddi -> FlagsOf({"N", "Z", "V"}, Signed(a), imm,
                              Tested(Signed(a) + imm))
    [] op = OpSlti -> {Cleared}
    [] OTHER       -> FlagsOf({"Z"}, 0, 0, {Signed(res)})

-----------------------------------------------------------------------------
(* The cycle.                                                              *)

\* Variant: the zero word does not stop the simulator, it is executed.
Fetched_Zero(ins) == run /\ ins = text[pc]

\* fetch and decode: ins is the word at PC, and not the end.
Fetched(ins) == run /\ ins = text[pc] /\ ins # ZeroWord

Halt ==
  /\ run /\ text[pc] = ZeroWord
  /\ run' = FALSE
  /\ UNCHANGED <<text, dmem, regs, pc, flags, latched>>

\* execute_r: a function without a case leaves the register alone, but the
\* zero flag is set from it.
execute_r(ins) ==
  LET a   == regs[ins.rs]
      b   == regs[ins.rt]
      res == IF ins.funct \in ISA!RFunct THEN ISA!RResult(ins.funct, a, b)
                                         ELSE regs[ins.rd]
  IN  /\ regs' = [regs EXCEPT ![ins.rd] = res]
      /\ flags' \in RFlags(ins.funct, a, b, res)
      /\ pc' = NextPC(pc)
      /\ UNCHANGED <<text, dmem, run>>

DoR ==
  \E ins \in {text[pc]} :
    /\ Fetched(ins) /\ ins.op = OpR
    /\ latched' = ins
    /\ execute_r(ins)

\* addi, addiu, slti, ori and lui.
DoIAlu ==
  \E ins \in {text[pc]} :
    LET imm == SignExtend(ins.imm)
        a   == regs[ins.rs]
        res == ISA!IResult(ins.op, a, imm)
    IN  /\ Fetched(ins) /\ ins.op \in ISA!IAluOp
        /\ latched' = ins
        /\ regs' = [regs EXCEPT ![ins.rt] = res]
        /\ flags' \in IFlags(ins.op, a, imm, res)
        /\ pc' = NextPC(pc)
        /\ UNCHANGED <<text, dmem, run>>

DoLoad ==
  \E ins \in {text[pc]} :
    LET res == ReadWord(dmem, ISA!EffectiveAddr(ins)) IN
    /\ Fetched(ins) /\ ins.op = OpLw
    /\ latched' = ins
    /\ regs' = [regs EXCEPT ![ins.rt] = res]
    /\ flags' \in FlagsOf({"Z"}, 0, 0, {Signed(res)})
    /\ pc' = NextPC(pc)
    /\ UNCHANGED <<text, dmem, run>>

DoStore ==
  \E ins \in {text[pc]} :
    /\ Fetched(ins) /\ ins.op = OpSw
    /\ latched' = ins
    /\ dmem' = WriteWord(dmem, ISA!EffectiveAddr(ins), regs[ins.rt])
    /\ flags' = Cleared
    /\ pc' = NextPC(pc)
    /\ UNCHANGED <<text, regs, run>>

\* beq, bne and bgtz move the PC themselves; opcode 6 has no case and leaves
\* it where it is.
DoBranch ==
  \E ins \in {text[pc]} :
    /\ Fetched(ins) /\ ins.op \in 4 .. 7
    /\ latched' = ins
    /\ flags' = Cleared
    /\ pc' = CASE ins.op \notin BranchOp -> pc
               [] ins.op \in BranchOp
                    /\ Taken(ins.op, regs[ins.rs], regs[ins.rt]) ->
                    OffsetPC(NextPC(pc), SignExtend(ins.imm))
               [] OTHER -> NextPC(pc)
    /\ UNCHANGED <<text, dmem, regs, run>>

\* Variant: the address is shifted once more than the PC counts.
JumpPC_Shifted(ins) == 4 * ins.addr

JumpPC(ins) == ins.addr

\* j and jal.
DoJump ==
  \E ins \in {text[pc]} :
    /\ Fetched(ins) /\ ins.op \in {OpJ, OpJal}
    /\ latched' = ins
    /\ flags' = Cleared
    /\ pc' = JumpPC(ins)
    /\ regs' = IF ins.op = OpJal
               THEN [regs EXCEPT ![NumRegs - 1] = ToWord(NextPC(pc))]
               ELSE regs
    /\ UNCHANGED <<text, dmem, run>>

\* Variant: the PC is moved only for the opcodes that have a case.
PassedPC_Waits == pc

PassedPC == NextPC(pc)

\* The other opcodes above 7 only move the PC.
DoNothing ==
  \E ins \in {text[pc]} :
    /\ Fetched(ins)
    /\ ins.op > 7 /\ ins.op \notin ISA!IAluOp \union {OpLw, OpSw}
    /\ latched' = ins
    /\ flags' = Cleared
    /\ pc' = PassedPC
    /\ UNCHANGED <<text, dmem, regs, run>>

\* Opcode 1 is not decoded.  After an R-type instruction, or none, what is
\* executed is that instruction again; after another nothing is, and the PC
\* stays where it is.
DoStale ==
  \E ins \in {text[pc]} :
    /\ Fetched(ins) /\ ins.op = 1
    /\ latched' = latched
    /\ IF latched.op = OpR
       THEN execute_r(latched)
       ELSE flags' = Cleared /\ UNCHANGED <<text, dmem, regs, pc, run>>

Next ==
  \/ Halt
  \/ DoR \/ DoIAlu \/ DoLoad \/ DoStore \/ DoBranch \/ DoJump
  \/ DoNothing \/ DoStale

Spec == Init /\ [][Next]_vars

\* `go' starts one cycle after the other for as long as RUN_BIT is set.
FairSpec == Spec /\ WF_vars(Next)

-----------------------------------------------------------------------------
(* Properties.                                                             *)

TypeOK ==
  /\ text \in [PC -> Instr]
  /\ dmem \in [DataAddr -> Word]
  /\ regs \in [Reg -> Word]
  /\ pc \in PC
  /\ flags \in Flags
  /\ latched \in Instr
  /\ run \in BOOLEAN

\* Opcodes and functions the instruction set has no step for.
Unimplemented(ins) ==
  \/ ins.op = OpR /\ ins.funct \notin ISA!RFunct /\ ins # ZeroWord
  \/ ins.op # OpR /\ ins.op \notin ISA!IAluOp \union BranchOp \union
                                    {OpLw, OpSw, OpJ, OpJal}

\* A cycle of lab2 is a step of the instruction set, or changes nothing of
\* its state, but where it has no such instruction: the simulator and the
\* pipeline of lab3, which is held to the same machine, leave the same
\* registers and the same memory.
ImplementsISA ==
  ISA!Init /\ [][~Unimplemented(text[pc]) => ISA!Exec]_(ISA!isaVars)

\* The instruction a cycle executes: opcode 1 is not decoded.
Executed == IF text[pc].op = 1 THEN latched ELSE text[pc]

\* What an instruction computes as an int32_t.
Exact(ins) ==
  CASE ins.op = OpAddi -> Signed(regs[ins.rs]) + SignExtend(ins.imm)
    [] ins.op = OpR /\ ins.funct = FnAdd ->
         Signed(regs[ins.rs]) + Signed(regs[ins.rt])
    [] ins.op = OpR /\ ins.funct = FnSub ->
         Signed(regs[ins.rs]) - Signed(regs[ins.rt])
    [] OTHER -> 0

IsSub(ins) == ins.op = OpR /\ ins.funct = FnSub

\* FLAG_V is never a false alarm of add and addi (sim.c:49-55): where it is
\* set the sum does not fit, whatever the build makes of the overflow, and
\* even when opcode 1 repeats an instruction.
AddOverflowIsReal ==
  [][run' /\ flags'.V /\ ~IsSub(Executed) => ~Fits(Exact(Executed))]_vars

\* Branches and jumps of the program lead forward.
LeadsForward(prog) ==
  \A p \in PC :
    LET target == IF prog[p].op \in {OpJ, OpJal} THEN prog[p].addr
                  ELSE OffsetPC(NextPC(p), SignExtend(prog[p].imm))
    IN  prog[p].op \in BranchOp \union {OpJ, OpJal} => target > p

\* A program that only leads forward is run to its end, past opcodes the
\* simulator does not know, unless it comes to one that never moves the PC:
\* opcode 6, or opcode 1 when nothing of R-type is left to execute again.
ForwardProgramsEnd ==
  LeadsForward(text) =>
    <>(\/ ~run
       \/ text[pc].op = 6
       \/ text[pc].op = 1 /\ latched.op # OpR)
=============================================================================
