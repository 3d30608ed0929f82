-------------------------------- MODULE Mips --------------------------------
(***************************************************************************)
(* The vocabulary the two MIPS simulators share: words, registers,         *)
(* instruction words already split into their fields, program counters,    *)
(* and the simulated memory of shell.c.                                    *)
(*                                                                         *)
(* A machine word has the width of two immediates: the code's 2^16 is      *)
(* Half and its 2^32 is Half * Half.  Addresses count words, not bytes,    *)
(* for instructions and for data alike, so the code's "PC + 4" and         *)
(* "imm * 4" are "+ 1" and "+ imm".                                        *)
(***************************************************************************)
EXTENDS Integers, Sequences

CONSTANTS
  Half,         \* how many values a 16-bit immediate has
  NumRegs,      \* MIPS_REGS
  PCMod,        \* how many values a program counter has
  DataAddr,     \* the word addresses of the data region
  BitOr(_, _)   \* C's | on words

WordSize == Half * Half
Word     == 0 .. WordSize - 1
HalfWord == 0 .. Half - 1
Reg      == 0 .. NumRegs - 1
PC       == 0 .. PCMod - 1

ASSUME HalfAssumption     == Half \in Nat /\ Half > 1
ASSUME NumRegsAssumption  == NumRegs \in Nat \ {0}
ASSUME PCModAssumption    == PCMod \in Nat \ {0}
ASSUME DataAddrAssumption == DataAddr \subseteq Word
ASSUME BitOrAssumption    == \A a, b \in Word : BitOr(a, b) \in Word

-----------------------------------------------------------------------------
(* Words.  A word is kept as the unsigned number its bits spell.           *)

ToWord(i) == i % WordSize

\* The same bits read as an int32_t.
Signed(w) == IF 2 * w < WordSize THEN w ELSE w - WordSize

SignExtend(h) == IF 2 * h < Half THEN h ELSE h - Half

\* A C comparison used as a value.
Truth(b) == IF b THEN 1 ELSE 0

-----------------------------------------------------------------------------
(* Instruction words, split into fields.  An R-type word uses rs, rt, rd   *)
(* and funct, an I-type word rs, rt and imm, a J-type word addr.           *)

Opcode == 0 .. 63
Funct  == 0 .. 63

Instr == [op : Opcode, rs : Reg, rt : Reg, rd : Reg,
          funct : Funct, imm : HalfWord, addr : PC]

\* Memory is zeroed before a program is loaded; the all-zero word is what
\* both simulators take for the end of the program.
ZeroWord == [op |-> 0, rs |-> 0, rt |-> 0, rd |-> 0,
             funct |-> 0, imm |-> 0, addr |-> 0]

OpR    == 0
OpJ    == 2
OpJal  == 3
OpBeq  == 4
OpBne  == 5
OpBgtz == 7
OpAddi == 8
OpAddiu == 9
OpSlti == 10
OpOri  == 13
OpLui  == 15
OpLw   == 35
OpSw   == 43

BranchOp == {OpBeq, OpBne, OpBgtz}

FnAdd  == 32
FnAddu == 33
FnSub  == 34
FnSubu == 35
FnSlt  == 42
FnSltu == 43

\* The register an instruction names as its destination.
DestOf(ins) == IF ins.op = OpR THEN ins.rd ELSE ins.rt

\* A branch's outcome on the values of rs and rt.
Taken(op, a, b) ==
  \/ op = OpBeq /\ a = b
  \/ op = OpBne /\ a # b
  \/ op = OpBgtz /\ Signed(a) > 0

NextPC(p)        == (p + 1) % PCMod
OffsetPC(p, off) == (p + off) % PCMod

-----------------------------------------------------------------------------
(* Simulated memory.  An address outside every region reads as zero and    *)
(* swallows what is written to it.                                         *)

ReadWord(m, a) == IF a \in DataAddr THEN m[a] ELSE 0

WriteWord(m, a, v) == IF a \in DataAddr THEN [m EXCEPT ![a] = v] ELSE m

ZeroMem == [a \in DataAddr |-> 0]

\* What load_program leaves in the text region for a file of words.
Loaded(words) ==
  [p \in PC |-> IF p < Len(words) THEN words[p + 1] ELSE ZeroWord]
=============================================================================
