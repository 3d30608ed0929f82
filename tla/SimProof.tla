------------------------------ MODULE SimProof ------------------------------
(***************************************************************************)
(* Theorems about the simulator of lab2, for words, register files,        *)
(* memories and programs of any size.                                      *)
(***************************************************************************)
EXTENDS Sim, MipsProof

USE DEF OpR, OpJ, OpJal, OpBeq, OpBne, OpBgtz, OpAddi, OpAddiu, OpSlti,
        OpOri, OpLui, OpLw, OpSw,
        FnAdd, FnAddu, FnSub, FnSubu, FnSlt, FnSltu,
        ISA!OpR, ISA!OpJ, ISA!OpJal, ISA!OpBeq, ISA!OpBne, ISA!OpBgtz,
        ISA!OpAddi, ISA!OpAddiu, ISA!OpSlti, ISA!OpOri, ISA!OpLui,
        ISA!OpLw, ISA!OpSw,
        ISA!FnAdd, ISA!FnAddu, ISA!FnSub, ISA!FnSubu, ISA!FnSlt, ISA!FnSltu

-----------------------------------------------------------------------------
(* The instruction set is an instance: its vocabulary is that of Sim.      *)

LEMMA SameOperators ==
  /\ \A i : ISA!ToWord(i) = ToWord(i)
  /\ \A w : ISA!Signed(w) = Signed(w)
  /\ \A h : ISA!SignExtend(h) = SignExtend(h)
  /\ \A p : ISA!NextPC(p) = NextPC(p)
  /\ \A p, off : ISA!OffsetPC(p, off) = OffsetPC(p, off)
  /\ \A m, a : ISA!ReadWord(m, a) = ReadWord(m, a)
  /\ \A m, a, v : ISA!WriteWord(m, a, v) = WriteWord(m, a, v)
<1>1. ISA!WordSize = WordSize
  BY DEF WordSize, ISA!WordSize
<1>2. \A i : ISA!ToWord(i) = ToWord(i)
  BY <1>1 DEF ToWord, ISA!ToWord
<1>3. \A w : ISA!Signed(w) = Signed(w)
  BY <1>1 DEF Signed, ISA!Signed
<1>4. \A h : ISA!SignExtend(h) = SignExtend(h)
  BY DEF SignExtend, ISA!SignExtend
<1>5. \A p : ISA!NextPC(p) = NextPC(p)
  BY DEF NextPC, ISA!NextPC
<1>6. \A p, off : ISA!OffsetPC(p, off) = OffsetPC(p, off)
  BY DEF OffsetPC, ISA!OffsetPC
<1>7. \A m, a : ISA!ReadWord(m, a) = ReadWord(m, a)
  BY DEF ReadWord, ISA!ReadWord
<1>8. \A m, a, v : ISA!WriteWord(m, a, v) = WriteWord(m, a, v)
  BY DEF WriteWord, ISA!WriteWord
<1> QED  BY <1>2, <1>3, <1>4, <1>5, <1>6, <1>7, <1>8

LEMMA SameSets ==
  /\ ISA!Word = Word /\ ISA!Reg = Reg /\ ISA!PC = PC /\ ISA!Instr = Instr
  /\ ISA!ZeroMem = ZeroMem /\ ISA!BranchOp = BranchOp
  /\ ISA!RFunct = {FnAdd, FnAddu, FnSub, FnSubu, FnSlt, FnSltu}
  /\ ISA!IAluOp = {OpAddi, OpAddiu, OpSlti, OpOri, OpLui}
<1>1. ISA!Word = Word /\ ISA!Reg = Reg /\ ISA!PC = PC /\ ISA!HalfWord = HalfWord
  BY DEF Word, ISA!Word, WordSize, ISA!WordSize, Reg, ISA!Reg, PC, ISA!PC,
         HalfWord, ISA!HalfWord
<1>2. ISA!Instr = Instr
  BY <1>1 DEF Instr, ISA!Instr, Opcode, ISA!Opcode, Funct, ISA!Funct
<1> QED
  BY <1>1, <1>2 DEF ZeroMem, ISA!ZeroMem, BranchOp, ISA!BranchOp, ISA!RFunct,
     ISA!IAluOp

-----------------------------------------------------------------------------
(* Type correctness.                                                       *)

LEMMA FlagTypes ==
  /\ Cleared \in Flags
  /\ \A sets, a, b, tested : FlagsOf(sets, a, b, tested) \subseteq Flags
  /\ \A fn, a, b, res : RFlags(fn, a, b, res) \subseteq Flags
  /\ \A op, a, imm, res : IFlags(op, a, imm, res) \subseteq Flags
<1>1. Cleared \in Flags
  BY DEF Cleared, Flags
<1>2. \A sets, a, b, tested : FlagsOf(sets, a, b, tested) \subseteq Flags
  <2> SUFFICES ASSUME NEW sets, NEW a, NEW b, NEW tested,
                      NEW f \in FlagsOf(sets, a, b, tested)
               PROVE  f \in Flags
    OBVIOUS
  <2>1. PICK n, z, v \in tested :
          f = [N |-> "N" \in sets /\ n < 0, Z |-> "Z" \in sets /\ z = 0,
               V |-> "V" \in sets /\ check_overflow(a, b, v), C |-> FALSE]
    BY DEF FlagsOf
  <2> DEFINE fn == "N" \in sets /\ n < 0
             fz == "Z" \in sets /\ z = 0
             fv == "V" \in sets /\ check_overflow(a, b, v)
  <2>2. fn \in BOOLEAN /\ fz \in BOOLEAN /\ fv \in BOOLEAN
    BY Zenon
  <2>3. f = [N |-> fn, Z |-> fz, V |-> fv, C |-> FALSE]
    BY <2>1, Zenon
  <2> HIDE DEF fn, fz, fv
  <2> QED  BY <2>2, <2>3 DEF Flags
<1>3. \A fn, a, b, res : RFlags(fn, a, b, res) \subseteq Flags
  BY <1>2 DEF RFlags
<1>4. \A op, a, imm, res : IFlags(op, a, imm, res) \subseteq Flags
  BY <1>1, <1>2 DEF IFlags
<1> QED  BY <1>1, <1>2, <1>3, <1>4

\* What the instructions compute are words.
LEMMA ResultTypes ==
  ASSUME NEW a \in Word, NEW b \in Word
  PROVE  /\ \A fn \in ISA!RFunct : ISA!RResult(fn, a, b) \in Word
         /\ \A op \in ISA!IAluOp, h \in HalfWord :
              ISA!IResult(op, a, SignExtend(h)) \in Word
         /\ \A h \in HalfWord : ToWord(a + SignExtend(h)) \in Word
<1>1. a \in Int /\ b \in Int
  BY SignedType
<1>3. ToWord(a + b) \in Word /\ ToWord(a - b) \in Word
  <2>1. a + b \in Int /\ a - b \in Int
    BY <1>1
  <2> QED  BY <2>1, ToWordType
<1>4. ASSUME NEW h \in HalfWord
      PROVE  /\ ToWord(a + SignExtend(h)) \in Word
             /\ ToWord(SignExtend(h) * Half) \in Word
             /\ BitOr(a, SignExtend(h) % Half) \in Word
  <2>1. SignExtend(h) \in Int
    BY SignedType
  <2>2. a + SignExtend(h) \in Int /\ SignExtend(h) * Half \in Int
    BY <1>1, <2>1, HalfAssumption
  <2>3. SignExtend(h) % Half \in HalfWord
    BY <2>1, HalfAssumption DEF HalfWord
  <2> QED  BY <2>2, <2>3, ToWordType, WordSizeFacts, BitOrAssumption
<1>5. \A c : ISA!Truth(c) \in Word
  BY WordSizeFacts DEF ISA!Truth
<1>6. ASSUME NEW fn \in ISA!RFunct PROVE ISA!RResult(fn, a, b) \in Word
  BY <1>3, <1>5, SameOperators, SameSets DEF ISA!RResult
<1>7. ASSUME NEW op \in ISA!IAluOp, NEW h \in HalfWord
      PROVE  ISA!IResult(op, a, SignExtend(h)) \in Word
  BY <1>4, <1>5, SameOperators, SameSets DEF ISA!IResult
<1> QED  BY <1>4, <1>6, <1>7

LEMMA InitType == Init => TypeOK
<1> SUFFICES ASSUME Init PROVE TypeOK
  OBVIOUS
<1>1. 0 \in Word /\ 0 \in Reg /\ 0 \in PC /\ 0 \in HalfWord
  BY WordSizeFacts, NumRegsAssumption, PCType, HalfAssumption DEF Reg, HalfWord
<1>2. latched \in Instr
  BY <1>1 DEF Init, ZeroWord, Instr, Opcode, Funct
<1>3. dmem \in [DataAddr -> Word]
  BY <1>1 DEF Init, ZeroMem
<1> QED  BY <1>1, <1>2, <1>3, ProgramsAssumption, InitRegsAssumption, FlagTypes
         DEF Init, TypeOK

\* execute_r, of the instruction at the PC or of one decoded before.
LEMMA ExecuteRType ==
  ASSUME TypeOK, NEW ins \in Instr, execute_r(ins), latched' \in Instr
  PROVE  TypeOK'
<1>1. ins.rs \in Reg /\ ins.rt \in Reg /\ ins.rd \in Reg
  BY DEF Instr
<1>2. regs[ins.rs] \in Word /\ regs[ins.rt] \in Word /\ regs[ins.rd] \in Word
  BY <1>1 DEF TypeOK
<1>3. (IF ins.funct \in ISA!RFunct
       THEN ISA!RResult(ins.funct, regs[ins.rs], regs[ins.rt])
       ELSE regs[ins.rd]) \in Word
  BY <1>2, ResultTypes
<1>4. regs' \in [Reg -> Word]
  BY <1>3 DEF execute_r, TypeOK
<1>5. flags' \in Flags
  BY FlagTypes DEF execute_r
<1>6. pc' \in PC
  BY PCType DEF execute_r, TypeOK
<1> QED  BY <1>4, <1>5, <1>6 DEF execute_r, TypeOK

LEMMA NextType == TypeOK /\ [Next]_vars => TypeOK'
<1> SUFFICES ASSUME TypeOK, [Next]_vars PROVE TypeOK'
  OBVIOUS
<1> DEFINE ins == text[pc]
           addr == ISA!EffectiveAddr(ins)
<1>1. ins \in Instr
  BY DEF TypeOK
<1>2. /\ ins.rs \in Reg /\ ins.rt \in Reg
      /\ ins.imm \in HalfWord /\ ins.addr \in PC
  BY <1>1 DEF Instr
<1>3. regs[ins.rs] \in Word /\ regs[ins.rt] \in Word
  BY <1>2 DEF TypeOK
<1>4. addr \in Word /\ ReadWord(dmem, addr) \in Word
      /\ WriteWord(dmem, addr, regs[ins.rt]) \in [DataAddr -> Word]
  <2>1. addr \in Word
    BY <1>2, <1>3, ResultTypes, SameOperators DEF ISA!EffectiveAddr
  <2> QED  BY <1>3, <2>1, MemoryType DEF TypeOK
<1>5. NextPC(pc) \in PC /\ OffsetPC(NextPC(pc), SignExtend(ins.imm)) \in PC
  BY <1>2, PCType, SignedType DEF TypeOK
<1>6. CASE UNCHANGED vars
  BY <1>6 DEF vars, TypeOK
<1>7. CASE Halt
  BY <1>7 DEF Halt, TypeOK
<1>8. CASE DoR
  BY <1>1, <1>8, ExecuteRType DEF DoR
<1>9. CASE DoIAlu
  <2>1. ISA!IResult(ins.op, regs[ins.rs], SignExtend(ins.imm)) \in Word
    BY <1>2, <1>3, <1>9, ResultTypes DEF DoIAlu
  <2>2. regs' \in [Reg -> Word]
    BY <1>2, <1>9, <2>1 DEF DoIAlu, TypeOK
  <2>3. flags' \in Flags
    BY <1>9, FlagTypes DEF DoIAlu
  <2> QED  BY <1>1, <1>5, <1>9, <2>2, <2>3 DEF DoIAlu, TypeOK
<1>10. CASE DoLoad
  <2>1. regs' \in [Reg -> Word]
    BY <1>2, <1>4, <1>10 DEF DoLoad, TypeOK
  <2>2. flags' \in Flags
    BY <1>10, FlagTypes DEF DoLoad
  <2> QED  BY <1>1, <1>5, <1>10, <2>1, <2>2 DEF DoLoad, TypeOK
<1>11. CASE DoStore
  BY <1>1, <1>4, <1>5, <1>11, FlagTypes DEF DoStore, TypeOK
<1>12. CASE DoBranch
  <2>1. pc' \in PC
    BY <1>5, <1>12 DEF DoBranch, TypeOK
  <2> QED  BY <1>1, <1>12, <2>1, FlagTypes DEF DoBranch, TypeOK
<1>13. CASE DoJump
  <2>1. ToWord(NextPC(pc)) \in Word
    BY <1>5, PCModAssumption, ToWordType DEF PC
  <2>2. regs' \in [Reg -> Word]
    BY <1>13, <2>1 DEF DoJump, TypeOK
  <2> QED  BY <1>1, <1>2, <1>13, <2>2, FlagTypes DEF DoJump, JumpPC, TypeOK
<1>14. CASE DoNothing
  BY <1>1, <1>5, <1>14, FlagTypes DEF DoNothing, PassedPC, TypeOK
<1>15. CASE DoStale
  <2>1. CASE latched.op = OpR
    BY <1>15, <2>1, ExecuteRType DEF DoStale, TypeOK
  <2>2. CASE latched.op # OpR
    BY <1>15, <2>2, FlagTypes DEF DoStale, TypeOK
  <2> QED  BY <2>1, <2>2
<1> QED  BY <1>6, <1>7, <1>8, <1>9, <1>10, <1>11, <1>12, <1>13, <1>14, <1>15
         DEF Next

\* Registers, memory, PC, flags and the latches of decode keep their widths,
\* for every program (sim.c:9-17, shell.h:20-30).
THEOREM SimTypeCorrect == Spec => []TypeOK
<1>1. Init => TypeOK
  BY InitType
<1>2. TypeOK /\ [Next]_vars => TypeOK'
  BY NextType
<1> QED  BY <1>1, <1>2, PTL DEF Spec

-----------------------------------------------------------------------------
(* The instruction set.                                                    *)

LEMMA StepIsExec ==
  ASSUME TypeOK, Next, ~Unimplemented(text[pc])
  PROVE  ISA!Exec \/ UNCHANGED ISA!isaVars
<1> DEFINE ins == text[pc]
<1>1. CASE Halt
  BY <1>1 DEF Halt, ISA!isaVars
<1>2. CASE DoR
  <2>1. ins.funct \in ISA!RFunct
    BY <1>2, SameSets DEF DoR, Fetched, Unimplemented
  <2>2. ISA!ExecR
    BY <1>2, <2>1, SameOperators DEF DoR, execute_r, ISA!ExecR
  <2> QED  BY <2>2 DEF ISA!Exec
<1>3. CASE DoIAlu
  BY <1>3, SameOperators DEF DoIAlu, ISA!ExecIAlu, ISA!Exec
<1>4. CASE DoLoad
  BY <1>4, SameOperators DEF DoLoad, ISA!ExecLoad, ISA!Exec
<1>5. CASE DoStore
  BY <1>5, SameOperators DEF DoStore, ISA!ExecStore, ISA!Exec
<1>6. CASE DoBranch
  <2>1. ins.op \in BranchOp
    BY <1>6, SameSets DEF DoBranch, Unimplemented, BranchOp
  <2>2. ISA!ExecBranch
    BY <1>6, <2>1, SameOperators, SameSets
       DEF DoBranch, ISA!ExecBranch, Taken, ISA!Taken
  <2> QED  BY <2>2 DEF ISA!Exec
<1>7. CASE DoJump
  BY <1>7, SameOperators
     DEF DoJump, JumpPC, ISA!ExecJump, ISA!ExecJumpLink, ISA!Exec
<1>8. CASE DoNothing
  BY <1>8 DEF DoNothing, Unimplemented, BranchOp
<1>9. CASE DoStale
  BY <1>9, SameSets DEF DoStale, Unimplemented, BranchOp
<1> QED  BY <1>1, <1>2, <1>3, <1>4, <1>5, <1>6, <1>7, <1>8, <1>9 DEF Next

\* The single-cycle simulator implements the instruction set, for every
\* program (sim.c:325-373).
THEOREM SimImplementsISA == Spec => ImplementsISA
<1>1. Init => ISA!Init
  <2>1. ASSUME Init PROVE ISA!Init
    BY <2>1, InitType, SameSets DEF TypeOK, Init, ISA!Init
  <2> QED  BY <2>1
<1>2. TypeOK /\ [Next]_vars =>
        [~Unimplemented(text[pc]) => ISA!Exec]_(ISA!isaVars)
  BY StepIsExec DEF vars, ISA!isaVars
<1> QED  BY <1>1, <1>2, SimTypeCorrect, PTL DEF Spec, ImplementsISA

-----------------------------------------------------------------------------
(* The overflow flag.                                                      *)

\* A number that fits in a word is what the word is read back as.
LEMMA FittingIsKept ==
  ASSUME NEW i \in Int, Fits(i)
  PROVE  Signed(ToWord(i)) = i
<1>1. WordSize \in Nat /\ WordSize > 1
  BY WordSizeFacts, HalfAssumption
<1>2. 2 * (WordSize \div 2) <= WordSize
  BY <1>1
<1>3. CASE i >= 0
  <2>1. 2 * i < WordSize /\ i < WordSize
    BY <1>1, <1>2, <1>3 DEF Fits
  <2>2. i % WordSize = i
    BY <1>1, <1>3, <2>1
  <2> QED  BY <2>1, <2>2 DEF Signed, ToWord
<1>4. CASE i < 0
  <2>1. -(2 * i) <= WordSize /\ i + WordSize \in 0 .. WordSize - 1
    BY <1>1, <1>2, <1>4 DEF Fits
  <2>2. i % WordSize = i + WordSize
    BY <1>1, <1>4, <2>1
  <2> QED  BY <1>1, <2>1, <2>2 DEF Signed, ToWord
<1> QED  BY <1>3, <1>4

\* Where FLAG_V is set, one of the values tested was found to overflow.
LEMMA FlagVIs ==
  ASSUME NEW sets, NEW a, NEW b, NEW tested,
         NEW f \in FlagsOf(sets, a, b, tested), f.V
  PROVE  "V" \in sets /\ \E v \in tested : check_overflow(a, b, v)
<1>1. PICK n, z, v \in tested :
        f = [N |-> "N" \in sets /\ n < 0, Z |-> "Z" \in sets /\ z = 0,
             V |-> "V" \in sets /\ check_overflow(a, b, v), C |-> FALSE]
  BY DEF FlagsOf
<1> DEFINE fn == "N" \in sets /\ n < 0
           fz == "Z" \in sets /\ z = 0
           fv == "V" \in sets /\ check_overflow(a, b, v)
<1>2. f = [N |-> fn, Z |-> fz, V |-> fv, C |-> FALSE]
  BY <1>1, Zenon
<1> HIDE DEF fn, fz, fv
<1>3. f.V = fv
  BY <1>2
<1>4. fv
  BY <1>3, Zenon
<1> QED  BY <1>4, Zenon DEF fv

LEMMA NoFalseAlarm ==
  ASSUME NEW a \in Int, NEW b \in Int, NEW sets, Fits(a + b),
         NEW f \in FlagsOf(sets, a, b, Tested(a + b))
  PROVE  ~f.V
<1>1. Tested(a + b) = {a + b}
  BY FittingIsKept DEF Tested
<1>2. ~check_overflow(a, b, a + b)
  BY DEF check_overflow
<1> QED  BY <1>1, <1>2, FlagVIs

LEMMA NoFlag ==
  ASSUME NEW sets, "V" \notin sets, NEW a, NEW b, NEW tested,
         NEW f \in FlagsOf(sets, a, b, tested)
  PROVE  ~f.V
BY FlagVIs

LEMMA RTypeFlag ==
  ASSUME TypeOK, NEW ins \in Instr, execute_r(ins), flags'.V, ~IsSub(ins),
         ins.op = OpR
  PROVE  ~Fits(Exact(ins))
<1> DEFINE a == regs[ins.rs]
           b == regs[ins.rt]
<1>1. Signed(a) \in Int /\ Signed(b) \in Int
  BY SignedType DEF TypeOK, Instr
<1>2. PICK res : flags' \in RFlags(ins.funct, a, b, res)
  BY DEF execute_r
<1>3. ins.funct = FnAdd
  <2> SUFFICES ASSUME ins.funct # FnAdd PROVE FALSE
    OBVIOUS
  <2>1. ins.funct # FnSub
    BY DEF IsSub
  <2>2. \/ flags' \in FlagsOf({"N", "Z"}, 0, 0, {Signed(res)})
        \/ flags' \in FlagsOf({"Z"}, 0, 0, {Signed(res)})
    BY <1>2, <2>1 DEF RFlags
  <2> QED  BY <2>2, NoFlag
<1>4. flags' \in FlagsOf({"N", "Z", "V"}, Signed(a), Signed(b),
                         Tested(Signed(a) + Signed(b)))
  BY <1>2, <1>3 DEF RFlags
<1>5. Exact(ins) = Signed(a) + Signed(b)
  BY <1>3 DEF Exact
<1> QED  BY <1>1, <1>4, <1>5, NoFalseAlarm

\* add and addi raise FLAG_V only for sums that do not fit, whatever the
\* build makes of the overflow, for every program (sim.c:49-55).
THEOREM AddOverflowCorrect == Spec => AddOverflowIsReal
<1>1. ASSUME TypeOK, [Next]_vars, ~UNCHANGED vars, run', flags'.V,
             ~IsSub(Executed)
      PROVE  ~Fits(Exact(Executed))
  <2> DEFINE ins == text[pc]
  <2>0. ins \in Instr
    BY <1>1 DEF TypeOK
  <2>1. ~Cleared.V
    BY DEF Cleared
  <2>2. CASE DoR
    <3>1. Executed = ins /\ ins.op = OpR
      BY <2>2 DEF DoR, Executed
    <3> QED  BY <1>1, <2>0, <2>2, <3>1, RTypeFlag DEF DoR
  <2>3. CASE DoIAlu
    <3> DEFINE a   == Signed(regs[ins.rs])
               imm == SignExtend(ins.imm)
               res == ISA!IResult(ins.op, regs[ins.rs], imm)
    <3>1. flags' \in IFlags(ins.op, regs[ins.rs], imm, res)
      BY <2>3 DEF DoIAlu
    <3>2. a \in Int /\ imm \in Int
      BY <1>1, <2>0, SignedType DEF TypeOK, Instr
    <3> HIDE DEF res
    <3>3. ins.op = OpAddi
      <4> SUFFICES ASSUME ins.op # OpAddi PROVE FALSE
        OBVIOUS
      <4>1. \/ flags' = Cleared
            \/ flags' \in FlagsOf({"Z"}, 0, 0, {Signed(res)})
        BY <3>1 DEF IFlags
      <4> QED  BY <1>1, <2>1, <4>1, NoFlag
    <3>4. flags' \in FlagsOf({"N", "Z", "V"}, a, imm, Tested(a + imm))
      BY <3>1, <3>3 DEF IFlags
    <3>5. Exact(Executed) = a + imm
      BY <3>3 DEF Exact, Executed
    <3> QED  BY <1>1, <3>2, <3>4, <3>5, NoFalseAlarm
  <2>4. CASE DoLoad
    BY <1>1, <2>4, NoFlag DEF DoLoad
  <2>5. CASE DoStore \/ DoBranch \/ DoJump \/ DoNothing
    BY <1>1, <2>1, <2>5 DEF DoStore, DoBranch, DoJump, DoNothing
  <2>6. CASE DoStale
    <3>1. Executed = latched /\ latched \in Instr
      BY <1>1, <2>6 DEF DoStale, Executed, TypeOK
    <3>2. latched.op = OpR /\ execute_r(latched)
      BY <1>1, <2>1, <2>6 DEF DoStale
    <3> QED  BY <1>1, <3>1, <3>2, RTypeFlag
  <2>7. CASE Halt
    BY <1>1, <2>7 DEF Halt
  <2> QED  BY <1>1, <2>2, <2>3, <2>4, <2>5, <2>6, <2>7 DEF Next
<1>2. TypeOK /\ [Next]_vars =>
        [run' /\ flags'.V /\ ~IsSub(Executed) => ~Fits(Exact(Executed))]_vars
  BY <1>1
<1> QED  BY <1>2, SimTypeCorrect, PTL DEF Spec, AddOverflowIsReal
-----------------------------------------------------------------------------
(* Programs that lead forward.                                             *)

\* What never moves the PC: opcode 6, and opcode 1 with nothing of R-type
\* left to execute again.
Stays ==
  \/ text[pc].op = 6
  \/ text[pc].op = 1 /\ latched.op # OpR

\* The words from the PC on, while the simulator runs.
Ahead == IF run THEN PCMod - pc ELSE 0

\* Memory behind the program is zero.
Closed(prog) == prog[PCMod - 1] = ZeroWord

MovesForward ==
  [][LeadsForward(text) /\ Closed(text) /\ ~Stays => Ahead' < Ahead]_vars

LEMMA NextIsAhead ==
  ASSUME NEW p \in PC, p # PCMod - 1
  PROVE  NextPC(p) > p /\ NextPC(p) \in PC
<1>1. p + 1 \in 0 .. PCMod - 1 /\ PCMod \in Nat \ {0}
  BY PCModAssumption DEF PC
<1>2. (p + 1) % PCMod = p + 1
  BY <1>1
<1> QED  BY <1>1, <1>2 DEF NextPC, PC

LEMMA StepIsAhead ==
  ASSUME TypeOK, Next, run', LeadsForward(text), Closed(text), ~Stays
  PROVE  run /\ pc' > pc
<1> DEFINE ins == text[pc]
<1>1. pc \in PC /\ ins \in Instr
  BY DEF TypeOK
<1>2. CASE ins = ZeroWord
  BY <1>2 DEF Next, Halt, DoR, DoIAlu, DoLoad, DoStore, DoBranch, DoJump,
              DoNothing, DoStale, Fetched
<1>3. CASE ins # ZeroWord
  <2>1. run
    BY DEF Next, Halt, DoR, DoIAlu, DoLoad, DoStore, DoBranch, DoJump,
           DoNothing, DoStale, Fetched
  <2>2. NextPC(pc) > pc
    BY <1>1, <1>3, NextIsAhead DEF Closed
  <2>3. CASE DoR \/ DoIAlu \/ DoLoad \/ DoStore \/ DoNothing
    BY <2>1, <2>2, <2>3
    DEF DoR, DoIAlu, DoLoad, DoStore, DoNothing, execute_r, PassedPC
  <2>4. CASE DoBranch
    <3>1. ins.op \in BranchOp
      <4>1. ins.op \in 4 .. 7 /\ ins.op # 6
        BY <2>4 DEF DoBranch, Stays
      <4> HIDE DEF ins
      <4> QED  BY <4>1 DEF BranchOp
    <3>2. OffsetPC(NextPC(pc), SignExtend(ins.imm)) > pc
      BY <1>1, <3>1 DEF LeadsForward, BranchOp
    <3>3. \/ pc' = OffsetPC(NextPC(pc), SignExtend(ins.imm))
          \/ pc' = NextPC(pc)
      <4> HIDE DEF ins
      <4>1. pc' = IF Taken(ins.op, regs[ins.rs], regs[ins.rt])
                  THEN OffsetPC(NextPC(pc), SignExtend(ins.imm))
                  ELSE NextPC(pc)
        BY <2>4, <3>1 DEF DoBranch, Fetched, ins
      <4> QED  BY <4>1
    <3> QED  BY <2>1, <2>2, <3>2, <3>3
  <2>5. CASE DoJump
    BY <1>1, <2>1, <2>5 DEF DoJump, JumpPC, LeadsForward
  <2>6. CASE DoStale
    BY <2>1, <2>2, <2>6 DEF DoStale, Stays, execute_r
  <2>7. ~Halt
    BY <1>3 DEF Halt
  <2> QED  BY <2>3, <2>4, <2>5, <2>6, <2>7 DEF Next
<1> QED  BY <1>2, <1>3

\* A program that only leads forward never comes to a word twice: every cycle
\* moves the PC ahead, or halts, but at the two opcodes that never move it
\* (sim.c:335-352), so no more cycles are run than there are words.
THEOREM ForwardRunsDown == Spec => [](Ahead \in Nat) /\ MovesForward
<1>1. TypeOK => Ahead \in Nat
  BY PCModAssumption DEF TypeOK, PC, Ahead
<1>2. ASSUME TypeOK, TypeOK', Next, LeadsForward(text), Closed(text), ~Stays
      PROVE  Ahead' < Ahead
  <2>1. PCMod \in Nat /\ pc \in PC /\ pc' \in PC
    BY <1>2, PCModAssumption DEF TypeOK
  <2>2. run
    BY <1>2 DEF Next, Halt, DoR, DoIAlu, DoLoad, DoStore, DoBranch, DoJump,
                DoNothing, DoStale, Fetched
  <2>3. CASE run'
    <3>1. pc' > pc
      BY <1>2, <2>3, StepIsAhead
    <3>2. Ahead = PCMod - pc /\ Ahead' = PCMod - pc'
      BY <2>1, <2>2, <2>3 DEF Ahead
    <3>3. PCMod \in Int /\ pc \in Int /\ pc' \in Int
      BY <2>1 DEF PC
    <3>4. \A p, q \in Int : q > p => PCMod - q < PCMod - p
      BY <3>3
    <3> QED  BY <3>1, <3>2, <3>3, <3>4
  <2>4. CASE ~run'
    BY <2>1, <2>2, <2>4 DEF Ahead, PC
  <2> QED  BY <2>3, <2>4
<1>3. TypeOK /\ TypeOK' /\ [Next]_vars =>
        [LeadsForward(text) /\ Closed(text) /\ ~Stays => Ahead' < Ahead]_vars
  BY <1>2
<1> QED  BY <1>1, <1>3, SimTypeCorrect, PTL DEF Spec, MovesForward
=============================================================================
