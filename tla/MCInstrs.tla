------------------------------ MODULE MCInstrs ------------------------------
(***************************************************************************)
(* Small machines and small programs for TLC: every program of a given     *)
(* length over a given set of instructions.                                *)
(***************************************************************************)
EXTENDS Mips, FiniteSetsExt

CONSTANTS
  Insts,      \* the instructions programs are made of
  ProgLen     \* how many of them a program has

-----------------------------------------------------------------------------
(* 4-bit words: 2-bit immediates, four registers, eight program counters.  *)

MCBitOr(a, b) ==
  MapThenSumSet(LAMBDA k : IF (a \div k) % 2 = 1 \/ (b \div k) % 2 = 1
                           THEN k ELSE 0, {1, 2, 4, 8})

\* Register 1 holds a data address, register 2 a small positive number and
\* register 3 a negative one.
MCInitRegs == {[r \in Reg |-> <<0, 8, 3, 13>>[r + 1]]}

R(fn, d, s, t) == [ZeroWord EXCEPT !.op = OpR, !.funct = fn,
                                   !.rd = d, !.rs = s, !.rt = t]
I(op, t, s, i) == [ZeroWord EXCEPT !.op = op, !.rt = t, !.rs = s,
                                   !.imm = i % Half]
J(a)           == [ZeroWord EXCEPT !.op = OpJ, !.addr = a]

AllPrograms == {Loaded(words) : words \in [1 .. ProgLen -> Insts]}
=============================================================================
