----------------------------- MODULE MCPrograms -----------------------------
(***************************************************************************)
(* Instances of Pipeline for TLC.                                          *)
(***************************************************************************)
EXTENDS Pipeline, MCInstrs

\* Unimplemented opcodes and functions, register 0 as a destination, and
\* every hazard.
AnyInsts ==
  { R(FnAdd, 2, 2, 3), R(8, 2, 3, 1), R(FnSltu, 0, 3, 2), I(1, 2, 3, 1),
    I(3, 0, 0, 0), I(6, 3, 2, 1), I(12, 2, 1, 1), I(OpLw, 2, 1, 0),
    I(OpLw, 1, 0, -1), I(OpSw, 2, 1, 0), I(OpBne, 3, 2, -2),
    I(OpBgtz, 0, 2, 1), J(2), ZeroWord }
=============================================================================
