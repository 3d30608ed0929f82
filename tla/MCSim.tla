------------------------------- MODULE MCSim -------------------------------
(***************************************************************************)
(* Instances of Sim for TLC.                                               *)
(***************************************************************************)
EXTENDS Sim, MCInstrs

\* Sums that overflow both ways, calls, branches, loads and stores, and
\* among them opcodes and functions without a case.
SimInsts ==
  { R(FnAdd, 2, 2, 2), R(FnAdd, 3, 3, 3), R(FnSub, 2, 3, 2),
    R(FnSltu, 2, 3, 1), R(8, 2, 3, 1),
    I(OpAddi, 3, 3, -2), I(OpOri, 2, 1, -1), I(OpSlti, 1, 2, 1),
    I(OpLw, 3, 1, 0), I(OpSw, 2, 1, 0),
    I(OpBeq, 3, 2, 1), I(OpBne, 3, 2, -2), [J(3) EXCEPT !.op = OpJal],
    I(1, 2, 3, 1), I(6, 3, 2, 1), I(12, 2, 1, 1), ZeroWord }
=============================================================================
