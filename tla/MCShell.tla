------------------------------ MODULE MCShell ------------------------------
(***************************************************************************)
(* Instances of PipelineShell for TLC.                                     *)
(***************************************************************************)
EXTENDS PipelineShell, MCInstrs

ShellInsts ==
  { R(FnAdd, 2, 2, 3), I(OpLw, 3, 1, 0), I(OpSw, 2, 1, 0),
    I(OpSw, 0, 1, 0), I(OpBgtz, 0, 2, 1), J(1), ZeroWord }

ScheduledPrograms == {prog \in AllPrograms : Scheduled(prog)}

\* A result, then instructions that leave it where it is, and a use of it.
QuietInsts == { I(OpBgtz, 0, 3, 1), I(OpSw, 3, 1, 0) }

WriteThenRead ==
  { Loaded(<<R(FnAdd, 2, 2, 3)>> \o quiet \o <<R(FnSub, 3, 2, 1)>>) :
      quiet \in [1 .. ProgLen - 2 -> Insts] }
=============================================================================
