----------------------------- MODULE MCPipeline -----------------------------
(***************************************************************************)
(* Instances of PipelineISA for TLC: the programs of MCInstrs, sorted by   *)
(* what the schedule of PipelineISA says of them.                          *)
(***************************************************************************)
EXTENDS PipelineISA, MCInstrs

ScheduledPrograms == {prog \in AllPrograms : Scheduled(prog)}

\* The scheduled programs over a set of instructions that end in sequence.
EndingOver(insts) ==
  {Loaded(words) : words \in
     {w \in [1 .. ProgLen -> insts] :
        Scheduled(Loaded(w)) /\ EndsInSequence(Loaded(w))}}

-----------------------------------------------------------------------------
(* Results that the next instructions use, stores and loads of one         *)
(* address, branches forward and back, and a jump.                         *)
DataInsts ==
  { R(FnAdd, 2, 2, 3), R(FnSubu, 3, 2, 1), R(FnSlt, 2, 3, 2),
    I(OpAddi, 1, 1, 1), I(OpLw, 3, 1, 0), I(OpLw, 2, 1, -1),
    I(OpSw, 2, 1, 0), I(OpSw, 3, 1, -1),
    I(OpBeq, 3, 2, -2), I(OpBgtz, 0, 2, 1), J(2), ZeroWord }

ControlInsts ==
  { R(FnSub, 2, 2, 3), I(OpSlti, 2, 3, 1), I(OpAddiu, 3, 3, 1),
    I(OpOri, 2, 2, -1), I(OpLui, 3, 0, 1),
    I(OpBeq, 3, 2, 1), I(OpBne, 3, 2, -2), I(OpBgtz, 0, 3, -2),
    J(3), I(OpSw, 3, 1, 0) }

EndingPrograms == EndingOver(DataInsts) \union EndingOver(ControlInsts)

-----------------------------------------------------------------------------
(* Programs the pipeline was not given its schedule for.                   *)

\* Loads whose value the next instruction names.
LoadUseInsts == { I(OpLw, 2, 1, 0), R(FnAdd, 3, 3, 2), I(OpSw, 3, 1, 0) }

LoadUsePrograms == {prog \in AllPrograms : ~LoadUseFree(prog)}

\* Scheduled programs with a branch whose target is the end.
BranchToEndPrograms == {prog \in ScheduledPrograms : ~EndsInSequence(prog)}
=============================================================================
