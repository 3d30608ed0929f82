--------------------------- MODULE PipelineShell ---------------------------
(***************************************************************************)
(* The command loop of lab3/shell.c around the pipeline: between two       *)
(* cycles, and only there, the user may type a command.                    *)
(*                                                                         *)
(* The dump commands and help only print; go and run on a halted machine   *)
(* and mistyped commands only print a message.  They have no step here.    *)
(***************************************************************************)
EXTENDS PipelineISA

CONSTANTS
  RunCounts,     \* the numbers of cycles typed after `run'
  InputValues,   \* the register values typed after `input'
  MaxInputs      \* how many `input' commands are typed

ASSUME RunCountsAssumption == RunCounts \subseteq Nat \ {0}
ASSUME InputValuesAssumption == InputValues \subseteq Word
ASSUME MaxInputsAssumption == MaxInputs \in Nat

VARIABLES
  cmd,        \* the command being executed, or "prompt", or "bye"
  left,       \* the cycles a run command still has to go
  inputs      \* how many registers were set by hand

\* Two history variables, kept for the properties only.
VARIABLES
  typed,      \* the registers set by hand and not written back since
  unread      \* those of them set since the decode stage last ran

shellVars == <<cmd, left, inputs>>
handVars == <<typed, unread>>
svars == <<text, dmem, regs, pc, ifde, idex, exmem, memwb, run, stage,
           apc, lag, cmd, left, inputs, typed, unread>>

SInit ==
  /\ HInit
  /\ cmd = "prompt" /\ left = 0 /\ inputs = 0
  /\ typed = {} /\ unread = {}

Prompt == cmd = "prompt"

Go ==
  /\ Prompt /\ run
  /\ cmd' = "go"
  /\ UNCHANGED <<hvars, left, inputs, handVars>>

Run ==
  /\ Prompt /\ run
  /\ \E n \in RunCounts : left' = n
  /\ cmd' = "run"
  /\ UNCHANGED <<hvars, inputs, handVars>>

input_cmd ==
  /\ Prompt /\ inputs < MaxInputs
  /\ \E reg_no \in Reg, reg_value \in InputValues :
       /\ regs' = [regs EXCEPT ![reg_no] = reg_value]
       /\ typed' = typed \union {reg_no}
       /\ unread' = unread \union {reg_no}
  /\ inputs' = inputs + 1
  /\ UNCHANGED <<text, dmem, pc, pipeRegs, run, stage, apc, lag,
                 cmd, left>>

exit_shell ==
  /\ Prompt
  /\ cmd' = "bye"
  /\ UNCHANGED <<hvars, left, inputs, handVars>>

\* The register that write-back writes now.
Written ==
  IF stage = "wb" /\ ~memwb.nop /\ memwb.reg_write THEN {memwb.dest} ELSE {}

\* A stage function, called by cycle() as long as a command runs.
StageCall ==
  /\ HNext
  /\ typed' = typed \ Written
  /\ unread' = IF stage = "id" THEN {} ELSE unread \ Written

\* The rest of a cycle that was started, or the next one.
GoCycle ==
  /\ cmd = "go"
  /\ StageCall
  /\ UNCHANGED shellVars

\* Variant: the loop of run counts instructions.
Counted_Instructions == IF ExCommits \/ IdCommits THEN 1 ELSE 0

Counted == NewCycle

RunCycle ==
  /\ cmd = "run"
  /\ stage = "wb" => left > 0
  /\ StageCall
  /\ left' = left - Counted
  /\ UNCHANGED <<cmd, inputs>>

GoReturns ==
  /\ cmd = "go" /\ stage = "wb" /\ ~run
  /\ cmd' = "prompt"
  /\ UNCHANGED <<hvars, left, inputs, handVars>>

\* Variant: the prompt is back before the last cycle is over.
RunReturns_MidCycle ==
  /\ cmd = "run" /\ (~run \/ left = 0)
  /\ cmd' = "prompt"
  /\ UNCHANGED <<hvars, left, inputs, handVars>>

RunReturns ==
  /\ cmd = "run" /\ stage = "wb" /\ (~run \/ left = 0)
  /\ cmd' = "prompt"
  /\ UNCHANGED <<hvars, left, inputs, handVars>>

SNext ==
  \/ Go \/ Run \/ input_cmd \/ exit_shell
  \/ GoCycle \/ RunCycle
  \/ GoReturns \/ RunReturns

SSpec == SInit /\ [][SNext]_svars

\* A command runs until it returns; nobody has to type one.
SFairSpec ==
  /\ SSpec
  /\ WF_svars(GoCycle \/ GoReturns)
  /\ WF_svars(RunCycle \/ RunReturns)

-----------------------------------------------------------------------------
(* Properties.                                                             *)

\* `run n' gives the prompt back whatever the program is, even one that `go'
\* would never come back from.
RunEnds == cmd = "run" ~> cmd = "prompt"

\* `go' gives the prompt back once the program has come to its end, after
\* any number of run commands, if it ends in sequence.
GoEnds ==
  EndsInSequence(text) /\ cmd = "go" /\ text[apc] = ZeroWord
    ~> cmd = "prompt"

\* A register set at the prompt is read as it was set ("input reg_no
\* reg_value - set GPR reg_no to reg_value", shell.c:125) by every instruction
\* decoded from then on: unless they were read before the command, execute
\* computes with the values the registers have, or will have when the
\* instructions ahead are through.
InputIsRead ==
  ExLive =>
    /\ UsesRs /\ idex.rs \notin unread => Operand1 = AfterMemWb[idex.rs]
    /\ UsesRt /\ idex.rt \notin unread => Operand2 = AfterMemWb[idex.rt]

\* The register of the last write-back has been set by hand since, and
\* WB-EX forwarding (pipe.c:252-275) still hands out what was written.
Masked(r) == r # 0 /\ memwb.reg_wrote = r /\ r \in typed

\* The execute stage computes with the value register r was set to.
SeenAsSet(r) == r \notin unread /\ ~Masked(r)

\* The same for every register but a masked one: the instruction that was in
\* IDEX during the command and the record of the last write-back are all that
\* stands between an input and its readers.
OtherInputIsRead ==
  ExLive =>
    /\ UsesRs /\ SeenAsSet(idex.rs) => Operand1 = AfterMemWb[idex.rs]
    /\ UsesRt /\ SeenAsSet(idex.rt) => Operand2 = AfterMemWb[idex.rt]

\* Nothing set by hand is mistaken for what it was before by the instruction
\* in IDEX, nor by mem-mem forwarding (pipe.c:61-64) if it is a store.
InputsSeen ==
  /\ UsesRs => SeenAsSet(idex.rs)
  /\ UsesRt => SeenAsSet(idex.rt)
  /\ idex.opcode = OpSw /\ memwb.dest = idex.rt => idex.rt \notin typed

\* The registers that the instructions in EXMEM and MEMWB still write, or
\* write once more: reg_write is never cleared.
OnTheWay ==
  {r \in Reg : \/ ~memwb.nop /\ memwb.reg_write /\ memwb.dest = r
               \/ InExMem /\ exmem.reg_write /\ exmem.dest = r}

\* What input is to the program: one register has another value, unless an
\* instruction that has taken effect is yet to overwrite it.
SetsRegister ==
  /\ \E r \in Reg, v \in InputValues :
       ArchRegs' = IF r \in OnTheWay THEN ArchRegs
                   ELSE [ArchRegs EXCEPT ![r] = v]
  /\ UNCHANGED <<text, apc, ArchMem>>

\* A whole session, however run and go divide its cycles and whatever is set
\* by hand between them (shell.c:151-202, 354-375): every step is the next
\* instruction of the program, on the registers as the user left them, or
\* nothing to the program, or an input; only an instruction that does not see
\* an input may do something else.
SessionFollowsISA ==
  /\ ISA!Init
  /\ [][IF inputs' = inputs
        THEN ISA!Exec \/ UNCHANGED ISA!isaVars \/ (ExCommits /\ ~InputsSeen)
        ELSE SetsRegister]_svars
=============================================================================
