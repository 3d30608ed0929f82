# A verification of computer_architecture

The repository is the work of a computer architecture course: assembly programs
(lab1, test), a MIPS simulator that executes one instruction per cycle (lab2),
one with a five-stage pipeline (lab3), the command shell around both, and a
simulator of caches that is driven by matrix multiplications (lab5).  This
directory models them in TLA+, checks the models with TLC and proves theorems
about them with TLAPS.

## 1. The system

| Component | State | Operations | What makes it correct |
|---|---|---|---|
| lab3 pipeline, `lab3/pipe.c`, `pipe.h` | registers, PC, `RUN_BIT`, four pipeline registers that are updated in place | `pipe_cycle` calls wb, mem, execute, decode, fetch, in this order | the result is that of the instruction set; forwarding delivers current values; nothing of a wrong path has an effect; it halts, and only when drained; the bubbles are the right ones |
| lab2 simulator, `lab2/sim.c` | registers, PC, flags, the decoded fields as globals | `process_instruction` = fetch, decode, execute | each cycle is a step of the instruction set; flags say what happened; a program ends |
| shell, `lab2/shell.c`, `lab3/shell.c` | memory regions of bytes, the line buffer and its words, `RUN_BIT`, cycle count | `initialize`, `load_program`; `read_line`, `split_line`, `execute_cmd`; `go`, `run n`, `input`, `mdump`, `rdump`, `quit`; `mem_read_32`, `mem_write_32` | memory is one of words; loading ends; what is typed reaches the command whole; commands divide a simulation, they do not change it; the prompt comes back |
| lab5 cache, `lab5/memory.cpp`, `memory.hh` | the cache's blocks, main memory, an access counter, clock and misses | `getData`, `putData` in three organizations | behind it a program sees a memory; copies agree with memory; LRU; time and misses are counted right |
| lab5 drivers, `naive*.cpp`, `smart*.cpp` | one `Memory`, the global `cache_org`, loop counters | a multiplication for each organization in turn | the product is right at every moment, whatever is evicted; the order of the loops pays; each organization starts from a state that is sound for it |
| assembly programs with frames, `lab1/lab1.asm`, `test/functions_adv.asm` | registers, the stack | procedures, one of them recursive | what is saved stays saved; returns go to their calls; the results are right |
| lab5 C skeleton, `lab5/c/`; other assembly programs; Makefiles, `.mem`/`.txt` programs | - | - | - |

Everything runs in one thread.  The interactions that make the system hard are
within a cycle and between cycles: the stages of the pipeline are called from
the last to the first and share one copy of each pipeline register, so every
stage reads what the stage behind it in program order has *not yet* written and
what the stage ahead of it *has already* overwritten; `nop`, `done` and
`nofetch` are three different ways of saying "nothing here", not always
combined; between two cycles the user may type a command; a command looks into
a vector that was filled by another function and may be shorter than it thinks;
the cache keeps two copies of a word that three organizations have to keep
equal, while a program builds its sums in memory through it.  The hazards that
follow from this are listed, each at its line, in `PROJECT.json`.

## 2. The modules

```
Mips                      words, registers, instructions, memory
 |-- MipsISA              one instruction per step: the abstract machine
 |-- Sim                  lab2/sim.c, refines MipsISA       -- MCSim
 |-- Pipeline             lab3/pipe.c, one stage per step   -- MCPrograms
 |    '-- PipelineISA     and the machine it refines        -- MCPipeline
 |         '-- PipelineShell   go, run, input, quit         -- MCShell
 '-- MipsProof            lemmas of
      |-- SimProof, PipelineProof                           (theorems)
      '-- PipelineISAProof, with PipelineProof, PipelineShell  (theorems)
WordMemory                what mem_read_32, mem_write_32 promise
MemRegions                shell.c's regions of bytes, refines WordMemory
 '-- ShellMain            main(): loading, lines, mdump     -- MCShellMain
      |  (with CommandLine   read_line, split_line)
      '-- ShellMainProof                                    (theorems)
AtomicMemory              what class Memory promises
Cache                     lab5/memory.cpp
 '-- CacheMemory          refines AtomicMemory; LRU; time   -- MCCache
      |-- CacheProof                                        (theorems)
      '-- MatrixDriver    naive*.cpp, smart*.cpp            -- MCMatrix
           '-- MatrixProof, with CacheProof                 (theorems)
Procedures                lab1.asm, functions_adv.asm       -- MCProcedures
 '-- ProceduresProof                                        (theorems)
MCInstrs                  a small word, and all programs of a length
```

**Mips.**  A word has the width of two immediates, `Half * Half` for the code's
2^32, so sign extension, `lui`, wrapping sums and signed comparison keep their
meaning at any width; the runs use two-bit immediates and four-bit words.  An
instruction is a record of its fields: splitting the word by shifts and masks is
the one conversion left out.  Addresses count words, for text and data alike
(the code's `+ 4` and `imm * 4` are `+ 1` and `+ imm`), and program counters
wrap.  The data region is a set of word addresses inside the larger set of
words, so an address may lie outside every region, where it reads as zero and
swallows writes; that `shell.c`'s bytes amount to this is what `MemRegions`
shows.  A program does not write to its own text; data addresses are disjoint
from it.

**Pipeline.**  The variables are the fields of `pipe.h` and `stage`, the
function `pipe_cycle` will call next.  One step is one stage function, its
disjuncts are its paths: for `pipe_stage_mem`, `MemBubble` (`nop`, line 56),
`MemDone` (59), `MemStore` (73), `MemOther` (load and default).  Assignments to
the *same* pipeline register from different stages stay in place: execute sets
`ifde.nop`, `ifde.nofetch` and `idex.nop` for a taken branch (`ExTaken`, lines
142-165), mem overwrites `exmem.mem_write_val`, decode both sets and clears
`idex.nop` in a stall (`Stalled`, 353-365, then 380).  What the code does not
assign keeps its old value, `ALUresult` of an unimplemented opcode for instance.
Pipeline registers start as `pipe_init` and static initialization leave them.

**PipelineISA** adds the history variables `apc` and `lag`.  An instruction takes effect
for the instruction set when it leaves execute, a jump when it is decoded;
`ArchRegs` and `ArchMem` are registers and memory with what EXMEM and MEMWB
still have to write.  With `pc <- apc, regs <- ArchRegs, dmem <- ArchMem` the
pipeline is to implement `MipsISA`.  `Scheduled` says for which programs it
does: see section 4.

**Sim.**  One step is one call of `process_instruction` followed by the copy of
`NEXT_STATE` to `CURRENT_STATE` (`lab2/shell.c:134-137`), so one copy of the state
is enough.  `latched` is the instruction the decode globals belong to, executed
again by an opcode that decode has no branch for (`DoStale`).  `add`, `sub` and
`addi` compute in `int32_t`.  Where the result does not fit, C leaves the
behaviour undefined; gcc -O2 stores the wrapped word but decides a test of the
result from the operands' signs when it can, so each test of the result sees
either value (`Tested`), and each flag chooses for itself.  No carry is ever found:
`addu` and `subu` compare a result with limits its type cannot exceed
(`sim.c:119`, `141`), and `FLAG_C` stays cleared.

**PipelineShell** is what the commands do to a simulation: `Go` and `Run` start a command, `GoCycle`
and `RunCycle` are the stages it executes (`StageCall`), `GoReturns` and `RunReturns` the ends
of their loops, `input_cmd` and `exit_shell` happen at the prompt only.
Two history variables, which no guard reads, follow what is set by hand: `typed` has the registers set
and not written back since, `unread` those of them set since decode last ran.
Commands that only print have no action.  `n` in `run n` counts cycles
(`shell.c:172`), which the help calls instructions (`shell.c:122`).

**MemRegions** has the regions as sequences of bytes with their start and size,
the search by comparison with a sum that wraps (`End`), and the shifts and masks
that spread a word over four bytes.  `WordMemory` is the abstraction: a
function from mapped addresses to words.  An access in the last three bytes of
a region would read or write behind its allocation; the code's programs make
none, accesses are aligned (`AccessAssumption`), and so are the two regions that are
ever found (`RegionsAssumption`).

**CommandLine** and **ShellMain** are `main()` as a sequential machine: `at` says
where it is.  A line is a number of characters and a list of words; every character
is a step of `read_line`, every word one of `split_line`, and both may fail to
grow their buffer or find the input closed.  `execute_cmd` compares the first
word and asks for arguments in the code's order; an element of the vector that
nothing was stored in is `NotSet`.  `mdump` counts an `int` through its loop
twice, `load_program` counts `ii` and keeps `word` from the last number read.  A
simulation is only its effect on memory: while `go` or `run` executes, any
aligned word may be stored or read.

**Cache.**  One step is one `getData` or `putData`, on a hit or on a miss; the
three organizations differ in `slots`, `tag`, `Matches` (only the direct mapped
lookup tests `valid`), `index` and `Touched`.  The block constructor sets `valid`
and `last_used`, not `tag` and `data`: their first values come from the sets
`InitTag` and `InitData`.  Ages are the signed reading of a difference of
unsigned counters of `CounterSize` values.  `SetOrg` is what a driver does
between two multiplications.  Main memory's own `valid` is never read.

**CacheMemory** compares with `AtomicMemory` (a function from addresses to
values) and with an ideal LRU, which needs one history variable, `lastUse`.
`gets` and `puts` count the accesses and bound the runs at `MaxAccesses` and
`MaxPuts`.

**MatrixDriver** is one specification for the six programs, which differ in `N` and in
the order of the inner loops.  One step is one access: the loads of C, A and B and
the store of C; `NextOrg` is the step to the next organization on the same
memory (`naive6.cpp:17`), where C keeps what it has.  `Products` is the sum of the
first products of a cell, by their number, and `Done` how many of them the loops
have added; the values are integers that do not overflow (`SumsFit`, which the
run assumes of its matrices).  `At` and `Before` number the accesses of the smart
order, and `RowsFit` says of them when the rows it works on fit in the cache.

**Procedures** has one action per basic block of the two assembly programs with
frames, from `jal` to `jal`.  The stack is an array of words that grows down,
return addresses are words like any others, and `jr` of a word that is no
return address leads nowhere.  `firstmatch` saves its registers *below* the frame it
has made, and `fact` writes a frame at its last level that it never takes
back: both are kept.  The console is external.

An operator whose comment begins with "Variant" is a changed form of the
definition that follows it, as a plausible mistake would make it.  None is part
of a specification; `PROJECT.json` lists which property each one breaks.

## 3. The runs

`tlc -config <module>_<run>.cfg <module>.tla`.

| Run | Question | Result |
|---|---|---|
| MCPrograms `any` | any program at all: widths, decode order, the record of the last write | holds |
| MCPipeline `scheduled` | scheduled programs: operands, stored values, halting, timing, refinement of MipsISA, and `go` completes | holds |
| MCPipeline `loaduse` | without a schedule, are operands current? | no: `pipe.c:380` |
| MCPipeline `branchend` | does `go` complete after a taken branch to the end? | no: `pipe.c:348` |
| MCSim `programs` | is a cycle of lab2 a step of MipsISA, FLAG_V of a sum never a false alarm, and do programs that lead forward end, opcodes without a case among them? | holds |
| MCShell `commands` | any sequence of `go`, `run n`, `input`, `quit`: every step is the next instruction on the registers as they were left by hand, which instruction may miss an input, and the prompt comes back | holds |
| MCShell `input` | is a register set by hand read as it was set? | no: `shell.c:371` |
| MCShellMain `main` | several files loaded, lines typed and executed, dumps: memory is one of words, buffers are large enough, loading and dumps end with the right contents | holds |
| MCCache `accesses` | three organizations: coherence, LRU, time, refinement of AtomicMemory | holds |
| MCMatrix `drivers` | naive6 and smart6, each organization by itself: partial sums in memory, misses of the smart order | holds |
| MCMatrix `naive6` | naive6 as it is: do loads return the words of their addresses? | no: `naive6.cpp:17` |
| MCProcedures `procedures` | frames, returns, results and ends of lab1 and functions_adv | holds |

The runs that end in "no" are findings: the property says what the quoted
comment or help text says, and TLC shows the program, or the calls, for which
the code does otherwise.

**Bounds.**  *Pipeline.*  A pipeline of five stages with two bubbles after a branch has an
instruction interact with at most the three ahead of it (EXMEM, MEMWB and the
last write-back, which may be older: a record does not age).  Programs of four
words, closed by zero words, hold every such group, and a backward branch makes
them as long as needed; the runs take *every* program of that length over their
instructions, which contain for each register a result, a load, a store and a
reader.  `input` needs five words, as the write-back must be old when the
register is set; `commands` takes every scheduled program of three words over seven, among them a
store of register 0, which MEMWB holds a zero for from the start; it sets one
register once, at any prompt, and runs 1 or 5 cycles at a time, so that a
command ends in every state of the pipeline.  What more inputs do is proved.  Registers start with an address, a positive and a negative
number, so that branches go both ways and sums overflow.  `lag` is counted up to
`LagCap` = 5, above every value a property tells apart.

*Shell.*  `main` has 64 addresses, bytes of one bit and so words of four, a text region
of three words, a data region of two and a stack region that begins at the last address;
`RL_BUFSIZE` = 4 and `TOK_BUFSIZE` = 2, with lines of fewer, as many and more
characters and words; half of the addresses are negative as an `int`.  One
store of the machine (`MaxStores`) between two dumps, of either of two words at any address, tells words,
regions and the order of bytes apart.

*Cache.*  `accesses` has
two words per block and four places, in two sets where it has sets, for five blocks
of which three compete for one set; six accesses, of which two may be stores
(`MaxPuts`), fill the cache, renew a use, and evict.  `CounterSize` = 32 is beyond the accesses of a run.
`drivers` and `naive6` have the real cache, of eight blocks of four words in four
sets, and the real matrices of `naive6.cpp` and `smart6.cpp`, 27 blocks, so
everything is evicted many times; `drivers` keeps 32 of the 512 blocks of
memory, since the others are never accessed.  `MaxAccesses` of `drivers` is the 864
accesses of one multiplication: it bounds nothing there, but makes the run an
instance of the theorem.

*Procedures.*  Strings of one to three characters out of three: the first, a middle and the last
character match, or none.  Words of 32 values, so that the factorial of 4 does not
fit.  `Top` = 12 words of stack are enough for both programs: `RoomAssumption`
asks for six words and for two per level of the recursion.

**Deadlock** is not checked, since every system here may stop: a program ends,
the user quits, memory runs out, a run reaches `MaxAccesses`.  That programs do not stop too early
is what `HaltsDrained`, `GoCompletes`, `ForwardProgramsEnd`, `LoadingEnds`,
`DumpEnds` and `Ends` are about.

**Fairness.**  `go` is `while (RUN_BIT) cycle();` (`lab3/shell.c:197`,
`lab2/shell.c:196`): a
cycle is followed by the next one for as long as the machine runs, so
`FairSpec` and `HFairSpec` have weak fairness of the step.  In the shell only what
has been started is fair: `GoCycle \/ GoReturns` and
`RunCycle \/ RunReturns` in PipelineShell, the loops of loading and of `mdump` in
ShellMain.  Nobody has to type anything.  In Procedures the processor does not
stop.  The cache and the drivers have no fairness and no liveness property.

## 4. What the pipeline executes faithfully

`scheduled` holds for programs that are `Scheduled` and end in sequence:

- `Supported`: opcodes and functions with a case.  jal and sltu are not among
  them (jal does nothing in lab3; sltu compares signed words);
- `KeepsZeroReg`: no result goes to register 0, which write-back treats as any
  other but forwarding skips;
- `LoadUseFree`: the word behind a load does not name the loaded register
  (finding `loaduse`); this also leaves out a load behind a load of the same
  register, which conflicts with itself (`pipe.c:358` asks the record decode has
  just written) and is decoded for ever;
- `NoStoreAfterControl`: no store is at a place control may go to directly from
  a branch or a jump.  These leave a destination and a result in MEMWB that do not
  belong together, and mem-mem forwarding (`pipe.c:62`) does not ask whether
  the register was written, so such a store may write a wrong value;
- for completion `EndsInSequence`: no branch target is the zero word, and the
  program does not begin with it (finding `branchend`).

For those, TLC finds that every step of the pipeline is a step of `MipsISA` or
changes nothing of it, that each instruction takes effect exactly one cycle after the
one ahead, three after a taken branch and two after a jump, and that a halt
leaves nothing in flight.  PipelineISAProof proves all but completion for scheduled programs of
every size.  `any` has no such restriction.

## 5. The proofs

`tlapm <module>.tla`.  No theorem bounds the number of registers, the width of
words, the length of programs or the size of caches.

**PipelineProof**, for every program whatever its hazards:

- `TypeCorrect`: `Spec => []TypeOK`.
- `LastWriteCorrect`: what WB-EX forwarding takes for the last write is the
  value of that register, and stays so.  The invariant has to say that only
  write-back writes registers and that it renews the record with every write.
- `DecodeOrderCorrect`: what decode hands on follows the control flow.  Its
  invariant relates the PC, the PC value in IFDE and that in IDEX, across the
  bubbles of branches, jumps and stalls.

- `ForwardingCorrect`, `ASSUME ProgramsForwardable PROVE Spec => []OperandsAreCurrent`, for
  programs with `LoadUseFree` and `KeepsZeroReg`.  `OperandsAreCurrent` is not
  inductive: the value execute chooses comes from EXMEM, from the record of the
  last write-back or from what decode read, which are filled in different
  stages.  The invariant follows an instruction.  `FlowInv` says how it goes through
  the pipeline: IDEX holds what decode makes of the word before its PC value;
  EXMEM and MEMWB hold, in order, what came from IDEX; where IDEX is empty, a
  branch has emptied it.  `ForwardInv` adds that a value read in decode is the
  register's at that time, or one of the two instructions ahead will replace it.

**PipelineISAProof**, for scheduled programs (section 4).  Its invariant `ISAInv` is
`ForwardInv` and two parts:

- `ControlInv` relates `apc`, where the instruction set stands, to the stages: the
  instruction in IDEX is the next to take effect, the one behind it is in IFDE
  or is fetched next, and nothing follows the `done` bit.
- `DataInv` relates the registers and memory of the instruction set to what EXMEM
  and MEMWB still have to write: the record in MEMWB is the register's, what a
  store in EXMEM is about to write is what its register will hold, and MEMWB's
  fields belong together unless control has just passed (`NoStoreAfterControl`).

From it follow

- `StoresCurrentCorrect`, `HaltsDrainedCorrect`: stores write current values, a halt
  leaves nothing in flight.
- `PipelineImplementsISA`: `HSpec => ImplementsISA`.  Each of the paths of the
  five stage functions is a step of `MipsISA` (execute, or decode of a jump)
  or leaves `apc`, `ArchRegs` and `ArchMem` as they are.
- `TimingCorrect`, with a further invariant, `OnTime`: `lag` is what the stage and
  the bubbles ahead of the next instruction make of it.  `LagCap` has to be at
  least three, the longest delay the property speaks of.

and of the command loop

- `OtherInputCorrect`: `SSpec => []OtherInputIsRead` for forwardable programs: execute
  computes, on both operands, with the registers as they were set by hand.  Two
  things stand between: an instruction that was decoded before the input
  (`unread`), and the record of the last write-back (`Masked`).  `FlowInv` says nothing
  of what registers hold and so is kept by `input`; `RecordSeen` and `OperandsSeen`
  are what an input leaves of the two other parts of `ForwardInv`.
- `SessionCorrect`: `SSpec => SessionFollowsISA`, for any number of inputs.  A step is
  the next instruction of the program, on the registers as the user left them, or changes nothing of it;
  an input sets one register, unless an instruction on its way to write-back
  overwrites it (`OnTheWay`).  Exempt is only an instruction that sees what
  an input put out of date (`InputsSeen`): the two cases above, and a store
  of a register that MEMWB still has an older value of (mem-mem forwarding,
  `pipe.c:62`).  TLC finds a violation when any of the three is taken away.  The
  invariant `SessionInv` has `SettledSeen` for this third case in place of
  `Settled`; that `input` comes between two cycles only (`BetweenCycles`) is needed,
  since within one, what a stage passed on (`PassedOn`) would not be what the next one finds.
- `SessionsImplementISA`: a session without `input` executes the instruction set, with no exemption.
- `RunComesBack`: `run n` is between two cycles when it starts and when it returns, and
  calls 5 * n stage functions at most, for every program and with `input`.

and of the end of a program, under `ProgramsEnd`, that every program is `Scheduled` and
`EndsInSequence`:

- `DoneGetsThrough`: when nothing is left to execute, RUN_BIT is 22 stage functions away
  from being cleared at most.  Each stage passes the `done` bit to a register that the
  stage behind it has read in this cycle already, so it takes four calls from one to the next;
  and a stage whose register has `nop` set would not pass it at all.  The invariant
  `PassesDone` says that those registers are never empty then, which is what
  `EndsInSequence` is for.
- `GoComesBack`: `go` calls 26 at most before it gives back the prompt, wherever `run`
  has left the pipeline and whatever registers were set by hand.  Of `ISAInv` it
  needs only the parts that say nothing of the values in registers (`EndInv`).

The hypothesis `ProgramsScheduled` is that every program is `Scheduled` and that register 0 is zero
before the first cycle, as static initialization leaves it and as in the runs.  It is needed:
MEMWB starts with a zero for register 0 as if it had been written, which the first
store, if it is the first instruction, may take for its value.

**CacheProof**, for the programs that stay with one organization:

- `CoherenceCorrect` and `CacheImplementsMemory`, under `SoundUse`: addresses lie
  inside main memory, tags that were never set differ from those of used blocks,
  the accesses are fewer than the ages an `int` can hold, and no set is empty.
  The run `accesses` satisfies it.  Without the second part the claim is false: the
  associative lookups (`memory.cpp:151`, `212`) hit a block that was never
  filled if its first tag happens to match, and the constructor
  (`memory.hh:38`) leaves the tag unset.  The
  invariant `CacheInv` says of every slot and every address: a slot a lookup
  would stop at is valid, holds that block and equals main memory
  (`HeldSound`); a valid slot that holds the block is one a lookup stops at
  (`HeldComplete`); there is at most one (`HeldUnique`).  Coherence alone is not
  inductive, since the associative lookups do not test `valid`.  The proof needs
  that a victim is a slot of the right set, which is where the ages come in: a
  block used before is older than now, so the default, block 0, is not taken.
- `CacheTypeCorrect`: types and ranges, and the bounds of the counters, under
  `SoundUse`.
- `ReplacementCorrect`: `HSpec => []KeepsMostRecent`, under `SoundUse` and `EvenSets`, that the
  number of sets divides the number of places.  `RecencyInv` ties the ages of the
  code to the history `lastUse`: no two blocks were last used at the same time, the
  cache has that time of each block it holds (`AgesOK`), and a block that was used and is not
  there left its set full of blocks used after it (`EvictedOK`).  A miss keeps the
  last part because the victim is the oldest of its set (`VictimIsOldest`); the property
  follows by counting, with an injection of the later rivals of a block into the
  other places of its set, and one back.
- `TimeCorrect`: the clock is accounted for, without assumptions on use.

**MatrixProof**, for every `N`, both orders of the loops and each organization:

- `ProductCorrect`: `OnceSpec => []PartialSums`.  It rests on the proofs of the cache,
  so its hypothesis `DriverUse` has `SoundUse`, room for the three matrices, a
  `MaxAccesses` that the 4 * N^3 accesses do not exceed, and `SumsFit`.  The invariant
  `DriverInv` counts the accesses by the loop counters (`AccessesOK`), says that the
  factors are never written (`FactorsOK`) and that the operands in hand are those of
  memory; the store of an iteration adds one product to one cell, whichever
  loop is the inner one (`DoneStep`), because two cells never share an address
  (`CellsDiffer`).
- `OperandsCorrect`: `OnceSpec => []OperandsLoaded`, what `naive6` finds violated once
  a program changes the organization.
- `ReuseCorrect`: `OnceSpec => []SmartReuses`, the bound on the misses of the smart
  order.  Its hypothesis `ReuseUse` is `DriverUse`, `EvenSets` and, of each associative
  organization that is chosen, `RowsFit`: between an access and the one `Before` it that used
  the same block, fewer other blocks of its set are used than the set has room for.
  That is a fact about addresses alone, not about the cache; MCMatrix has TLC evaluate
  it for the sizes of `smart6.cpp`, in both organizations.  `SmartReuses` is not
  inductive, since it forgets which words have been read.  `MissesOK` bounds the misses by the
  blocks of the words read so far, to the access; `TimesOK` says that the history `lastUse`
  is that of the accesses the loops make, so what was used later than a block lies between
  its two accesses (`StillThere`), and what is used that little is found: `FoundIfRecent`,
  from `RecencyInv` of the cache.  A word that misses is then the first read of its block
  (`BlocksFresh`), and the store of an iteration never misses.
- `ReuseFullyCorrect`: for the fully associative cache `RowsFit` follows from the sizes:
  it is enough that the cache has room for two rows and two blocks besides, where a row
  touches at most `RowBlocks` blocks wherever it starts (`WindowBlocks`): up to nine columns
  in eight blocks of four words.  Between the store to a word of C and
  its load a row of B later come one row of C, two words of A and less than a row of B
  (`BetweenRows`).  With sets there is no such condition on the sizes alone: whether two
  rows share a set depends on where the matrices begin.

**SimProof**, for every program, every width of words and every file of registers:

- `SimTypeCorrect`: `Spec => []TypeOK`.  The latched instruction needs no more:
  whatever opcode 1 executes again is an instruction.
- `SimImplementsISA`: every cycle is a step of `MipsISA` or stutters, but at
  an instruction the machine does not have.  `Sim` and `MipsISA` each extend
  `Mips`; the lemmas `SameOperators` and `SameSets` identify the two copies.
- `AddOverflowCorrect`: `FLAG_V` of `add` and `addi` is never a false alarm.  A sum that fits
  is kept by the cut to a word (`FittingIsKept`), so both values a test may see are
  the exact one, whose sign cannot differ from that of both operands.

- `ForwardRunsDown`: no program that only leads forward comes to a word twice.  Its
  exceptions are the two words that never move the PC (`Stays`), the hazard of
  `sim.c:306`.

They rest on the assumptions of `Mips` and on `ProgramsAssumption` and
`InitRegsAssumption` of `Sim`.

**ShellMainProof**, first of the memory, for every set of regions and every size of
bytes and addresses:

- `MemTypeCorrect`: bytes stay bytes and regions keep their sizes.
- `RegionsImplementWords`: the regions refine `WordMemory`, without a further invariant
  but the types.  The work is in the lemmas: a region whose sum wraps holds no
  address (`Ends`); the four bytes of a word, joined, are the word
  (`WordSplit`, `BytesJoined`); an aligned write lies inside the region that is
  found and changes one word of it (`Place`, `ReadAfterWrite`).

and for every session of loading, typing, simulating and dumping:

- `StoresInsideCorrect`: `read_line` and `split_line` store inside their buffers, for
  every line and every size they begin with and grow by.  The invariant
  (`LineOK`) says how much of each buffer is used between two stores, with room
  for the terminator.
- `MainImplementsWords`: whatever is loaded, executed or dumped, memory
  is one of words.  It needs `AlignedUse`: the text region begins at a multiple
  of four, a dump typed by the user starts at one (its end may be any address),
  and the size of the address space is a multiple of eight.  The run's module
  assumes the same.
- `DumpCorrect`: a dump at its end has listed exactly the words typed after
  `mdump`.  The invariant `DumpOK` says that a dump will either count
  past the largest `int`, and never end, or has listed everything up to its address.
- `DumpsEndOrNever`: which of the two it is depends on the last address typed alone: at
  most `MaxInt - 4`, and `DumpLeft` goes down with every word, on the screen and again in
  the dump file; or more, and the loop's condition stays true.
- `LoadingCorrect`: `Spec => []LastFileWins`.  It needs `AlignedUse` and `TextLoads`: the text
  region is the first and lies inside the address space, and no file has more words
  than there are addresses (a longer one wraps and overwrites itself).  The
  invariant says how far the loader is in its file (`FilesOK`) and that each word of
  the text region is that of the file in hand up to there, and of the last file that
  had one beyond (`TextOK`).
- `LoadingGoesOn`: the loader takes one word or opens the next file with every step, and
  stops, loaded or failed, at the last file only.

**ProceduresProof**, for all strings and every number the stack has room for
(`RoomAssumption`):

- `FramesCorrect` and `ReturnsCorrect`: `FramesIntact` is not inductive, since
  `firstmatch` saves below its stack pointer and would lose it to any callee with a
  frame.  The invariant `FramesOK` says where each word lies: one fixed frame while
  the strings are searched, and in the factorial a number of levels, each with its
  argument and return address in slots of its own (`Levels`).
- `FirstMatchCorrect`: no character of `str1` before `s0` occurs in `str2`, and none of
  `str2` before `a0` is the one looked for (`SearchOK`); the lemma `ByteAt` finds
  the strings in the bytes of the program's data.
- `FactorialCorrect`: `FactIsRight`, if a word has more than three values.  The invariant
  `ProductOK` says that `v0` is the factorial of the levels that have returned.
  That the sums and products cut to a word are those of the integers is `WrapOfProduct`.
- `ProgramsRunDown`: `BlocksLeft` goes down with every block: by one while a character is
  compared, by what is left of `str2` when one is found, and over the recursion
  twice for a level on the way down, once on the way up.

Two of the proofs need induction over numbers, for the recursive functions `Factorial`
and `Products`.  The library's theorems for it take an operator as a parameter and cannot be
applied; `NatInductionSet` states it for sets instead, and follows from `WFMin`, and
`FactorialDef` and `SumDefined` show from it that the functions are defined.

**Only model-checked**:

- liveness, which TLAPS does not prove under fairness: `GoCompletes`, `GoEnds`,
  `RunEnds`, `ForwardProgramsEnd`, `LoadingEnds`, `DumpEnds`, `Ends`.  What each
  rests on is proved for every value of the constants, an action property: every step
  towards the end leaves less to do, of something that cannot be less than none.  TLC
  adds that such a step can be taken, and is.

  | liveness, by TLC | proved | what every step leaves less of |
  |---|---|---|
  | `GoCompletes` | `DoneGetsThrough` | calls of stage functions until the done bit is written back |
  | `GoEnds` | `GoComesBack` | the same, and the rest of the last cycle |
  | `RunEnds` | `RunComesBack` | five for each cycle to go, and the rest of this one |
  | `ForwardProgramsEnd` | `ForwardRunsDown` | words from the PC on |
  | `DumpEnds` | `DumpsEndOrNever` | words to list |
  | `LoadingEnds` | `LoadingGoesOn` | files, and words of the one in hand |
  | `Ends` | `ProgramsRunDown` | characters to compare, levels to call and to return from |

  `ForwardRunsDown` asks more than `ForwardProgramsEnd`: that the last word of memory is
  zero, behind which the PC wraps.

## 6. Plan

Done: Mips, Pipeline and its control flow; MipsISA and the refinements; Sim;
the shell, its memory and its command line; Cache and its refinement; the
drivers; the procedures; the proofs above, which state every safety and refinement
property the passing runs check.

Left open: nothing of the plan.

## 7. Not modelled

- What the stated properties leave out, each named by its hazard in
  `PROJECT.json`: accesses that are not aligned; a token of a program file that is no
  number, which the model reads for ever as the code does (`shell.c:317`), so
  `LoadingEnds` is about files of numbers; `mdump` up to the largest `int`, which never
  ends, so `DumpEnds` is about smaller bounds; `FLAG_V` of `sub`, which applies the rule of
  sums to differences (`sim.c:129`); `sltu` of lab3, which compares signed words
  (`pipe.c:111`).  `SmartReuses` is stated for rows that fit in the cache: for
  larger `N` the rows of B and C evict each other.
- Wording and layout: `rdump`, `help`, messages, statistics, the formats of `show_cache_*`.
  (`stat_inst_retire` is never counted.)
- The characters of a line: `strtok`, `strtol` and `atoi` are external.
- Programs that write to their own text.
- `lab5/c`: stubs that return what is on the stack; the loops around them are
  those of MatrixDriver.
- `test/functions.asm`, `io.asm`, `hello_world.asm`: straight-line programs of
  one call, of input and output.
- Makefiles and test inputs.
