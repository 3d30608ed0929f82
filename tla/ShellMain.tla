----------------------------- MODULE ShellMain ------------------------------
(***************************************************************************)
(* main() of shell.c: load the programs named on the command line, then    *)
(* read, split and execute one line after the other.                       *)
(*                                                                         *)
(* Of the simulated machine there is here what it does to memory: while go *)
(* or run executes, it may store any word at any address.  The machines    *)
(* are modules Sim and Pipeline.                                           *)
(***************************************************************************)
EXTENDS MemRegions, CommandLine

CONSTANTS
  FileLists,        \* what argv may name: sequences of program files
  Junk,             \* a token that is no hexadecimal number
  MEM_TEXT_START,
  Builtin,          \* builtin_str and builtin_func: words to commands
  Number(_),        \* strtol or atoi of a word
  StoreValues,      \* the words the machine stores,
  MaxStores         \* and how many stores a run explores

\* A program file: whether it is there, and its tokens.
ProgFile == [exists : BOOLEAN, items : Seq(Word \union {Junk})]

ASSUME FileListsAssumption == FileLists \subseteq Seq(ProgFile)
ASSUME BuiltinAssumption == DOMAIN Builtin \subseteq STRING
ASSUME StoresAssumption == StoreValues \subseteq Word /\ MaxStores \in Nat

VARIABLES
  files,       \* argv[1 .. argc - 1]
  file,        \* how many of them are loaded
  items,       \* of the file being read, what is still to be read
  ii,          \* bytes written of this file
  scanned,     \* `word' of load_program
  start, stop, address,   \* of mdump
  listed,      \* the addresses mdump has listed, on screen and in the file
  stores       \* how often the machine has stored

loadVars == <<files, file, items, ii, scanned>>
dumpVars == <<start, stop, address, listed>>
mainVars == <<at, line, position, bufsize, tokens, toksize, mem, word,
              files, file, items, ii, scanned,
              start, stop, address, listed, stores>>

\* An int with the bits of the unsigned number u.
ToInt(u) == IF 2 * u < AddrSize THEN u ELSE u - AddrSize
MaxInt == AddrSize \div 2 - 1

Init ==
  /\ init_memory
  /\ LineInit
  /\ at = "open"
  /\ files \in FileLists
  /\ file = 0 /\ items = <<>> /\ ii = 0 /\ scanned = 0
  /\ start = 0 /\ stop = 0 /\ address = 0 /\ listed = <<{}, {}>>
  /\ stores = 0

-----------------------------------------------------------------------------
(* initialize and load_program.                                            *)

\* fscanf returns EOF at the end of the file, and 0 without moving on at a
\* token that is no number.

\* Variant: the loop ends when nothing was read.
Ended_AtZero == items # <<>> /\ Head(items) = Junk

Ended == items = <<>>

ReadsNumber == items # <<>> /\ Head(items) # Junk

\* Variant: the next file is loaded behind the one before.
FirstByte_Behind == ii

FirstByte == 0

\* Nothing is assigned to `word' before the first number is read.
Open ==
  /\ at = "open" /\ file < Len(files)
  /\ IF files[file + 1].exists
     THEN /\ at' = "load"
          /\ items' = files[file + 1].items
          /\ ii' = FirstByte /\ scanned' \in {0, 1}
     ELSE at' = "failed" /\ UNCHANGED <<items, ii, scanned>>
  /\ UNCHANGED <<lineVars, memVars, files, file, dumpVars, stores>>

LoadWord ==
  /\ at = "load" /\ ~Ended
  /\ scanned' = IF ReadsNumber THEN Head(items) ELSE scanned
  /\ items' = IF ReadsNumber THEN Tail(items) ELSE items
  /\ mem_write_32((MEM_TEXT_START + ii) % AddrSize, scanned')
  /\ ii' = (ii + 4) % AddrSize
  /\ UNCHANGED <<at, lineVars, files, file, dumpVars, stores>>

LoadEnd ==
  /\ at = "load" /\ Ended
  /\ at' = "open" /\ file' = file + 1
  /\ UNCHANGED <<lineVars, memVars, files, items, ii, scanned, dumpVars,
                 stores>>

\* The file the dumps go to is opened after the programs are loaded.
OpenDumpsim ==
  /\ at = "open" /\ file = Len(files)
  /\ at' \in {"prompt", "failed"}
  /\ UNCHANGED <<lineVars, memVars, loadVars, dumpVars, stores>>

-----------------------------------------------------------------------------
(* execute_cmd.                                                            *)

ReadLine ==
  /\ LineNext
  /\ UNCHANGED <<memVars, loadVars, dumpVars, stores>>

Command ==
  IF arg(0) \in DOMAIN Builtin THEN Builtin[arg(0)] ELSE "none"

\* Variant: only the first argument of mdump is asked for.
HasArgs_One == arg(1) # NULL

HasArgs == arg(1) # NULL /\ arg(2) # NULL

\* What is looked at before the command does anything.
Accepted ==
  CASE Command = "mdump" -> HasArgs
    [] Command = "run"   -> arg(1) # NULL /\ Number(arg(1)) > 0
    [] OTHER             -> TRUE

\* An empty line, a word that is no command, a command without its
\* arguments; and rdump, help and input, which leave memory as it is.
ExecuteNothing ==
  /\ at = "execute"
  /\ Command \notin {"mdump", "go", "run", "quit"} \/ ~Accepted
  /\ at' = "prompt"
  /\ UNCHANGED <<lineVars, memVars, loadVars, dumpVars, stores>>

ExecuteQuit ==
  /\ at = "execute" /\ Command = "quit"
  /\ at' = "exit"
  /\ UNCHANGED <<lineVars, memVars, loadVars, dumpVars, stores>>

\* The machine may be halted already.
ExecuteSimulation ==
  /\ at = "execute" /\ Command \in {"go", "run"} /\ Accepted
  /\ at' \in {"simulate", "prompt"}
  /\ UNCHANGED <<lineVars, memVars, loadVars, dumpVars, stores>>

Simulate ==
  /\ at = "simulate"
  /\ \/ /\ stores < MaxStores /\ stores' = stores + 1
        /\ \E a \in Access, v \in StoreValues : mem_write_32(a, v)
        /\ UNCHANGED at
     \/ /\ \E a \in Access : mem_read_32(a)
        /\ UNCHANGED <<at, stores>>
     \/ at' = "prompt" /\ UNCHANGED <<memVars, stores>>
  /\ UNCHANGED <<lineVars, loadVars, dumpVars>>

-----------------------------------------------------------------------------
(* mdump: the loop is gone through twice, for the screen and for the file. *)

ExecuteMdump ==
  /\ at = "execute" /\ Command = "mdump" /\ Accepted
  /\ start' = ToInt(Number(arg(1))) /\ stop' = ToInt(Number(arg(2)))
  /\ address' = start'
  /\ listed' = <<{}, {}>>
  /\ at' = "screen"
  /\ UNCHANGED <<lineVars, memVars, loadVars, stores>>

Copy == IF at = "screen" THEN 1 ELSE 2

\* Variant: the loop goes on until the address is the last.
Beyond_Exact == address = stop + 4

Beyond == address > stop

\* address += 4 may pass the largest int; what it becomes then is undefined
\* and taken to wrap.
DumpWord ==
  /\ at \in {"screen", "file"} /\ ~Beyond
  /\ mem_read_32(address % AddrSize)
  /\ listed' = [listed EXCEPT ![Copy] = @ \union {address}]
  /\ address' = ToInt((address + 4) % AddrSize)
  /\ UNCHANGED <<at, lineVars, loadVars, start, stop, stores>>

DumpAgain ==
  /\ at = "screen" /\ Beyond
  /\ at' = "file" /\ address' = start
  /\ UNCHANGED <<lineVars, memVars, loadVars, start, stop, listed, stores>>

\* The variables of the call are gone.
DumpEnd ==
  /\ at = "file" /\ Beyond
  /\ at' = "prompt"
  /\ start' = 0 /\ stop' = 0 /\ address' = 0 /\ listed' = <<{}, {}>>
  /\ UNCHANGED <<lineVars, memVars, loadVars, stores>>

Next ==
  \/ Open \/ LoadWord \/ LoadEnd \/ OpenDumpsim
  \/ ReadLine
  \/ ExecuteNothing \/ ExecuteQuit \/ ExecuteSimulation \/ ExecuteMdump
  \/ Simulate \/ DumpWord \/ DumpAgain \/ DumpEnd

Spec == Init /\ [][Next]_mainVars

\* Loading and dumping go on by themselves.
FairSpec ==
  /\ Spec
  /\ WF_mainVars(Open \/ LoadWord \/ LoadEnd \/ OpenDumpsim)
  /\ WF_mainVars(DumpWord \/ DumpAgain \/ DumpEnd)

-----------------------------------------------------------------------------
(* Properties.                                                             *)

\* What is asked of the files: to be there, and to be numbers.
Loadable ==
  \A f \in DOMAIN files :
    /\ files[f].exists
    /\ \A n \in DOMAIN files[f].items : files[f].items[n] # Junk

\* What the theorems ask of a session: the text region, and what is typed
\* after mdump, are aligned.
AlignedUse ==
  /\ AddrSize % 8 = 0 /\ {0, 1} \subseteq Word
  /\ Access = {a \in 0 .. AddrSize - 1 : a % 4 = 0}
  /\ MEM_TEXT_START \in Access
  /\ \A l \in Lines :
       /\ Len(l.words) > 2
       /\ l.words[1] \in DOMAIN Builtin /\ Builtin[l.words[1]] = "mdump"
       => Number(l.words[2]) \in Access /\ Number(l.words[3]) \in 0 .. AddrSize - 1

\* What the theorem on loading asks: the text region is the first, inside the
\* address space, and no file has more words than there are addresses.
TextLoads ==
  /\ 1 \in RegionNo /\ Start(1) = MEM_TEXT_START
  /\ Start(1) + Size(1) < AddrSize
  /\ \A fs \in FileLists : \A f \in DOMAIN fs :
       4 * Len(fs[f].items) <= AddrSize

\* Word n of what `initialize' leaves: that of the last file that has one.
\* Each file is loaded over the one before it, not behind it.
Overlay(n) ==
  LET have == {f \in DOMAIN files : n <= Len(files[f].items)}
      last == CHOOSE f \in have : \A g \in have : g <= f
  IN  IF have = {} THEN 0 ELSE files[last].items[n]

\* After loading, the text region holds the last file and, behind its end,
\* what is left of longer ones before it (shell.c:306-346).
LastFileWins ==
  at \notin {"open", "load", "failed"} /\ stores = 0 /\ Loadable =>
    \A n \in 1 .. Size(1) \div 4 :
      Read32(MEM_TEXT_START + 4 * (n - 1)) = Overlay(n)

\* Loading ends for files of numbers (shell.c:317); a token that is none is
\* read for ever.
LoadingEnds == Loadable => <>(at \notin {"open", "load"})

\* A dump, on the screen as in the file, lists every fourth address from the
\* one typed first to the one typed second, and no other (shell.c:225-236):
\* what was typed has come through the buffer, the vector and the checks.
DumpIsExact ==
  at \in {"screen", "file"} /\ Beyond =>
    /\ Len(line.words) > 2
    /\ LET low  == ToInt(Number(line.words[2]))
           high == ToInt(Number(line.words[3]))
       IN  listed[Copy] = {a \in low .. high : (a - low) % 4 = 0}

\* mdump comes back if no address up to the last one listed is too large to
\* be counted on from.
DumpEnds ==
  at \in {"screen", "file"} /\ stop <= MaxInt - 4 ~> at = "prompt"
=============================================================================
