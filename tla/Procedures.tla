----------------------------- MODULE Procedures -----------------------------
(***************************************************************************)
(* The assembly programs with procedures that save registers on the stack: *)
(* lab1/lab1.asm, which looks in one string for a character of another,    *)
(* and test/functions_adv.asm, a recursive factorial.                      *)
(*                                                                         *)
(* One step is one basic block.  The stack is counted in words and grows   *)
(* down; a code address is a number, and the console's services are        *)
(* external.                                                               *)
(***************************************************************************)
EXTENDS Integers, SequencesExt

CONSTANTS
  Strings,    \* what str1 and str2 may be
  Numbers,    \* what may be read from the console
  WordSize,
  Top         \* the stack pointer at the start: slots 0 .. Top

ASSUME StringsAssumption == Strings \subseteq Seq(Nat \ {0}) \ {<<>>}
ASSUME NumbersAssumption ==
  Numbers \subseteq -(WordSize \div 2) .. WordSize \div 2 - 1
ASSUME TopAssumption == WordSize \in Nat \ {0, 1} /\ Top \in Nat

\* There is room on the stack for the frame of firstmatch and for those of
\* every level of the recursion.
ASSUME RoomAssumption ==
  5 <= Top /\ \A m \in Numbers : 2 * m + 2 <= Top

VARIABLES
  pc,                           \* the label of the next block
  sp, ra, a0, a1, v0, s0, t0,   \* registers
  stack,
  str1, str2, n,                \* the program's data, and what is typed
  frames                        \* history: what each procedure that has not
                                \* returned saved, and where

data == <<str1, str2, n>>
vars == <<pc, sp, ra, a0, a1, v0, s0, t0, stack, str1, str2, n, frames>>

-----------------------------------------------------------------------------
\* The strings lie one behind the other, each with its zero.
Base == 1
Bytes == str1 \o <<0>> \o str2 \o <<0>>
byte(a) == Bytes[a - Base + 1]
Addr1 == Base
Addr2 == Base + Len(str1) + 1

\* The words that are the addresses behind each jal, and their labels.
Sites == [matched |-> WordSize, found |-> WordSize + 1,
          shown |-> WordSize + 2, multiply |-> WordSize + 3]

\* jr: any other word leads nowhere.
LabelAt(w) ==
  IF \E l \in DOMAIN Sites : Sites[l] = w
  THEN CHOOSE l \in DOMAIN Sites : Sites[l] = w ELSE "nowhere"

Wrap(x) == ((x + WordSize \div 2) % WordSize) - WordSize \div 2

\* Words are saved in the stack, one above the other from slot low.
Push(low, words) ==
  /\ stack' = [i \in DOMAIN stack |->
                 IF i \in low .. low + Len(words) - 1
                 THEN words[i - low + 1] ELSE stack[i]]
  /\ frames' = Append(frames, [low |-> low, words |-> words])

Return(w) == pc' = LabelAt(w)

Pop(words) ==
  /\ sp' = sp + words
  /\ frames' = Front(frames)
  /\ UNCHANGED stack

Init ==
  /\ str1 \in Strings /\ str2 \in Strings /\ n \in Numbers
  /\ pc \in {"lab1", "functions_adv"}
  /\ sp = Top /\ stack = [i \in 0 .. Top |-> 0]
  /\ ra = 0 /\ a0 = 0 /\ a1 = 0 /\ v0 = 0 /\ s0 = 0 /\ t0 = 0
  /\ frames = <<>>

-----------------------------------------------------------------------------
(* lab1.asm.                                                               *)

main ==
  /\ pc = "lab1" /\ pc' = "firstmatch"
  /\ a0' = Addr1 /\ a1' = Addr2 /\ ra' = Sites.matched
  /\ UNCHANGED <<sp, v0, s0, t0, stack, data, frames>>

\* Three words of room are made, and the registers saved from below them.
firstmatch ==
  /\ pc = "firstmatch" /\ pc' = "fm_loop"
  /\ sp' = sp - 3
  /\ Push(sp' - 2, <<ra, a0, a1>>)
  /\ s0' = a0
  /\ UNCHANGED <<ra, a0, a1, v0, t0, data>>

fm_loop ==
  /\ pc = "fm_loop" /\ pc' = "strchr"
  /\ a0' = stack[sp] /\ a1' = byte(s0) /\ ra' = Sites.found
  /\ UNCHANGED <<sp, v0, s0, t0, stack, data, frames>>

\* strchr makes no frame.
sc_loop ==
  /\ pc = "strchr"
  /\ CASE byte(a0) = a1 ->
            v0' = a0 /\ Return(ra) /\ UNCHANGED a0
       [] byte(a0) # a1 /\ byte(a0 + 1) = 0 ->
            v0' = 0 /\ Return(ra) /\ a0' = a0 + 1
       [] byte(a0) # a1 /\ byte(a0 + 1) # 0 ->
            a0' = a0 + 1 /\ UNCHANGED <<pc, v0>>
  /\ UNCHANGED <<sp, ra, a1, s0, t0, stack, data, frames>>

\* Variant: the return address is read one word above.
SavedRa_Above == stack[sp - 1]

SavedRa == stack[sp - 2]

fm_return(value) ==
  /\ v0' = value
  /\ ra' = SavedRa /\ Return(ra')
  /\ Pop(3)

\* Variant: what strchr found is returned.
FoundAt_InStr2 == v0

FoundAt == s0

fm_found ==
  /\ pc = "found" /\ v0 # 0
  /\ fm_return(FoundAt)
  /\ UNCHANGED <<a0, a1, s0, t0, data>>

\* Variant: the pointer into str1 is not moved.
NextChar_Same == s0

NextChar == s0 + 1

fm_continue ==
  /\ pc = "found" /\ v0 = 0
  /\ s0' = NextChar /\ t0' = byte(s0')
  /\ IF t0' = 0 THEN fm_return(0)
     ELSE pc' = "fm_loop" /\ UNCHANGED <<v0, ra, sp, stack, frames>>
  /\ UNCHANGED <<a0, a1, data>>

-----------------------------------------------------------------------------
(* functions_adv.asm.                                                      *)

fact_main ==
  /\ pc = "functions_adv" /\ pc' = "fact"
  /\ a0' = n /\ ra' = Sites.shown
  /\ UNCHANGED <<sp, a1, v0, s0, t0, stack, data, frames>>

\* Variant: there is no room for the argument.
FactFrame_One == 1

FactFrame == 2

fact ==
  /\ pc = "fact"
  /\ t0' = IF a0 < 1 THEN 1 ELSE 0
  /\ IF t0' = 0
     THEN /\ pc' = "L1"
          /\ sp' = sp - FactFrame
          /\ Push(sp', <<a0, ra>>)
          /\ UNCHANGED v0
     ELSE /\ Return(ra)
          /\ v0' = 1
          /\ stack' = [stack EXCEPT ![sp - FactFrame + 1] = ra,
                                    ![sp - FactFrame] = a0]
          /\ UNCHANGED <<sp, frames>>
  /\ UNCHANGED <<ra, a0, a1, s0, data>>

L1 ==
  /\ pc = "L1" /\ pc' = "fact"
  /\ a0' = Wrap(a0 - 1) /\ ra' = Sites.multiply
  /\ UNCHANGED <<sp, a1, v0, s0, t0, stack, data, frames>>

\* Variant: the argument is not restored.
Restored_Not == a0

Restored == stack[sp]

multiply ==
  /\ pc = "multiply"
  /\ a0' = Restored /\ ra' = stack[sp + 1] /\ Return(ra')
  /\ v0' = Wrap(a0' * v0)
  /\ Pop(FactFrame)
  /\ UNCHANGED <<a1, s0, t0, data>>

-----------------------------------------------------------------------------
\* The result is moved to t0 and shown, and the program exits.
show ==
  /\ pc \in {"matched", "shown"} /\ pc' = "exit"
  /\ t0' = v0
  /\ UNCHANGED <<sp, ra, a0, a1, v0, s0, stack, data, frames>>

Next ==
  \/ main \/ firstmatch \/ fm_loop \/ sc_loop \/ fm_found \/ fm_continue
  \/ fact_main \/ fact \/ L1 \/ multiply
  \/ show

Spec == Init /\ [][Next]_vars

\* The processor does not stop.
FairSpec == Spec /\ WF_vars(Next)

-----------------------------------------------------------------------------
(* Properties.                                                             *)

\* What a procedure saved stays in its place until it returns, whatever it
\* calls, although firstmatch saves the return address and an argument
\* below its own stack pointer (lab1.asm:37-40), where a frame of strchr
\* would be.
FramesIntact ==
  \A f \in DOMAIN frames : \A w \in DOMAIN frames[f].words :
    stack[frames[f].low + w - 1] = frames[f].words[w]

\* Every return is to its call, and main gets its stack pointer back
\* (lab1.asm:47-50, functions_adv.asm:45-49).
ReturnsToCaller ==
  /\ pc # "nowhere"
  /\ pc \in {"matched", "shown", "exit"} => sp = Top /\ frames = <<>>

InStr2(c) == \E j \in DOMAIN str2 : str2[j] = c

\* firstmatch returns the address of the first character of str1 that
\* occurs in str2, and zero if none does (lab1.asm:36-62).
FirstMatchIsRight ==
  LET hits == {j \in DOMAIN str1 : InStr2(str1[j])} IN
  pc = "matched" =>
    v0 = IF hits = {} THEN 0 ELSE Addr1 + Min(hits) - 1

Factorial[k \in Nat] == IF k = 0 THEN 1 ELSE k * Factorial[k - 1]

\* fact returns the factorial of every positive number, cut to a word as
\* mul cuts it, and one for the others (functions_adv.asm:30-49).
FactIsRight ==
  pc = "shown" => v0 = IF n < 1 THEN 1 ELSE Wrap(Factorial[n])

\* The programs come to their end.
Ends == <>(pc = "exit")
=============================================================================
