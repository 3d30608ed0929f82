----------------------------- MODULE WordMemory -----------------------------
(***************************************************************************)
(* What mem_read_32 and mem_write_32 of shell.c promise the simulators     *)
(* (and what ReadWord and WriteWord of module Mips take them for): a       *)
(* memory of words, some addresses of which are mapped.  The others read   *)
(* as zero and swallow what is written to them.                            *)
(***************************************************************************)
CONSTANTS Addr, Mapped, Value

VARIABLES
  store,   \* the word at each mapped address
  word     \* what the last access read or wrote

wmVars == <<store, word>>

Init ==
  /\ store = [a \in Mapped |-> 0]
  /\ word = 0

mem_read_32(a) ==
  /\ word' = IF a \in Mapped THEN store[a] ELSE 0
  /\ UNCHANGED store

mem_write_32(a, v) ==
  /\ word' = v
  /\ store' = IF a \in Mapped THEN [store EXCEPT ![a] = v] ELSE store

Next ==
  \E a \in Addr :
    mem_read_32(a) \/ \E v \in Value : mem_write_32(a, v)
=============================================================================
