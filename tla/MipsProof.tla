----------------------------- MODULE MipsProof ------------------------------
(***************************************************************************)
(* Lemmas about the words, addresses and memory of module Mips, which the  *)
(* proofs about both simulators rest on.                                   *)
(***************************************************************************)
EXTENDS Mips, TLAPS

-----------------------------------------------------------------------------
(* Words and addresses.                                                    *)

\* A word has at least four values, so every immediate fits in one, and so
\* do the two outcomes of a comparison.
LEMMA WordSizeFacts ==
  /\ WordSize \in Nat /\ WordSize > Half
  /\ HalfWord \subseteq Word
  /\ {0, 1} \subseteq Word
<1>1. Half \in Nat /\ Half > 1
  BY HalfAssumption
<1>2. Half * Half \in Nat /\ Half * Half > Half
  BY <1>1
<1> QED
  BY <1>1, <1>2 DEF WordSize, HalfWord, Word

\* ToWord cuts any integer to a word.
LEMMA ToWordType == ASSUME NEW i \in Int PROVE ToWord(i) \in Word
<1>1. WordSize \in Nat /\ WordSize > 0
  BY WordSizeFacts, HalfAssumption
<1>2. i % WordSize \in 0 .. WordSize - 1
  BY <1>1
<1> QED
  BY <1>2 DEF ToWord, Word

\* Reading a word or an immediate as a signed number gives an integer.
LEMMA SignedType ==
  /\ \A w \in Word : w \in Int /\ Signed(w) \in Int
  /\ \A h \in HalfWord : SignExtend(h) \in Int
BY WordSizeFacts, HalfAssumption DEF Word, HalfWord, Signed, SignExtend

\* A program counter stays one when it moves by any distance.
LEMMA PCType ==
  /\ \A p \in PC : NextPC(p) \in PC
  /\ \A p \in PC, off \in Int : OffsetPC(p, off) \in PC
  /\ 0 \in PC
BY PCModAssumption DEF PC, NextPC, OffsetPC

\* Memory stays a memory, and reads give words.
LEMMA MemoryType ==
  ASSUME NEW m \in [DataAddr -> Word], NEW a \in Word, NEW v \in Word
  PROVE  /\ ReadWord(m, a) \in Word
         /\ WriteWord(m, a, v) \in [DataAddr -> Word]
BY WordSizeFacts DEF ReadWord, WriteWord

=============================================================================
