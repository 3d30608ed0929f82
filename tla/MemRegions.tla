----------------------------- MODULE MemRegions -----------------------------
(***************************************************************************)
(* The simulated memory of shell.c (the same in lab2 and lab3): regions of *)
(* bytes, found by comparing addresses, in which words are kept with their *)
(* most significant byte first.                                            *)
(*                                                                         *)
(* Addresses are unsigned and as many as AddrSize, the code's 2^32; a byte *)
(* has ByteSize values, the code's 256.                                    *)
(***************************************************************************)
EXTENDS Integers, Sequences

CONSTANTS
  ByteSize,
  AddrSize,
  MEM_REGIONS,   \* the start and the size of each region
  Access         \* the addresses at which memory is accessed: aligned ones

Byte == 0 .. ByteSize - 1
Word == 0 .. ByteSize * ByteSize * ByteSize * ByteSize - 1
RegionNo == DOMAIN MEM_REGIONS
Start(i) == MEM_REGIONS[i].start
Size(i)  == MEM_REGIONS[i].size

ASSUME ByteSizeAssumption == ByteSize \in Nat \ {0}
ASSUME AddrSizeAssumption == AddrSize \in Nat \ {0}

\* The stack region of the code starts at the last address, which is not
\* aligned, and ends, for a sum that wraps, before it.
ASSUME RegionsAssumption ==
  /\ MEM_REGIONS \in Seq([start : 0 .. AddrSize - 1, size : 0 .. AddrSize - 1])
  /\ \A i \in RegionNo : Start(i) + Size(i) < AddrSize =>
       Start(i) % 4 = 0 /\ Size(i) % 4 = 0

ASSUME AccessAssumption ==
  /\ Access \subseteq 0 .. AddrSize - 1
  /\ \A a \in Access : a % 4 = 0

VARIABLES
  mem,    \* the bytes of each region
  word    \* the word of the last access: returned by mem_read_32 or given
          \* to mem_write_32

memVars == <<mem, word>>

-----------------------------------------------------------------------------
(* Finding the region.                                                     *)

\* The sum of two uint32_t.
End(i) == (Start(i) + Size(i)) % AddrSize

Holds(i, a) == Start(i) <= a /\ a < End(i)

Found(a) == \E i \in RegionNo : Holds(i, a)

\* The first region that holds a.
RegionOf(a) ==
  CHOOSE i \in RegionNo : Holds(i, a) /\ \A j \in 1 .. i - 1 : ~Holds(j, a)

-----------------------------------------------------------------------------
(* Words and their bytes.                                                  *)

Shr8(w) == w \div ByteSize

\* Variant: shifted, but not cut to a byte.
ByteOf_Uncut(w, k) ==
  CASE k = 3 -> w
    [] k = 2 -> Shr8(w)
    [] k = 1 -> Shr8(Shr8(w))
    [] k = 0 -> Shr8(Shr8(Shr8(w)))

\* The byte of w that goes to place k of the four.
ByteOf(w, k) ==
  CASE k = 3 -> w % ByteSize
    [] k = 2 -> Shr8(w) % ByteSize
    [] k = 1 -> Shr8(Shr8(w)) % ByteSize
    [] k = 0 -> Shr8(Shr8(Shr8(w))) % ByteSize

Joined(b0, b1, b2, b3) ==
  ((b0 * ByteSize + b1) * ByteSize + b2) * ByteSize + b3

Read32(a) ==
  LET r   == RegionOf(a)
      off == a - Start(r)
  IN  IF Found(a)
      THEN Joined(mem[r][off], mem[r][off + 1], mem[r][off + 2],
                  mem[r][off + 3])
      ELSE 0

\* Variant: the least significant byte goes first.
Stored_Little(bytes, off, v) ==
  [o \in DOMAIN bytes |->
     IF o \in off .. off + 3 THEN ByteOf(v, 3 - (o - off)) ELSE bytes[o]]

Stored(bytes, off, v) ==
  [o \in DOMAIN bytes |->
     IF o \in off .. off + 3 THEN ByteOf(v, o - off) ELSE bytes[o]]

-----------------------------------------------------------------------------
mem_read_32(a) == word' = Read32(a) /\ UNCHANGED mem

mem_write_32(a, v) ==
  /\ mem' = [i \in RegionNo |->
               IF Found(a) /\ i = RegionOf(a)
               THEN Stored(mem[i], a - Start(i), v) ELSE mem[i]]
  /\ word' = v

init_memory ==
  /\ mem = [i \in RegionNo |-> [o \in 0 .. Size(i) - 1 |-> 0]]
  /\ word = 0

\* What the simulators, the loader and mdump do with memory.
MemNext ==
  \E a \in Access :
    mem_read_32(a) \/ \E v \in Word : mem_write_32(a, v)

MemSpec == init_memory /\ [][MemNext]_memVars

-----------------------------------------------------------------------------
MemTypeOK ==
  /\ DOMAIN mem = RegionNo
  /\ \A i \in RegionNo : mem[i] \in [0 .. Size(i) - 1 -> Byte]
  /\ word \in Word

\* The words there are: those of the regions that end inside the address
\* space.
MappedWords ==
  {a \in Access : \E i \in RegionNo :
     /\ Start(i) + Size(i) < AddrSize
     /\ a \in Start(i) .. Start(i) + Size(i) - 1}

WM == INSTANCE WordMemory WITH
        Addr <- Access, Mapped <- MappedWords, Value <- Word,
        store <- [a \in MappedWords |-> Read32(a)]

\* To its users memory is one of words: reading returns what was written
\* last at the address, whole and in the right order of bytes, no write
\* reaches a second word, and the addresses outside the text and the data
\* region, those of the stack region among them, are not there at all
\* (shell.c:69-111).
ImplementsWordMemory == WM!Init /\ [][WM!Next]_(WM!wmVars)
=============================================================================
