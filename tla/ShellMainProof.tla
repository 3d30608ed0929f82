--------------------------- MODULE ShellMainProof ---------------------------
(***************************************************************************)
(* main() of shell.c: the buffers are large enough for every line, a dump  *)
(* lists what was asked for, and loading, dumping and simulating together  *)
(* see memory as one of words.  First that memory: regions of bytes that   *)
(* implement words, for every size of a byte and of the address space and  *)
(* every table of regions.                                                 *)
(***************************************************************************)
EXTENDS ShellMain, WellFoundedInduction, TLAPS

-----------------------------------------------------------------------------
(* Numbers.                                                                *)

LEMMA DivMod ==
  ASSUME NEW n \in Nat \ {0}, NEW x \in Nat
  PROVE  /\ x \div n \in Nat
         /\ x % n \in 0 .. n - 1
         /\ x = (x \div n) * n + (x % n)
  OBVIOUS

LEMMA SmallMod ==
  ASSUME NEW n \in Nat \ {0}, NEW x \in Nat, x < n
  PROVE  x % n = x
  OBVIOUS

LEMMA DivBound ==
  ASSUME NEW n \in Nat \ {0}, NEW m \in Nat, NEW x \in Nat, x < m * n
  PROVE  x \div n < m
<1>1. x \div n \in Nat /\ (x \div n) * n <= x
  BY DivMod
<1>2. SUFFICES ASSUME m <= x \div n PROVE FALSE
  BY <1>1
<1>3. m * n <= (x \div n) * n
  BY <1>1, <1>2
<1> QED  BY <1>1, <1>3

\* One more digit.
LEMMA DigitBound ==
  ASSUME NEW n \in Nat \ {0}, NEW m \in Nat, NEW h \in 0 .. m - 1,
         NEW d \in 0 .. n - 1
  PROVE  h * n + d \in 0 .. m * n - 1
<1>1. h * n \in Nat /\ h * n <= (m - 1) * n
  OBVIOUS
<1>2. (m - 1) * n = m * n - n
  OBVIOUS
<1> QED  BY <1>1, <1>2

-----------------------------------------------------------------------------
(* Words and bytes.                                                        *)

LEMMA BytesJoined ==
  ASSUME NEW b0 \in Byte, NEW b1 \in Byte, NEW b2 \in Byte, NEW b3 \in Byte
  PROVE  Joined(b0, b1, b2, b3) \in Word
<1>1. b0 * ByteSize + b1 \in 0 .. ByteSize * ByteSize - 1
  BY ByteSizeAssumption, DigitBound DEF Byte
<1>2. (b0 * ByteSize + b1) * ByteSize + b2
        \in 0 .. ByteSize * ByteSize * ByteSize - 1
  BY <1>1, ByteSizeAssumption, DigitBound DEF Byte
<1>3. ((b0 * ByteSize + b1) * ByteSize + b2) * ByteSize + b3
        \in 0 .. ByteSize * ByteSize * ByteSize * ByteSize - 1
  BY <1>2, ByteSizeAssumption, DigitBound DEF Byte
<1> QED  BY <1>3 DEF Joined, Word

\* A byte is shifted out.
LEMMA ShiftedOut ==
  ASSUME NEW x \in Nat, NEW m \in Nat, x < m * ByteSize
  PROVE  /\ Shr8(x) \in Nat /\ Shr8(x) < m
         /\ x = Shr8(x) * ByteSize + (x % ByteSize)
         /\ x % ByteSize \in Byte
<1>1. ByteSize \in Nat \ {0}
  BY ByteSizeAssumption
<1>2. /\ x \div ByteSize \in Nat
      /\ x % ByteSize \in 0 .. ByteSize - 1
      /\ x = (x \div ByteSize) * ByteSize + (x % ByteSize)
  BY <1>1, DivMod
<1>3. x \div ByteSize < m
  BY <1>1, DivBound
<1> QED  BY <1>2, <1>3 DEF Shr8, Byte

LEMMA WordSplit ==
  ASSUME NEW w \in Word
  PROVE  /\ \A k \in 0 .. 3 : ByteOf(w, k) \in Byte
         /\ Joined(ByteOf(w, 0), ByteOf(w, 1), ByteOf(w, 2), ByteOf(w, 3)) = w
<1> DEFINE q1 == Shr8(w)
           q2 == Shr8(q1)
           q3 == Shr8(q2)
           B2 == ByteSize * ByteSize
           B3 == B2 * ByteSize
<1>0. B2 \in Nat /\ B3 \in Nat /\ ByteSize \in Nat
  BY ByteSizeAssumption
<1>1. w \in Nat /\ w < B3 * ByteSize
  BY <1>0 DEF Word
<1> HIDE DEF B3
<1>2. q1 \in Nat /\ q1 < B3
      /\ w = q1 * ByteSize + (w % ByteSize) /\ w % ByteSize \in Byte
  BY <1>0, <1>1, ShiftedOut DEF Shr8
<1>3. q2 \in Nat /\ q2 < B2
      /\ q1 = q2 * ByteSize + (q1 % ByteSize) /\ q1 % ByteSize \in Byte
  BY <1>0, <1>2, ShiftedOut DEF Shr8, B3
<1>4. q3 \in Nat /\ q3 < ByteSize
      /\ q2 = q3 * ByteSize + (q2 % ByteSize) /\ q2 % ByteSize \in Byte
  BY <1>0, <1>3, ShiftedOut DEF Shr8
<1>5. q3 % ByteSize = q3 /\ q3 \in Byte
  BY <1>0, <1>4, ByteSizeAssumption, SmallMod DEF Byte
<1>6. /\ ByteOf(w, 0) = q3 /\ ByteOf(w, 1) = q2 % ByteSize
      /\ ByteOf(w, 2) = q1 % ByteSize /\ ByteOf(w, 3) = w % ByteSize
  BY <1>5 DEF ByteOf
<1> HIDE DEF q1, q2, q3
<1>7. \A k \in 0 .. 3 : ByteOf(w, k) \in Byte
  BY <1>2, <1>3, <1>4, <1>5, <1>6
<1>8. q3 * ByteSize + (q2 % ByteSize) = q2
  BY <1>4
<1>9. q2 * ByteSize + (q1 % ByteSize) = q1
  BY <1>3
<1>10. q1 * ByteSize + (w % ByteSize) = w
  BY <1>2
<1> QED  BY <1>6, <1>7, <1>8, <1>9, <1>10 DEF Joined

-----------------------------------------------------------------------------
(* Regions.                                                                *)

LEMMA RegionTypes ==
  ASSUME NEW i \in RegionNo
  PROVE  /\ i \in Nat
         /\ Start(i) \in 0 .. AddrSize - 1 /\ Size(i) \in 0 .. AddrSize - 1
<1> DEFINE Rec == [start : 0 .. AddrSize - 1, size : 0 .. AddrSize - 1]
<1>1. MEM_REGIONS \in Seq(Rec)
  BY RegionsAssumption
<1> HIDE DEF Rec
<1>2. i \in 1 .. Len(MEM_REGIONS) /\ Len(MEM_REGIONS) \in Nat
  BY <1>1 DEF RegionNo
<1>3. MEM_REGIONS[i] \in Rec
  BY <1>1, <1>2
<1>4. MEM_REGIONS[i].start \in 0 .. AddrSize - 1
      /\ MEM_REGIONS[i].size \in 0 .. AddrSize - 1
  BY <1>3 DEF Rec
<1> QED  BY <1>2, <1>4 DEF Start, Size

\* A region that does not end in the address space holds no address.
LEMMA Ends ==
  ASSUME NEW i \in RegionNo
  PROVE  End(i) \in Nat /\
         IF Start(i) + Size(i) < AddrSize
         THEN End(i) = Start(i) + Size(i) ELSE End(i) < Start(i)
<1> DEFINE s == Start(i) + Size(i)
<1>1. s \in Nat /\ s < 2 * AddrSize /\ s < Start(i) + AddrSize
      /\ AddrSize \in Nat \ {0} /\ Start(i) \in Nat
  BY RegionTypes, AddrSizeAssumption
<1>2. End(i) = s % AddrSize
  BY DEF End
<1> HIDE DEF s
<1>3. CASE s < AddrSize
  BY <1>1, <1>2, <1>3 DEF s
<1>4. CASE ~(s < AddrSize)
  <2>1. s % AddrSize = s - AddrSize
    BY <1>1, <1>4
  <2> QED  BY <1>1, <1>2, <1>4, <2>1 DEF s
<1> QED  BY <1>3, <1>4

LEMMA RegionFound ==
  ASSUME NEW a, Found(a)
  PROVE  RegionOf(a) \in RegionNo /\ Holds(RegionOf(a), a)
<1> DEFINE holding == {i \in RegionNo : Holds(i, a)}
<1>1. holding # {} /\ holding \subseteq Nat
  BY RegionTypes DEF Found
<1>2. PICK i \in holding : \A j \in holding : ~ (<<j, i>> \in OpToRel(<, Nat))
  BY <1>1, NatLessThanWellFounded, WFMin
<1>3. \A j \in 1 .. i - 1 : ~Holds(j, a)
  <2> SUFFICES ASSUME NEW j \in 1 .. i - 1, Holds(j, a) PROVE FALSE
    OBVIOUS
  <2>1. i \in Nat /\ j \in Nat /\ j < i
    BY <1>1
  <2>2. j \in RegionNo
    BY <2>1, RegionsAssumption DEF RegionNo
  <2> QED  BY <1>2, <2>1, <2>2 DEF OpToRel
<1> QED  BY <1>2, <1>3 DEF RegionOf

LEMMA FoundIsMapped ==
  ASSUME NEW a \in Access
  PROVE  Found(a) <=> a \in MappedWords
<1>1. a \in Nat
  BY AccessAssumption, AddrSizeAssumption
<1>2. ASSUME NEW i \in RegionNo
      PROVE  Holds(i, a) <=> /\ Start(i) + Size(i) < AddrSize
                             /\ a \in Start(i) .. Start(i) + Size(i) - 1
  BY <1>1, Ends, RegionTypes DEF Holds
<1> QED  BY <1>2 DEF Found, MappedWords

\* The four bytes of a word are in its region.
LEMMA Place ==
  ASSUME NEW a \in Access, Found(a)
  PROVE  LET r   == RegionOf(a)
             off == a - Start(r)
         IN  /\ r \in RegionNo
             /\ Start(r) \in Nat /\ Size(r) \in Nat /\ off \in Nat
             /\ off % 4 = 0 /\ off + 3 <= Size(r) - 1
<1> DEFINE r == RegionOf(a)
<1>1. r \in RegionNo /\ Holds(r, a)
  BY RegionFound
<1>2. Start(r) \in Nat /\ Size(r) \in Nat /\ a \in Nat
  BY <1>1, RegionTypes, AccessAssumption, AddrSizeAssumption
<1>3. Start(r) + Size(r) < AddrSize /\ Start(r) <= a /\ a < Start(r) + Size(r)
  BY <1>1, <1>2, Ends, RegionTypes DEF Holds
<1>4. a % 4 = 0 /\ Start(r) % 4 = 0 /\ Size(r) % 4 = 0
  BY <1>1, <1>3, AccessAssumption, RegionsAssumption
<1> HIDE DEF r
<1> QED  BY <1>1, <1>2, <1>3, <1>4 DEF r

-----------------------------------------------------------------------------
(* Reading and writing.                                                    *)

LEMMA ReadIsWord ==
  ASSUME MemTypeOK, NEW a \in Access
  PROVE  Read32(a) \in Word
<1>1. CASE Found(a)
  <2> DEFINE r == RegionOf(a)
             off == a - Start(r)
  <2>1. r \in RegionNo /\ off \in Nat /\ off + 3 <= Size(r) - 1
        /\ Size(r) \in Nat
    BY <1>1, Place
  <2>2. mem[r] \in [0 .. Size(r) - 1 -> Byte]
    BY <2>1 DEF MemTypeOK
  <2> HIDE DEF r, off
  <2>3. /\ mem[r][off] \in Byte /\ mem[r][off + 1] \in Byte
        /\ mem[r][off + 2] \in Byte /\ mem[r][off + 3] \in Byte
    BY <2>1, <2>2
  <2> QED  BY <1>1, <2>3, BytesJoined DEF Read32, r, off
<1>2. CASE ~Found(a)
  <2>1. 0 \in Byte /\ Joined(0, 0, 0, 0) = 0
    BY ByteSizeAssumption DEF Byte, Joined
  <2> QED  BY <1>2, <2>1, BytesJoined DEF Read32
<1> QED  BY <1>1, <1>2

LEMMA WriteType ==
  ASSUME MemTypeOK, NEW a \in Access, NEW v \in Word, mem_write_32(a, v)
  PROVE  MemTypeOK'
<1>1. word' \in Word /\ DOMAIN mem' = RegionNo
  BY DEF mem_write_32
<1>2. ASSUME NEW i \in RegionNo
      PROVE  mem'[i] \in [0 .. Size(i) - 1 -> Byte]
  <2>0. mem[i] \in [0 .. Size(i) - 1 -> Byte]
    BY DEF MemTypeOK
  <2>1. CASE Found(a) /\ i = RegionOf(a)
    <3> DEFINE off == a - Start(i)
    <3>1. off \in Nat /\ mem'[i] = Stored(mem[i], off, v)
      BY <2>1, Place DEF mem_write_32
    <3> HIDE DEF off
    <3>2. \A o \in 0 .. Size(i) - 1 : o \in off .. off + 3 =>
            o - off \in 0 .. 3
      BY <3>1, RegionTypes
    <3>3. \A o \in 0 .. Size(i) - 1 :
            (IF o \in off .. off + 3 THEN ByteOf(v, o - off)
                                    ELSE mem[i][o]) \in Byte
      BY <2>0, <3>2, WordSplit
    <3>4. DOMAIN mem[i] = 0 .. Size(i) - 1
      BY <2>0
    <3> QED  BY <3>1, <3>3, <3>4 DEF Stored
  <2>2. CASE ~(Found(a) /\ i = RegionOf(a))
    BY <2>0, <2>2 DEF mem_write_32
  <2> QED  BY <2>1, <2>2
<1> QED  BY <1>1, <1>2 DEF MemTypeOK

\* What is read after a write: the word itself at its address, and what was
\* there before at every other one.
LEMMA ReadAfterWrite ==
  ASSUME MemTypeOK, NEW a \in Access, NEW v \in Word, mem_write_32(a, v),
         NEW b \in Access, Found(b)
  PROVE  Read32(b)' = IF a = b THEN v ELSE Read32(b)
<1> DEFINE r   == RegionOf(b)
           off == b - Start(r)
<1>1. /\ r \in RegionNo /\ off \in Nat /\ off % 4 = 0
      /\ Start(r) \in Nat /\ Size(r) \in Nat /\ off + 3 <= Size(r) - 1
  BY Place
<1>2. DOMAIN mem[r] = 0 .. Size(r) - 1
  BY <1>1 DEF MemTypeOK
<1>3. Read32(b) = Joined(mem[r][off], mem[r][off + 1], mem[r][off + 2],
                         mem[r][off + 3])
  BY DEF Read32
<1>4. Read32(b)' = Joined(mem'[r][off], mem'[r][off + 1], mem'[r][off + 2],
                          mem'[r][off + 3])
  BY DEF Read32
<1>5. a \in Nat /\ b \in Nat
  BY AccessAssumption, AddrSizeAssumption
<1>6. CASE Found(a) /\ r = RegionOf(a)
  <2> DEFINE offA == a - Start(r)
  <2>1. offA \in Nat /\ offA % 4 = 0 /\ mem'[r] = Stored(mem[r], offA, v)
    BY <1>1, <1>6, Place DEF mem_write_32
  <2>2. a = b <=> offA = off
    BY <1>1, <1>5
  <2> HIDE DEF r, off, offA
  <2>3. CASE a = b
    <3>1. /\ mem'[r][off] = ByteOf(v, 0) /\ mem'[r][off + 1] = ByteOf(v, 1)
          /\ mem'[r][off + 2] = ByteOf(v, 2)
          /\ mem'[r][off + 3] = ByteOf(v, 3)
      BY <1>1, <1>2, <2>1, <2>2, <2>3 DEF Stored
    <3> QED  BY <1>4, <2>3, <3>1, WordSplit
  <2>4. CASE a # b
    <3>1. \A k \in 0 .. 3 : off + k \notin offA .. offA + 3
      BY <1>1, <2>1, <2>2, <2>4
    <3>2. \A k \in 0 .. 3 : mem'[r][off + k] = mem[r][off + k]
      BY <1>1, <1>2, <2>1, <3>1 DEF Stored
    <3>3. /\ mem'[r][off] = mem[r][off]
          /\ mem'[r][off + 1] = mem[r][off + 1]
          /\ mem'[r][off + 2] = mem[r][off + 2]
          /\ mem'[r][off + 3] = mem[r][off + 3]
      BY <1>1, <3>2
    <3> QED  BY <1>3, <1>4, <2>4, <3>3
  <2> QED  BY <2>3, <2>4
<1>7. CASE ~(Found(a) /\ r = RegionOf(a))
  <2>1. mem'[r] = mem[r]
    BY <1>1, <1>7 DEF mem_write_32
  <2>2. a # b
    BY <1>7
  <2> QED  BY <1>3, <1>4, <2>1, <2>2
<1> QED  BY <1>6, <1>7

-----------------------------------------------------------------------------
(* The theorems.                                                           *)

LEMMA MemInit == init_memory => MemTypeOK /\ WM!Init
<1> SUFFICES ASSUME init_memory PROVE MemTypeOK /\ WM!Init
  OBVIOUS
<1>1. 0 \in Byte /\ 0 \in Word /\ Joined(0, 0, 0, 0) = 0
  <2>1. 0 \in Byte /\ Joined(0, 0, 0, 0) = 0
    BY ByteSizeAssumption DEF Byte, Joined
  <2> QED  BY <2>1, BytesJoined
<1>2. MemTypeOK
  BY <1>1 DEF init_memory, MemTypeOK
<1>3. ASSUME NEW a \in MappedWords PROVE Read32(a) = 0
  <2> DEFINE r   == RegionOf(a)
             off == a - Start(r)
  <2>1. a \in Access /\ Found(a)
    BY FoundIsMapped DEF MappedWords
  <2>2. r \in RegionNo /\ off \in Nat /\ off + 3 <= Size(r) - 1
        /\ Size(r) \in Nat
    BY <2>1, Place
  <2>3. mem[r] = [o \in 0 .. Size(r) - 1 |-> 0]
    BY <2>2 DEF init_memory
  <2> HIDE DEF r, off
  <2>4. /\ mem[r][off] = 0 /\ mem[r][off + 1] = 0
        /\ mem[r][off + 2] = 0 /\ mem[r][off + 3] = 0
    BY <2>2, <2>3
  <2> QED  BY <1>1, <2>1, <2>4 DEF Read32, r, off
<1> QED  BY <1>2, <1>3 DEF init_memory, WM!Init

LEMMA MemStep ==
  ASSUME MemTypeOK, [MemNext]_memVars
  PROVE  MemTypeOK' /\ [WM!Next]_(WM!wmVars)
<1>1. ASSUME NEW a \in Access, mem_read_32(a)
      PROVE  MemTypeOK' /\ WM!mem_read_32(a)
  <2>1. MemTypeOK'
    BY <1>1, ReadIsWord DEF mem_read_32, MemTypeOK
  <2>2. \A b \in MappedWords : Read32(b)' = Read32(b)
    BY <1>1 DEF mem_read_32, Read32
  <2>3. word' = IF a \in MappedWords
                THEN [b \in MappedWords |-> Read32(b)][a] ELSE 0
    BY <1>1, FoundIsMapped DEF mem_read_32, Read32
  <2> QED  BY <2>1, <2>2, <2>3 DEF WM!mem_read_32
<1>2. ASSUME NEW a \in Access, NEW v \in Word, mem_write_32(a, v)
      PROVE  MemTypeOK' /\ WM!mem_write_32(a, v)
  <2>1. MemTypeOK'
    BY <1>2, WriteType
  <2>2. \A b \in MappedWords :
          Read32(b)' = IF a = b THEN v ELSE Read32(b)
    BY <1>2, ReadAfterWrite, FoundIsMapped DEF MappedWords
  <2>3. word' = v
    BY <1>2 DEF mem_write_32
  <2> QED  BY <2>1, <2>2, <2>3 DEF WM!mem_write_32
<1>3. CASE UNCHANGED memVars
  <2>1. UNCHANGED WM!wmVars
    BY <1>3 DEF memVars, WM!wmVars, Read32
  <2> QED  BY <1>3, <2>1 DEF memVars, MemTypeOK
<1>4. CASE MemNext
  BY <1>1, <1>2, <1>4 DEF MemNext, WM!Next
<1> QED  BY <1>3, <1>4

\* Bytes stay bytes and the regions keep their sizes (shell.c:37-45).
THEOREM MemTypeCorrect == MemSpec => []MemTypeOK
<1>1. init_memory => MemTypeOK
  BY MemInit
<1>2. MemTypeOK /\ [MemNext]_memVars => MemTypeOK'
  BY MemStep
<1> QED  BY <1>1, <1>2, PTL DEF MemSpec

\* The regions of bytes implement a memory of words, for any byte and
\* address size and any table of regions (shell.c:64-111).
THEOREM RegionsImplementWords == MemSpec => ImplementsWordMemory
<1>1. init_memory => MemTypeOK /\ WM!Init
  BY MemInit
<1>2. MemTypeOK /\ [MemNext]_memVars =>
        MemTypeOK' /\ [WM!Next]_(WM!wmVars)
  BY MemStep
<1> QED  BY <1>1, <1>2, PTL DEF MemSpec, ImplementsWordMemory

-----------------------------------------------------------------------------
(* Lines.                                                                  *)

\* Where main() is in the line, the buffer and the vector, and what the
\* vector holds.
LineOK ==
  /\ line \in [chars : Nat, words : Seq(STRING)]
  /\ line.words # <<>> => line \in Lines
  /\ position \in Nat /\ bufsize \in Nat /\ toksize \in Nat
  /\ tokens \in Seq(STRING \union {NULL})
  /\ at = "read" => position < bufsize /\ tokens = <<>> /\ 0 < toksize
  /\ at = "split" =>
       /\ Len(tokens) < toksize
       /\ Len(tokens) <= Len(line.words)
       /\ \A t \in 1 .. Len(tokens) : tokens[t] = line.words[t]
  /\ at = "execute" => tokens = Append(line.words, NULL)

LEMMA LineInitOK == Init => LineOK
  BY BufsizeAssumption DEF Init, LineInit, LineOK

\* A step that leaves the line alone does not begin to read, split or
\* execute one.
LEMMA LineKept ==
  ASSUME LineOK, UNCHANGED lineVars,
         at' \notin {"read", "split", "execute"} \/ at' = at
  PROVE  LineOK'
  BY DEF LineOK, lineVars

LEMMA GrownFits ==
  ASSUME NEW used \in Nat, NEW size \in Nat, NEW more \in Nat \ {0},
         used <= size
  PROVE  Grown(used, size, more) \in Nat /\ used < Grown(used, size, more)
  BY DEF Grown

LEMMA LineNextOK ==
  ASSUME LineOK, LineNext
  PROVE  LineOK'
<1>1. CASE Prompt
  BY <1>1, BufsizeAssumption, LinesAssumption DEF Prompt, LineOK
<1>2. CASE ReadChar
  <2>1. position' \in Nat /\ position' <= bufsize
    BY <1>2 DEF ReadChar, LineOK
  <2>2. bufsize' \in Nat /\ position' < bufsize'
    BY <1>2, <2>1, GrownFits, BufsizeAssumption DEF ReadChar, LineOK
  <2> QED  BY <1>2, <2>1, <2>2 DEF ReadChar, LineOK
<1>3. CASE ReadEOF
  BY <1>3, LineKept DEF ReadEOF
<1>4. CASE ReadNewline
  BY <1>4 DEF ReadNewline, lineVars, LineOK
<1>5. CASE SplitWord
  <2> DEFINE last == Len(tokens) + 1
  <2>1. last \in 1 .. Len(line.words) /\ line.words[last] \in STRING
        /\ last <= toksize /\ toksize \in Nat
    BY <1>5 DEF SplitWord, LineOK
  <2>2. /\ tokens' = Append(tokens, line.words[last])
        /\ tokens' \in Seq(STRING \union {NULL}) /\ Len(tokens') = last
    BY <1>5, <2>1 DEF SplitWord, LineOK
  <2>3. toksize' \in Nat /\ Len(tokens') < toksize'
    BY <1>5, <2>1, <2>2, GrownFits, BufsizeAssumption DEF SplitWord
  <2>4. \A t \in 1 .. Len(tokens') : tokens'[t] = line.words[t]
    BY <1>5, <2>1, <2>2 DEF SplitWord, LineOK
  <2> QED  BY <1>5, <2>1, <2>2, <2>3, <2>4 DEF SplitWord, LineOK
<1>6. CASE SplitEnd
  <2>1. tokens = line.words
    BY <1>6 DEF SplitEnd, LineOK
  <2> QED  BY <1>6, <2>1 DEF SplitEnd, LineOK
<1>7. CASE AllocFails
  BY <1>7, LineKept DEF AllocFails
<1> QED  BY <1>1, <1>2, <1>3, <1>4, <1>5, <1>6, <1>7 DEF LineNext

LEMMA LineStep == LineOK /\ [Next]_mainVars => LineOK'
<1> SUFFICES ASSUME LineOK, [Next]_mainVars PROVE LineOK'
  OBVIOUS
<1>1. CASE ReadLine
  BY <1>1, LineNextOK DEF ReadLine
<1>2. CASE Open \/ LoadWord \/ LoadEnd \/ OpenDumpsim
  BY <1>2, LineKept DEF Open, LoadWord, LoadEnd, OpenDumpsim
<1>3. CASE ExecuteNothing \/ ExecuteQuit \/ ExecuteSimulation \/ ExecuteMdump
  BY <1>3, LineKept
  DEF ExecuteNothing, ExecuteQuit, ExecuteSimulation, ExecuteMdump
<1>4. CASE Simulate \/ DumpWord \/ DumpAgain \/ DumpEnd
  BY <1>4, LineKept DEF Simulate, DumpWord, DumpAgain, DumpEnd
<1>5. CASE UNCHANGED mainVars
  BY <1>5, LineKept DEF mainVars, lineVars
<1> QED  BY <1>1, <1>2, <1>3, <1>4, <1>5 DEF Next

\* The buffer and the vector have room for what is stored next, for every
\* line and every size they start with (shell.c:456-510).
THEOREM StoresInsideCorrect == Spec => []StoresInside
<1>1. LineOK => StoresInside
  BY DEF LineOK, StoresInside
<1> QED  BY <1>1, LineInitOK, LineStep, PTL DEF Spec

-----------------------------------------------------------------------------
(* Addresses: every one that is used is aligned.                           *)

LEMMA AlignedMod ==
  ASSUME AlignedUse, NEW x \in Nat, x % 4 = 0
  PROVE  x % AddrSize \in Access
<1> DEFINE m == AddrSize \div 8
           q == x \div AddrSize
<1>1. m \in Nat /\ AddrSize = 8 * m
  BY AddrSizeAssumption DEF AlignedUse
<1>2. q \in Nat /\ x = q * AddrSize + (x % AddrSize)
      /\ x % AddrSize \in 0 .. AddrSize - 1
  BY DivMod, AddrSizeAssumption
<1> HIDE DEF m, q
<1>3. q * m \in Nat /\ q * AddrSize = 8 * (q * m)
  BY <1>1, <1>2
<1> DEFINE qm == q * m
<1>4. qm \in Nat /\ x = 8 * qm + (x % AddrSize)
  BY <1>2, <1>3
<1> HIDE DEF qm
<1>5. (x % AddrSize) % 4 = 0
  BY <1>2, <1>4, AddrSizeAssumption
<1> QED  BY <1>2, <1>5 DEF AlignedUse

AlignedInt ==
  {i \in -(AddrSize \div 2) .. MaxInt : i % 4 = 0}

LEMMA Ints ==
  ASSUME AlignedUse
  PROVE  /\ AddrSize \in Nat /\ MaxInt \in Int /\ MaxInt % 4 = 3
         /\ AddrSize = 2 * (MaxInt + 1)
         /\ AddrSize \div 2 = MaxInt + 1
         /\ AddrSize % 4 = 0
  BY AddrSizeAssumption DEF AlignedUse, MaxInt

LEMMA ToIntType ==
  ASSUME AlignedUse, NEW u \in 0 .. AddrSize - 1
  PROVE  /\ ToInt(u) \in -(AddrSize \div 2) .. MaxInt
         /\ u % 4 = 0 => ToInt(u) \in AlignedInt
  BY Ints DEF ToInt, AlignedInt

\* An int has the bits of the address it was made of.
LEMMA AddressOf ==
  ASSUME AlignedUse, NEW i \in AlignedInt
  PROVE  i % AddrSize \in Access /\ ToInt(i % AddrSize) = i
<1>0. /\ i \in Int /\ -(MaxInt + 1) <= i /\ i <= MaxInt /\ i % 4 = 0
      /\ AddrSize \in Nat \ {0} /\ AddrSize = 2 * (MaxInt + 1)
      /\ MaxInt \in Int /\ AddrSize % 4 = 0
  BY Ints, AddrSizeAssumption DEF AlignedInt
<1>1. CASE i >= 0
  <2>1. i % AddrSize = i
    BY <1>0, <1>1, SmallMod
  <2> QED  BY <1>0, <1>1, <2>1 DEF AlignedUse, ToInt
<1>2. CASE i < 0
  <2>1. i % AddrSize = i + AddrSize
    BY <1>0, <1>2
  <2> QED  BY <1>0, <1>2, <2>1 DEF AlignedUse, ToInt
<1> QED  BY <1>0, <1>1, <1>2

\* The next address of a dump is the one four behind, if an int can hold it.
LEMMA NextAddress ==
  ASSUME AlignedUse, NEW i \in AlignedInt
  PROVE  /\ ToInt((i + 4) % AddrSize) \in AlignedInt
         /\ i + 4 <= MaxInt => ToInt((i + 4) % AddrSize) = i + 4
<1>0. /\ i \in Int /\ -(MaxInt + 1) <= i /\ i <= MaxInt /\ i % 4 = 0
      /\ AddrSize \in Nat \ {0} /\ AddrSize = 2 * (MaxInt + 1)
      /\ MaxInt \in Int /\ MaxInt % 4 = 3
  BY Ints, AddrSizeAssumption DEF AlignedInt
<1>1. CASE i + 4 <= MaxInt
  <2>1. i + 4 \in AlignedInt
    BY <1>0, <1>1, Ints DEF AlignedInt
  <2> QED  BY <2>1, AddressOf
<1>2. CASE i + 4 > MaxInt
  <2>1. i + 4 \in Nat /\ (i + 4) % 4 = 0
    BY <1>0, <1>2
  <2>2. (i + 4) % AddrSize \in Access
    BY <2>1, AlignedMod
  <2>3. (i + 4) % AddrSize \in 0 .. AddrSize - 1
        /\ ((i + 4) % AddrSize) % 4 = 0
    BY <2>2 DEF AlignedUse
  <2> QED  BY <1>0, <1>2, <2>3, ToIntType
<1> QED  BY <1>0, <1>1, <1>2

-----------------------------------------------------------------------------
(* Memory: every step is an access, or leaves it alone.                    *)

\* What is loaded and listed lies at aligned addresses.
UseOK ==
  /\ files \in Seq(ProgFile)
  /\ file \in Nat
  /\ items \in Seq(Word \union {Junk})
  /\ ii \in Nat /\ ii % 4 = 0
  /\ scanned \in Word
  /\ start \in AlignedInt /\ address \in AlignedInt
  /\ stop \in -(AddrSize \div 2) .. MaxInt

\* The words of a command that is executed, with what it asks for.
LEMMA ArgsAreWords ==
  ASSUME LineOK, at = "execute", Command = "mdump", HasArgs
  PROVE  /\ Len(line.words) > 2
         /\ arg(1) = line.words[2] /\ arg(2) = line.words[3]
         /\ line \in Lines
         /\ line.words[1] \in DOMAIN Builtin
         /\ Builtin[line.words[1]] = "mdump"
<1>1. /\ tokens = Append(line.words, NULL) /\ line.words \in Seq(STRING)
      /\ line.words # <<>> => line \in Lines
  BY DEF LineOK
<1>2. Len(tokens) = Len(line.words) + 1
      /\ \A t \in 1 .. Len(tokens) :
           tokens[t] = IF t = Len(tokens) THEN NULL ELSE line.words[t]
  BY <1>1
<1>3. Len(line.words) \in Nat
  BY <1>1
<1>4. Len(line.words) # 0
  <2>1. SUFFICES ASSUME Len(line.words) = 0 PROVE FALSE
    OBVIOUS
  <2>2. arg(0) = NULL
    BY <1>2, <2>1 DEF arg
  <2> QED  BY <2>2, BuiltinAssumption, NULLAssumption DEF Command
<1>5. Len(line.words) # 1
  <2>1. SUFFICES ASSUME Len(line.words) = 1 PROVE FALSE
    OBVIOUS
  <2>2. Len(tokens) = 2 /\ tokens[2] = NULL
    BY <1>2, <2>1
  <2>3. arg(1) = NULL
    BY <2>2 DEF arg
  <2> QED  BY <2>3 DEF HasArgs
<1>6. Len(line.words) # 2
  <2>1. SUFFICES ASSUME Len(line.words) = 2 PROVE FALSE
    OBVIOUS
  <2>2. Len(tokens) = 3 /\ tokens[3] = NULL
    BY <1>2, <2>1
  <2>3. arg(2) = NULL
    BY <2>2 DEF arg
  <2> QED  BY <2>3 DEF HasArgs
<1>7. Len(line.words) > 2
  <2>1. \A n \in Nat : n = 0 \/ n = 1 \/ n = 2 \/ n > 2
    OBVIOUS
  <2> QED  BY <1>3, <1>4, <1>5, <1>6, <2>1, Zenon
<1>8. arg(0) = line.words[1] /\ arg(1) = line.words[2]
      /\ arg(2) = line.words[3]
  BY <1>2, <1>3, <1>7 DEF arg
<1> QED  BY <1>1, <1>7, <1>8 DEF Command

LEMMA TypedAddresses ==
  ASSUME AlignedUse, LineOK, ExecuteMdump
  PROVE  start' \in AlignedInt /\ stop' \in -(AddrSize \div 2) .. MaxInt
<1>1. Number(arg(1)) \in Access /\ Number(arg(2)) \in 0 .. AddrSize - 1
  BY ArgsAreWords DEF ExecuteMdump, Accepted, AlignedUse
<1>2. Number(arg(1)) \in 0 .. AddrSize - 1 /\ Number(arg(1)) % 4 = 0
  BY <1>1, AccessAssumption
<1> QED  BY <1>1, <1>2, ToIntType DEF ExecuteMdump

LEMMA UseInit == AlignedUse /\ Init => UseOK
<1> SUFFICES ASSUME AlignedUse, Init PROVE UseOK
  OBVIOUS
<1>1. 0 \in AlignedInt /\ 0 \in -(AddrSize \div 2) .. MaxInt
  BY Ints, AddrSizeAssumption DEF AlignedInt
<1>2. files \in Seq(ProgFile) /\ items = <<>> /\ items \in Seq(Word \union {Junk})
  BY FileListsAssumption DEF Init
<1>3. scanned \in Word
  BY DEF Init, AlignedUse
<1> QED  BY <1>1, <1>2, <1>3 DEF Init, UseOK

LEMMA UseLoads ==
  ASSUME AlignedUse, UseOK, Open \/ LoadWord \/ LoadEnd \/ OpenDumpsim
  PROVE  UseOK' /\ [MemNext]_memVars
<1>1. CASE Open
  <2>1. CASE files[file + 1].exists
    <3>1. files[file + 1] \in ProgFile
      BY <1>1 DEF Open, UseOK
    <3>2. items' \in Seq(Word \union {Junk})
      BY <1>1, <2>1, <3>1 DEF Open, ProgFile
    <3>3. ii' = 0 /\ scanned' \in Word
      BY <1>1, <2>1 DEF Open, FirstByte, AlignedUse
    <3> QED
      BY <1>1, <3>2, <3>3 DEF Open, UseOK, dumpVars, memVars
  <2>2. CASE ~files[file + 1].exists
    BY <1>1, <2>2 DEF Open, UseOK, dumpVars, memVars
  <2> QED  BY <2>1, <2>2
<1>2. CASE LoadWord
  <2>1. items # <<>> /\ items \in Seq(Word \union {Junk})
    BY <1>2 DEF LoadWord, Ended, UseOK
  <2>2. Head(items) \in Word \union {Junk}
        /\ Tail(items) \in Seq(Word \union {Junk})
    BY <2>1
  <2>3. scanned' \in Word /\ items' \in Seq(Word \union {Junk})
    BY <1>2, <2>1, <2>2 DEF LoadWord, ReadsNumber, UseOK
  <2>4. MEM_TEXT_START \in Nat /\ MEM_TEXT_START % 4 = 0
        /\ ii \in Nat /\ ii % 4 = 0
    BY AddrSizeAssumption DEF AlignedUse, UseOK
  <2>5. (MEM_TEXT_START + ii) % AddrSize \in Access
    <3>1. MEM_TEXT_START + ii \in Nat /\ (MEM_TEXT_START + ii) % 4 = 0
      BY <2>4
    <3> QED  BY <3>1, AlignedMod
  <2>6. ii' \in Nat /\ ii' % 4 = 0
    <3>1. ii + 4 \in Nat /\ (ii + 4) % 4 = 0
      BY <2>4
    <3>2. (ii + 4) % AddrSize \in Access
      BY <3>1, AlignedMod
    <3> QED  BY <1>2, <3>2, AccessAssumption, AddrSizeAssumption DEF LoadWord
  <2>7. MemNext
    BY <1>2, <2>3, <2>5 DEF LoadWord, MemNext
  <2> QED  BY <1>2, <2>3, <2>6, <2>7 DEF LoadWord, UseOK, dumpVars
<1>3. CASE LoadEnd
  BY <1>3 DEF LoadEnd, UseOK, dumpVars, memVars
<1>4. CASE OpenDumpsim
  BY <1>4 DEF OpenDumpsim, UseOK, dumpVars, loadVars, memVars
<1> QED  BY <1>1, <1>2, <1>3, <1>4

LEMMA UseCommands ==
  ASSUME AlignedUse, UseOK, LineOK,
         \/ ReadLine \/ ExecuteNothing \/ ExecuteQuit \/ ExecuteSimulation
         \/ ExecuteMdump \/ Simulate
  PROVE  UseOK' /\ [MemNext]_memVars
<1>1. CASE ReadLine
  BY <1>1 DEF ReadLine, UseOK, dumpVars, loadVars, memVars
<1>2. CASE ExecuteNothing \/ ExecuteQuit \/ ExecuteSimulation
  BY <1>2 DEF ExecuteNothing, ExecuteQuit, ExecuteSimulation, UseOK,
              dumpVars, loadVars, memVars
<1>3. CASE ExecuteMdump
  <2>1. start' \in AlignedInt /\ stop' \in -(AddrSize \div 2) .. MaxInt
        /\ address' \in AlignedInt
    BY <1>3, TypedAddresses DEF ExecuteMdump
  <2> QED  BY <1>3, <2>1 DEF ExecuteMdump, UseOK, loadVars, memVars
<1>4. CASE Simulate
  <2>1. UseOK'
    BY <1>4 DEF Simulate, UseOK, dumpVars, loadVars
  <2>2. [MemNext]_memVars
    BY <1>4, StoresAssumption DEF Simulate, MemNext, memVars
  <2> QED  BY <2>1, <2>2
<1> QED  BY <1>1, <1>2, <1>3, <1>4

LEMMA UseDumps ==
  ASSUME AlignedUse, UseOK, DumpWord \/ DumpAgain \/ DumpEnd
  PROVE  UseOK' /\ [MemNext]_memVars
<1>1. CASE DumpWord
  <2>1. address \in AlignedInt
    BY DEF UseOK
  <2>2. address % AddrSize \in Access
    BY <2>1, AddressOf
  <2>3. address' \in AlignedInt
    BY <1>1, <2>1, NextAddress DEF DumpWord
  <2>4. MemNext
    BY <1>1, <2>2 DEF DumpWord, MemNext
  <2> QED  BY <1>1, <2>3, <2>4 DEF DumpWord, UseOK, loadVars
<1>2. CASE DumpAgain
  BY <1>2 DEF DumpAgain, UseOK, loadVars, memVars
<1>3. CASE DumpEnd
  <2>1. 0 \in AlignedInt /\ 0 \in -(AddrSize \div 2) .. MaxInt
    BY Ints, AddrSizeAssumption DEF AlignedInt
  <2> QED  BY <1>3, <2>1 DEF DumpEnd, UseOK, loadVars, memVars
<1> QED  BY <1>1, <1>2, <1>3

LEMMA UseStep ==
  AlignedUse /\ UseOK /\ LineOK /\ [Next]_mainVars =>
    UseOK' /\ [MemNext]_memVars
<1> SUFFICES ASSUME AlignedUse, UseOK, LineOK, [Next]_mainVars
             PROVE  UseOK' /\ [MemNext]_memVars
  OBVIOUS
<1>1. CASE UNCHANGED mainVars
  BY <1>1 DEF mainVars, memVars, UseOK
<1> QED  BY <1>1, UseLoads, UseCommands, UseDumps DEF Next

\* Loading, simulating and dumping, in any order a user may ask for, see
\* memory as one of words that keeps its shape (shell.c:64-111, 214-236,
\* 306-346).
THEOREM MainImplementsWords ==
  ASSUME AlignedUse
  PROVE  Spec => []MemTypeOK /\ ImplementsWordMemory
<1>1. Init => MemTypeOK /\ WM!Init /\ LineOK /\ UseOK
  BY MemInit, LineInitOK, UseInit DEF Init
<1>2. MemTypeOK /\ LineOK /\ UseOK /\ [Next]_mainVars =>
        MemTypeOK' /\ LineOK' /\ UseOK' /\ [WM!Next]_(WM!wmVars)
  BY LineStep, UseStep, MemStep
<1> QED  BY <1>1, <1>2, PTL DEF Spec, ImplementsWordMemory

-----------------------------------------------------------------------------
(* Dumps.                                                                  *)

Dumping == at \in {"screen", "file"}

\* A dump has come as far as its address, unless it is one that will count
\* past the largest int and never end.
DumpOK ==
  /\ listed \in [1 .. 2 -> SUBSET Int]
  /\ Dumping =>
       /\ Len(line.words) > 2
       /\ start = ToInt(Number(line.words[2]))
       /\ stop  = ToInt(Number(line.words[3]))
       /\ at = "screen" => listed[2] = {}
       /\ stop < MaxInt - 3 =>
            /\ start <= address
            /\ listed[Copy] =
                 {x \in start .. stop : (x - start) % 4 = 0 /\ x < address}

LEMMA DumpInit == Init => DumpOK
<1> SUFFICES ASSUME Init PROVE DumpOK
  OBVIOUS
<1>1. listed = <<{}, {}>> /\ ~Dumping
  BY DEF Init, Dumping
<1>2. listed \in [1 .. 2 -> SUBSET Int]
  BY <1>1
<1> QED  BY <1>1, <1>2 DEF DumpOK

LEMMA NotDumping ==
  ASSUME DumpOK, ~Dumping', UNCHANGED listed
  PROVE  DumpOK'
  BY DEF DumpOK

LEMMA DumpStarts ==
  ASSUME AlignedUse, LineOK, DumpOK, ExecuteMdump
  PROVE  DumpOK'
<1>1. Len(line.words) > 2 /\ UNCHANGED line
      /\ arg(1) = line.words[2] /\ arg(2) = line.words[3]
  BY ArgsAreWords DEF ExecuteMdump, Accepted, lineVars
<1>2. start' = ToInt(Number(line.words[2])) /\ address' = start'
      /\ stop' = ToInt(Number(line.words[3]))
  BY <1>1 DEF ExecuteMdump
<1>3. at' = "screen" /\ listed' = <<{}, {}>> /\ Copy' = 1
  BY DEF ExecuteMdump, Copy
<1>4. listed' \in [1 .. 2 -> SUBSET Int] /\ listed'[1] = {} /\ listed'[2] = {}
  BY <1>3
<1>5. start' \in Int /\ stop' \in Int
  BY TypedAddresses, Ints DEF AlignedInt
<1>6. {x \in start' .. stop' : (x - start') % 4 = 0 /\ x < address'} = {}
  BY <1>2, <1>5
<1> QED  BY <1>1, <1>2, <1>3, <1>4, <1>5, <1>6 DEF DumpOK, Dumping

LEMMA DumpGoesOn ==
  ASSUME AlignedUse, UseOK, DumpOK, DumpWord
  PROVE  DumpOK'
<1>1. /\ UNCHANGED <<at, line, start, stop>> /\ Dumping /\ Dumping'
      /\ Copy' = Copy /\ Copy \in 1 .. 2 /\ (at = "screen" => Copy = 1)
  BY DEF DumpWord, Dumping, lineVars, Copy
<1>2. /\ start \in Int /\ stop \in Int /\ address \in Int
      /\ address \in AlignedInt /\ start % 4 = 0 /\ address % 4 = 0
  BY Ints DEF UseOK, AlignedInt
<1>3. address <= stop
  BY <1>2 DEF DumpWord, Beyond
<1>4. /\ listed' = [listed EXCEPT ![Copy] = listed[Copy] \union {address}]
      /\ listed \in [1 .. 2 -> SUBSET Int]
  BY DEF DumpWord, DumpOK
<1>5. /\ listed' \in [1 .. 2 -> SUBSET Int]
      /\ listed'[Copy] = listed[Copy] \union {address}
      /\ at = "screen" => listed'[2] = listed[2]
  BY <1>1, <1>2, <1>4
<1>6. ASSUME stop < MaxInt - 3
      PROVE  /\ start' <= address'
             /\ listed'[Copy'] = {x \in start' .. stop' :
                                   (x - start') % 4 = 0 /\ x < address'}
  <2>1. address' = address + 4
    <3>1. address + 4 <= MaxInt
      BY <1>2, <1>3, <1>6, Ints
    <3> QED  BY <1>2, <3>1, NextAddress DEF DumpWord
  <2>2. start <= address
        /\ listed[Copy] = {x \in start .. stop :
                            (x - start) % 4 = 0 /\ x < address}
    BY <1>1, <1>6 DEF DumpOK
  <2>3. \A x \in start .. stop :
          (x - start) % 4 = 0 /\ x < address + 4 <=>
            \/ (x - start) % 4 = 0 /\ x < address
            \/ x = address
    BY <1>2, <1>3, <2>2
  <2>4. address \in start .. stop
    BY <1>2, <1>3, <2>2
  <2>5. listed[Copy] \union {address} =
          {x \in start .. stop : (x - start) % 4 = 0 /\ x < address + 4}
    BY <2>2, <2>3, <2>4
  <2> QED  BY <1>1, <1>2, <1>5, <2>1, <2>2, <2>5
<1> QED  BY <1>1, <1>5, <1>6 DEF DumpOK

LEMMA DumpIsRepeated ==
  ASSUME AlignedUse, UseOK, DumpOK, DumpAgain
  PROVE  DumpOK'
<1>1. /\ UNCHANGED <<line, start, stop, listed>> /\ Dumping
      /\ at = "screen" /\ at' = "file" /\ address' = start /\ Copy' = 2
  BY DEF DumpAgain, Dumping, lineVars, Copy
<1>2. start \in Int /\ stop \in Int
  BY Ints DEF UseOK, AlignedInt
<1>3. {x \in start .. stop : (x - start) % 4 = 0 /\ x < start} = {}
  BY <1>2
<1> QED  BY <1>1, <1>2, <1>3 DEF DumpOK

LEMMA DumpStep ==
  AlignedUse /\ UseOK /\ LineOK /\ DumpOK /\ [Next]_mainVars => DumpOK'
<1> SUFFICES ASSUME AlignedUse, UseOK, LineOK, DumpOK, [Next]_mainVars
             PROVE  DumpOK'
  OBVIOUS
<1>1. CASE ReadLine
  BY <1>1, NotDumping
  DEF ReadLine, LineNext, Prompt, ReadChar, ReadEOF, ReadNewline, SplitWord,
      SplitEnd, AllocFails, dumpVars, Dumping
<1>2. CASE Open \/ LoadWord \/ LoadEnd \/ OpenDumpsim
  BY <1>2, NotDumping
  DEF Open, LoadWord, LoadEnd, OpenDumpsim, dumpVars, Dumping
<1>3. CASE ExecuteNothing \/ ExecuteQuit \/ ExecuteSimulation \/ Simulate
  BY <1>3, NotDumping
  DEF ExecuteNothing, ExecuteQuit, ExecuteSimulation, Simulate, dumpVars,
      Dumping
<1>4. CASE DumpEnd
  <2>1. ~Dumping' /\ listed' = <<{}, {}>>
    BY <1>4 DEF DumpEnd, Dumping
  <2>2. listed' \in [1 .. 2 -> SUBSET Int]
    BY <2>1
  <2> QED  BY <2>1, <2>2 DEF DumpOK
<1>5. CASE UNCHANGED mainVars
  BY <1>5 DEF mainVars, DumpOK, Dumping, Copy
<1> QED
  BY <1>1, <1>2, <1>3, <1>4, <1>5, DumpStarts, DumpGoesOn, DumpIsRepeated
  DEF Next

LEMMA DumpExact == AlignedUse /\ UseOK /\ DumpOK => DumpIsExact
<1> SUFFICES ASSUME AlignedUse, UseOK, DumpOK, Dumping, Beyond
             PROVE  /\ Len(line.words) > 2
                    /\ listed[Copy] = {x \in start .. stop :
                                        (x - start) % 4 = 0}
                    /\ start = ToInt(Number(line.words[2]))
                    /\ stop  = ToInt(Number(line.words[3]))
  BY DEF DumpIsExact, Dumping
<1>1. /\ start \in Int /\ stop \in Int /\ address \in Int /\ MaxInt \in Int
      /\ address % 4 = 0 /\ address <= MaxInt /\ MaxInt % 4 = 3
  BY Ints DEF UseOK, AlignedInt
<1>2. address > stop
  BY DEF Beyond
<1>3. stop < MaxInt - 3
  BY <1>1, <1>2
<1>4. \A x \in start .. stop : x < address
  BY <1>1, <1>2
<1> QED  BY <1>3, <1>4 DEF DumpOK

\* A dump that ends has listed what was typed after mdump, on the screen and
\* in the file, for every size of the buffers and every range of addresses
\* (shell.c:214-236).
THEOREM DumpCorrect ==
  ASSUME AlignedUse
  PROVE  Spec => []DumpIsExact
<1>1. Init => LineOK /\ UseOK /\ DumpOK
  BY LineInitOK, UseInit, DumpInit
<1>2. LineOK /\ UseOK /\ DumpOK /\ [Next]_mainVars =>
        LineOK' /\ UseOK' /\ DumpOK'
  BY LineStep, UseStep, DumpStep
<1>3. UseOK /\ DumpOK => DumpIsExact
  BY DumpExact
<1> QED  BY <1>1, <1>2, <1>3, PTL DEF Spec

\* The addresses from one to the last that is listed, and the steps a dump
\* still has to go, or more.
Span(from) == IF from > stop THEN 0 ELSE stop - from + 1

DumpLeft ==
  IF at = "screen" THEN Span(address) + 1 + Span(start) + 1
                   ELSE Span(address) + 1

\* A dump that ends comes nearer to its end with every step; one that is to
\* count past the largest int never comes to it.
DumpsRunDown ==
  [][Dumping /\ stop <= MaxInt - 4 =>
       \/ at' = "prompt"
       \/ Dumping' /\ stop' = stop /\ DumpLeft' < DumpLeft]_mainVars

EndlessDump == Dumping /\ stop > MaxInt - 4 => ~Beyond

LEMMA SpanType ==
  ASSUME stop \in Int, NEW from \in Int
  PROVE  Span(from) \in Nat
  BY DEF Span

LEMMA DumpNearer ==
  ASSUME AlignedUse, UseOK, Dumping, stop <= MaxInt - 4, DumpWord
  PROVE  Dumping' /\ stop' = stop /\ DumpLeft' < DumpLeft
<1>1. /\ start \in Int /\ stop \in Int /\ address \in Int /\ MaxInt \in Int
      /\ address \in AlignedInt
  BY Ints DEF UseOK, AlignedInt
<1>2. /\ UNCHANGED <<at, start, stop>> /\ Dumping'
  BY DEF DumpWord, Dumping
<1>3. address <= stop
  BY <1>1 DEF DumpWord, Beyond
<1>4. address' = address + 4
  <2>1. address + 4 <= MaxInt
    BY <1>1, <1>3
  <2> QED  BY <1>1, <2>1, NextAddress DEF DumpWord
<1>5. Span(address)' < Span(address) /\ Span(start)' = Span(start)
  BY <1>1, <1>2, <1>3, <1>4 DEF Span
<1>6. Span(address)' \in Nat
  BY <1>1, <1>2, <1>4 DEF Span
<1>7. Span(address) \in Nat /\ Span(start) \in Nat
  BY <1>1, SpanType
<1> DEFINE a == Span(address)
           a1 == Span(address)'
           b == Span(start)
<1>8. a \in Nat /\ a1 \in Nat /\ b \in Nat /\ a1 < a
  BY <1>5, <1>6, <1>7
<1>9. /\ DumpLeft = IF at = "screen" THEN a + 1 + b + 1 ELSE a + 1
      /\ DumpLeft' = IF at = "screen" THEN a1 + 1 + b + 1 ELSE a1 + 1
  BY <1>2, <1>5 DEF DumpLeft
<1> HIDE DEF a, a1, b
<1> QED  BY <1>2, <1>8, <1>9

LEMMA DumpAgainNearer ==
  ASSUME UseOK, DumpAgain
  PROVE  Dumping' /\ stop' = stop /\ DumpLeft' < DumpLeft
<1>1. start \in Int /\ stop \in Int /\ address \in Int
  BY Ints DEF UseOK, AlignedInt
<1>2. /\ at = "screen" /\ at' = "file" /\ address' = start
      /\ UNCHANGED <<start, stop>>
  BY DEF DumpAgain
<1>3. Span(address) \in Nat /\ Span(start) \in Nat
      /\ Span(address)' = Span(start)
  BY <1>1, <1>2, SpanType DEF Span
<1>4. /\ DumpLeft = Span(address) + 1 + Span(start) + 1
      /\ DumpLeft' = Span(start) + 1
  BY <1>2, <1>3 DEF DumpLeft
<1> QED  BY <1>2, <1>3, <1>4 DEF Dumping

\* mdump comes to its end, and in no more steps than DumpLeft counts when it
\* starts, if an int can hold the address behind the last one it is to list;
\* and never otherwise, as the comparison it waits for cannot come out true
\* (shell.c:225-236).
THEOREM DumpsEndOrNever ==
  ASSUME AlignedUse
  PROVE  Spec => []EndlessDump /\ [](DumpLeft \in Nat) /\ DumpsRunDown
<1>1. Init => LineOK /\ UseOK
  BY LineInitOK, UseInit
<1>2. LineOK /\ UseOK /\ [Next]_mainVars => LineOK' /\ UseOK'
  BY LineStep, UseStep
<1>3. ASSUME UseOK PROVE EndlessDump /\ DumpLeft \in Nat
  <2>1. /\ start \in Int /\ stop \in Int /\ address \in Int /\ MaxInt \in Int
        /\ address % 4 = 0 /\ address <= MaxInt /\ MaxInt % 4 = 3
    BY <1>3, Ints DEF UseOK, AlignedInt
  <2>2. address <= MaxInt - 3
    BY <2>1
  <2>3. Span(address) \in Nat /\ Span(start) \in Nat
    BY <2>1, SpanType
  <2>4. DumpLeft \in Nat
    BY <2>3 DEF DumpLeft
  <2> QED  BY <2>1, <2>2, <2>4 DEF EndlessDump, Beyond
<1>4. ASSUME UseOK, Next, Dumping, stop <= MaxInt - 4
      PROVE  \/ at' = "prompt"
             \/ Dumping' /\ stop' = stop /\ DumpLeft' < DumpLeft
  <2>1. DumpWord \/ DumpAgain \/ DumpEnd
    BY <1>4
    DEF Next, Dumping, Open, LoadWord, LoadEnd, OpenDumpsim, ReadLine,
        LineNext, Prompt, ReadChar, ReadEOF, ReadNewline, SplitWord, SplitEnd,
        AllocFails, ExecuteNothing, ExecuteQuit, ExecuteSimulation,
        ExecuteMdump, Simulate
  <2>2. CASE DumpEnd
    BY <2>2 DEF DumpEnd
  <2> QED  BY <1>4, <2>1, <2>2, DumpNearer, DumpAgainNearer
<1>5. UseOK /\ [Next]_mainVars =>
        [Dumping /\ stop <= MaxInt - 4 =>
           \/ at' = "prompt"
           \/ Dumping' /\ stop' = stop /\ DumpLeft' < DumpLeft]_mainVars
  BY <1>4
<1> QED  BY <1>1, <1>2, <1>3, <1>5, PTL DEF Spec, DumpsRunDown

-----------------------------------------------------------------------------
(* Loading.                                                                *)

TextAddr(n) == MEM_TEXT_START + 4 * (n - 1)

TextWords == 1 .. Size(1) \div 4

\* The word n of the text region after the first `count' files are loaded:
\* that of the last of them that has one, or what was there at the start.
LoadedWord(count, n, v) ==
  \/ /\ \A f \in 1 .. count : Len(files[f].items) < n
     /\ v = 0
  \/ \E f \in 1 .. count :
       /\ n <= Len(files[f].items)
       /\ \A g \in f + 1 .. count : Len(files[g].items) < n
       /\ v = files[f].items[n]

\* The words read of the file that is being loaded.
Done == Len(files[file + 1].items) - Len(items)

\* Where the loader is in its files.
FilesOK ==
  /\ files \in FileLists /\ file <= Len(files) /\ stores \in Nat
  /\ at \notin {"open", "load", "failed"} => file = Len(files)
  /\ at = "load" =>
       /\ file < Len(files)
       /\ Done \in Nat
       /\ \A k \in 1 .. Len(items) : items[k] = files[file + 1].items[Done + k]
       /\ Loadable /\ items # <<>> => ii = 4 * Done

\* The text region while files are loaded, and until the machine stores.
TextOK ==
  stores = 0 /\ Loadable =>
    \A n \in TextWords :
      IF at = "load" /\ n <= Done
      THEN Read32(TextAddr(n)) = files[file + 1].items[n]
      ELSE at # "failed" => LoadedWord(file, n, Read32(TextAddr(n)))

LEMMA TextPlace ==
  ASSUME AlignedUse, TextLoads, NEW n \in TextWords
  PROVE  /\ n \in Nat \ {0} /\ MEM_TEXT_START \in Nat
         /\ TextAddr(n) \in Nat /\ TextAddr(n) < AddrSize
         /\ TextAddr(n) \in Access /\ Found(TextAddr(n))
<1>1. /\ MEM_TEXT_START \in 0 .. AddrSize - 1 /\ MEM_TEXT_START % 4 = 0
      /\ Size(1) \in 0 .. AddrSize - 1 /\ Size(1) % 4 = 0
      /\ MEM_TEXT_START + Size(1) < AddrSize
  BY RegionTypes, RegionsAssumption DEF TextLoads
<1>2. n \in Nat \ {0} /\ 4 * n <= Size(1)
  BY <1>1, AddrSizeAssumption DEF TextWords
<1>3. /\ TextAddr(n) \in 0 .. AddrSize - 1 /\ TextAddr(n) % 4 = 0
      /\ MEM_TEXT_START <= TextAddr(n)
      /\ TextAddr(n) < MEM_TEXT_START + Size(1)
  BY <1>1, <1>2, AddrSizeAssumption DEF TextAddr
<1>4. TextAddr(n) \in Access
  BY <1>3 DEF AlignedUse
<1>5. Holds(1, TextAddr(n))
  <2>1. End(1) = MEM_TEXT_START + Size(1)
    BY <1>1, SmallMod, AddrSizeAssumption DEF End, TextLoads
  <2> QED  BY <1>3, <2>1 DEF Holds, TextLoads
<1> QED  BY <1>1, <1>2, <1>3, <1>4, <1>5, AddrSizeAssumption DEF Found, TextLoads

LEMMA NotEmpty ==
  ASSUME NEW S, NEW s \in Seq(S), s # <<>>
  PROVE  Len(s) \in Nat \ {0}
  OBVIOUS

\* The files and how many words they have.
LEMMA FileTypes ==
  ASSUME UseOK, NEW f \in 1 .. Len(files)
  PROVE  /\ files[f] \in ProgFile
         /\ files[f].items \in Seq(Word \union {Junk})
         /\ Len(files[f].items) \in Nat
<1>1. files[f] \in ProgFile
  BY DEF UseOK
<1>2. files[f].items \in Seq(Word \union {Junk})
  BY <1>1 DEF ProgFile
<1> QED  BY <1>1, <1>2

LEMMA FilesInit == Init => FilesOK
<1> SUFFICES ASSUME Init PROVE FilesOK
  OBVIOUS
<1>1. files \in FileLists /\ file = 0 /\ stores = 0 /\ at = "open"
      /\ Len(files) \in Nat
  BY FileListsAssumption DEF Init
<1> QED  BY <1>1 DEF FilesOK

LEMMA FilesLoad ==
  ASSUME AlignedUse, TextLoads, UseOK, FilesOK, LoadWord
  PROVE  FilesOK'
<1> DEFINE all == files[file + 1].items
<1>1. /\ at = "load" /\ at' = "load" /\ UNCHANGED <<files, file, stores>>
      /\ file < Len(files) /\ Len(files) \in Nat /\ file \in Nat
  BY DEF LoadWord, FilesOK, UseOK
<1>2. all \in Seq(Word \union {Junk}) /\ Len(all) \in Nat
      /\ 4 * Len(all) <= AddrSize
  <2>1. file + 1 \in 1 .. Len(files) /\ file + 1 \in DOMAIN files
    BY <1>1 DEF UseOK
  <2> QED  BY <2>1, FileTypes DEF FilesOK, TextLoads
<1>3. /\ items \in Seq(Word \union {Junk}) /\ items # <<>> /\ Len(items) \in Nat
      /\ Len(items) > 0
  BY DEF LoadWord, Ended, UseOK
<1>4. /\ Done = Len(all) - Len(items) /\ Done \in Nat
      /\ \A k \in 1 .. Len(items) : items[k] = all[Done + k]
      /\ Loadable => ii = 4 * Done
  BY <1>1, <1>3 DEF FilesOK, Done
<1>5. Done' = Len(all) - Len(items')
  BY <1>1 DEF Done
<1> HIDE DEF all
<1>6. CASE ReadsNumber
  <2>1. items' = Tail(items) /\ Len(items') = Len(items) - 1
        /\ \A k \in 1 .. Len(items') : items'[k] = items[k + 1]
    BY <1>3, <1>6 DEF LoadWord
  <2>2. Done' = Done + 1
    BY <1>2, <1>3, <1>4, <1>5, <2>1
  <2>3. \A k \in 1 .. Len(items') : items'[k] = all[Done' + k]
    BY <1>3, <1>4, <2>1, <2>2
  <2>4. ASSUME Loadable, items' # <<>> PROVE ii' = 4 * Done'
    <3>1. Len(items') \in Nat \ {0}
      <4>1. items' \in Seq(Word \union {Junk})
        BY <1>3, <2>1
      <4> QED  BY <2>4, <4>1, NotEmpty
    <3>2. 4 * Done' < AddrSize /\ 4 * Done' \in Nat
      BY <1>2, <1>4, <1>5, <2>2, <3>1, AddrSizeAssumption
    <3>3. ii + 4 = 4 * Done'
      BY <1>4, <2>2, <2>4
    <3> QED  BY <3>2, <3>3, SmallMod, AddrSizeAssumption DEF LoadWord
  <2>5. Loadable' = Loadable
    BY <1>1 DEF Loadable
  <2> QED
    BY <1>1, <1>4, <2>2, <2>3, <2>4, <2>5 DEF FilesOK, all
<1>7. CASE ~ReadsNumber
  <2>1. Head(items) = Junk /\ items' = items /\ Done' = Done
    BY <1>3, <1>4, <1>5, <1>7 DEF LoadWord, ReadsNumber
  <2>2. ~Loadable /\ Loadable' = Loadable
    <3>1. items[1] = Junk /\ all[Done + 1] = Junk
          /\ Done + 1 \in DOMAIN all
      BY <1>2, <1>3, <1>4, <2>1
    <3>2. file + 1 \in DOMAIN files
      BY <1>1 DEF UseOK
    <3> QED  BY <1>1, <3>1, <3>2 DEF Loadable, all
  <2> QED  BY <1>1, <1>4, <2>1, <2>2 DEF FilesOK, all
<1> QED  BY <1>6, <1>7

LEMMA FilesStep ==
  AlignedUse /\ TextLoads /\ UseOK /\ FilesOK /\ [Next]_mainVars => FilesOK'
<1> SUFFICES ASSUME AlignedUse, TextLoads, UseOK, FilesOK, [Next]_mainVars
             PROVE  FilesOK'
  OBVIOUS
<1>1. CASE Open
  <2>1. /\ at = "open" /\ file < Len(files) /\ UNCHANGED <<files, file, stores>>
        /\ Len(files) \in Nat /\ file \in Nat
    BY <1>1 DEF Open, FilesOK, UseOK
  <2>2. CASE files[file + 1].exists
    <3>1. at' = "load" /\ items' = files[file + 1].items /\ ii' = 0
      BY <1>1, <2>2 DEF Open, FirstByte
    <3>2. Len(files[file + 1].items) \in Nat
      BY <2>1, FileTypes
    <3>3. Done' = 0
      BY <2>1, <3>1, <3>2 DEF Done
    <3> QED  BY <2>1, <3>1, <3>2, <3>3 DEF FilesOK
  <2>3. CASE ~files[file + 1].exists
    <3>1. at' = "failed"
      BY <1>1, <2>3 DEF Open
    <3> QED  BY <2>1, <3>1 DEF FilesOK
  <2> QED  BY <2>2, <2>3
<1>2. CASE LoadWord
  BY <1>2, FilesLoad
<1>3. CASE LoadEnd
  <2>1. /\ at' = "open" /\ file' = file + 1 /\ UNCHANGED <<files, stores>>
        /\ file < Len(files) /\ file \in Nat /\ Len(files) \in Nat
    BY <1>3 DEF LoadEnd, FilesOK, UseOK
  <2> QED  BY <2>1 DEF FilesOK
<1>4. CASE OpenDumpsim
  BY <1>4 DEF OpenDumpsim, loadVars, FilesOK
<1>5. CASE ReadLine \/ ExecuteNothing \/ ExecuteQuit \/ ExecuteSimulation
           \/ ExecuteMdump \/ Simulate \/ DumpWord \/ DumpAgain \/ DumpEnd
  <2>1. /\ at \notin {"open", "load", "failed"} /\ at' \notin {"open", "load"}
        /\ UNCHANGED <<files, file>> /\ stores' \in Nat
    <3>1. CASE ReadLine
      BY <3>1 DEF ReadLine, LineNext, Prompt, ReadChar, ReadEOF, ReadNewline,
                  SplitWord, SplitEnd, AllocFails, loadVars, FilesOK
    <3>2. CASE ExecuteNothing \/ ExecuteQuit \/ ExecuteSimulation
               \/ ExecuteMdump \/ DumpWord \/ DumpAgain \/ DumpEnd
      BY <3>2 DEF ExecuteNothing, ExecuteQuit, ExecuteSimulation,
                  ExecuteMdump, DumpWord, DumpAgain, DumpEnd, loadVars,
                  FilesOK
    <3>3. CASE Simulate
      BY <3>3 DEF Simulate, loadVars, FilesOK
    <3> QED  BY <1>5, <3>1, <3>2, <3>3
  <2> QED  BY <2>1 DEF FilesOK
<1>6. CASE UNCHANGED mainVars
  BY <1>6 DEF mainVars, FilesOK, Done, Loadable
<1> QED  BY <1>1, <1>2, <1>3, <1>4, <1>5, <1>6 DEF Next

\* What is read of the text depends on nothing but memory.
LEMMA TextKept ==
  ASSUME FilesOK, TextOK, UNCHANGED <<mem, files>>,
         stores' = 0 => stores = 0,
         at' # "load", file' = file, at \notin {"load", "failed"} \/ at' = "failed"
  PROVE  TextOK'
<1>1. \A n \in TextWords : Read32(TextAddr(n))' = Read32(TextAddr(n))
  BY DEF Read32
<1>2. Loadable' = Loadable
  BY DEF Loadable
<1>3. \A n, v : LoadedWord(file, n, v)' = LoadedWord(file, n, v)
  BY DEF LoadedWord
<1> QED  BY <1>1, <1>2, <1>3 DEF TextOK

LEMMA TextOpen ==
  ASSUME UseOK, FilesOK, TextOK, Open
  PROVE  TextOK'
<1>1. /\ at = "open" /\ file < Len(files) /\ UNCHANGED <<mem, files, file, stores>>
      /\ Len(files) \in Nat /\ file \in Nat
  BY DEF Open, memVars, UseOK
<1>2. CASE files[file + 1].exists
  <2>1. at' = "load" /\ items' = files[file + 1].items
    BY <1>1, <1>2 DEF Open
  <2>2. Len(files[file + 1].items) \in Nat
    BY <1>1, FileTypes
  <2>3. Done' = 0
    BY <1>1, <2>1, <2>2 DEF Done
  <2>4. \A n \in TextWords : ~(n <= 0)
    BY DEF TextWords
  <2>5. \A n \in TextWords : Read32(TextAddr(n))' = Read32(TextAddr(n))
    BY <1>1 DEF Read32
  <2>6. Loadable' = Loadable
        /\ \A n, v : LoadedWord(file, n, v)' = LoadedWord(file, n, v)
    BY <1>1 DEF Loadable, LoadedWord
  <2> QED  BY <1>1, <2>1, <2>3, <2>4, <2>5, <2>6 DEF TextOK
<1>3. CASE ~files[file + 1].exists
  <2>1. at' = "failed"
    BY <1>1, <1>3 DEF Open
  <2> QED  BY <1>1, <2>1, TextKept
<1> QED  BY <1>2, <1>3

\* One more word of the file: it goes to its place, and to no other.
LEMMA TextLoad ==
  ASSUME AlignedUse, TextLoads, UseOK, MemTypeOK, FilesOK, TextOK, LoadWord
  PROVE  TextOK'
<1> DEFINE all == files[file + 1].items
           a   == (MEM_TEXT_START + ii) % AddrSize
<1>1. /\ at = "load" /\ at' = "load" /\ UNCHANGED <<files, file, stores>>
      /\ file < Len(files) /\ Len(files) \in Nat /\ file \in Nat
  BY DEF LoadWord, FilesOK, UseOK
<1>2. SUFFICES ASSUME stores = 0, Loadable, NEW n \in TextWords
               PROVE  IF n <= Done'
                      THEN Read32(TextAddr(n))' = all[n]
                      ELSE LoadedWord(file, n, Read32(TextAddr(n))')
  <2>1. Loadable' = Loadable
        /\ \A n, v : LoadedWord(file, n, v)' <=> LoadedWord(file, n, v')
    BY <1>1 DEF Loadable, LoadedWord
  <2>2. stores' = stores /\ at' = "load" /\ files'[file' + 1].items = all
    BY <1>1
  <2>3. \A n \in TextWords :
          LoadedWord(file, n, Read32(TextAddr(n)))' <=>
            LoadedWord(file, n, Read32(TextAddr(n))')
    BY <1>1 DEF LoadedWord
  <2> QED  BY <1>1, <2>1, <2>2, <2>3 DEF TextOK
<1>3. /\ items \in Seq(Word \union {Junk}) /\ items # <<>>
      /\ Len(items) \in Nat \ {0}
  BY NotEmpty DEF LoadWord, Ended, UseOK
<1>4. /\ all \in Seq(Word \union {Junk}) /\ Len(all) \in Nat
      /\ file + 1 \in DOMAIN files
  <2>1. file + 1 \in 1 .. Len(files) /\ file + 1 \in DOMAIN files
    BY <1>1 DEF UseOK
  <2> QED  BY <2>1, FileTypes
<1>5. /\ Done = Len(all) - Len(items) /\ Done \in Nat
      /\ Head(items) = all[Done + 1] /\ ii = 4 * Done
      /\ Done + 1 \in DOMAIN all
  BY <1>1, <1>2, <1>3, <1>4 DEF FilesOK, Done
<1>6. Head(items) # Junk
  BY <1>2, <1>4, <1>5 DEF Loadable
<1>7. /\ scanned' = Head(items) /\ items' = Tail(items)
      /\ Head(items) \in Word /\ Done' = Done + 1
  <2>1. scanned' = Head(items) /\ items' = Tail(items)
        /\ Head(items) \in Word \union {Junk} /\ Len(items') = Len(items) - 1
    BY <1>3, <1>6 DEF LoadWord, ReadsNumber
  <2> QED  BY <1>1, <1>3, <1>4, <1>5, <1>6, <2>1 DEF Done
<1>8. mem_write_32(a, all[Done + 1]) /\ all[Done + 1] \in Word
  BY <1>5, <1>7 DEF LoadWord
<1>9. /\ n \in Nat \ {0} /\ MEM_TEXT_START \in Nat
      /\ TextAddr(n) \in Nat /\ TextAddr(n) < AddrSize
      /\ TextAddr(n) \in Access /\ Found(TextAddr(n))
  BY TextPlace
<1>10. ii \in Nat /\ ii % 4 = 0 /\ ii < AddrSize
  <2>1. 4 * Len(all) <= AddrSize
    BY <1>4 DEF FilesOK, TextLoads
  <2> HIDE DEF all
  <2>2. Done < Len(all)
    BY <1>3, <1>4, <1>5
  <2> QED  BY <1>4, <1>5, <2>1, <2>2, AddrSizeAssumption DEF UseOK
<1> HIDE DEF all
<1>11. a \in Access /\ (a = TextAddr(n) <=> n = Done + 1)
  <2>1. MEM_TEXT_START \in 0 .. AddrSize - 1 /\ MEM_TEXT_START % 4 = 0
    BY DEF AlignedUse
  <2>2. MEM_TEXT_START + ii \in Nat /\ (MEM_TEXT_START + ii) % 4 = 0
    BY <1>10, <2>1
  <2>3. CASE MEM_TEXT_START + ii < AddrSize
    <3>1. a = MEM_TEXT_START + ii
      BY <2>2, <2>3, SmallMod, AddrSizeAssumption
    <3> HIDE DEF a
    <3>2. a = TextAddr(n) <=> n = Done + 1
      <4>1. TextAddr(n) = MEM_TEXT_START + 4 * (n - 1)
        BY DEF TextAddr
      <4>2. a = TextAddr(n) <=> 4 * Done = 4 * (n - 1)
        BY <1>5, <1>9, <3>1, <4>1
      <4> QED  BY <1>5, <1>9, <4>2
    <3> QED  BY <2>2, <3>2, AlignedMod DEF a
  <2>4. CASE ~(MEM_TEXT_START + ii < AddrSize)
    <3>1. a = MEM_TEXT_START + ii - AddrSize
      BY <1>10, <2>1, <2>4, AddrSizeAssumption
    <3> HIDE DEF a
    <3>2. a # TextAddr(n) /\ n # Done + 1
      BY <1>5, <1>9, <1>10, <2>1, <2>4, <3>1, AddrSizeAssumption DEF TextAddr
    <3> QED  BY <2>2, <3>2, AlignedMod DEF a
  <2> QED  BY <2>3, <2>4
<1> HIDE DEF a
<1>12. Read32(TextAddr(n))' =
         IF a = TextAddr(n) THEN all[Done + 1] ELSE Read32(TextAddr(n))
  BY <1>8, <1>9, <1>11, ReadAfterWrite
<1>13. IF n <= Done THEN Read32(TextAddr(n)) = all[n]
       ELSE LoadedWord(file, n, Read32(TextAddr(n)))
  BY <1>1, <1>2 DEF TextOK, all
<1>14. CASE n = Done + 1
  BY <1>5, <1>7, <1>11, <1>12, <1>14
<1>15. CASE n # Done + 1
  <2>1. n <= Done' <=> n <= Done
    BY <1>5, <1>7, <1>9, <1>15
  <2> QED  BY <1>11, <1>12, <1>13, <1>15, <2>1
<1> QED  BY <1>14, <1>15

LEMMA TextLoaded ==
  ASSUME UseOK, FilesOK, TextOK, LoadEnd
  PROVE  TextOK'
<1> DEFINE all == files[file + 1].items
<1>1. /\ at = "load" /\ at' = "open" /\ file' = file + 1
      /\ UNCHANGED <<mem, files, stores>> /\ items = <<>>
      /\ file < Len(files) /\ Len(files) \in Nat /\ file \in Nat
  BY DEF LoadEnd, Ended, memVars, FilesOK, UseOK
<1>2. Len(all) \in Nat
  BY <1>1, FileTypes
<1>3. Done = Len(all)
  BY <1>1, <1>2 DEF Done
<1>4. Loadable' = Loadable
      /\ \A n \in TextWords : Read32(TextAddr(n))' = Read32(TextAddr(n))
  BY <1>1 DEF Loadable, Read32
<1>5. ASSUME stores = 0, Loadable, NEW n \in TextWords
      PROVE  LoadedWord(file + 1, n, Read32(TextAddr(n)))
  <2>1. n \in Nat
    BY DEF TextWords
  <2>2. CASE n <= Len(all)
    <3>1. Read32(TextAddr(n)) = all[n]
      BY <1>1, <1>3, <1>5, <2>2 DEF TextOK
    <3>2. file + 1 \in 1 .. file + 1 /\ (file + 1) + 1 .. file + 1 = {}
      BY <1>1
    <3> QED  BY <2>2, <3>1, <3>2 DEF LoadedWord
  <2>3. CASE ~(n <= Len(all))
    <3>1. LoadedWord(file, n, Read32(TextAddr(n)))
      BY <1>1, <1>3, <1>5, <2>3 DEF TextOK
    <3>2. Len(all) < n
      BY <1>2, <2>1, <2>3
    <3>3. /\ \A g \in 1 .. file + 1 : g \in 1 .. file \/ g = file + 1
          /\ \A f \in 1 .. file : /\ f \in 1 .. file + 1
                                  /\ \A g \in f + 1 .. file + 1 :
                                       g \in f + 1 .. file \/ g = file + 1
      BY <1>1
    <3> HIDE DEF all
    <3>4. CASE /\ \A f \in 1 .. file : Len(files[f].items) < n
               /\ Read32(TextAddr(n)) = 0
      BY <3>2, <3>3, <3>4 DEF LoadedWord, all
    <3>5. CASE \E f \in 1 .. file :
                 /\ n <= Len(files[f].items)
                 /\ \A g \in f + 1 .. file : Len(files[g].items) < n
                 /\ Read32(TextAddr(n)) = files[f].items[n]
      BY <3>2, <3>3, <3>5 DEF LoadedWord, all
    <3> QED  BY <3>1, <3>4, <3>5 DEF LoadedWord
  <2> QED  BY <2>2, <2>3
<1>6. \A n \in TextWords :
        LoadedWord(file, n, Read32(TextAddr(n)))' <=>
          LoadedWord(file + 1, n, Read32(TextAddr(n)))
  BY <1>1, <1>4 DEF LoadedWord
<1> QED  BY <1>1, <1>4, <1>5, <1>6 DEF TextOK

LEMMA TextStep ==
  /\ AlignedUse /\ TextLoads /\ UseOK /\ MemTypeOK /\ FilesOK /\ TextOK
  /\ [Next]_mainVars
  => TextOK'
<1> SUFFICES ASSUME AlignedUse, TextLoads, UseOK, MemTypeOK, FilesOK, TextOK,
                    [Next]_mainVars
             PROVE  TextOK'
  OBVIOUS
<1>1. CASE OpenDumpsim
  BY <1>1, TextKept DEF OpenDumpsim, memVars, loadVars
<1>2. CASE ReadLine
  BY <1>2, TextKept
  DEF ReadLine, LineNext, Prompt, ReadChar, ReadEOF, ReadNewline, SplitWord,
      SplitEnd, AllocFails, memVars, loadVars
<1>3. CASE ExecuteNothing \/ ExecuteQuit \/ ExecuteSimulation
           \/ ExecuteMdump \/ DumpAgain \/ DumpEnd
  BY <1>3, TextKept
  DEF ExecuteNothing, ExecuteQuit, ExecuteSimulation, ExecuteMdump, DumpAgain,
      DumpEnd, memVars, loadVars
<1>4. CASE DumpWord
  BY <1>4, TextKept DEF DumpWord, mem_read_32, loadVars
<1>5. CASE Simulate
  <2>1. CASE stores' = stores + 1
    BY <2>1 DEF FilesOK, TextOK
  <2>2. CASE stores' # stores + 1
    BY <1>5, <2>2, TextKept DEF Simulate, mem_read_32, memVars, loadVars
  <2> QED  BY <2>1, <2>2
<1>6. CASE UNCHANGED mainVars
  BY <1>6 DEF mainVars, TextOK, Done, Loadable, LoadedWord, Read32
<1> QED
  BY <1>1, <1>2, <1>3, <1>4, <1>5, <1>6, TextOpen, TextLoad, TextLoaded
  DEF Next

LEMMA TextInit == TextLoads /\ AlignedUse /\ Init => TextOK
<1> SUFFICES ASSUME AlignedUse, TextLoads, Init PROVE TextOK
  OBVIOUS
<1>1. at = "open" /\ file = 0
  BY DEF Init
<1>2. ASSUME NEW n \in TextWords PROVE Read32(TextAddr(n)) = 0
  <2>1. TextAddr(n) \in MappedWords
    BY TextPlace, FoundIsMapped
  <2>2. [b \in MappedWords |-> Read32(b)] = [b \in MappedWords |-> 0]
    BY MemInit DEF Init, WM!Init
  <2> QED  BY <2>1, <2>2
<1> QED  BY <1>1, <1>2 DEF TextOK, LoadedWord

LEMMA TextIsOverlay ==
  UseOK /\ FilesOK /\ TextOK => LastFileWins
<1> SUFFICES ASSUME UseOK, FilesOK, TextOK,
                    at \notin {"open", "load", "failed"}, stores = 0, Loadable,
                    NEW n \in TextWords
             PROVE  Read32(TextAddr(n)) = Overlay(n)
  BY DEF LastFileWins, TextWords, TextAddr
<1> DEFINE have == {f \in DOMAIN files : n <= Len(files[f].items)}
           v    == Read32(TextAddr(n))
<1>1. /\ file = Len(files) /\ Len(files) \in Nat /\ DOMAIN files = 1 .. file
      /\ n \in Nat /\ LoadedWord(file, n, v)
  BY DEF FilesOK, UseOK, TextOK, TextWords
<1>2. \A f \in 1 .. file : Len(files[f].items) \in Nat
  BY <1>1, FileTypes
<1> HIDE DEF v
<1>3. CASE /\ \A f \in 1 .. file : Len(files[f].items) < n
           /\ v = 0
  <2>1. have = {}
    BY <1>1, <1>2, <1>3
  <2> QED  BY <1>3, <2>1 DEF Overlay, v
<1>4. ASSUME NEW f \in 1 .. file,
             n <= Len(files[f].items),
             \A g \in f + 1 .. file : Len(files[g].items) < n,
             v = files[f].items[n]
      PROVE  v = Overlay(n)
  <2>1. f \in have /\ \A g \in have : g <= f
    BY <1>1, <1>2, <1>4
  <2>2. \A h \in have : (\A g \in have : g <= h) => h = f
    BY <1>1, <2>1
  <2>3. f = CHOOSE h \in have : \A g \in have : g <= h
    BY <2>1, <2>2
  <2>4. have # {}
    BY <2>1
  <2> QED  BY <1>4, <2>3, <2>4 DEF Overlay
<1> QED  BY <1>1, <1>3, <1>4 DEF LoadedWord, v

\* Whatever files are named, and however long each is, the text region holds
\* the words of the last file that has one at their place (shell.c:306-346):
\* no word is lost, moved or left of a file that a later one covers.
THEOREM LoadingCorrect ==
  ASSUME AlignedUse, TextLoads
  PROVE  Spec => []LastFileWins
<1>1. Init => MemTypeOK /\ LineOK /\ UseOK /\ FilesOK /\ TextOK
  BY MemInit, LineInitOK, UseInit, FilesInit, TextInit DEF Init
<1>2. MemTypeOK /\ LineOK /\ UseOK /\ FilesOK /\ TextOK /\ [Next]_mainVars =>
        MemTypeOK' /\ LineOK' /\ UseOK' /\ FilesOK' /\ TextOK'
  BY LineStep, UseStep, MemStep, FilesStep, TextStep
<1>3. UseOK /\ FilesOK /\ TextOK => LastFileWins
  BY TextIsOverlay
<1> QED  BY <1>1, <1>2, <1>3, PTL DEF Spec

\* What is left to load shrinks with every step: words of the file, files, or
\* the step from one to the next; it is over when all the files are loaded.
LoadingRunsDown ==
  [][Loadable /\ at \in {"open", "load"} =>
       \/ at = "open" /\ at' = "load" /\ file' = file
       \/ at = "load" /\ at' = "load" /\ file' = file
            /\ Len(items') = Len(items) - 1
       \/ at = "load" /\ at' = "open" /\ file' = file + 1
            /\ file' <= Len(files)
       \/ at = "open" /\ at' \in {"prompt", "failed"}
            /\ file = Len(files)]_mainVars

\* A file of numbers is loaded in as many steps as it has words and all files
\* are, where a token that is no number is read for ever (shell.c:306-346).
THEOREM LoadingGoesOn ==
  ASSUME TextLoads, AlignedUse
  PROVE  Spec => LoadingRunsDown
<1>1. Init => LineOK /\ UseOK /\ FilesOK
  BY LineInitOK, UseInit, FilesInit
<1>2. LineOK /\ UseOK /\ FilesOK /\ [Next]_mainVars =>
        LineOK' /\ UseOK' /\ FilesOK'
  BY LineStep, UseStep, FilesStep
<1> DEFINE Step ==
      \/ at = "open" /\ at' = "load" /\ file' = file
      \/ at = "load" /\ at' = "load" /\ file' = file
           /\ Len(items') = Len(items) - 1
      \/ at = "load" /\ at' = "open" /\ file' = file + 1
           /\ file' <= Len(files)
      \/ at = "open" /\ at' \in {"prompt", "failed"} /\ file = Len(files)
<1>3. ASSUME UseOK, FilesOK, Next, Loadable, at \in {"open", "load"}
      PROVE  Step
  <2>1. Open \/ LoadWord \/ LoadEnd \/ OpenDumpsim
    BY <1>3
    DEF Next, ReadLine, LineNext, Prompt, ReadChar, ReadEOF, ReadNewline,
        SplitWord, SplitEnd, AllocFails, ExecuteNothing, ExecuteQuit,
        ExecuteSimulation, ExecuteMdump, Simulate, DumpWord, DumpAgain,
        DumpEnd
  <2>2. /\ files \in Seq(ProgFile) /\ file \in Nat /\ Len(files) \in Nat
        /\ items \in Seq(Word \union {Junk})
    BY <1>3 DEF UseOK
  <2>3. CASE Open
    <3>1. file + 1 \in DOMAIN files
      BY <2>2, <2>3 DEF Open
    <3>2. files[file + 1].exists
      BY <1>3, <3>1 DEF Loadable
    <3> QED  BY <2>3, <3>2 DEF Open
  <2>4. CASE LoadWord
    <3> DEFINE all == files[file + 1].items
    <3>1. /\ at = "load" /\ at' = "load" /\ file' = file /\ items # <<>>
          /\ file < Len(files)
      BY <1>3, <2>4 DEF LoadWord, Ended, FilesOK
    <3>2. file + 1 \in DOMAIN files /\ file + 1 \in 1 .. Len(files)
      BY <2>2, <3>1
    <3>3. all \in Seq(Word \union {Junk}) /\ Len(all) \in Nat
      BY <1>3, <3>2, FileTypes
    <3>4. Len(items) \in Nat \ {0}
      BY <2>2, <3>1, NotEmpty
    <3>5. Done = Len(all) - Len(items) /\ Done \in Nat
          /\ \A k \in 1 .. Len(items) : items[k] = all[Done + k]
      BY <1>3, <3>1 DEF FilesOK, Done
    <3>6. \A k \in DOMAIN all : all[k] # Junk
      BY <1>3, <3>2 DEF Loadable
    <3> HIDE DEF all
    <3>7. items[1] = all[Done + 1] /\ Done + 1 \in DOMAIN all
      BY <3>3, <3>4, <3>5
    <3>8. Head(items) # Junk
      BY <3>6, <3>7, <2>2, <3>4
    <3>9. items' = Tail(items)
      BY <2>4, <3>1, <3>8 DEF LoadWord, ReadsNumber
    <3> QED  BY <2>2, <3>1, <3>4, <3>9
  <2>5. CASE LoadEnd
    BY <1>3, <2>2, <2>5 DEF LoadEnd, FilesOK
  <2>6. CASE OpenDumpsim
    BY <2>6 DEF OpenDumpsim
  <2> QED  BY <2>1, <2>3, <2>4, <2>5, <2>6
<1>4. UseOK /\ FilesOK /\ [Next]_mainVars =>
        [Loadable /\ at \in {"open", "load"} => Step]_mainVars
  BY <1>3
<1> QED  BY <1>1, <1>2, <1>4, PTL DEF Spec, LoadingRunsDown
=============================================================================
