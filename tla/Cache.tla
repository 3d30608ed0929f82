------------------------------- MODULE Cache -------------------------------
(***************************************************************************)
(* The cache simulator of lab5/memory.cpp: a write-through cache in front  *)
(* of a main memory, in the three organizations it can be given.  One step *)
(* is one call of Memory::getData or Memory::putData.                      *)
(***************************************************************************)
EXTENDS Integers, FiniteSets, FiniteSetsExt

CONSTANTS
  Addr,               \* the addresses the program uses
  Value,              \* the words it stores
  WORDS_PER_BLOCK, BLOCKS_IN_MEMORY, BLOCKS_IN_CACHE, NUM_OF_SET,
  CounterSize,        \* how many values an unsigned int has
  Tag,                \* what a tag may hold
  InitTag,            \* and what it may hold that was never set
  InitData            \* what memory may hold that was never written

ASSUME AddrAssumption == Addr \subseteq Nat
ASSUME SizeAssumption ==
  /\ WORDS_PER_BLOCK \in Nat \ {0} /\ BLOCKS_IN_MEMORY \in Nat \ {0}
  /\ BLOCKS_IN_CACHE \in Nat \ {0} /\ NUM_OF_SET \in Nat \ {0}
  /\ CounterSize \in Nat \ {0}

DIRECT == 0
FULLY  == 1
TWOWAY == 2

Slot   == 0 .. BLOCKS_IN_CACHE - 1
Offset == 0 .. WORDS_PER_BLOCK - 1
MemIdx == 0 .. BLOCKS_IN_MEMORY - 1
Tick   == 0 .. CounterSize - 1

ASSUME TagAssumption == Tag \subseteq Nat /\ InitTag \subseteq Tag
ASSUME InitDataAssumption == InitData \subseteq [MemIdx -> [Offset -> Value]]

VARIABLES
  cache_org,   \* the organization chosen
  cblocks,     \* Cache::cblocks
  blocks,      \* MainMem::blocks, their data
  counter,     \* counts the accesses, for LRU
  clockX,      \* simulated time
  numMisses,
  data         \* what the last getData returned

vars == <<cache_org, cblocks, blocks, counter, clockX, numMisses, data>>

Block == [tag : Tag, data : [Offset -> Value], last_used : Tick,
          valid : BOOLEAN]

-----------------------------------------------------------------------------
(* Addresses.                                                              *)

offset(a) == a % WORDS_PER_BLOCK

\* Variant: the address is not shifted.
block_NoShift(a) == a

block(a)  == a \div WORDS_PER_BLOCK
mem_idx(a) == block(a) % BLOCKS_IN_MEMORY

\* The blocks of the cache an address may be in, and the tag it has there.
slots(a) ==
  CASE cache_org = DIRECT -> {block(a) % BLOCKS_IN_CACHE}
    [] cache_org = FULLY  -> Slot
    [] cache_org = TWOWAY -> {i \in Slot : i % NUM_OF_SET = block(a) % NUM_OF_SET}

tag(a) ==
  IF cache_org = DIRECT THEN block(a) \div BLOCKS_IN_CACHE ELSE block(a)

-----------------------------------------------------------------------------
(* Looking up and replacing.                                               *)

\* Only the direct mapped cache looks at `valid'.
Matches(i, a) ==
  /\ cblocks[i].tag = tag(a)
  /\ cache_org = DIRECT => cblocks[i].valid

found(a) == \E i \in slots(a) : Matches(i, a)

hit(a) == Min({i \in slots(a) : Matches(i, a)})

\* The int difference of the unsigned counter and an int.
Age(tick, i) ==
  LET diff == (tick - cblocks[i].last_used) % CounterSize
  IN  IF 2 * diff < CounterSize THEN diff ELSE diff - CounterSize

\* add_block_fully and add_block_twoway: the first block that is not valid,
\* else the first of those unused for longest, if any age is positive.
victim(tick, ways) ==
  LET empty  == {i \in ways : ~cblocks[i].valid}
      aged   == {i \in ways : Age(tick, i) > 0}
      oldest == {i \in aged : \A j \in aged : Age(tick, j) <= Age(tick, i)}
  IN  CASE empty # {}                -> Min(empty)
        [] empty = {} /\ aged # {}   -> Min(oldest)
        [] empty = {} /\ aged = {}   -> 0

index(tick, a) ==
  IF cache_org = DIRECT THEN block(a) % BLOCKS_IN_CACHE
                        ELSE victim(tick, slots(a))

\* The block that goes into the cache on a miss.  The direct mapped cache
\* leaves last_used as it is in main memory: zero.
Filled(tick, a, words) ==
  [tag |-> tag(a), data |-> words, valid |-> TRUE,
   last_used |-> IF cache_org = DIRECT THEN 0 ELSE tick]

\* Variant: a hit does not count as a use.
Touched_Never(i, tick) == cblocks[i].last_used

Touched(i, tick) ==
  IF cache_org = DIRECT THEN cblocks[i].last_used ELSE tick

-----------------------------------------------------------------------------
\* Neither tag nor data has an initial value.
InitWords == {b[i] : b \in InitData, i \in MemIdx}

InitBlock == [tag : InitTag, data : InitWords, last_used : {0},
              valid : {FALSE}]

Init ==
  /\ cache_org \in {DIRECT, FULLY, TWOWAY}
  /\ blocks \in InitData
  /\ cblocks \in [Slot -> InitBlock]
  /\ counter = 0 /\ clockX = 0 /\ numMisses = 0
  /\ data \in Value

Count == counter' = (counter + 1) % CounterSize

getHit(a) ==
  LET i == hit(a) IN
  /\ found(a)
  /\ Count
  /\ cblocks' = [cblocks EXCEPT ![i].last_used = Touched(i, counter')]
  /\ data' = cblocks[i].data[offset(a)]
  /\ clockX' = clockX + 2
  /\ UNCHANGED <<cache_org, blocks, numMisses>>

getMiss(a) ==
  LET words == blocks[mem_idx(a)] IN
  /\ ~found(a)
  /\ Count
  /\ cblocks' = [cblocks EXCEPT ![index(counter', a)] =
                   Filled(counter', a, words)]
  /\ data' = words[offset(a)]
  /\ clockX' = clockX + 102
  /\ numMisses' = numMisses + 1
  /\ UNCHANGED <<cache_org, blocks>>

\* Variant: a store that hits goes to main memory only.
Updated_Around(i, a, v) == cblocks[i].data

Updated(i, a, v) == [cblocks[i].data EXCEPT ![offset(a)] = v]

\* Write-through: a store goes to main memory in any case.
putHit(a, v) ==
  LET i == hit(a) IN
  /\ found(a)
  /\ Count
  /\ cblocks' = [cblocks EXCEPT ![i].data = Updated(i, a, v),
                                ![i].last_used = Touched(i, counter')]
  /\ blocks' = [blocks EXCEPT ![mem_idx(a)][offset(a)] = v]
  /\ clockX' = clockX + 102
  /\ UNCHANGED <<cache_org, numMisses, data>>

\* Variant: the block is read before it is written.
ReadBack_First(a) == blocks[mem_idx(a)]

ReadBack(a) == blocks'[mem_idx(a)]

\* Variant: reading the block back takes no time.
StoreTime_FreeRead == 102

\* Two accesses to main memory and one to the cache.
StoreTime == 202

\* Write to main memory, then read the block back into the cache.
putMiss(a, v) ==
  /\ ~found(a)
  /\ Count
  /\ blocks' = [blocks EXCEPT ![mem_idx(a)][offset(a)] = v]
  /\ cblocks' = [cblocks EXCEPT ![index(counter', a)] =
                   Filled(counter', a, ReadBack(a))]
  /\ clockX' = clockX + StoreTime
  /\ numMisses' = numMisses + 1
  /\ UNCHANGED <<cache_org, data>>

getData(a)    == getHit(a) \/ getMiss(a)
putData(a, v) == putHit(a, v) \/ putMiss(a, v)

Access == \E a \in Addr : getData(a) \/ \E v \in Value : putData(a, v)

\* The drivers go through the organizations in the order of the enum, with
\* the same Memory, and reset the clock and the misses.
SetOrg ==
  /\ cache_org < TWOWAY
  /\ cache_org' = cache_org + 1
  /\ clockX' = 0 /\ numMisses' = 0
  /\ UNCHANGED <<cblocks, blocks, counter, data>>
=============================================================================
