---------------------------- MODULE CacheMemory ----------------------------
(***************************************************************************)
(* The cache against the memory it stands for, and against an ideal        *)
(* replacement that keeps in every set what was used last.                 *)
(*                                                                         *)
(* Two history variables: when each block of memory was last used, and how *)
(* many stores there were since the clock was reset.                       *)
(***************************************************************************)
EXTENDS Cache

CONSTANTS
  Orgs,          \* the organizations a program may choose
  MaxAccesses,   \* the accesses a run explores,
  MaxPuts        \* and how many of them may be stores

ASSUME OrgsAssumption == Orgs \subseteq {DIRECT, FULLY, TWOWAY}

VARIABLES lastUse, gets, puts

hvars == <<cache_org, cblocks, blocks, counter, clockX, numMisses, data,
           lastUse, gets, puts>>

BlockNo == {block(a) : a \in Addr}

HInit ==
  /\ Init /\ cache_org \in Orgs
  /\ lastUse = [b \in BlockNo |-> 0]
  /\ gets = 0 /\ puts = 0

Used(a) == lastUse' = [lastUse EXCEPT ![block(a)] = gets + puts + 1]

\* The accesses of a program that stays with one organization.
HNext ==
  /\ gets + puts < MaxAccesses
  /\ \E a \in Addr :
       /\ Used(a)
       /\ \/ getData(a) /\ gets' = gets + 1 /\ puts' = puts
          \/ /\ puts < MaxPuts
             /\ \E v \in Value : putData(a, v)
             /\ puts' = puts + 1 /\ gets' = gets

HSpec == HInit /\ [][HNext]_hvars

-----------------------------------------------------------------------------
TypeOK ==
  /\ cache_org \in {DIRECT, FULLY, TWOWAY}
  /\ cblocks \in [Slot -> Block]
  /\ blocks \in [MemIdx -> [Offset -> Value]]
  /\ counter \in Tick
  /\ clockX \in Nat /\ numMisses \in Nat
  /\ data \in Value

AM == INSTANCE AtomicMemory WITH
        store <- [a \in Addr |-> blocks[mem_idx(a)][offset(a)]]

\* Behind the cache a program sees a memory: a load returns what was stored
\* last at its address, hit or miss, and nothing else changes ("Get data at
\* address using fully associative cache", memory.cpp:203).
ImplementsMemory == AM!Init /\ [][AM!Next]_(AM!amVars)

\* The block address show_cache_* prints for slot i: what it holds.
BlockAt(i) ==
  IF cache_org = DIRECT THEN cblocks[i].tag * BLOCKS_IN_CACHE + i
                        ELSE cblocks[i].tag

\* A valid block is where a lookup finds it, there is no other copy of it,
\* and it equals main memory: no store is ever missed by a copy.
Coherent ==
  \A i \in Slot : cblocks[i].valid =>
    /\ \A a \in Addr : block(a) = BlockAt(i) =>
         /\ {j \in slots(a) : Matches(j, a)} = {i}
         /\ cblocks[i].data = blocks[mem_idx(a)]

\* The blocks that compete with b for room, and how much room there is.
Rivals(b) ==
  CASE cache_org = DIRECT ->
         {c \in BlockNo : c % BLOCKS_IN_CACHE = b % BLOCKS_IN_CACHE}
    [] cache_org = FULLY  -> BlockNo
    [] cache_org = TWOWAY ->
         {c \in BlockNo : c % NUM_OF_SET = b % NUM_OF_SET}

Ways ==
  CASE cache_org = DIRECT -> 1
    [] cache_org = FULLY  -> BLOCKS_IN_CACHE
    [] cache_org = TWOWAY -> BLOCKS_IN_CACHE \div NUM_OF_SET

\* Replacement is LRU: in every set the cache holds exactly the blocks used
\* last ("evict least recently used block in cache", memory.cpp:122).
KeepsMostRecent ==
  {BlockAt(i) : i \in {j \in Slot : cblocks[j].valid}} =
    {b \in BlockNo :
       /\ lastUse[b] > 0
       /\ Cardinality({c \in Rivals(b) : lastUse[c] > lastUse[b]}) < Ways}

\* The clock the drivers print is 2 for each access to the cache and 100 for
\* each to main memory: one for a miss, and one for a store, hit or miss.
TimeAccounted == clockX = 2 * (gets + puts) + 100 * (numMisses + puts)
=============================================================================
