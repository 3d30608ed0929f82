----------------------------- MODULE CacheProof -----------------------------
(***************************************************************************)
(* Behind the cache a program sees a memory: the proof, for every size of  *)
(* blocks, sets, cache and memory and for each organization.               *)
(***************************************************************************)
EXTENDS CacheMemory, FiniteSetTheorems, WellFoundedInduction, TLAPS

\* What the proof needs of the constants, and the code has for the programs
\* it runs: the memory covers the addresses used (memory.cpp:88 keeps nine
\* bits of an address, its tag all of them), no tag that was never set looks
\* like one of theirs, the ages of add_block_* do not overflow an int, and
\* no set is empty.
SoundUse ==
  /\ \A a \in Addr : block(a) < BLOCKS_IN_MEMORY
  /\ \A a \in Addr : {block(a), block(a) \div BLOCKS_IN_CACHE} \subseteq Tag
  /\ \A a \in Addr : block(a) \notin InitTag
  /\ MaxAccesses \in Nat /\ 2 * (MaxAccesses + 1) < CounterSize
  /\ NUM_OF_SET <= BLOCKS_IN_CACHE

\* What it needs besides to count the blocks of a set: all sets are of one
\* size (8 blocks in 4 sets, memory.hh:29-30).
EvenSets == BLOCKS_IN_CACHE % NUM_OF_SET = 0

-----------------------------------------------------------------------------
(* Numbers.                                                                *)

LEMMA DivMod ==
  ASSUME NEW n \in Nat \ {0}, NEW x \in Nat
  PROVE  /\ x \div n \in Nat
         /\ x % n \in 0 .. n - 1
         /\ x = (x \div n) * n + (x % n)
  OBVIOUS

LEMMA DivModInverse ==
  ASSUME NEW n \in Nat \ {0}, NEW q \in Nat, NEW r \in 0 .. n - 1
  PROVE  (q * n + r) \div n = q /\ (q * n + r) % n = r
  OBVIOUS

LEMMA MinInSet ==
  ASSUME NEW S, S \subseteq Nat, S # {}
  PROVE  Min(S) \in S /\ \A y \in S : Min(S) <= y
<1>1. PICK x \in S : \A y \in S : ~ (<<y, x>> \in OpToRel(<, Nat))
  BY NatLessThanWellFounded, WFMin
<1>2. \A y \in S : x <= y
  <2> SUFFICES ASSUME NEW y \in S PROVE x <= y
    OBVIOUS
  <2>1. ~ (y < x)
    BY <1>1 DEF OpToRel
  <2> QED  BY <2>1
<1> QED  BY <1>2 DEF Min

-----------------------------------------------------------------------------
(* Addresses.                                                              *)

LEMMA AddrFacts ==
  ASSUME SoundUse, NEW a \in Addr
  PROVE  /\ a \in Nat /\ block(a) \in Nat
         /\ offset(a) \in Offset
         /\ mem_idx(a) = block(a) /\ mem_idx(a) \in MemIdx
         /\ block(a) \in Tag /\ block(a) \div BLOCKS_IN_CACHE \in Tag
<1>1. a \in Nat
  BY AddrAssumption
<1>2. block(a) \in Nat /\ offset(a) \in Offset
  BY <1>1, SizeAssumption, DivMod DEF block, offset, Offset
<1>3. block(a) < BLOCKS_IN_MEMORY
  BY DEF SoundUse
<1>4. mem_idx(a) = block(a)
  BY <1>2, <1>3, SizeAssumption DEF mem_idx
<1> QED  BY <1>1, <1>2, <1>3, <1>4, SizeAssumption DEF SoundUse, MemIdx

\* Two addresses with one block and one offset are the same.
LEMMA AddrInjective ==
  ASSUME SoundUse, NEW a \in Addr, NEW b \in Addr,
         mem_idx(a) = mem_idx(b), offset(a) = offset(b)
  PROVE  a = b
<1>1. a \in Nat /\ b \in Nat /\ WORDS_PER_BLOCK \in Nat \ {0}
  BY AddrAssumption, SizeAssumption
<1>2. block(a) = block(b)
  BY AddrFacts
<1> QED  BY <1>1, <1>2, DivMod DEF block, offset

\* Slot and tag together say which block it is.
LEMMA SlotAndTag ==
  ASSUME SoundUse, cache_org \in {DIRECT, FULLY, TWOWAY},
         NEW a \in Addr, NEW i \in Slot, NEW t \in Nat
  PROVE  /\ cache_org = DIRECT =>
              (i \in slots(a) /\ t = tag(a) <=>
                 t * BLOCKS_IN_CACHE + i = block(a))
         /\ cache_org # DIRECT => (t = tag(a) <=> t = block(a))
<1>1. CASE cache_org = DIRECT
  <2>1. block(a) \in Nat /\ BLOCKS_IN_CACHE \in Nat \ {0}
    BY AddrFacts, SizeAssumption
  <2>2. slots(a) = {block(a) % BLOCKS_IN_CACHE}
    BY <1>1 DEF slots, DIRECT, FULLY, TWOWAY
  <2>3. tag(a) = block(a) \div BLOCKS_IN_CACHE
    BY <1>1 DEF tag
  <2>4. ASSUME i \in slots(a), t = tag(a)
        PROVE  t * BLOCKS_IN_CACHE + i = block(a)
    <3>1. block(a) = (block(a) \div BLOCKS_IN_CACHE) * BLOCKS_IN_CACHE
                     + (block(a) % BLOCKS_IN_CACHE)
      BY <2>1, DivMod
    <3>2. i = block(a) % BLOCKS_IN_CACHE /\ t = block(a) \div BLOCKS_IN_CACHE
      BY <2>2, <2>3, <2>4
    <3> QED  BY <3>1, <3>2
  <2>5. ASSUME t * BLOCKS_IN_CACHE + i = block(a)
        PROVE  i \in slots(a) /\ t = tag(a)
    <3>1. /\ block(a) \div BLOCKS_IN_CACHE = t
          /\ block(a) % BLOCKS_IN_CACHE = i
      BY <2>1, <2>5, DivModInverse DEF Slot
    <3> QED  BY <3>1, <2>2, <2>3
  <2> QED  BY <1>1, <2>4, <2>5
<1>2. CASE cache_org # DIRECT
  BY <1>2 DEF tag
<1> QED  BY <1>1, <1>2

-----------------------------------------------------------------------------
(* The inductive invariant.  Whatever its `valid' says, a slot that a      *)
(* lookup stops at holds the block looked for, as main memory has it; a    *)
(* block that is in the cache is where a lookup stops, and nowhere else.   *)

Held(i, a) == i \in slots(a) /\ Matches(i, a)

HeldSound ==
  \A i \in Slot, a \in Addr : Held(i, a) =>
    /\ cblocks[i].valid
    /\ BlockAt(i) = block(a)
    /\ cblocks[i].data = blocks[mem_idx(a)]

HeldComplete ==
  \A i \in Slot, a \in Addr :
    cblocks[i].valid /\ BlockAt(i) = block(a) => Held(i, a)

HeldUnique ==
  \A i \in Slot, j \in Slot, a \in Addr :
    Held(i, a) /\ Held(j, a) => i = j

Counted ==
  /\ gets \in Nat /\ puts \in Nat
  /\ counter = gets + puts /\ counter <= MaxAccesses
  /\ \A i \in Slot : cblocks[i].last_used <= counter

CacheInv == TypeOK /\ Counted /\ HeldSound /\ HeldComplete /\ HeldUnique

LEMMA InvCoherent ==
  ASSUME SoundUse, CacheInv
  PROVE  Coherent
<1> SUFFICES ASSUME NEW i \in Slot, cblocks[i].valid,
                    NEW a \in Addr, block(a) = BlockAt(i)
             PROVE  /\ {j \in slots(a) : Matches(j, a)} = {i}
                    /\ cblocks[i].data = blocks[mem_idx(a)]
  BY DEF Coherent
<1>1. Held(i, a)
  BY DEF CacheInv, HeldComplete
<1>2. slots(a) \subseteq Slot
  BY <1>1 DEF CacheInv, TypeOK, slots, DIRECT, FULLY, TWOWAY, Held
<1> QED  BY <1>1, <1>2 DEF CacheInv, HeldSound, HeldUnique, Held

-----------------------------------------------------------------------------
(* Looking up and replacing.                                               *)

LEMMA SlotsFacts ==
  ASSUME SoundUse, TypeOK, NEW a \in Addr
  PROVE  slots(a) \subseteq Slot /\ slots(a) # {}
<1>1. block(a) \in Nat
  BY AddrFacts
<1>2. CASE cache_org = DIRECT
  <2>1. block(a) % BLOCKS_IN_CACHE \in Slot
    BY <1>1, SizeAssumption, DivMod DEF Slot
  <2> QED  BY <1>2, <2>1 DEF slots, DIRECT, FULLY, TWOWAY
<1>3. CASE cache_org = FULLY
  <2>1. 0 \in Slot
    BY SizeAssumption DEF Slot
  <2> QED  BY <1>3, <2>1 DEF slots, DIRECT, FULLY, TWOWAY
<1>4. CASE cache_org = TWOWAY
  <2>1. block(a) % NUM_OF_SET \in 0 .. NUM_OF_SET - 1
    BY <1>1, SizeAssumption, DivMod
  <2>2. block(a) % NUM_OF_SET \in Slot
    BY <2>1, SizeAssumption DEF Slot, SoundUse
  <2>3. (block(a) % NUM_OF_SET) % NUM_OF_SET = block(a) % NUM_OF_SET
    BY <2>1, SizeAssumption
  <2> QED  BY <1>4, <2>2, <2>3 DEF slots, DIRECT, FULLY, TWOWAY
<1> QED  BY <1>2, <1>3, <1>4 DEF TypeOK

\* A lookup that finds the block stops at a slot that holds it.
LEMMA HitHolds ==
  ASSUME SoundUse, TypeOK, NEW a \in Addr, found(a)
  PROVE  hit(a) \in Slot /\ Held(hit(a), a)
<1> DEFINE S == {i \in slots(a) : Matches(i, a)}
<1>1. S \subseteq Slot /\ S # {}
  BY SlotsFacts DEF found
<1>2. Min(S) \in S
  BY <1>1, MinInSet DEF Slot
<1> QED  BY <1>1, <1>2 DEF hit, Held

LEMMA AgeIsDifference ==
  ASSUME SoundUse, TypeOK, Counted, NEW i \in Slot
  PROVE  /\ cblocks[i].last_used \in Nat
         /\ Age(counter + 1, i) = counter + 1 - cblocks[i].last_used
         /\ Age(counter + 1, i) > 0
<1>1. cblocks[i].last_used \in 0 .. counter /\ counter \in Nat
  BY DEF TypeOK, Block, Tick, Counted
<1> DEFINE diff == counter + 1 - cblocks[i].last_used
<1>2. diff \in 1 .. MaxAccesses + 1 /\ CounterSize \in Nat
  BY <1>1, SizeAssumption DEF Counted, SoundUse
<1>3. diff % CounterSize = diff /\ 2 * diff < CounterSize
  BY <1>2 DEF SoundUse
<1> QED  BY <1>1, <1>2, <1>3 DEF Age

\* In a full set the block that makes room is the first of those unused for
\* longest (memory.cpp:105-140).
LEMMA VictimIsOldest ==
  ASSUME SoundUse, TypeOK, Counted, NEW a \in Addr,
         \A i \in slots(a) : cblocks[i].valid
  PROVE  /\ victim(counter + 1, slots(a)) \in slots(a)
         /\ \A j \in slots(a) :
              cblocks[victim(counter + 1, slots(a))].last_used
                <= cblocks[j].last_used
<1> DEFINE ways   == slots(a)
           tick   == counter + 1
           x      == victim(tick, ways)
           aged   == {i \in ways : Age(tick, i) > 0}
           oldest == {i \in aged : \A j \in aged : Age(tick, j) <= Age(tick, i)}
<1>1. ways \subseteq Slot /\ ways # {} /\ Slot \subseteq Nat
  BY SlotsFacts DEF Slot
<1>2. aged = ways
  BY <1>1, AgeIsDifference
<1>3. ASSUME NEW i \in ways, NEW j \in ways
      PROVE  /\ cblocks[i].last_used \in Nat
             /\ Age(tick, j) <= Age(tick, i) <=>
                  cblocks[i].last_used <= cblocks[j].last_used
  <2>1. /\ cblocks[i].last_used \in Nat
        /\ Age(counter + 1, i) = counter + 1 - cblocks[i].last_used
    BY <1>1, AgeIsDifference
  <2>2. /\ cblocks[j].last_used \in Nat
        /\ Age(counter + 1, j) = counter + 1 - cblocks[j].last_used
    BY <1>1, AgeIsDifference
  <2>3. counter \in Nat
    BY DEF Counted
  <2> QED  BY <2>1, <2>2, <2>3
<1>4. oldest # {}
  <2> DEFINE uses == {cblocks[i].last_used : i \in ways}
  <2>1. uses \subseteq Nat /\ uses # {}
    BY <1>1, <1>3
  <2>2. PICK i \in ways : \A j \in ways :
                            cblocks[i].last_used <= cblocks[j].last_used
    <3>1. Min(uses) \in uses /\ \A u \in uses : Min(uses) <= u
      BY <2>1, MinInSet
    <3> QED  BY <3>1
  <2> QED  BY <1>2, <1>3, <2>2
<1>5. Min(oldest) \in oldest
  BY <1>1, <1>4, MinInSet
<1>6. x = Min(oldest)
  BY <1>1, <1>2 DEF victim
<1>7. x \in ways /\ \A j \in ways : Age(tick, j) <= Age(tick, x)
  BY <1>2, <1>5, <1>6
<1> HIDE DEF x
<1>8. \A j \in ways : cblocks[x].last_used <= cblocks[j].last_used
  BY <1>3, <1>7
<1> QED  BY <1>7, <1>8 DEF x

\* The block that makes room is one of those the address may be in: that is
\* what the defaults of add_block_* (memory.cpp:106, :125) put at risk.  If
\* it is valid, its set is full and it is the oldest there.
LEMMA VictimInSet ==
  ASSUME SoundUse, TypeOK, Counted, NEW a \in Addr
  PROVE  LET x == index(counter + 1, a)
         IN  /\ x \in slots(a) /\ x \in Slot
             /\ cache_org # DIRECT /\ cblocks[x].valid =>
                  \A j \in slots(a) :
                    /\ cblocks[j].valid
                    /\ cblocks[x].last_used <= cblocks[j].last_used
<1> DEFINE ways   == slots(a)
           tick   == counter + 1
           empty  == {i \in ways : ~cblocks[i].valid}
<1>1. ways \subseteq Slot /\ ways # {} /\ Slot \subseteq Nat
  BY SlotsFacts DEF Slot
<1>2. CASE cache_org = DIRECT
  BY <1>1, <1>2 DEF index, slots, DIRECT, FULLY, TWOWAY
<1>3. CASE cache_org # DIRECT /\ empty # {}
  <2>1. Min(empty) \in empty
    BY <1>1, <1>3, MinInSet
  <2>2. index(tick, a) = Min(empty)
    BY <1>3 DEF index, victim
  <2> QED  BY <1>1, <2>1, <2>2
<1>4. CASE cache_org # DIRECT /\ empty = {}
  <2>1. index(tick, a) = victim(tick, ways)
    BY <1>4 DEF index
  <2> QED  BY <1>1, <1>4, <2>1, VictimIsOldest
<1> QED  BY <1>2, <1>3, <1>4

-----------------------------------------------------------------------------
(* Steps.                                                                  *)

LEMMA CountStep ==
  ASSUME SoundUse, Counted, gets + puts < MaxAccesses, Count
  PROVE  counter' = counter + 1 /\ counter' \in Tick
<1>1. counter + 1 \in 1 .. MaxAccesses /\ MaxAccesses < CounterSize
  BY SizeAssumption DEF SoundUse, Counted
<1> QED  BY <1>1, SizeAssumption DEF Count, Tick, SoundUse

\* A step that leaves tags and valid bits alone.
LEMMA SameTags ==
  ASSUME TypeOK, cache_org' = cache_org,
         \A i \in Slot : /\ cblocks'[i].tag = cblocks[i].tag
                        /\ cblocks'[i].valid = cblocks[i].valid
  PROVE  \A i \in Slot, a \in Addr :
           /\ Held(i, a)' <=> Held(i, a)
           /\ BlockAt(i)' = BlockAt(i)
<1> SUFFICES ASSUME NEW i \in Slot, NEW a \in Addr
             PROVE  /\ Held(i, a)' <=> Held(i, a)
                    /\ BlockAt(i)' = BlockAt(i)
  OBVIOUS
<1>1. slots(a)' = slots(a) /\ tag(a)' = tag(a)
  BY DEF slots, tag
<1>2. BlockAt(i)' = BlockAt(i)
  BY DEF BlockAt
<1> QED  BY <1>1, <1>2 DEF Held, Matches

LEMMA GetHitStep ==
  ASSUME SoundUse, CacheInv, NEW a \in Addr, getHit(a),
         gets + puts < MaxAccesses, gets' = gets + 1, puts' = puts
  PROVE  CacheInv' /\ data' = blocks[mem_idx(a)][offset(a)]
<1> DEFINE i == hit(a)
<1>1. i \in Slot /\ Held(i, a)
  BY HitHolds DEF CacheInv, getHit
<1>2. counter' = counter + 1 /\ counter' \in Tick
  BY CountStep DEF CacheInv, getHit
<1>3. cblocks' = [cblocks EXCEPT ![i].last_used = Touched(i, counter')]
  BY DEF getHit
<1>4. Touched(i, counter') \in Tick
  BY <1>1, <1>2 DEF Touched, CacheInv, TypeOK, Block
<1>5. /\ cblocks' \in [Slot -> Block]
      /\ \A j \in Slot : /\ cblocks'[j].tag = cblocks[j].tag
                         /\ cblocks'[j].valid = cblocks[j].valid
                         /\ cblocks'[j].data = cblocks[j].data
  BY <1>1, <1>3, <1>4 DEF CacheInv, TypeOK, Block
<1>6. data' = blocks[mem_idx(a)][offset(a)]
  BY <1>1 DEF getHit, CacheInv, HeldSound
<1>7. data' \in Value
  BY <1>6, AddrFacts DEF CacheInv, TypeOK
<1>8. TypeOK'
  BY <1>2, <1>5, <1>7 DEF getHit, CacheInv, TypeOK
<1>9. Counted'
  <2>1. \A j \in Slot : cblocks'[j].last_used <= counter'
    BY <1>1, <1>2, <1>3 DEF Touched, CacheInv, Counted, TypeOK, Block, Tick
  <2>2. MaxAccesses \in Nat
    BY DEF SoundUse
  <2> QED  BY <1>2, <2>1, <2>2 DEF CacheInv, Counted
<1>10. cache_org' = cache_org /\ blocks' = blocks
  BY DEF getHit
<1>11. \A j \in Slot, b \in Addr : /\ Held(j, b)' <=> Held(j, b)
                                   /\ BlockAt(j)' = BlockAt(j)
  BY <1>5, <1>10, SameTags DEF CacheInv
<1>12. HeldSound' /\ HeldComplete' /\ HeldUnique'
  BY <1>5, <1>10, <1>11 DEF CacheInv, HeldSound, HeldComplete, HeldUnique,
                           mem_idx, block
<1> QED  BY <1>6, <1>8, <1>9, <1>12 DEF CacheInv

\* A block filled into a slot it may be in, when no slot held it.
LEMMA FillStep ==
  ASSUME SoundUse, CacheInv, NEW a \in Addr, ~found(a),
         NEW x \in slots(a), cache_org' = cache_org,
         cblocks' = [cblocks EXCEPT ![x] =
                       Filled(counter', a, blocks'[mem_idx(a)])],
         \A m \in MemIdx : m # mem_idx(a) => blocks'[m] = blocks[m]
  PROVE  HeldSound' /\ HeldComplete' /\ HeldUnique'
<1>1. x \in Slot /\ tag(a) \in Nat
  BY SlotsFacts, AddrFacts, SizeAssumption, DivMod DEF CacheInv, tag
<1>2. /\ cblocks'[x].tag = tag(a) /\ cblocks'[x].valid
      /\ cblocks'[x].data = blocks'[mem_idx(a)]
      /\ \A j \in Slot : j # x => cblocks'[j] = cblocks[j]
  BY <1>1 DEF CacheInv, TypeOK, Filled
<1>3. \A b \in Addr : slots(b)' = slots(b) /\ tag(b)' = tag(b)
  BY DEF slots, tag
<1>4. \A j \in Slot, b \in Addr :
        j # x => (Held(j, b)' <=> Held(j, b)) /\ BlockAt(j)' = BlockAt(j)
  BY <1>2, <1>3 DEF Held, Matches, BlockAt
<1>5. BlockAt(x)' = block(a)
  BY <1>1, <1>2, SlotAndTag DEF BlockAt, CacheInv, TypeOK
<1>6. ASSUME NEW b \in Addr, Held(x, b)'
      PROVE  block(b) = block(a)
  <2>1. x \in slots(b) /\ tag(a) = tag(b)
    BY <1>2, <1>3, <1>6 DEF Held, Matches
  <2> QED  BY <1>1, <2>1, SlotAndTag DEF CacheInv, TypeOK
<1>7. ASSUME NEW b \in Addr, block(b) = block(a)
      PROVE  Held(x, b)' /\ \A j \in Slot : ~ Held(j, b)
  <2>1. slots(b) = slots(a) /\ tag(b) = tag(a)
    BY <1>7 DEF slots, tag
  <2>2. Held(x, b)'
    BY <1>2, <1>3, <2>1 DEF Held, Matches
  <2>3. \A j \in Slot : ~ Held(j, b)
    BY <2>1 DEF Held, Matches, found
  <2> QED  BY <2>2, <2>3
<1>8. HeldSound'
  <2> SUFFICES ASSUME NEW j \in Slot, NEW b \in Addr, Held(j, b)'
               PROVE  /\ cblocks'[j].valid
                      /\ BlockAt(j)' = block(b)
                      /\ cblocks'[j].data = blocks'[mem_idx(b)]
    BY DEF HeldSound, block, mem_idx
  <2>1. CASE j = x
    <3>1. block(b) = block(a)
      BY <1>6, <2>1
    <3>2. mem_idx(b) = mem_idx(a)
      BY <3>1, AddrFacts
    <3> QED  BY <1>2, <1>5, <2>1, <3>1, <3>2
  <2>2. CASE j # x
    <3>1. Held(j, b)
      BY <1>4, <2>2
    <3>2. block(b) # block(a)
      BY <1>7, <3>1
    <3>3. mem_idx(b) # mem_idx(a) /\ mem_idx(b) \in MemIdx
      BY <3>2, AddrFacts
    <3>4. blocks'[mem_idx(b)] = blocks[mem_idx(b)]
      BY <3>3
    <3> QED  BY <1>2, <1>4, <2>2, <3>1, <3>4 DEF CacheInv, HeldSound
  <2> QED  BY <2>1, <2>2
<1>9. HeldComplete'
  <2> SUFFICES ASSUME NEW j \in Slot, NEW b \in Addr,
                      cblocks'[j].valid, BlockAt(j)' = block(b)
               PROVE  Held(j, b)'
    BY DEF HeldComplete, block
  <2>1. CASE j = x
    BY <1>5, <1>7, <2>1
  <2>2. CASE j # x
    BY <1>2, <1>4, <2>2 DEF CacheInv, HeldComplete
  <2> QED  BY <2>1, <2>2
<1>10. HeldUnique'
  <2> SUFFICES ASSUME NEW j \in Slot, NEW k \in Slot, NEW b \in Addr,
                      Held(j, b)', Held(k, b)'
               PROVE  j = k
    BY DEF HeldUnique
  <2>1. CASE j # x /\ k # x
    BY <1>4, <2>1 DEF CacheInv, HeldUnique
  <2>2. CASE j = x \/ k = x
    BY <1>1, <1>4, <1>6, <1>7, <2>2
  <2> QED  BY <2>1, <2>2
<1> QED  BY <1>8, <1>9, <1>10

LEMMA FilledBlock ==
  ASSUME SoundUse, TypeOK, NEW a \in Addr, NEW words \in [Offset -> Value],
         NEW tick \in Tick
  PROVE  Filled(tick, a, words) \in Block
         /\ Filled(tick, a, words).last_used <= tick
<1>1. tag(a) \in Tag
  BY AddrFacts DEF tag
<1>2. 0 \in Tick /\ 0 <= tick
  BY SizeAssumption DEF Tick
<1>3. tick <= tick
  BY SizeAssumption DEF Tick
<1> QED  BY <1>1, <1>2, <1>3 DEF Filled, Block

LEMMA GetMissStep ==
  ASSUME SoundUse, CacheInv, NEW a \in Addr, getMiss(a),
         gets + puts < MaxAccesses, gets' = gets + 1, puts' = puts
  PROVE  CacheInv' /\ data' = blocks[mem_idx(a)][offset(a)]
<1> DEFINE x == index(counter', a)
<1>1. counter' = counter + 1 /\ counter' \in Tick
  BY CountStep DEF CacheInv, getMiss
<1>2. x \in slots(a) /\ x \in Slot
  BY <1>1, VictimInSet DEF CacheInv
<1>3. /\ cache_org' = cache_org /\ blocks' = blocks /\ ~found(a)
      /\ cblocks' = [cblocks EXCEPT ![x] =
                       Filled(counter', a, blocks[mem_idx(a)])]
      /\ data' = blocks[mem_idx(a)][offset(a)]
  BY DEF getMiss
<1>4. /\ blocks[mem_idx(a)] \in [Offset -> Value]
      /\ data' \in Value
  BY <1>3, AddrFacts DEF CacheInv, TypeOK
<1>5. /\ Filled(counter', a, blocks[mem_idx(a)]) \in Block
      /\ Filled(counter', a, blocks[mem_idx(a)]).last_used <= counter'
  BY <1>1, <1>4, FilledBlock DEF CacheInv
<1>6. TypeOK'
  BY <1>1, <1>2, <1>3, <1>4, <1>5 DEF getMiss, CacheInv, TypeOK
<1>7. Counted'
  <2>1. \A j \in Slot : cblocks'[j].last_used <= counter'
    BY <1>1, <1>2, <1>3, <1>5 DEF CacheInv, Counted, TypeOK, Block, Tick
  <2>2. MaxAccesses \in Nat
    BY DEF SoundUse
  <2> QED  BY <1>1, <2>1, <2>2 DEF CacheInv, Counted
<1>8. HeldSound' /\ HeldComplete' /\ HeldUnique'
  BY <1>2, <1>3, FillStep
<1> QED  BY <1>3, <1>6, <1>7, <1>8 DEF CacheInv

\* What a store does to main memory.
LEMMA StoreFacts ==
  ASSUME SoundUse, TypeOK, NEW a \in Addr, NEW v \in Value,
         blocks' = [blocks EXCEPT ![mem_idx(a)][offset(a)] = v]
  PROVE  /\ blocks' \in [MemIdx -> [Offset -> Value]]
         /\ blocks'[mem_idx(a)] =
              [blocks[mem_idx(a)] EXCEPT ![offset(a)] = v]
         /\ \A m \in MemIdx : m # mem_idx(a) => blocks'[m] = blocks[m]
         /\ \A b \in Addr : blocks'[mem_idx(b)][offset(b)] =
              IF b = a THEN v ELSE blocks[mem_idx(b)][offset(b)]
<1>1. /\ mem_idx(a) \in MemIdx /\ offset(a) \in Offset
      /\ blocks[mem_idx(a)] \in [Offset -> Value]
  BY AddrFacts DEF TypeOK
<1>2. blocks'[mem_idx(a)] = [blocks[mem_idx(a)] EXCEPT ![offset(a)] = v]
  BY <1>1 DEF TypeOK
<1>3. \A m \in MemIdx : m # mem_idx(a) => blocks'[m] = blocks[m]
  BY <1>1 DEF TypeOK
<1>4. blocks' \in [MemIdx -> [Offset -> Value]]
  BY <1>1 DEF TypeOK
<1>5. ASSUME NEW b \in Addr
      PROVE  blocks'[mem_idx(b)][offset(b)] =
               IF b = a THEN v ELSE blocks[mem_idx(b)][offset(b)]
  <2>1. mem_idx(b) \in MemIdx /\ offset(b) \in Offset
    BY AddrFacts
  <2>2. CASE b = a
    BY <1>1, <1>2, <2>2
  <2>3. CASE b # a /\ mem_idx(b) = mem_idx(a)
    <3>1. offset(b) # offset(a)
      BY <2>3, AddrInjective
    <3> QED  BY <1>1, <1>2, <2>1, <2>3, <3>1
  <2>4. CASE b # a /\ mem_idx(b) # mem_idx(a)
    BY <1>3, <2>1, <2>4
  <2> QED  BY <2>2, <2>3, <2>4
<1> QED  BY <1>2, <1>3, <1>4, <1>5

LEMMA PutMissStep ==
  ASSUME SoundUse, CacheInv, NEW a \in Addr, NEW v \in Value, putMiss(a, v),
         gets + puts < MaxAccesses, puts' = puts + 1, gets' = gets
  PROVE  CacheInv'
<1> DEFINE x == index(counter', a)
<1>1. counter' = counter + 1 /\ counter' \in Tick
  BY CountStep DEF CacheInv, putMiss, ReadBack, StoreTime
<1>2. x \in slots(a) /\ x \in Slot
  BY <1>1, VictimInSet DEF CacheInv
<1>3. /\ cache_org' = cache_org /\ data' = data /\ ~found(a)
      /\ blocks' = [blocks EXCEPT ![mem_idx(a)][offset(a)] = v]
      /\ cblocks' = [cblocks EXCEPT ![x] =
                       Filled(counter', a, blocks'[mem_idx(a)])]
  BY DEF putMiss, ReadBack, StoreTime
<1>4. /\ blocks' \in [MemIdx -> [Offset -> Value]]
      /\ blocks'[mem_idx(a)] \in [Offset -> Value]
      /\ \A m \in MemIdx : m # mem_idx(a) => blocks'[m] = blocks[m]
  BY <1>3, StoreFacts, AddrFacts DEF CacheInv
<1>5. /\ Filled(counter', a, blocks'[mem_idx(a)]) \in Block
      /\ Filled(counter', a, blocks'[mem_idx(a)]).last_used <= counter'
  BY <1>1, <1>4, FilledBlock DEF CacheInv
<1>6. TypeOK'
  BY <1>1, <1>2, <1>3, <1>4, <1>5 DEF putMiss, ReadBack, StoreTime, CacheInv, TypeOK
<1>7. Counted'
  <2>1. \A j \in Slot : cblocks'[j].last_used <= counter'
    <3> SUFFICES ASSUME NEW j \in Slot
                 PROVE  cblocks'[j].last_used <= counter'
      OBVIOUS
    <3>1. CASE j = x
      BY <1>2, <1>3, <1>5, <3>1 DEF CacheInv, TypeOK
    <3>2. CASE j # x
      <4>1. cblocks'[j] = cblocks[j]
        BY <1>3, <3>2 DEF CacheInv, TypeOK
      <4> QED  BY <1>1, <4>1 DEF CacheInv, Counted, TypeOK, Block, Tick
    <3> QED  BY <3>1, <3>2
  <2>2. MaxAccesses \in Nat
    BY DEF SoundUse
  <2> QED  BY <1>1, <2>1, <2>2 DEF CacheInv, Counted
<1>8. HeldSound' /\ HeldComplete' /\ HeldUnique'
  BY <1>2, <1>3, <1>4, FillStep
<1> QED  BY <1>6, <1>7, <1>8 DEF CacheInv

LEMMA PutHitStep ==
  ASSUME SoundUse, CacheInv, NEW a \in Addr, NEW v \in Value, putHit(a, v),
         gets + puts < MaxAccesses, puts' = puts + 1, gets' = gets
  PROVE  CacheInv'
<1> DEFINE i == hit(a)
<1>1. i \in Slot /\ Held(i, a)
  BY HitHolds DEF CacheInv, putHit, Updated
<1>2. counter' = counter + 1 /\ counter' \in Tick
  BY CountStep DEF CacheInv, putHit, Updated
<1>3. /\ cache_org' = cache_org /\ data' = data
      /\ blocks' = [blocks EXCEPT ![mem_idx(a)][offset(a)] = v]
      /\ cblocks' = [cblocks EXCEPT ![i].data[offset(a)] = v,
                                   ![i].last_used = Touched(i, counter')]
  BY DEF putHit, Updated
<1>4. /\ blocks' \in [MemIdx -> [Offset -> Value]]
      /\ blocks'[mem_idx(a)] = [blocks[mem_idx(a)] EXCEPT ![offset(a)] = v]
      /\ \A m \in MemIdx : m # mem_idx(a) => blocks'[m] = blocks[m]
  BY <1>3, StoreFacts DEF CacheInv
<1>5. Touched(i, counter') \in Tick /\ Touched(i, counter') <= counter'
  BY <1>1, <1>2 DEF Touched, CacheInv, Counted, TypeOK, Block, Tick
<1>6. /\ cblocks[i] \in Block
      /\ offset(a) \in Offset
  BY <1>1, AddrFacts DEF CacheInv, TypeOK
<1>7. cblocks'[i] = [cblocks[i] EXCEPT !.data[offset(a)] = v,
                                      !.last_used = Touched(i, counter')]
  BY <1>1, <1>3 DEF CacheInv, TypeOK
<1>8. /\ cblocks'[i] \in Block
      /\ cblocks'[i].tag = cblocks[i].tag
      /\ cblocks'[i].valid = cblocks[i].valid
      /\ cblocks'[i].last_used = Touched(i, counter')
      /\ cblocks'[i].data = [cblocks[i].data EXCEPT ![offset(a)] = v]
  BY <1>5, <1>6, <1>7 DEF Block
<1>9. \A j \in Slot : j # i => cblocks'[j] = cblocks[j]
  BY <1>3 DEF CacheInv, TypeOK
<1>10. cblocks' \in [Slot -> Block]
  <2>1. \A j \in Slot : cblocks'[j] \in Block
    BY <1>8, <1>9 DEF CacheInv, TypeOK
  <2>2. DOMAIN cblocks' = Slot /\ cblocks' = [j \in Slot |-> cblocks'[j]]
    BY <1>1, <1>3 DEF CacheInv, TypeOK
  <2> QED  BY <2>1, <2>2
<1>11. TypeOK'
  BY <1>2, <1>3, <1>4, <1>10 DEF putHit, Updated, CacheInv, TypeOK
<1>12. Counted'
  <2>1. \A j \in Slot : cblocks'[j].last_used <= counter'
    BY <1>2, <1>5, <1>8, <1>9 DEF CacheInv, Counted, TypeOK, Block, Tick
  <2>2. MaxAccesses \in Nat
    BY DEF SoundUse
  <2> QED  BY <1>2, <2>1, <2>2 DEF CacheInv, Counted
<1>13. \A j \in Slot, b \in Addr : /\ Held(j, b)' <=> Held(j, b)
                                   /\ BlockAt(j)' = BlockAt(j)
  BY <1>3, <1>8, <1>9, SameTags DEF CacheInv
<1>14. HeldSound'
  <2> SUFFICES ASSUME NEW j \in Slot, NEW b \in Addr, Held(j, b)
               PROVE  /\ cblocks'[j].valid
                      /\ BlockAt(j)' = block(b)
                      /\ cblocks'[j].data = blocks'[mem_idx(b)]
    BY <1>13 DEF HeldSound, block, mem_idx
  <2>1. /\ cblocks[j].valid /\ BlockAt(j) = block(b)
        /\ cblocks[j].data = blocks[mem_idx(b)]
    BY DEF CacheInv, HeldSound
  <2>2. /\ BlockAt(i) = block(a)
        /\ cblocks[i].data = blocks[mem_idx(a)]
    BY <1>1 DEF CacheInv, HeldSound
  <2>3. CASE j = i
    <3>1. mem_idx(b) = mem_idx(a)
      BY <2>1, <2>2, <2>3, AddrFacts
    <3> QED  BY <1>4, <1>8, <1>13, <2>1, <2>2, <2>3, <3>1
  <2>4. CASE j # i
    <3>1. block(b) # block(a)
      <4> SUFFICES ASSUME block(b) = block(a) PROVE FALSE
        OBVIOUS
      <4>1. Held(j, a)
        BY <2>1 DEF CacheInv, HeldComplete
      <4> QED  BY <1>1, <2>4, <4>1 DEF CacheInv, HeldUnique
    <3>2. mem_idx(b) # mem_idx(a) /\ mem_idx(b) \in MemIdx
      BY <3>1, AddrFacts
    <3>3. blocks'[mem_idx(b)] = blocks[mem_idx(b)]
      BY <1>4, <3>2
    <3>4. cblocks'[j] = cblocks[j]
      BY <1>9, <2>4
    <3> QED  BY <1>13, <2>1, <3>3, <3>4
  <2> QED  BY <2>3, <2>4
<1>15. HeldComplete' /\ HeldUnique'
  BY <1>8, <1>9, <1>13 DEF CacheInv, HeldComplete, HeldUnique, block
<1> QED  BY <1>11, <1>12, <1>14, <1>15 DEF CacheInv

-----------------------------------------------------------------------------
(* The theorems.                                                           *)

LEMMA InitInv ==
  ASSUME SoundUse, HInit
  PROVE  CacheInv
<1>1. InitWords \subseteq [Offset -> Value]
  BY InitDataAssumption DEF InitWords
<1>2. cblocks \in [Slot -> InitBlock]
  BY DEF HInit, Init
<1>3. \A i \in Slot : /\ cblocks[i].tag \in InitTag
                     /\ cblocks[i].last_used = 0 /\ ~cblocks[i].valid
  BY <1>2 DEF InitBlock
<1>4. cblocks \in [Slot -> Block]
  <2>1. 0 \in Tick
    BY SizeAssumption DEF Tick
  <2>2. InitBlock \subseteq Block
    BY <1>1, <2>1, TagAssumption DEF Block, InitBlock
  <2> QED  BY <1>2, <2>2
<1>5. TypeOK
  <2>1. 0 \in Tick
    BY SizeAssumption DEF Tick
  <2> QED  BY <1>4, <2>1, InitDataAssumption DEF HInit, Init, TypeOK
<1>6. Counted
  BY <1>3 DEF HInit, Init, Counted, SoundUse
<1>7. \A i \in Slot, a \in Addr : ~ Held(i, a)
  BY <1>3, <1>5 DEF Held, Matches, tag, SoundUse, TypeOK
<1> QED  BY <1>3, <1>5, <1>6, <1>7
         DEF CacheInv, HeldSound, HeldComplete, HeldUnique

LEMMA NextInv ==
  ASSUME SoundUse, CacheInv, [HNext]_hvars
  PROVE  CacheInv' /\ [AM!Next]_(AM!amVars)
<1>1. ASSUME NEW a \in Addr, getData(a), gets + puts < MaxAccesses,
             gets' = gets + 1, puts' = puts
      PROVE  CacheInv' /\ AM!Next
  <2>1. CacheInv' /\ data' = blocks[mem_idx(a)][offset(a)]
    BY <1>1, GetHitStep, GetMissStep DEF getData
  <2>2. blocks' = blocks
    BY <1>1 DEF getData, getHit, getMiss
  <2>3. AM!getData(a)
    BY <2>1, <2>2 DEF AM!getData, mem_idx, block, offset
  <2> QED  BY <2>1, <2>3 DEF AM!Next
<1>2. ASSUME NEW a \in Addr, NEW v \in Value, putData(a, v),
             gets + puts < MaxAccesses, puts' = puts + 1, gets' = gets
      PROVE  CacheInv' /\ AM!Next
  <2>1. CacheInv'
    BY <1>2, PutHitStep, PutMissStep DEF putData
  <2>2. /\ blocks' = [blocks EXCEPT ![mem_idx(a)][offset(a)] = v]
        /\ data' = data
    BY <1>2 DEF putData, putHit, Updated, putMiss, ReadBack, StoreTime
  <2>3. \A b \in Addr : blocks'[mem_idx(b)][offset(b)] =
                       IF b = a THEN v ELSE blocks[mem_idx(b)][offset(b)]
    BY <2>2, StoreFacts DEF CacheInv
  <2>4. AM!putData(a, v)
    BY <2>2, <2>3 DEF AM!putData, mem_idx, block, offset
  <2> QED  BY <2>1, <2>4 DEF AM!Next
<1>3. CASE HNext
  BY <1>1, <1>2, <1>3 DEF HNext
<1>4. CASE UNCHANGED hvars
  <2>1. CacheInv'
    BY <1>4 DEF hvars, CacheInv, TypeOK, Counted, HeldSound, HeldComplete,
                HeldUnique, Held, Matches, BlockAt, slots, tag, mem_idx,
                block
  <2>2. UNCHANGED AM!amVars
    BY <1>4 DEF hvars, AM!amVars, mem_idx, block, offset
  <2> QED  BY <2>1, <2>2
<1> QED  BY <1>3, <1>4

\* Tags, words, ages and counters keep their ranges, a victim is a block of
\* the cache and a word of main memory is found (memory.hh:36-65), for every
\* size and each organization.
THEOREM CacheTypeCorrect ==
  ASSUME SoundUse
  PROVE  HSpec => []TypeOK
<1>1. HInit => CacheInv
  BY InitInv
<1>2. CacheInv /\ [HNext]_hvars => CacheInv'
  BY NextInv
<1>3. CacheInv => TypeOK
  BY DEF CacheInv
<1> QED  BY <1>1, <1>2, <1>3, PTL DEF HSpec

\* Every valid block is where a lookup finds it, has no second copy, and
\* equals main memory, for every size of cache and memory and for each
\* organization (memory.cpp:105-308).
THEOREM CoherenceCorrect ==
  ASSUME SoundUse
  PROVE  HSpec => []Coherent
<1>1. HInit => CacheInv
  BY InitInv
<1>2. CacheInv /\ [HNext]_hvars => CacheInv'
  BY NextInv
<1>3. CacheInv => Coherent
  BY InvCoherent
<1> QED  BY <1>1, <1>2, <1>3, PTL DEF HSpec

\* A load through the cache returns what was stored last at its address, and
\* a store changes nothing else: the cache implements the memory of module
\* AtomicMemory (memory.cpp:311-341).
THEOREM CacheImplementsMemory ==
  ASSUME SoundUse
  PROVE  HSpec => ImplementsMemory
<1>1. HInit => CacheInv
  BY InitInv
<1>2. CacheInv /\ [HNext]_hvars => CacheInv'
  BY NextInv
<1>3. CacheInv /\ [HNext]_hvars => [AM!Next]_(AM!amVars)
  BY NextInv
<1>4. CacheInv => AM!Init
  BY AddrFacts DEF CacheInv, TypeOK, AM!Init
<1> QED  BY <1>1, <1>2, <1>3, <1>4, PTL DEF HSpec, ImplementsMemory

\* The time the drivers print is accounted for by the accesses and the
\* misses, whatever the constants are.
THEOREM TimeCorrect == HSpec => []TimeAccounted
<1> DEFINE Inv == /\ gets \in Nat /\ puts \in Nat /\ numMisses \in Nat
                  /\ TimeAccounted
<1>1. HInit => Inv
  BY DEF HInit, Init, TimeAccounted
<1>2. ASSUME Inv, [HNext]_hvars
      PROVE  Inv'
  <2>1. ASSUME NEW a \in Addr, getData(a), gets' = gets + 1, puts' = puts
        PROVE  Inv'
    BY <1>2, <2>1 DEF getData, getHit, getMiss, TimeAccounted
  <2>2. ASSUME NEW a \in Addr, NEW v \in Value, putData(a, v),
               puts' = puts + 1, gets' = gets
        PROVE  Inv'
    BY <1>2, <2>2 DEF putData, putHit, Updated, putMiss, ReadBack, StoreTime, TimeAccounted
  <2>3. CASE HNext
    BY <2>1, <2>2, <2>3 DEF HNext
  <2>4. CASE UNCHANGED hvars
    BY <1>2, <2>4 DEF hvars, TimeAccounted
  <2> QED  BY <1>2, <2>3, <2>4
<1> HIDE DEF Inv
<1>3. Inv => TimeAccounted
  BY DEF Inv
<1> QED  BY <1>1, <1>2, <1>3, PTL DEF HSpec
-----------------------------------------------------------------------------
(* Replacement: what each set holds is what was used last.                 *)

\* Every block of memory has its time of use, and no two the same.
UsesOK ==
  /\ lastUse \in [BlockNo -> Nat]
  /\ \A b \in BlockNo : lastUse[b] <= gets + puts
  /\ \A b, c \in BlockNo : lastUse[b] > 0 /\ lastUse[b] = lastUse[c] => b = c

\* The cache has those times of the blocks it holds.
AgesOK ==
  /\ \A i \in Slot : cblocks[i].valid => \E a \in Addr : Held(i, a)
  /\ \A i \in Slot, a \in Addr : Held(i, a) =>
       /\ lastUse[block(a)] > 0
       /\ cache_org # DIRECT => cblocks[i].last_used = lastUse[block(a)]

\* A block that was used and is not there has made room for blocks used
\* after it, which fill its set.
EvictedOK ==
  \A a \in Addr : lastUse[block(a)] > 0 /\ ~found(a) =>
    \A i \in slots(a) :
      /\ cblocks[i].valid
      /\ \A b \in Addr : Held(i, b) => lastUse[block(b)] > lastUse[block(a)]

RecencyInv == UsesOK /\ AgesOK /\ EvictedOK

\* Two addresses compete for room if they may be in the same slots.
LEMMA SameSet ==
  ASSUME SoundUse, TypeOK, NEW a \in Addr, NEW b \in Addr
  PROVE  /\ block(a) = block(b) => slots(a) = slots(b) /\ tag(a) = tag(b)
         /\ block(b) \in Rivals(block(a)) <=> slots(b) = slots(a)
         /\ \A i \in slots(a) \cap slots(b) : slots(b) = slots(a)
<1>1. /\ block(a) \in BlockNo /\ block(b) \in BlockNo
      /\ slots(a) # {} /\ slots(b) # {}
  BY SlotsFacts DEF BlockNo
<1>2. block(a) = block(b) => slots(a) = slots(b) /\ tag(a) = tag(b)
  BY DEF slots, tag
<1>3. CASE cache_org = DIRECT
  BY <1>1, <1>2, <1>3 DEF slots, Rivals, DIRECT, FULLY, TWOWAY
<1>4. CASE cache_org = FULLY
  BY <1>1, <1>2, <1>4 DEF slots, Rivals, DIRECT, FULLY, TWOWAY
<1>5. CASE cache_org = TWOWAY
  <2>1. /\ slots(a) = {i \in Slot : i % NUM_OF_SET = block(a) % NUM_OF_SET}
        /\ slots(b) = {i \in Slot : i % NUM_OF_SET = block(b) % NUM_OF_SET}
        /\ Rivals(block(a)) = {c \in BlockNo :
                                 c % NUM_OF_SET = block(a) % NUM_OF_SET}
    BY <1>5 DEF slots, Rivals, DIRECT, FULLY, TWOWAY
  <2> QED  BY <1>1, <1>2, <2>1
<1> QED  BY <1>2, <1>3, <1>4, <1>5 DEF TypeOK

\* The memory of the program is a finite number of blocks.
LEMMA BlocksFinite ==
  ASSUME SoundUse
  PROVE  BlockNo \subseteq Nat /\ IsFiniteSet(BlockNo)
<1>1. BlockNo \subseteq 0 .. BLOCKS_IN_MEMORY - 1
  BY AddrFacts, SizeAssumption DEF BlockNo, SoundUse
<1>2. IsFiniteSet(0 .. BLOCKS_IN_MEMORY - 1)
  BY FS_Interval, SizeAssumption
<1>3. BlockNo \subseteq Nat
  BY AddrFacts DEF BlockNo
<1> QED  BY <1>1, <1>2, <1>3, FS_Subset

\* The room there is in a set.
LEMMA SlotCount ==
  ASSUME SoundUse, EvenSets, TypeOK, NEW a \in Addr
  PROVE  IsFiniteSet(slots(a)) /\ Cardinality(slots(a)) = Ways /\ Ways \in Nat
<1>1. block(a) \in Nat /\ BLOCKS_IN_CACHE \in Nat \ {0}
      /\ NUM_OF_SET \in Nat \ {0}
  BY AddrFacts, SizeAssumption
<1>2. CASE cache_org = DIRECT
  <2>1. slots(a) = {block(a) % BLOCKS_IN_CACHE} /\ Ways = 1
    BY <1>2 DEF slots, Ways, DIRECT, FULLY, TWOWAY
  <2> QED  BY <2>1, FS_Singleton
<1>3. CASE cache_org = FULLY
  <2>1. /\ IsFiniteSet(0 .. BLOCKS_IN_CACHE - 1)
        /\ Cardinality(0 .. BLOCKS_IN_CACHE - 1) = BLOCKS_IN_CACHE
    BY <1>1, FS_Interval
  <2> QED  BY <1>1, <1>3, <2>1 DEF slots, Slot, Ways, DIRECT, FULLY, TWOWAY
<1>4. CASE cache_org = TWOWAY
  <2> DEFINE W == BLOCKS_IN_CACHE \div NUM_OF_SET
             r == block(a) % NUM_OF_SET
             f == [q \in 0 .. W - 1 |-> q * NUM_OF_SET + r]
  <2>1. W \in Nat /\ BLOCKS_IN_CACHE = W * NUM_OF_SET
    BY <1>1, DivMod DEF EvenSets
  <2>2. r \in 0 .. NUM_OF_SET - 1
    BY <1>1, DivMod
  <2>3. slots(a) = {i \in Slot : i % NUM_OF_SET = r}
    BY <1>4 DEF slots, DIRECT, FULLY, TWOWAY
  <2> HIDE DEF W, r
  <2>4. ASSUME NEW q \in 0 .. W - 1
        PROVE  /\ f[q] \in slots(a) /\ f[q] \div NUM_OF_SET = q
    <3>1. /\ f[q] \div NUM_OF_SET = q /\ f[q] % NUM_OF_SET = r
      BY <1>1, <2>2, DivModInverse
    <3>2. f[q] \in 0 .. BLOCKS_IN_CACHE - 1
      <4>1. q * NUM_OF_SET \in Nat /\ q * NUM_OF_SET <= (W - 1) * NUM_OF_SET
        BY <1>1, <2>1
      <4>2. (W - 1) * NUM_OF_SET = BLOCKS_IN_CACHE - NUM_OF_SET
        BY <1>1, <2>1
      <4> QED  BY <1>1, <2>2, <4>1, <4>2
    <3> QED  BY <2>3, <3>1, <3>2 DEF Slot
  <2>5. ASSUME NEW i \in slots(a)
        PROVE  \E q \in 0 .. W - 1 : f[q] = i
    <3>1. i \in 0 .. BLOCKS_IN_CACHE - 1 /\ i % NUM_OF_SET = r
      BY <2>3 DEF Slot
    <3> DEFINE q == i \div NUM_OF_SET
    <3>2. q \in Nat /\ i = q * NUM_OF_SET + r
      <4>1. i \in Nat
        BY <1>1, <3>1
      <4> QED  BY <1>1, <3>1, <4>1, DivMod
    <3>3. q < W
      <4>1. SUFFICES ASSUME W <= q PROVE FALSE
        BY <2>1, <3>2
      <4>2. W * NUM_OF_SET <= q * NUM_OF_SET
        BY <1>1, <2>1, <3>2, <4>1
      <4> QED  BY <1>1, <2>1, <2>2, <3>1, <3>2, <4>2
    <3> QED  BY <2>1, <3>2, <3>3
  <2>6. f \in Bijection(0 .. W - 1, slots(a))
    BY <2>4, <2>5 DEF Bijection, Injection, Surjection, IsInjective
  <2>7. IsFiniteSet(0 .. W - 1) /\ Cardinality(0 .. W - 1) = W
    <3>1. W - 1 \in Int
      BY <2>1
    <3>2. /\ IsFiniteSet(0 .. W - 1)
          /\ Cardinality(0 .. W - 1) = IF 0 > W - 1 THEN 0 ELSE W - 1 - 0 + 1
      BY <3>1, FS_Interval
    <3> QED  BY <2>1, <3>2
  <2>8. IsFiniteSet(slots(a)) /\ Cardinality(slots(a)) = W
    BY <2>6, <2>7, FS_Bijection DEF ExistsBijection
  <2> QED  BY <1>4, <2>1, <2>8 DEF Ways, W, DIRECT, FULLY, TWOWAY
<1> QED  BY <1>2, <1>3, <1>4 DEF TypeOK

\* The time of use of the block that is accessed.
LEMMA UsesStep ==
  ASSUME Counted, UsesOK, NEW a \in Addr, Used(a),
         \/ gets' = gets + 1 /\ puts' = puts
         \/ puts' = puts + 1 /\ gets' = gets
  PROVE  /\ UsesOK'
         /\ gets' + puts' = gets + puts + 1
         /\ \A b \in Addr : lastUse'[block(b)] =
              IF block(b) = block(a) THEN gets + puts + 1
                                     ELSE lastUse[block(b)]
         /\ \A b \in Addr : lastUse[block(b)] \in 0 .. gets + puts
<1>1. gets \in Nat /\ puts \in Nat /\ gets' + puts' = gets + puts + 1
  BY DEF Counted
<1> DEFINE now == gets + puts + 1
<1>2. block(a) \in BlockNo /\ \A b \in Addr : block(b) \in BlockNo
  BY DEF BlockNo
<1>3. lastUse' = [lastUse EXCEPT ![block(a)] = now] /\ now \in Nat /\ now > 0
  BY <1>1 DEF Used
<1>4. \A b \in BlockNo : lastUse'[b] = IF b = block(a) THEN now ELSE lastUse[b]
  BY <1>2, <1>3 DEF UsesOK
<1>5. \A b \in BlockNo : lastUse[b] \in Nat /\ lastUse[b] < now
  BY <1>1 DEF UsesOK
<1>6. lastUse' \in [BlockNo -> Nat]
  BY <1>1, <1>3 DEF UsesOK
<1>7. BlockNo' = BlockNo
  BY DEF BlockNo, block
<1>8. \A b \in BlockNo : lastUse'[b] <= gets' + puts'
  BY <1>1, <1>4, <1>5
<1> HIDE DEF now
<1>9. \A b, c \in BlockNo :
        lastUse'[b] > 0 /\ lastUse'[b] = lastUse'[c] => b = c
  BY <1>3, <1>4, <1>5 DEF UsesOK
<1>10. UsesOK'
  BY <1>6, <1>7, <1>8, <1>9 DEF UsesOK
<1>11. \A b \in Addr : lastUse[block(b)] \in 0 .. gets + puts
  BY <1>1, <1>2, <1>5 DEF now
<1> QED  BY <1>1, <1>2, <1>4, <1>10, <1>11 DEF now

\* A hit: the block that is used becomes the youngest of its set.
LEMMA RecencyHit ==
  ASSUME SoundUse, CacheInv, RecencyInv, NEW a \in Addr, found(a),
         cache_org' = cache_org, counter' = counter + 1,
         \A j \in Slot :
           /\ cblocks'[j].tag = cblocks[j].tag
           /\ cblocks'[j].valid = cblocks[j].valid
           /\ cblocks'[j].last_used =
                IF j = hit(a) THEN Touched(j, counter')
                              ELSE cblocks[j].last_used,
         Used(a),
         \/ gets' = gets + 1 /\ puts' = puts
         \/ puts' = puts + 1 /\ gets' = gets
  PROVE  RecencyInv'
<1> DEFINE i   == hit(a)
           now == gets + puts + 1
<1>1. i \in Slot /\ Held(i, a)
  BY HitHolds DEF CacheInv
<1>2. /\ UsesOK'
      /\ \A b \in Addr : lastUse'[block(b)] =
           IF block(b) = block(a) THEN now ELSE lastUse[block(b)]
      /\ \A b \in Addr : lastUse[block(b)] \in 0 .. gets + puts
  BY UsesStep DEF CacheInv, RecencyInv
<1>3. now \in Nat /\ now > 0 /\ counter' = now
      /\ \A b \in Addr : lastUse[block(b)] \in Nat /\ lastUse[block(b)] < now
  BY <1>2 DEF CacheInv, Counted
<1> HIDE DEF now, i
<1>4. \A j \in Slot, b \in Addr : Held(j, b)' <=> Held(j, b)
  BY SameTags DEF CacheInv
<1>5. \A b \in Addr : slots(b)' = slots(b) /\ (found(b)' <=> found(b))
                      /\ slots(b) \subseteq Slot
  <2>1. \A b \in Addr : slots(b)' = slots(b) /\ slots(b) \subseteq Slot
    BY SlotsFacts DEF slots, CacheInv
  <2>2. \A b \in Addr : found(b) <=> \E j \in slots(b) : Held(j, b)
    BY DEF found, Held
  <2>3. \A b \in Addr : found(b)' <=> \E j \in slots(b)' : Held(j, b)'
    BY DEF found, Held
  <2> QED  BY <1>4, <2>1, <2>2, <2>3
<1>6. \A j \in Slot, b \in Addr : Held(j, b) =>
        (j = i <=> block(b) = block(a))
  <2> SUFFICES ASSUME NEW j \in Slot, NEW b \in Addr, Held(j, b)
               PROVE  j = i <=> block(b) = block(a)
    OBVIOUS
  <2>1. BlockAt(j) = block(b) /\ BlockAt(i) = block(a) /\ cblocks[j].valid
    BY <1>1 DEF CacheInv, HeldSound
  <2>2. block(b) = block(a) => Held(j, a)
    BY <2>1 DEF CacheInv, HeldComplete
  <2> QED  BY <1>1, <2>1, <2>2 DEF CacheInv, HeldUnique
<1>7. AgesOK'
  <2>1. ASSUME NEW j \in Slot, cblocks'[j].valid
        PROVE  \E b \in Addr : Held(j, b)'
    BY <1>4, <2>1 DEF RecencyInv, AgesOK
  <2>2. ASSUME NEW j \in Slot, NEW b \in Addr, Held(j, b)'
        PROVE  /\ lastUse'[block(b)] > 0
               /\ cache_org' # DIRECT =>
                    cblocks'[j].last_used = lastUse'[block(b)]
    <3>1. Held(j, b)
      BY <1>4, <2>2
    <3>2. CASE j = i
      <4>1. block(b) = block(a) /\ lastUse'[block(b)] = now
        BY <1>2, <1>6, <3>1, <3>2
      <4>2. cache_org # DIRECT => cblocks'[j].last_used = now
        BY <1>3, <3>2 DEF Touched, i
      <4> QED  BY <1>3, <4>1, <4>2
    <3>3. CASE j # i
      <4>1. lastUse'[block(b)] = lastUse[block(b)]
        BY <1>2, <1>6, <3>1, <3>3
      <4>2. cblocks'[j].last_used = cblocks[j].last_used
        BY <3>3 DEF i
      <4> QED  BY <3>1, <4>1, <4>2 DEF RecencyInv, AgesOK
    <3> QED  BY <3>2, <3>3
  <2> QED  BY <2>1, <2>2 DEF AgesOK, block
<1>8. EvictedOK'
  <2> SUFFICES ASSUME NEW b \in Addr, lastUse'[block(b)] > 0, ~found(b)',
                      NEW j \in slots(b)
               PROVE  /\ cblocks'[j].valid
                      /\ \A c \in Addr : Held(j, c)' =>
                           lastUse'[block(c)] > lastUse'[block(b)]
    BY <1>5 DEF EvictedOK, block
  <2>1. ~found(b) /\ j \in Slot
    BY <1>5
  <2>2. block(b) # block(a)
    <3>1. \A k \in slots(a) : block(b) = block(a) =>
            slots(b) = slots(a) /\ (Matches(k, b) <=> Matches(k, a))
      BY SameSet DEF CacheInv, Matches
    <3>2. PICK k \in slots(a) : Matches(k, a)
      BY DEF found
    <3> QED  BY <2>1, <3>1, <3>2 DEF found
  <2>3. lastUse'[block(b)] = lastUse[block(b)]
    BY <1>2, <2>2
  <2>4. cblocks[j].valid /\ \A c \in Addr : Held(j, c) =>
                              lastUse[block(c)] > lastUse[block(b)]
    BY <2>1, <2>3 DEF RecencyInv, EvictedOK
  <2>5. ASSUME NEW c \in Addr, Held(j, c)'
        PROVE  lastUse'[block(c)] > lastUse'[block(b)]
    <3>1. Held(j, c) /\ lastUse[block(c)] > lastUse[block(b)]
      BY <1>4, <2>1, <2>4, <2>5
    <3> QED  BY <1>2, <1>3, <2>3, <3>1
  <2> QED  BY <2>1, <2>4, <2>5
<1> QED  BY <1>2, <1>7, <1>8 DEF RecencyInv

\* A miss: what makes room was the oldest of a full set, or nothing.
LEMMA RecencyMiss ==
  ASSUME SoundUse, CacheInv, RecencyInv, NEW a \in Addr, ~found(a),
         cache_org' = cache_org, counter' = counter + 1,
         NEW x \in Slot, x = index(counter + 1, a),
         cblocks'[x].tag = tag(a), cblocks'[x].valid,
         cache_org # DIRECT => cblocks'[x].last_used = counter',
         \A j \in Slot : j # x => cblocks'[j] = cblocks[j],
         Used(a),
         \/ gets' = gets + 1 /\ puts' = puts
         \/ puts' = puts + 1 /\ gets' = gets
  PROVE  RecencyInv'
<1> DEFINE now == gets + puts + 1
<1>1. /\ x \in slots(a)
      /\ cache_org # DIRECT /\ cblocks[x].valid =>
           \A j \in slots(a) :
             cblocks[j].valid /\ cblocks[x].last_used <= cblocks[j].last_used
  BY VictimInSet DEF CacheInv
<1>2. /\ UsesOK'
      /\ \A b \in Addr : lastUse'[block(b)] =
           IF block(b) = block(a) THEN now ELSE lastUse[block(b)]
      /\ \A b \in Addr : lastUse[block(b)] \in 0 .. gets + puts
  BY UsesStep DEF CacheInv, RecencyInv
<1>3. now \in Nat /\ now > 0 /\ counter' = now
      /\ \A b \in Addr : lastUse[block(b)] \in Nat /\ lastUse[block(b)] < now
  BY <1>2 DEF CacheInv, Counted
<1> HIDE DEF now
<1>4. \A b \in Addr : /\ slots(b)' = slots(b) /\ tag(b)' = tag(b)
                      /\ slots(b) \subseteq Slot
  BY SlotsFacts DEF slots, tag, CacheInv
<1>5. \A j \in Slot, b \in Addr : j # x => (Held(j, b)' <=> Held(j, b))
  BY <1>4 DEF Held, Matches
<1>6. \A b \in Addr : Held(x, b)' <=> block(b) = block(a)
  <2> SUFFICES ASSUME NEW b \in Addr
               PROVE  Held(x, b)' <=> block(b) = block(a)
    OBVIOUS
  <2>1. Held(x, b)' <=> x \in slots(b) /\ tag(a) = tag(b)
    BY <1>4 DEF Held, Matches
  <2>2. block(b) = block(a) => slots(b) = slots(a) /\ tag(b) = tag(a)
    BY SameSet DEF CacheInv
  <2>3. tag(a) \in Nat
    BY AddrFacts, SizeAssumption, DivMod DEF tag
  <2>4. x \in slots(b) /\ tag(a) = tag(b) => block(b) = block(a)
    BY <1>1, <2>3, SlotAndTag DEF CacheInv, TypeOK
  <2> QED  BY <1>1, <2>1, <2>2, <2>4
<1>7. \A j \in Slot, b \in Addr : Held(j, b) => block(b) # block(a)
  <2>1. \A b \in Addr : block(b) = block(a) =>
          slots(b) = slots(a) /\ tag(b) = tag(a)
    BY SameSet DEF CacheInv
  <2> QED  BY <2>1 DEF found, Held, Matches
<1>8. \A b \in Addr : /\ found(b) => \E j \in Slot : Held(j, b)
                      /\ \A j \in Slot : Held(j, b) => found(b)
                      /\ \A j \in Slot : Held(j, b)' => found(b)'
  BY <1>4 DEF found, Held
<1>9. AgesOK'
  <2>1. ASSUME NEW j \in Slot, cblocks'[j].valid
        PROVE  \E b \in Addr : Held(j, b)'
    <3>1. CASE j = x
      BY <1>6, <3>1
    <3>2. CASE j # x
      <4>1. cblocks[j].valid
        BY <2>1, <3>2
      <4> QED  BY <1>5, <3>2, <4>1 DEF RecencyInv, AgesOK
    <3> QED  BY <3>1, <3>2
  <2>2. ASSUME NEW j \in Slot, NEW b \in Addr, Held(j, b)'
        PROVE  /\ lastUse'[block(b)] > 0
               /\ cache_org' # DIRECT =>
                    cblocks'[j].last_used = lastUse'[block(b)]
    <3>1. CASE j = x
      BY <1>2, <1>3, <1>6, <2>2, <3>1
    <3>2. CASE j # x
      <4>1. Held(j, b) /\ cblocks'[j] = cblocks[j]
        BY <1>5, <2>2, <3>2
      <4>2. lastUse'[block(b)] = lastUse[block(b)]
        BY <1>2, <1>7, <4>1
      <4> QED  BY <4>1, <4>2 DEF RecencyInv, AgesOK
    <3> QED  BY <3>1, <3>2
  <2> QED  BY <2>1, <2>2 DEF AgesOK, block
<1>10. EvictedOK'
  <2> SUFFICES ASSUME NEW b \in Addr, lastUse'[block(b)] > 0, ~found(b)',
                      NEW j \in slots(b)
               PROVE  /\ cblocks'[j].valid
                      /\ \A c \in Addr : Held(j, c)' =>
                           lastUse'[block(c)] > lastUse'[block(b)]
    BY <1>4 DEF EvictedOK, block
  <2>1. j \in Slot /\ block(b) # block(a)
        /\ lastUse'[block(b)] = lastUse[block(b)]
    BY <1>2, <1>4, <1>6, <1>8
  <2>2. CASE j = x
    <3>1. \A c \in Addr : Held(j, c)' => lastUse'[block(c)] = now
      BY <1>2, <1>6, <2>2
    <3> QED  BY <1>3, <2>1, <2>2, <3>1
  <2>3. CASE j # x
    <3>1. /\ cblocks'[j] = cblocks[j]
          /\ \A c \in Addr : Held(j, c)' => Held(j, c)
                             /\ lastUse'[block(c)] = lastUse[block(c)]
      BY <1>2, <1>5, <1>7, <2>1, <2>3
    <3>2. CASE ~found(b)
      BY <2>1, <3>1, <3>2 DEF RecencyInv, EvictedOK
    <3>3. CASE found(b)
      <4>1. Held(x, b)
        BY <1>5, <1>8, <3>3
      <4>2. cblocks[x].valid
        BY <4>1 DEF CacheInv, HeldSound
      <4>3. slots(b) = slots(a)
        BY <1>1, <4>1, SameSet DEF CacheInv, Held
      <4>4. cache_org # DIRECT
        <5>1. cache_org = DIRECT => j = x
          BY <4>1 DEF slots, Held, DIRECT, FULLY, TWOWAY
        <5> QED  BY <2>3, <5>1
      <4>5. cblocks[j].valid /\ cblocks[x].last_used <= cblocks[j].last_used
        BY <1>1, <4>2, <4>3, <4>4
      <4>6. ASSUME NEW c \in Addr, Held(j, c)
            PROVE  lastUse[block(c)] > lastUse[block(b)]
        <5>1. /\ cblocks[j].last_used = lastUse[block(c)]
              /\ cblocks[x].last_used = lastUse[block(b)]
              /\ lastUse[block(c)] > 0
          BY <2>1, <4>1, <4>4, <4>6 DEF RecencyInv, AgesOK
        <5>2. lastUse[block(c)] # lastUse[block(b)]
          <6>1. block(c) \in BlockNo /\ block(b) \in BlockNo
            BY DEF BlockNo
          <6>2. block(c) # block(b)
            <7> SUFFICES ASSUME block(c) = block(b) PROVE FALSE
              OBVIOUS
            <7>1. Held(j, b)
              <8>1. BlockAt(j) = block(b) /\ cblocks[j].valid
                BY <2>1, <4>6 DEF CacheInv, HeldSound
              <8> QED  BY <2>1, <8>1 DEF CacheInv, HeldComplete
            <7> QED  BY <2>1, <2>3, <4>1, <7>1 DEF CacheInv, HeldUnique
          <6> QED  BY <5>1, <6>1, <6>2 DEF RecencyInv, UsesOK
        <5>3. lastUse[block(c)] \in Nat /\ lastUse[block(b)] \in Nat
          BY <1>3
        <5> QED  BY <4>5, <5>1, <5>2, <5>3
      <4> QED  BY <2>1, <3>1, <4>5, <4>6
    <3> QED  BY <3>2, <3>3
  <2> QED  BY <2>2, <2>3
<1> QED  BY <1>2, <1>9, <1>10 DEF RecencyInv

LEMMA RecencyInit ==
  ASSUME SoundUse, HInit
  PROVE  RecencyInv
<1>1. lastUse = [b \in BlockNo |-> 0] /\ gets = 0 /\ puts = 0
  BY DEF HInit
<1>2. \A i \in Slot : ~cblocks[i].valid
  BY DEF HInit, Init, InitBlock
<1>3. CacheInv
  BY InitInv
<1>4. \A i \in Slot, a \in Addr : ~Held(i, a)
  BY <1>2, <1>3 DEF CacheInv, HeldSound
<1>5. \A a \in Addr : block(a) \in BlockNo
  BY DEF BlockNo
<1> QED  BY <1>1, <1>2, <1>4, <1>5 DEF RecencyInv, UsesOK, AgesOK, EvictedOK

\* Every access keeps it, whoever makes it.
LEMMA RecencyAccess ==
  ASSUME SoundUse, CacheInv, RecencyInv, NEW a \in Addr,
         getData(a) \/ \E v \in Value : putData(a, v),
         Used(a), gets + puts < MaxAccesses,
         \/ gets' = gets + 1 /\ puts' = puts
         \/ puts' = puts + 1 /\ gets' = gets
  PROVE  RecencyInv'
<1>1. cache_org' = cache_org /\ Count
  BY DEF getData, putData, getHit, getMiss, putHit, putMiss
<1>2. counter' = counter + 1
  BY <1>1, CountStep DEF CacheInv
<1>3. CASE found(a)
  <2> DEFINE i == hit(a)
  <2>1. i \in Slot
    BY <1>3, HitHolds DEF CacheInv
  <2>2. \/ cblocks' = [cblocks EXCEPT ![i].last_used = Touched(i, counter')]
        \/ \E v : cblocks' = [cblocks EXCEPT ![i].data = v,
                                   ![i].last_used = Touched(i, counter')]
    BY <1>3 DEF getData, putData, getHit, getMiss, putHit, putMiss
  <2>3. \A j \in Slot : cblocks[j] \in Block
    BY DEF CacheInv, TypeOK
  <2> HIDE DEF i
  <2>4. ASSUME NEW j \in Slot
        PROVE  /\ cblocks'[j].tag = cblocks[j].tag
               /\ cblocks'[j].valid = cblocks[j].valid
               /\ cblocks'[j].last_used =
                    IF j = i THEN Touched(j, counter')
                             ELSE cblocks[j].last_used
    <3>1. CASE j # i
      BY <2>1, <2>2, <3>1 DEF CacheInv, TypeOK
    <3>2. CASE j = i
      <4> DEFINE t == Touched(i, counter')
      <4>1. \/ cblocks'[i] = [cblocks[i] EXCEPT !.last_used = t]
            \/ \E v : cblocks'[i] = [cblocks[i] EXCEPT !.data = v,
                                                      !.last_used = t]
        BY <2>1, <2>2 DEF CacheInv, TypeOK
      <4> HIDE DEF t
      <4>2. /\ cblocks'[i].tag = cblocks[i].tag
            /\ cblocks'[i].valid = cblocks[i].valid
            /\ cblocks'[i].last_used = t
        BY <2>1, <2>3, <4>1 DEF Block
      <4> QED  BY <3>2, <4>2 DEF t
    <3> QED  BY <3>1, <3>2
  <2> QED  BY <1>1, <1>2, <1>3, <2>4, RecencyHit DEF i
<1>4. CASE ~found(a)
  <2> DEFINE x == index(counter + 1, a)
  <2>1. x \in Slot
    BY VictimInSet DEF CacheInv
  <2>2. \E words : cblocks' = [cblocks EXCEPT ![x] =
                                 Filled(counter', a, words)]
    BY <1>2, <1>4 DEF getData, putData, getHit, getMiss, putHit, putMiss
  <2> HIDE DEF x
  <2>3. /\ cblocks'[x].tag = tag(a) /\ cblocks'[x].valid
        /\ cache_org # DIRECT => cblocks'[x].last_used = counter'
        /\ \A j \in Slot : j # x => cblocks'[j] = cblocks[j]
    BY <2>1, <2>2 DEF Filled, CacheInv, TypeOK
  <2> QED  BY <1>1, <1>2, <1>4, <2>1, <2>3, RecencyMiss DEF x
<1> QED  BY <1>3, <1>4

LEMMA RecencyStep ==
  ASSUME SoundUse, CacheInv, RecencyInv, [HNext]_hvars
  PROVE  RecencyInv'
<1>1. CASE UNCHANGED hvars
  <2>1. \A i, a : Held(i, a)' <=> Held(i, a)
    BY <1>1 DEF hvars, Held, Matches, slots, tag
  <2>2. \A a : (found(a)' <=> found(a)) /\ slots(a)' = slots(a)
    BY <1>1 DEF hvars, found, Matches, slots, tag
  <2>3. UsesOK'
    BY <1>1 DEF hvars, RecencyInv, UsesOK
  <2>4. AgesOK'
    BY <1>1, <2>1 DEF hvars, RecencyInv, AgesOK, block
  <2>5. EvictedOK'
    BY <1>1, <2>1, <2>2 DEF hvars, RecencyInv, EvictedOK, block
  <2> QED  BY <2>3, <2>4, <2>5 DEF RecencyInv
<1>2. CASE HNext
  BY <1>2, RecencyAccess DEF HNext
<1> QED  BY <1>1, <1>2

\* Two slots of a set hold different blocks, and a valid slot of a set holds
\* one that competes for it.
LEMMA HeldRivals ==
  ASSUME SoundUse, CacheInv, RecencyInv, NEW a \in Addr
  PROVE  /\ \A j \in slots(a) : cblocks[j].valid =>
              BlockAt(j) \in Rivals(block(a))
         /\ \A i, j \in slots(a) :
              cblocks[i].valid /\ cblocks[j].valid /\ BlockAt(i) = BlockAt(j)
                => i = j
<1>1. \A j \in slots(a) : j \in Slot
  BY SlotsFacts DEF CacheInv
<1>2. \A j \in slots(a) : cblocks[j].valid =>
        \E c \in Addr : Held(j, c) /\ BlockAt(j) = block(c)
  BY <1>1 DEF RecencyInv, AgesOK, CacheInv, HeldSound
<1>3. ASSUME NEW j \in slots(a), cblocks[j].valid
      PROVE  BlockAt(j) \in Rivals(block(a))
  <2>1. PICK c \in Addr : Held(j, c) /\ BlockAt(j) = block(c)
    BY <1>2, <1>3
  <2>2. slots(c) = slots(a)
    BY <2>1, SameSet DEF CacheInv, Held
  <2> QED  BY <2>1, <2>2, SameSet DEF CacheInv
<1>4. ASSUME NEW i \in slots(a), NEW j \in slots(a),
             cblocks[i].valid, cblocks[j].valid, BlockAt(i) = BlockAt(j)
      PROVE  i = j
  <2>1. PICK c \in Addr : Held(i, c) /\ BlockAt(i) = block(c)
    BY <1>2, <1>4
  <2>2. Held(j, c)
    BY <1>1, <1>4, <2>1 DEF CacheInv, HeldComplete
  <2> QED  BY <1>1, <2>1, <2>2 DEF CacheInv, HeldUnique
<1> QED  BY <1>3, <1>4

\* The rivals of b used after it.
Later(b) == {c \in Rivals(b) : lastUse[c] > lastUse[b]}

\* A block that is held has fewer later rivals than its set has slots: each
\* of them is held too, in another slot.
LEMMA HeldIsRecent ==
  ASSUME SoundUse, EvenSets, CacheInv, RecencyInv,
         NEW a \in Addr, NEW i \in Slot, Held(i, a)
  PROVE  Cardinality(Later(block(a))) < Ways
<1> DEFINE R == Later(block(a))
           T == slots(a) \ {i}
           At(c) == CHOOSE j \in T : cblocks[j].valid /\ BlockAt(j) = c
           f == [c \in R |-> At(c)]
<1>1. slots(a) \subseteq Slot /\ i \in slots(a) /\ BlockAt(i) = block(a)
  BY SlotsFacts DEF CacheInv, Held, HeldSound
<1>2. /\ IsFiniteSet(slots(a)) /\ Cardinality(slots(a)) = Ways /\ Ways \in Nat
  BY SlotCount DEF CacheInv
<1>3. IsFiniteSet(T) /\ Cardinality(T) = Ways - 1
  BY <1>1, <1>2, FS_RemoveElement
<1>4. ASSUME NEW c \in R
      PROVE  \E j \in T : cblocks[j].valid /\ BlockAt(j) = c
  <2>1. c \in Rivals(block(a)) /\ lastUse[c] > lastUse[block(a)]
    BY DEF Later
  <2>2. c \in BlockNo
    BY <2>1 DEF Rivals, CacheInv, TypeOK
  <2>3. PICK b \in Addr : c = block(b)
    BY <2>2 DEF BlockNo
  <2>4. slots(b) = slots(a)
    BY <2>1, <2>3, SameSet DEF CacheInv
  <2>5. block(a) \in BlockNo
    BY DEF BlockNo
  <2>6. lastUse[c] \in Nat /\ lastUse[block(a)] \in Nat
    BY <2>2, <2>5 DEF RecencyInv, UsesOK
  <2>7. found(b)
    <3> SUFFICES ASSUME ~found(b) PROVE FALSE
      OBVIOUS
    <3>1. lastUse[block(a)] > lastUse[block(b)]
      BY <1>1, <2>1, <2>3, <2>4, <2>6 DEF RecencyInv, EvictedOK
    <3> QED  BY <2>1, <2>3, <2>6, <3>1
  <2>8. PICK j \in slots(b) : Held(j, b)
    BY <2>7 DEF found, Held
  <2>9. cblocks[j].valid /\ BlockAt(j) = c
    BY <1>1, <2>3, <2>4, <2>8 DEF CacheInv, HeldSound
  <2>10. j # i
    BY <1>1, <2>1, <2>6, <2>9
  <2> QED  BY <2>4, <2>9, <2>10
<1>5. \A c \in R : At(c) \in T /\ BlockAt(At(c)) = c
  BY <1>4
<1>6. f \in Injection(R, T)
  <2> HIDE DEF At, R, T
  <2>1. f \in [R -> T]
    BY <1>5
  <2>2. ASSUME NEW c \in R, NEW d \in R, f[c] = f[d]
        PROVE  c = d
    BY <1>5, <2>2
  <2> QED  BY <2>1, <2>2 DEF Injection, IsInjective
<1>7. IsFiniteSet(R) /\ Cardinality(R) <= Cardinality(T)
  BY <1>3, <1>6, FS_Injection
<1>8. Cardinality(R) \in Nat
  BY <1>7, FS_CardinalityType
<1> QED  BY <1>2, <1>3, <1>7, <1>8

\* A block that was used and is not held has at least as many: what fills
\* its set.
LEMMA EvictedIsOld ==
  ASSUME SoundUse, EvenSets, CacheInv, RecencyInv,
         NEW a \in Addr, lastUse[block(a)] > 0, ~found(a)
  PROVE  Ways <= Cardinality(Later(block(a)))
<1> DEFINE R == Later(block(a))
           g == [j \in slots(a) |-> BlockAt(j)]
<1>1. slots(a) \subseteq Slot
  BY SlotsFacts DEF CacheInv
<1>2. /\ IsFiniteSet(slots(a)) /\ Cardinality(slots(a)) = Ways /\ Ways \in Nat
  BY SlotCount DEF CacheInv
<1>3. R \subseteq BlockNo
  BY DEF Later, Rivals, CacheInv, TypeOK
<1>4. IsFiniteSet(R)
  BY <1>3, BlocksFinite, FS_Subset
<1>5. \A j \in slots(a) : cblocks[j].valid
  BY DEF RecencyInv, EvictedOK
<1>6. ASSUME NEW j \in slots(a)
      PROVE  BlockAt(j) \in R
  <2>1. cblocks[j].valid /\ j \in Slot
    BY <1>1, <1>5
  <2>2. PICK c \in Addr : Held(j, c)
    BY <2>1 DEF RecencyInv, AgesOK
  <2>3. BlockAt(j) = block(c)
    BY <2>1, <2>2 DEF CacheInv, HeldSound
  <2>4. lastUse[block(c)] > lastUse[block(a)]
    BY <2>2 DEF RecencyInv, EvictedOK
  <2> QED  BY <2>1, <2>3, <2>4, HeldRivals DEF Later
<1>7. g \in Injection(slots(a), R)
  <2> HIDE DEF R
  <2>1. g \in [slots(a) -> R]
    BY <1>6
  <2>2. ASSUME NEW i \in slots(a), NEW j \in slots(a), g[i] = g[j]
        PROVE  i = j
    BY <1>5, <2>2, HeldRivals
  <2> QED  BY <2>1, <2>2 DEF Injection, IsInjective
<1>8. Cardinality(slots(a)) <= Cardinality(R)
  BY <1>4, <1>7, FS_Injection
<1> QED  BY <1>2, <1>8

\* So a block that was used is found, if those of its set used after it are
\* fewer than its set has room for.
LEMMA FoundIfRecent ==
  ASSUME SoundUse, EvenSets, CacheInv, RecencyInv,
         NEW a \in Addr, lastUse[block(a)] > 0,
         NEW W, IsFiniteSet(W), Cardinality(W) < Ways, Later(block(a)) \subseteq W
  PROVE  found(a)
<1>1. /\ Cardinality(Later(block(a))) <= Cardinality(W)
      /\ Cardinality(Later(block(a))) \in Nat /\ Cardinality(W) \in Nat
  BY FS_Subset, FS_CardinalityType
<1>2. Ways \in Nat
  BY SlotCount DEF CacheInv
<1> QED  BY <1>1, <1>2, EvictedIsOld

LEMMA InvRecent ==
  ASSUME SoundUse, EvenSets, CacheInv, RecencyInv
  PROVE  KeepsMostRecent
<1> DEFINE In  == {BlockAt(i) : i \in {j \in Slot : cblocks[j].valid}}
           Out == {b \in BlockNo : lastUse[b] > 0
                                   /\ Cardinality(Later(b)) < Ways}
<1>1. ASSUME NEW i \in Slot, cblocks[i].valid
      PROVE  BlockAt(i) \in Out
  <2>1. PICK a \in Addr : Held(i, a)
    BY <1>1 DEF RecencyInv, AgesOK
  <2>2. BlockAt(i) = block(a)
    BY <2>1 DEF CacheInv, HeldSound
  <2>3. lastUse[block(a)] > 0
    BY <2>1 DEF RecencyInv, AgesOK
  <2>4. block(a) \in BlockNo
    BY DEF BlockNo
  <2> QED  BY <2>1, <2>2, <2>3, <2>4, HeldIsRecent
<1>2. ASSUME NEW b \in Out
      PROVE  b \in In
  <2>1. PICK a \in Addr : b = block(a)
    BY DEF BlockNo
  <2>2. found(a)
    <3> SUFFICES ASSUME ~found(a) PROVE FALSE
      OBVIOUS
    <3>1. Ways <= Cardinality(Later(b))
      BY <2>1, EvictedIsOld
    <3>2. Ways \in Nat
      BY SlotCount DEF CacheInv
    <3>3. IsFiniteSet(Later(b))
      <4>1. Later(b) \subseteq BlockNo
        BY DEF Later, Rivals, CacheInv, TypeOK
      <4> QED  BY <4>1, BlocksFinite, FS_Subset
    <3>4. Cardinality(Later(b)) \in Nat
      BY <3>3, FS_CardinalityType
    <3> QED  BY <3>1, <3>2, <3>4
  <2>3. PICK i \in slots(a) : Held(i, a)
    BY <2>2 DEF found, Held
  <2>4. i \in Slot
    BY SlotsFacts DEF CacheInv
  <2>5. cblocks[i].valid /\ BlockAt(i) = b
    BY <2>1, <2>3, <2>4 DEF CacheInv, HeldSound
  <2> QED  BY <2>4, <2>5
<1>3. In = Out
  BY <1>1, <1>2
<1> QED  BY <1>3 DEF KeepsMostRecent, Later

\* In every set the cache holds the blocks that were used last, as many as
\* there is room for: the block unused for longest, by the ages that
\* add_block_* of memory.cpp:105-138 compare, is the one used longest ago.
THEOREM ReplacementCorrect ==
  ASSUME SoundUse, EvenSets
  PROVE  HSpec => []KeepsMostRecent
<1>1. HInit => CacheInv /\ RecencyInv
  BY InitInv, RecencyInit
<1>2. CacheInv /\ RecencyInv /\ [HNext]_hvars => CacheInv' /\ RecencyInv'
  BY NextInv, RecencyStep
<1>3. CacheInv /\ RecencyInv => KeepsMostRecent
  BY InvRecent
<1> QED  BY <1>1, <1>2, <1>3, PTL DEF HSpec
=============================================================================
