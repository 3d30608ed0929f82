---------------------------- MODULE MatrixProof ----------------------------
(***************************************************************************)
(* The matrix programs compute the product: at every moment each cell of C *)
(* in main memory is the sum of the products that are done, for matrices   *)
(* of every size, in both orders of the loops and behind each organization *)
(* of the cache.                                                           *)
(***************************************************************************)
EXTENDS MatrixDriver, CacheProof

\* What the proof needs of the constants: the cache's own hypotheses, room
\* for the three matrices, a count of accesses that the 4 * N^3 of one
\* multiplication do not exceed, and sums that do not overflow.
DriverUse ==
  /\ SoundUse
  /\ 0 .. C + N * N - 1 \subseteq Addr
  /\ 4 * (N * N * N) <= MaxAccesses
  /\ SumsFit

-----------------------------------------------------------------------------
(* The inductive invariant.                                                *)

\* The loops are in their ranges, and between two organizations they are
\* where they started.
LoopOK ==
  /\ order \in {"naive", "smart"}
  /\ i \in 0 .. N /\ j \in 0 .. N - 1 /\ k \in 0 .. N - 1
  /\ step \in {"c", "a", "b", "put"}
  /\ i = N => j = 0 /\ k = 0 /\ step = "c"

\* How many loads the iteration has made.
Loads ==
  CASE step = "c" -> 0 [] step = "a" -> 1 [] step = "b" -> 2 [] step = "put" -> 3

\* The accesses are those of the iterations: what keeps the ages of the
\* cache from overflowing.
AccessesOK ==
  /\ puts = (i * N + Middle) * N + Inner
  /\ gets = 3 * puts + Loads

\* The factors are never written.
FactorsOK ==
  /\ blocks0 \in InitData
  /\ \A x \in 0 .. C - 1 : WordAt(blocks, x) = WordAt(blocks0, x)

DriverInv ==
  /\ CacheInv /\ LoopOK /\ AccessesOK
  /\ FactorsOK /\ OperandsLoaded /\ PartialSums

-----------------------------------------------------------------------------
(* Numbers.                                                                *)

LEMMA PairBound ==
  ASSUME NEW m \in Nat \ {0}, NEW n \in Nat \ {0},
         NEW x \in 0 .. m - 1, NEW y \in 0 .. n - 1
  PROVE  x * n + y \in 0 .. m * n - 1
<1>1. x * n \in Nat /\ m * n \in Nat
  OBVIOUS
<1>2. (m - 1 - x) * n >= 0
  OBVIOUS
<1>3. (m - 1 - x) * n = m * n - n - x * n
  OBVIOUS
<1> QED  BY <1>1, <1>2, <1>3

LEMMA PairUnique ==
  ASSUME NEW n \in Nat \ {0}, NEW x \in Nat, NEW y \in 0 .. n - 1,
         NEW u \in Nat, NEW v \in 0 .. n - 1, x * n + y = u * n + v
  PROVE  x = u /\ y = v
<1>1. (x * n + y) \div n = x /\ (x * n + y) % n = y
  BY DivModInverse
<1>2. (u * n + v) \div n = u /\ (u * n + v) % n = v
  BY DivModInverse
<1> QED  BY <1>1, <1>2

LEMMA Successor ==
  ASSUME NEW x \in 0 .. N - 1
  PROVE  (x + 1) % N = IF x = N - 1 THEN 0 ELSE x + 1
<1>1. CASE x = N - 1
  <2>1. (1 * N + 0) % N = 0
    BY NAssumption, DivModInverse
  <2> QED  BY <1>1, <2>1, NAssumption
<1>2. CASE x # N - 1
  <2>1. (0 * N + (x + 1)) % N = x + 1
    <3>1. x + 1 \in 0 .. N - 1
      BY <1>2, NAssumption
    <3> QED  BY <3>1, NAssumption, DivModInverse
  <2> QED  BY <1>2, <2>1, NAssumption
<1> QED  BY <1>1, <1>2

\* Induction over the numbers, for a set.
LEMMA NatInductionSet ==
  ASSUME NEW S \in SUBSET Nat, 0 \in S, \A m \in S : m + 1 \in S
  PROVE  S = Nat
<1> SUFFICES ASSUME Nat \ S # {} PROVE FALSE
  OBVIOUS
<1>1. PICK x \in Nat \ S : \A y \in Nat \ S : ~ (<<y, x>> \in OpToRel(<, Nat))
  BY NatLessThanWellFounded, WFMin
<1>2. x \in Nat /\ x # 0 /\ x - 1 \in Nat /\ x - 1 < x /\ x = (x - 1) + 1
  <2>1. x \in Nat /\ x # 0
    OBVIOUS
  <2> QED  BY <2>1
<1>3. x - 1 \in S
  BY <1>1, <1>2 DEF OpToRel
<1> QED  BY <1>1, <1>2, <1>3

-----------------------------------------------------------------------------
(* Sums.                                                                   *)

\* The sums of the first 0 to m terms.
Sums(g, term, m) ==
  /\ DOMAIN g = 0 .. m /\ g[0] = 0
  /\ \A x \in 1 .. m : g[x] = g[x - 1] + term[x - 1]

LEMMA SumsExist ==
  ASSUME NEW term, NEW m \in Nat
  PROVE  \E g : Sums(g, term, m)
<1> DEFINE S == {x \in Nat : \E g : Sums(g, term, x)}
<1>1. 0 \in S
  <2>1. Sums([x \in 0 .. 0 |-> 0], term, 0)
    BY DEF Sums
  <2> QED  BY <2>1
<1>2. ASSUME NEW x \in S PROVE x + 1 \in S
  <2>1. PICK g : Sums(g, term, x)
    OBVIOUS
  <2> DEFINE h == [y \in 0 .. x + 1 |->
                     IF y <= x THEN g[y] ELSE g[y - 1] + term[y - 1]]
  <2>2. \A y \in 0 .. x : h[y] = g[y]
    OBVIOUS
  <2>3. h[x + 1] = h[x] + term[x]
    BY <2>2
  <2>4. Sums(h, term, x + 1)
    BY <2>1, <2>2, <2>3 DEF Sums
  <2> QED  BY <2>4
<1> HIDE DEF S
<1>3. S = Nat
  BY <1>1, <1>2, NatInductionSet DEF S
<1> QED  BY <1>3 DEF S

LEMMA SumsUnique ==
  ASSUME NEW term, NEW m \in Nat, NEW g, Sums(g, term, m),
         NEW n \in Nat, NEW h, Sums(h, term, n), m <= n
  PROVE  \A x \in 0 .. m : g[x] = h[x]
<1> DEFINE S == {x \in Nat : x <= m => g[x] = h[x]}
<1>1. 0 \in S
  BY DEF Sums
<1>2. ASSUME NEW x \in S PROVE x + 1 \in S
  <2> SUFFICES ASSUME x + 1 <= m PROVE g[x + 1] = h[x + 1]
    OBVIOUS
  <2>1. x + 1 \in 1 .. m /\ x + 1 \in 1 .. n /\ (x + 1) - 1 = x /\ x <= m
    OBVIOUS
  <2> QED  BY <2>1 DEF Sums
<1> HIDE DEF S
<1>3. S = Nat
  BY <1>1, <1>2, NatInductionSet DEF S
<1> QED  BY <1>3 DEF S

\* So there is a function of the partial sums.
LEMMA SumDefined ==
  ASSUME NEW term
  PROVE  \E g : g = [n \in Nat |-> IF n = 0 THEN 0 ELSE g[n - 1] + term[n - 1]]
<1> DEFINE T(n) == CHOOSE g : Sums(g, term, n)
           F == [n \in Nat |-> T(n)[n]]
<1>1. \A n \in Nat : Sums(T(n), term, n)
  BY SumsExist
<1> HIDE DEF T
<1>2. ASSUME NEW n \in Nat PROVE F[n] = IF n = 0 THEN 0 ELSE F[n - 1] + term[n - 1]
  <2>1. CASE n = 0
    BY <1>1, <2>1 DEF Sums
  <2>2. CASE n # 0
    <3>1. n - 1 \in Nat /\ n \in 1 .. n /\ n - 1 \in 0 .. n - 1
      BY <2>2
    <3>2. T(n)[n] = T(n)[n - 1] + term[n - 1]
      BY <1>1, <3>1 DEF Sums
    <3>3. T(n - 1)[n - 1] = T(n)[n - 1]
      BY <1>1, <3>1, SumsUnique
    <3> QED  BY <2>2, <3>1, <3>2, <3>3
  <2> QED  BY <2>1, <2>2
<1>3. F = [n \in Nat |-> IF n = 0 THEN 0 ELSE F[n - 1] + term[n - 1]]
  BY <1>2
<1> HIDE DEF F
<1> QED  BY <1>3

\* A sum has one product more than the one before it.
LEMMA ProductsStep ==
  ASSUME NEW m, NEW x, NEW y
  PROVE  /\ Products(m, x, y)[0] = 0
         /\ \A n \in Nat : Products(m, x, y)[n + 1] =
              Products(m, x, y)[n] + WordAt(m, A + x * N + n) *
                                     WordAt(m, B + n * N + y)
<1> DEFINE t(n) == WordAt(m, A + x * N + n) * WordAt(m, B + n * N + y)
           term == [n \in Nat |-> t(n)]
           P == Products(m, x, y)
<1>1. \E g : g = [n \in Nat |-> IF n = 0 THEN 0 ELSE g[n - 1] + term[n - 1]]
  BY SumDefined
<1>2. \A g : [n \in Nat |-> IF n = 0 THEN 0 ELSE g[n - 1] + term[n - 1]] =
             [n \in Nat |-> IF n = 0 THEN 0 ELSE g[n - 1] + t(n - 1)]
  OBVIOUS
<1>3. P = [n \in Nat |-> IF n = 0 THEN 0 ELSE P[n - 1] + t(n - 1)]
  <2> HIDE DEF term
  <2>1. P = CHOOSE g :
              g = [n \in Nat |-> IF n = 0 THEN 0 ELSE g[n - 1] + t(n - 1)]
    BY DEF Products
  <2> HIDE DEF t, P
  <2>2. \E g : g = [n \in Nat |-> IF n = 0 THEN 0 ELSE g[n - 1] + t(n - 1)]
    BY <1>1, <1>2
  <2> QED  BY <2>1, <2>2
<1> HIDE DEF P, t
<1>4. \A n \in Nat : P[n + 1] = P[n] + t(n)
  BY <1>3
<1> QED  BY <1>3, <1>4 DEF P, t

-----------------------------------------------------------------------------
(* Addresses and accesses.                                                 *)

LEMMA Addresses ==
  ASSUME DriverUse, NEW x \in 0 .. N - 1, NEW y \in 0 .. N - 1
  PROVE  /\ A + x * N + y \in Addr /\ A + x * N + y \in 0 .. C - 1
         /\ B + x * N + y \in Addr /\ B + x * N + y \in 0 .. C - 1
         /\ C + x * N + y \in Addr /\ C + x * N + y >= C
         /\ C \in Nat
<1> DEFINE s == N * N
<1>1. x * N + y \in 0 .. s - 1 /\ s \in Nat /\ x * N \in Nat
  BY NAssumption, PairBound
<1>2. A = 0 /\ B = s /\ C = s + s
  BY <1>1 DEF A, B, C
<1>3. 0 .. C + s - 1 \subseteq Addr
  BY DEF DriverUse
<1> HIDE DEF s
<1> QED  BY <1>1, <1>2, <1>3

\* The cell a store writes is no other cell.
LEMMA CellsDiffer ==
  ASSUME DriverUse, NEW x \in 0 .. N - 1, NEW y \in 0 .. N - 1,
         NEW u \in 0 .. N - 1, NEW v \in 0 .. N - 1
  PROVE  C + x * N + y = C + u * N + v <=> x = u /\ y = v
<1>1. C \in Nat
  BY Addresses
<1>2. x * N \in Nat /\ u * N \in Nat
  BY NAssumption
<1>3. C + x * N + y = C + u * N + v <=> x * N + y = u * N + v
  BY <1>1, <1>2
<1> QED  BY <1>3, NAssumption, PairUnique

\* A load returns the word of its address, and changes none.
LEMMA LoadStep ==
  ASSUME DriverUse, CacheInv, NEW x \in Addr, Load(x),
         gets + puts < MaxAccesses
  PROVE  /\ CacheInv' /\ blocks' = blocks
         /\ data' = WordAt(blocks, x)
<1>1. gets' = gets + 1 /\ puts' = puts /\ (getHit(x) \/ getMiss(x))
  BY DEF Load, getData
<1>2. CacheInv' /\ data' = WordAt(blocks, x)
  BY <1>1, GetHitStep, GetMissStep DEF DriverUse, WordAt
<1> QED  BY <1>1, <1>2 DEF getHit, getMiss

\* A store changes the word of its address and no other.
LEMMA StoreStep ==
  ASSUME DriverUse, CacheInv, NEW x \in Addr, NEW v \in Value, Store(x, v),
         gets + puts < MaxAccesses
  PROVE  /\ CacheInv'
         /\ \A y \in Addr : WordAt(blocks', y) =
              IF y = x THEN v ELSE WordAt(blocks, y)
<1>1. puts' = puts + 1 /\ gets' = gets /\ (putHit(x, v) \/ putMiss(x, v))
  BY DEF Store, putData
<1>2. CacheInv'
  BY <1>1, PutHitStep, PutMissStep DEF DriverUse
<1>3. blocks' = [blocks EXCEPT ![mem_idx(x)][offset(x)] = v]
  BY <1>1 DEF putHit, Updated, putMiss, ReadBack, StoreTime
<1> QED  BY <1>2, <1>3, StoreFacts DEF DriverUse, CacheInv, WordAt

\* An iteration has its four accesses left.
LEMMA RoomForAccess ==
  ASSUME DriverUse, LoopOK, AccessesOK, i < N
  PROVE  /\ gets + puts < MaxAccesses
         /\ gets \in Nat /\ puts \in Nat
         /\ gets + puts \in 0 .. 4 * (N * N * N) - 1
<1> DEFINE s == N * N
           t == N * N * N
           q == i * N + Middle
<1>1. Middle \in 0 .. N - 1 /\ Inner \in 0 .. N - 1 /\ i \in 0 .. N - 1
  BY NAssumption DEF LoopOK, Middle, Inner
<1>2. q \in 0 .. s - 1 /\ s \in Nat \ {0} /\ t = s * N
  BY <1>1, NAssumption, PairBound
<1>3. q * N + Inner \in 0 .. t - 1 /\ t \in Nat
  <2> HIDE DEF q, s, t
  <2> QED  BY <1>1, <1>2, NAssumption, PairBound
<1>4. 4 * t <= MaxAccesses /\ MaxAccesses \in Nat
  BY DEF DriverUse, SoundUse
<1>5. puts = q * N + Inner
  BY DEF AccessesOK
<1>6. Loads \in 0 .. 3 /\ gets = 3 * puts + Loads
  BY DEF LoopOK, AccessesOK, Loads
<1>7. gets + puts \in 0 .. 4 * t - 1 /\ gets \in Nat /\ puts \in Nat
  <2> HIDE DEF q, t
  <2> QED  BY <1>3, <1>5, <1>6
<1>8. gets + puts < MaxAccesses
  <2> HIDE DEF q, t
  <2> QED  BY <1>3, <1>4, <1>7
<1> QED  BY <1>7, <1>8

\* Words and sums are integers.
LEMMA WordInt ==
  ASSUME DriverUse, NEW m \in InitData, NEW x \in Addr
  PROVE  WordAt(m, x) \in Int
<1>1. m \in [MemIdx -> [Offset -> Value]]
  BY InitDataAssumption
<1>2. WordAt(m, x) \in Value
  BY <1>1, AddrFacts DEF WordAt, DriverUse
<1> QED  BY <1>2 DEF DriverUse, SumsFit

LEMMA ProductsInt ==
  ASSUME DriverUse, NEW m \in InitData, NEW x \in 0 .. N - 1, NEW y \in 0 .. N - 1
  PROVE  \A n \in 0 .. N : Products(m, x, y)[n] \in Int
<1> DEFINE S == {n \in Nat : n <= N => Products(m, x, y)[n] \in Int}
<1>1. 0 \in S
  BY ProductsStep
<1>2. ASSUME NEW n \in S PROVE n + 1 \in S
  <2> SUFFICES ASSUME n + 1 <= N PROVE Products(m, x, y)[n + 1] \in Int
    OBVIOUS
  <2>1. n \in 0 .. N - 1 /\ Products(m, x, y)[n] \in Int
    BY NAssumption
  <2>2. A + x * N + n \in Addr /\ B + n * N + y \in Addr
    BY <2>1, Addresses
  <2>3. /\ WordAt(m, A + x * N + n) \in Int
        /\ WordAt(m, B + n * N + y) \in Int
    BY <2>2, WordInt
  <2>4. Products(m, x, y)[n + 1] =
          Products(m, x, y)[n] + WordAt(m, A + x * N + n) *
                                 WordAt(m, B + n * N + y)
    BY <2>1, ProductsStep
  <2> QED  BY <2>1, <2>3, <2>4
<1> HIDE DEF S
<1>3. S = Nat
  BY <1>1, <1>2, NatInductionSet DEF S
<1> QED  BY <1>3, NAssumption DEF S

-----------------------------------------------------------------------------
(* The four accesses of an iteration.                                      *)

LEMMA DriverInit ==
  ASSUME DriverUse, DInit
  PROVE  DriverInv
<1>1. CacheInv
  BY InitInv DEF DInit, DriverUse
<1>2. LoopOK /\ step = "c"
  BY OrdersAssumption, NAssumption DEF DInit, LoopOK
<1>3. AccessesOK
  BY NAssumption DEF DInit, HInit, AccessesOK, Loads, Middle, Inner
<1>4. FactorsOK /\ blocks0 = blocks
  BY DEF DInit, HInit, Init, FactorsOK
<1>5. OperandsLoaded
  BY <1>2 DEF OperandsLoaded
<1>6. PartialSums
  <2> SUFFICES ASSUME NEW x \in 0 .. N - 1, NEW y \in 0 .. N - 1
               PROVE  WordAt(blocks, C + x * N + y) =
                        WordAt(blocks0, C + x * N + y) +
                          Products(blocks0, x, y)[Done(x, y)]
    BY DEF PartialSums
  <2>1. i = 0 /\ j = 0 /\ k = 0 /\ order \in {"naive", "smart"}
    BY <1>2 DEF DInit, LoopOK
  <2>2. Done(x, y) = 0
    BY <2>1 DEF Done
  <2>3. WordAt(blocks0, C + x * N + y) \in Int
    <3>1. C + x * N + y \in Addr
      BY Addresses
    <3>2. WordAt(blocks, C + x * N + y) \in Value
      BY <1>1, <3>1, AddrFacts DEF CacheInv, TypeOK, WordAt, DriverUse
    <3> QED  BY <1>4, <3>2 DEF DriverUse, SumsFit
  <2> QED  BY <1>4, <2>2, <2>3, ProductsStep
<1> QED  BY <1>1, <1>2, <1>3, <1>4, <1>5, <1>6 DEF DriverInv

\* A load keeps everything but the operands.
LEMMA LoadKeeps ==
  ASSUME DriverUse, DriverInv, i < N, NEW x \in Addr, Load(x),
         \/ step = "c" /\ step' = "a"
         \/ step = "a" /\ step' = "b"
         \/ step = "b" /\ step' = "put",
         UNCHANGED loopVars
  PROVE  /\ CacheInv' /\ LoopOK' /\ AccessesOK' /\ FactorsOK' /\ PartialSums'
         /\ blocks' = blocks /\ data' = WordAt(blocks, x)
<1>1. /\ order' = order /\ i' = i /\ j' = j /\ k' = k /\ blocks0' = blocks0
      /\ gets' = gets + 1 /\ puts' = puts
  BY DEF loopVars, Load
<1>2. CacheInv' /\ blocks' = blocks /\ data' = WordAt(blocks, x)
  BY LoadStep, RoomForAccess DEF DriverInv
<1>3. LoopOK'
  BY <1>1 DEF DriverInv, LoopOK
<1>4. AccessesOK'
  <2>1. Loads' = Loads + 1
    BY DEF Loads
  <2>2. Loads \in Nat /\ puts \in Nat
    BY DEF Loads, DriverInv, CacheInv, Counted
  <2>3. Middle' = Middle /\ Inner' = Inner
    BY <1>1 DEF Middle, Inner
  <2> QED  BY <1>1, <2>1, <2>2, <2>3 DEF DriverInv, AccessesOK
<1>5. FactorsOK'
  BY <1>1, <1>2 DEF DriverInv, FactorsOK
<1>6. PartialSums'
  <2>1. \A u, v : Done(u, v)' = Done(u, v)
    BY <1>1 DEF Done
  <2> QED  BY <1>1, <1>2, <2>1 DEF DriverInv, PartialSums
<1> QED  BY <1>2, <1>3, <1>4, <1>5, <1>6

LEMMA DriverLoads ==
  ASSUME DriverUse, DriverInv, LoadC \/ LoadA \/ LoadB
  PROVE  DriverInv'
<1>1. /\ i \in 0 .. N - 1 /\ j \in 0 .. N - 1 /\ k \in 0 .. N - 1
      /\ i' = i /\ j' = j /\ k' = k
  BY NAssumption DEF LoadC, LoadA, LoadB, loopVars, DriverInv, LoopOK
<1>2. AddrC \in Addr /\ AddrA \in Addr /\ AddrB \in Addr
  BY <1>1, Addresses DEF AddrC, AddrA, AddrB
<1>3. AddrC' = AddrC /\ AddrA' = AddrA /\ AddrB' = AddrB
  BY <1>1 DEF AddrC, AddrA, AddrB
<1>4. CASE LoadC
  <2>1. /\ CacheInv' /\ LoopOK' /\ AccessesOK' /\ FactorsOK' /\ PartialSums'
        /\ blocks' = blocks /\ data' = WordAt(blocks, AddrC)
    BY <1>1, <1>2, <1>4, LoadKeeps DEF LoadC
  <2>2. OperandsLoaded'
    BY <1>3, <1>4, <2>1 DEF LoadC, OperandsLoaded
  <2> QED  BY <2>1, <2>2 DEF DriverInv
<1>5. CASE LoadA
  <2>1. /\ CacheInv' /\ LoopOK' /\ AccessesOK' /\ FactorsOK' /\ PartialSums'
        /\ blocks' = blocks /\ data' = WordAt(blocks, AddrA)
    BY <1>1, <1>2, <1>5, LoadKeeps, NAssumption DEF LoadA
  <2>2. OperandsLoaded'
    BY <1>3, <1>5, <2>1 DEF LoadA, DriverInv, OperandsLoaded
  <2> QED  BY <2>1, <2>2 DEF DriverInv
<1>6. CASE LoadB
  <2>1. /\ CacheInv' /\ LoopOK' /\ AccessesOK' /\ FactorsOK' /\ PartialSums'
        /\ blocks' = blocks /\ data' = WordAt(blocks, AddrB)
    BY <1>1, <1>2, <1>6, LoadKeeps, NAssumption DEF LoadB
  <2>2. OperandsLoaded'
    BY <1>3, <1>6, <2>1 DEF LoadB, DriverInv, OperandsLoaded
  <2> QED  BY <2>1, <2>2 DEF DriverInv
<1> QED  BY <1>4, <1>5, <1>6

\* What the store of an iteration writes: its cell's sum with one product
\* more.
LEMMA StoredSum ==
  ASSUME DriverUse, DriverInv, StoreC
  PROVE  /\ i \in 0 .. N - 1 /\ j \in 0 .. N - 1 /\ k \in 0 .. N - 1
         /\ AddrC \in Addr /\ c' \in Value
         /\ c' = WordAt(blocks0, AddrC) + Products(blocks0, i, j)[k + 1]
<1>1. i \in 0 .. N - 1 /\ j \in 0 .. N - 1 /\ k \in 0 .. N - 1 /\ step = "put"
  BY NAssumption DEF StoreC, DriverInv, LoopOK
<1>2. /\ AddrC \in Addr
      /\ AddrA \in 0 .. C - 1 /\ AddrB \in 0 .. C - 1
      /\ AddrA \in Addr /\ AddrB \in Addr
  BY <1>1, Addresses DEF AddrC, AddrA, AddrB
<1>3. Done(i, j) = k
  BY <1>1 DEF Done, DriverInv, LoopOK
<1>4. c = WordAt(blocks0, AddrC) + Products(blocks0, i, j)[k]
  BY <1>1, <1>3 DEF DriverInv, OperandsLoaded, PartialSums, AddrC
<1>5. a = WordAt(blocks0, AddrA) /\ b = WordAt(blocks0, AddrB)
  BY <1>1, <1>2 DEF DriverInv, OperandsLoaded, FactorsOK
<1>6. Products(blocks0, i, j)[k + 1] = Products(blocks0, i, j)[k] + a * b
  BY <1>1, <1>5, ProductsStep DEF AddrA, AddrB
<1>7. \A n \in 0 .. N :
        WordAt(blocks0, AddrC) + Products(blocks0, i, j)[n] \in Value
  BY <1>1 DEF DriverInv, FactorsOK, DriverUse, SumsFit, AddrC
<1>8. Value \subseteq Int
  BY DEF DriverUse, SumsFit
<1> DEFINE w == WordAt(blocks0, AddrC)
           P(n) == Products(blocks0, i, j)[n]
<1>9. w + P(k + 1) \in Value
  BY <1>1, <1>7, NAssumption
<1>10. w \in Int /\ P(k) \in Int /\ a * b \in Int
  <2>1. blocks0 \in InitData
    BY DEF DriverInv, FactorsOK
  <2>2. w \in Int /\ a \in Int /\ b \in Int
    BY <1>2, <1>5, <2>1, WordInt
  <2> QED  BY <1>1, <2>1, <2>2, ProductsInt, NAssumption
<1>11. c' = c + a * b
  BY DEF StoreC
<1>12. c' = w + P(k + 1)
  <2> DEFINE p == a * b
  <2> HIDE DEF w, P, p
  <2>1. c = w + P(k) /\ P(k + 1) = P(k) + p
    BY <1>4, <1>6 DEF w, P, p
  <2>2. c' = c + p
    BY <1>11 DEF p
  <2>3. w \in Int /\ P(k) \in Int /\ p \in Int
    BY <1>10 DEF p
  <2> QED  BY <2>1, <2>2, <2>3
<1> QED  BY <1>1, <1>2, <1>9, <1>12

\* How the loops go on.
LEMMA NextIteration ==
  ASSUME LoopOK, StoreC, i < N
  PROVE  /\ order' = order /\ order \in {"naive", "smart"}
         /\ Inner \in 0 .. N - 1 /\ Middle \in 0 .. N - 1
         /\ Inner' = IF Inner = N - 1 THEN 0 ELSE Inner + 1
         /\ Middle' = IF Inner # N - 1 THEN Middle
                      ELSE IF Middle = N - 1 THEN 0 ELSE Middle + 1
         /\ i' = IF Inner = N - 1 /\ Middle = N - 1 THEN i + 1 ELSE i
<1>1. /\ order' = order /\ order \in {"naive", "smart"}
      /\ Inner \in 0 .. N - 1 /\ Middle \in 0 .. N - 1
  BY DEF StoreC, loopVars, LoopOK, Inner, Middle
<1>2. /\ Inner1 = IF Inner = N - 1 THEN 0 ELSE Inner + 1
      /\ Middle1 = IF Inner # N - 1 THEN Middle
                   ELSE IF Middle = N - 1 THEN 0 ELSE Middle + 1
  BY <1>1, Successor DEF Inner1, Middle1
<1>3. Inner' = Inner1 /\ Middle' = Middle1
  <2>1. CASE order = "naive"
    BY <1>1, <2>1 DEF StoreC, Inner, Middle
  <2>2. CASE order = "smart"
    BY <1>1, <2>2 DEF StoreC, Inner, Middle
  <2> QED  BY <1>1, <2>1, <2>2
<1>4. i' = IF Inner = N - 1 /\ Middle = N - 1 THEN i + 1 ELSE i
  BY DEF StoreC
<1> QED  BY <1>1, <1>2, <1>3, <1>4

\* An iteration is one product more in its cell, and none in the others.
LEMMA DoneStep ==
  ASSUME LoopOK, StoreC, i < N, NEW x \in 0 .. N - 1, NEW y \in 0 .. N - 1
  PROVE  Done(x, y)' = IF x = i /\ y = j THEN k + 1 ELSE Done(x, y)
<1>1. i \in 0 .. N - 1 /\ j \in 0 .. N - 1 /\ k \in 0 .. N - 1
      /\ order' = order /\ N \in Nat \ {0} /\ i' \in {i, i + 1}
  BY NAssumption, NextIteration DEF LoopOK
<1>2. CASE order = "naive"
  <2>1. /\ k' = IF k = N - 1 THEN 0 ELSE k + 1
        /\ j' = IF k # N - 1 THEN j ELSE IF j = N - 1 THEN 0 ELSE j + 1
        /\ i' = IF k = N - 1 /\ j = N - 1 THEN i + 1 ELSE i
    BY <1>1, <1>2, NextIteration DEF Inner, Middle
  <2>2. CASE x < i
    BY <1>1, <2>1, <2>2 DEF Done
  <2>3. CASE x = i
    <3>1. Done(x, y) = IF y < j THEN N ELSE IF y = j THEN k ELSE 0
      BY <1>1, <1>2, <2>3 DEF Done
    <3>2. CASE i' = i
      <4>1. Done(x, y)' = IF y < j' THEN N ELSE IF y = j' THEN k' ELSE 0
        BY <1>1, <1>2, <2>3, <3>2 DEF Done
      <4> QED  BY <1>1, <2>1, <2>3, <3>1, <3>2, <4>1
    <3>3. CASE i' = i + 1
      <4>1. Done(x, y)' = N
        BY <1>1, <2>3, <3>3 DEF Done
      <4> QED  BY <1>1, <2>1, <2>3, <3>1, <3>3, <4>1
    <3> QED  BY <1>1, <3>2, <3>3
  <2>4. CASE x > i
    <3>1. Done(x, y) = 0
      BY <1>1, <2>4 DEF Done
    <3>2. CASE x > i'
      <4>1. Done(x, y)' = 0
        BY <1>1, <3>2 DEF Done
      <4> QED  BY <1>1, <2>4, <3>1, <4>1
    <3>3. CASE x = i'
      <4>1. Done(x, y)' = IF y < j' THEN N ELSE IF y = j' THEN k' ELSE 0
        BY <1>1, <1>2, <3>3 DEF Done
      <4> QED  BY <1>1, <2>1, <2>4, <3>1, <3>3, <4>1
    <3> QED  BY <1>1, <2>4, <3>2, <3>3
  <2> QED  BY <1>1, <2>2, <2>3, <2>4
<1>3. CASE order = "smart"
  <2>1. /\ j' = IF j = N - 1 THEN 0 ELSE j + 1
        /\ k' = IF j # N - 1 THEN k ELSE IF k = N - 1 THEN 0 ELSE k + 1
        /\ i' = IF j = N - 1 /\ k = N - 1 THEN i + 1 ELSE i
    BY <1>1, <1>3, NextIteration DEF Inner, Middle
  <2>2. CASE x < i
    BY <1>1, <2>1, <2>2 DEF Done
  <2>3. CASE x = i
    <3>1. Done(x, y) = IF y < j THEN k + 1 ELSE k
      BY <1>1, <1>3, <2>3 DEF Done
    <3>2. CASE i' = i
      <4>1. Done(x, y)' = IF y < j' THEN k' + 1 ELSE k'
        BY <1>1, <1>3, <2>3, <3>2 DEF Done
      <4> QED  BY <1>1, <2>1, <2>3, <3>1, <3>2, <4>1
    <3>3. CASE i' = i + 1
      <4>1. Done(x, y)' = N
        BY <1>1, <2>3, <3>3 DEF Done
      <4> QED  BY <1>1, <2>1, <2>3, <3>1, <3>3, <4>1
    <3> QED  BY <1>1, <3>2, <3>3
  <2>4. CASE x > i
    <3>1. Done(x, y) = 0
      BY <1>1, <2>4 DEF Done
    <3>2. CASE x > i'
      <4>1. Done(x, y)' = 0
        BY <1>1, <3>2 DEF Done
      <4> QED  BY <1>1, <2>4, <3>1, <4>1
    <3>3. CASE x = i'
      <4>1. Done(x, y)' = IF y < j' THEN k' + 1 ELSE k'
        BY <1>1, <1>3, <3>3 DEF Done
      <4> QED  BY <1>1, <2>1, <2>4, <3>1, <3>3, <4>1
    <3> QED  BY <1>1, <2>4, <3>2, <3>3
  <2> QED  BY <1>1, <2>2, <2>3, <2>4
<1> QED  BY <1>2, <1>3, NextIteration

LEMMA DriverStore ==
  ASSUME DriverUse, DriverInv, StoreC
  PROVE  DriverInv'
<1>1. /\ i \in 0 .. N - 1 /\ j \in 0 .. N - 1 /\ k \in 0 .. N - 1
      /\ AddrC \in Addr /\ c' \in Value
      /\ c' = WordAt(blocks0, AddrC) + Products(blocks0, i, j)[k + 1]
  BY StoredSum
<1>2. i < N /\ LoopOK /\ AccessesOK
  BY <1>1, NAssumption DEF DriverInv
<1>3. /\ step = "put" /\ step' = "c" /\ blocks0' = blocks0
      /\ Store(AddrC, c') /\ puts' = puts + 1 /\ gets' = gets
  BY DEF StoreC, Store
<1>4. /\ CacheInv'
      /\ \A x \in Addr : WordAt(blocks', x) =
           IF x = AddrC THEN c' ELSE WordAt(blocks, x)
  BY <1>1, <1>2, <1>3, RoomForAccess, StoreStep DEF DriverInv
<1>5. LoopOK'
  <2>1. /\ Inner' \in 0 .. N - 1 /\ Middle' \in 0 .. N - 1 /\ i' \in 0 .. N
        /\ i' = N => Inner' = 0 /\ Middle' = 0
        /\ order' = order /\ order \in {"naive", "smart"}
    BY <1>1, <1>2, NextIteration, NAssumption
  <2>2. CASE order = "naive"
    BY <1>3, <2>1, <2>2 DEF LoopOK, Inner, Middle
  <2>3. CASE order = "smart"
    BY <1>3, <2>1, <2>3 DEF LoopOK, Inner, Middle
  <2> QED  BY <2>1, <2>2, <2>3
<1>6. AccessesOK'
  <2>1. Loads = 3 /\ Loads' = 0
    BY <1>3 DEF Loads
  <2>2. puts \in Nat
    BY DEF DriverInv, CacheInv, Counted
  <2>3. gets' = 3 * puts' + Loads'
    BY <1>2, <1>3, <2>1, <2>2 DEF AccessesOK
  <2>4. puts' = (i' * N + Middle') * N + Inner'
    <3>1. /\ Inner \in 0 .. N - 1 /\ Middle \in 0 .. N - 1
          /\ Inner' = IF Inner = N - 1 THEN 0 ELSE Inner + 1
          /\ Middle' = IF Inner # N - 1 THEN Middle
                       ELSE IF Middle = N - 1 THEN 0 ELSE Middle + 1
          /\ i' = IF Inner = N - 1 /\ Middle = N - 1 THEN i + 1 ELSE i
      BY <1>2, NextIteration
    <3>2. puts' = (i * N + Middle) * N + Inner + 1
      BY <1>2, <1>3 DEF AccessesOK
    <3> HIDE DEF Inner, Middle
    <3>3. N \in Nat \ {0} /\ i \in Nat
      BY <1>1, NAssumption
    <3>4. CASE Inner # N - 1
      BY <3>1, <3>2, <3>3, <3>4
    <3>5. CASE Inner = N - 1 /\ Middle # N - 1
      <4>1. (i * N + (Middle + 1)) * N = (i * N + Middle) * N + N
        BY <3>1, <3>3
      <4> QED  BY <3>1, <3>2, <3>3, <3>5, <4>1
    <3>6. CASE Inner = N - 1 /\ Middle = N - 1
      <4>1. ((i + 1) * N) * N = (i * N + (N - 1)) * N + N
        BY <3>3
      <4> QED  BY <3>1, <3>2, <3>3, <3>6, <4>1
    <3> QED  BY <3>4, <3>5, <3>6
  <2> QED  BY <2>3, <2>4 DEF AccessesOK
<1>7. FactorsOK'
  <2>1. AddrC >= C /\ C \in Nat /\ 0 .. C - 1 \subseteq Addr
    <3>1. AddrC >= C /\ C \in Nat
      BY <1>1, Addresses DEF AddrC
    <3> QED  BY <3>1, NAssumption DEF DriverUse
  <2>2. \A x \in 0 .. C - 1 : WordAt(blocks', x) = WordAt(blocks, x)
    BY <1>4, <2>1
  <2> QED  BY <1>3, <2>2 DEF DriverInv, FactorsOK
<1>8. OperandsLoaded'
  BY <1>3 DEF OperandsLoaded
<1>9. PartialSums'
  <2> SUFFICES ASSUME NEW x \in 0 .. N - 1, NEW y \in 0 .. N - 1
               PROVE  WordAt(blocks', C + x * N + y) =
                        WordAt(blocks0, C + x * N + y) +
                          Products(blocks0, x, y)[Done(x, y)']
    BY <1>3 DEF PartialSums
  <2>1. Done(x, y)' = IF x = i /\ y = j THEN k + 1 ELSE Done(x, y)
    BY <1>2, DoneStep
  <2>2. C + x * N + y \in Addr
    BY Addresses
  <2>3. C + x * N + y = AddrC <=> x = i /\ y = j
    BY <1>1, CellsDiffer DEF AddrC
  <2>4. CASE x = i /\ y = j
    BY <1>1, <1>4, <2>1, <2>2, <2>3, <2>4
  <2>5. CASE ~(x = i /\ y = j)
    BY <1>4, <2>1, <2>2, <2>3, <2>5 DEF DriverInv, PartialSums
  <2> QED  BY <2>4, <2>5
<1> QED  BY <1>4, <1>5, <1>6, <1>7, <1>8, <1>9 DEF DriverInv

LEMMA DriverStep ==
  ASSUME DriverUse, DriverInv, [Multiply]_dvars
  PROVE  DriverInv'
<1>1. CASE Multiply
  BY <1>1, DriverLoads, DriverStore DEF Multiply
<1>2. CASE UNCHANGED dvars
  <2>1. UNCHANGED hvars
    BY <1>2 DEF dvars, hvars
  <2>2. CacheInv'
    BY <2>1, NextInv DEF DriverInv, DriverUse
  <2>3. LoopOK' /\ AccessesOK' /\ FactorsOK'
    BY <1>2 DEF dvars, DriverInv, LoopOK, AccessesOK, FactorsOK, Loads,
                Middle, Inner
  <2>4. OperandsLoaded'
    BY <1>2 DEF dvars, DriverInv, OperandsLoaded, AddrA, AddrB, AddrC
  <2>5. PartialSums'
    <3>1. /\ blocks' = blocks /\ blocks0' = blocks0
          /\ \A x, y : Done(x, y)' = Done(x, y)
      BY <1>2 DEF dvars, Done
    <3> QED  BY <3>1 DEF DriverInv, PartialSums
  <2> QED  BY <2>2, <2>3, <2>4, <2>5 DEF DriverInv
<1> QED  BY <1>1, <1>2

\* In both orders of the loops and behind each organization of the cache, each
\* cell of C in main memory is at every moment its first value and the sum of
\* the products that are done (naive6.cpp:21-29, smart6.cpp:21-29), for
\* matrices of every size.
THEOREM ProductCorrect ==
  ASSUME DriverUse
  PROVE  OnceSpec => []PartialSums
<1>1. DInit => DriverInv
  BY DriverInit
<1>2. DriverInv /\ [Multiply]_dvars => DriverInv'
  BY DriverStep
<1>3. DriverInv => PartialSums
  BY DEF DriverInv
<1> QED  BY <1>1, <1>2, <1>3, PTL DEF OnceSpec

\* In one organization every load returns the word of its address in main
\* memory (memory.cpp:203): what goes wrong in the run naive6, where the
\* program changes the organization and keeps the cache, cannot go wrong
\* before it does.
THEOREM OperandsCorrect ==
  ASSUME DriverUse
  PROVE  OnceSpec => []OperandsLoaded
<1>1. DInit => DriverInv
  BY DriverInit
<1>2. DriverInv /\ [Multiply]_dvars => DriverInv'
  BY DriverStep
<1>3. DriverInv => OperandsLoaded
  BY DEF DriverInv
<1> QED  BY <1>1, <1>2, <1>3, PTL DEF OnceSpec

-----------------------------------------------------------------------------
(* What the smart order misses.                                            *)

\* What the bound on the misses asks besides: the sets are of one size, and
\* the rows fit, behind each associative organization that is chosen.
ReuseUse ==
  /\ DriverUse /\ EvenSets
  /\ \A org \in Orgs \ {DIRECT} : RowsFit(org)

\* A block was last used by the access its time says, and no access is
\* forgotten.
TimesOK ==
  /\ \A t \in 0 .. (gets + puts) - 1 :
       At(t) \in Addr /\ lastUse[block(At(t))] >= t + 1
  /\ \A d \in BlockNo : lastUse[d] > 0 => d = block(At(lastUse[d] - 1))

\* The number of blocks in the n words from `first'.
Blocks(first, n) == Cardinality({block(first + x) : x \in 0 .. n - 1})

\* How many words of each matrix have been read: of B, for the row of A in
\* hand.
ReadA == i * N + k + (IF j > 0 \/ step \in {"b", "put"} THEN 1 ELSE 0)
ReadB == k * N + j + (IF step = "put" THEN 1 ELSE 0)
ReadC == IF k > 0 THEN (i + 1) * N
                  ELSE i * N + j + (IF step = "c" THEN 0 ELSE 1)

\* The misses are of blocks that had not been read.
Allowed ==
  Blocks(A, ReadA) + Blocks(C, ReadC) + i * Blocks(B, N * N) + Blocks(B, ReadB)

MissesOK == numMisses \in Nat /\ (cache_org # DIRECT => numMisses <= Allowed)

ReuseInv ==
  /\ DriverInv /\ RecencyInv /\ cache_org \in Orgs
  /\ order = "smart" => TimesOK /\ MissesOK

-----------------------------------------------------------------------------
(* The blocks of an array.                                                 *)

LEMMA ImageFinite ==
  ASSUME NEW g, NEW S, IsFiniteSet(S)
  PROVE  /\ IsFiniteSet({g[x] : x \in S})
         /\ Cardinality({g[x] : x \in S}) <= Cardinality(S)
<1> DEFINE T == {g[x] : x \in S}
           f == [x \in S |-> g[x]]
<1>1. f \in Surjection(S, T)
  BY DEF Surjection
<1> QED  BY <1>1, FS_Surjection

LEMMA BlocksOfFinite ==
  ASSUME NEW first \in Nat, NEW n \in Nat
  PROVE  /\ IsFiniteSet({block(first + x) : x \in 0 .. n - 1})
         /\ Blocks(first, n) \in Nat
<1> DEFINE g == [x \in 0 .. n - 1 |-> block(first + x)]
<1>1. IsFiniteSet({g[x] : x \in 0 .. n - 1})
  <2>1. IsFiniteSet(0 .. n - 1)
    BY FS_Interval
  <2> HIDE DEF g
  <2> QED  BY <2>1, ImageFinite
<1>2. {g[x] : x \in 0 .. n - 1} = {block(first + x) : x \in 0 .. n - 1}
  OBVIOUS
<1> QED  BY <1>1, <1>2, FS_CardinalityType DEF Blocks

LEMMA BlockMonotone ==
  ASSUME NEW x \in Nat, NEW y \in Nat, x <= y
  PROVE  block(x) \in Nat /\ block(x) <= block(y)
<1> DEFINE w == WORDS_PER_BLOCK
           p == x \div w
           q == y \div w
<1>1. /\ w \in Nat \ {0} /\ p \in Nat /\ q \in Nat
      /\ x % w \in 0 .. w - 1 /\ x = p * w + (x % w)
      /\ y % w \in 0 .. w - 1 /\ y = q * w + (y % w)
  BY SizeAssumption, DivMod
<1>2. p <= q
  <2> SUFFICES ASSUME q + 1 <= p PROVE FALSE
    BY <1>1
  <2> HIDE DEF w, p, q
  <2>1. (q + 1) * w <= p * w
    BY <1>1
  <2>2. (q + 1) * w = q * w + w
    BY <1>1
  <2> QED  BY <1>1, <2>1, <2>2
<1> QED  BY <1>1, <1>2 DEF block

\* More words have no fewer blocks.
LEMMA BlocksGrow ==
  ASSUME NEW first \in Nat, NEW n \in Nat, NEW m \in Nat, n <= m
  PROVE  Blocks(first, n) <= Blocks(first, m)
<1>1. {block(first + x) : x \in 0 .. n - 1} \subseteq
        {block(first + x) : x \in 0 .. m - 1}
  OBVIOUS
<1> QED  BY <1>1, BlocksOfFinite, FS_Subset DEF Blocks

\* A word that is the first one read of its block has one block more.
LEMMA BlocksFresh ==
  ASSUME NEW first \in Nat, NEW n \in Nat,
         n = 0 \/ block(first + n) # block(first + n - 1)
  PROVE  Blocks(first, n + 1) = Blocks(first, n) + 1
<1> DEFINE S == {block(first + x) : x \in 0 .. n - 1}
           T == {block(first + x) : x \in 0 .. (n + 1) - 1}
<1>1. T = S \cup {block(first + n)}
  BY 0 .. (n + 1) - 1 = (0 .. n - 1) \cup {n}
<1>2. block(first + n) \notin S
  <2> SUFFICES ASSUME NEW x \in 0 .. n - 1, block(first + x) = block(first + n)
               PROVE  FALSE
    OBVIOUS
  <2>1. /\ first + x \in Nat /\ first + n - 1 \in Nat /\ first + n \in Nat
        /\ first + x <= first + n - 1 /\ first + n - 1 <= first + n
    OBVIOUS
  <2>2. /\ block(first + x) <= block(first + n - 1)
        /\ block(first + n - 1) <= block(first + n)
        /\ block(first + n - 1) \in Nat /\ block(first + n) \in Nat
    BY <2>1, BlockMonotone
  <2> QED  BY <2>2
<1>3. IsFiniteSet(S)
  BY BlocksOfFinite
<1> QED  BY <1>1, <1>2, <1>3, FS_AddElement DEF Blocks

-----------------------------------------------------------------------------
(* The accesses by their time.                                             *)

\* The address of an access, by its iteration.
LEMMA AtOf ==
  ASSUME NEW x \in 0 .. N - 1, NEW y \in 0 .. N - 1, NEW z \in 0 .. N - 1
  PROVE  /\ 4 * ((x * N + z) * N + y) \in Nat
         /\ At(4 * ((x * N + z) * N + y)) = C + x * N + y
         /\ At(4 * ((x * N + z) * N + y) + 1) = A + x * N + z
         /\ At(4 * ((x * N + z) * N + y) + 2) = B + z * N + y
         /\ At(4 * ((x * N + z) * N + y) + 3) = C + x * N + y
<1> DEFINE p == x * N + z
           l == p * N + y
<1>1. x * N \in Nat /\ p \in Nat /\ N \in Nat \ {0}
  BY NAssumption
<1>2. p \div N = x /\ p % N = z
  BY <1>1, DivModInverse
<1>3. p * N \in Nat /\ l \in Nat
  <2> HIDE DEF p
  <2> QED  BY <1>1
<1>4. l \div N = p /\ l % N = y
  <2> HIDE DEF p
  <2> QED  BY <1>1, DivModInverse
<1>5. ASSUME NEW s \in 0 .. 3
      PROVE  (4 * l + s) \div 4 = l /\ (4 * l + s) % 4 = s
  <2> HIDE DEF l
  <2>1. 4 * l + s = l * 4 + s
    BY <1>3
  <2> QED  BY <1>3, <2>1, DivModInverse
<1>6. ASSUME NEW s \in 0 .. 3
      PROVE  At(4 * l + s) =
               CASE s \in {0, 3} -> C + x * N + y
                 [] s = 1        -> A + x * N + z
                 [] s = 2        -> B + z * N + y
  <2> HIDE DEF l, p
  <2> QED  BY <1>2, <1>4, <1>5, <1>6 DEF At
<1>7. 4 * l + 0 = 4 * l
  BY <1>3
<1>8. 4 * l \in Nat /\ At(4 * l) = C + x * N + y
  <2> HIDE DEF l
  <2> QED  BY <1>3, <1>6, <1>7
<1>9. /\ At(4 * l + 1) = A + x * N + z
      /\ At(4 * l + 2) = B + z * N + y
      /\ At(4 * l + 3) = C + x * N + y
  <2> HIDE DEF l
  <2> QED  BY <1>6
<1> QED  BY <1>8, <1>9

\* The access it looks back to, by the iteration too.
LEMMA BeforeOf ==
  ASSUME NEW x \in 0 .. N - 1, NEW y \in 0 .. N - 1, NEW z \in 0 .. N - 1
  PROVE  LET l == (x * N + z) * N + y IN
         /\ l \in Nat
         /\ Before(4 * l) = IF z > 0 THEN 4 * l - 4 * N + 3 ELSE 4 * l - 1
         /\ Before(4 * l + 1) = 4 * l - 3
         /\ Before(4 * l + 2) = 4 * l - 2
         /\ Before(4 * l + 3) = 4 * l
<1> DEFINE p == x * N + z
           l == p * N + y
<1>1. x * N \in Nat /\ p \in Nat /\ N \in Nat \ {0}
  BY NAssumption
<1>2. p % N = z
  BY <1>1, DivModInverse
<1>3. p * N \in Nat /\ l \in Nat
  <2> HIDE DEF p
  <2> QED  BY <1>1
<1>4. l \div N = p
  <2> HIDE DEF p
  <2> QED  BY <1>1, DivModInverse
<1> HIDE DEF p, l
<1>5. ASSUME NEW s \in 0 .. 3
      PROVE  (4 * l + s) \div 4 = l /\ (4 * l + s) % 4 = s
  <2>1. 4 * l + s = l * 4 + s
    BY <1>3
  <2> QED  BY <1>3, <2>1, DivModInverse
<1>6. ASSUME NEW s \in 1 .. 3, NEW t \in Nat, t = 4 * l + s
      PROVE  Before(t) = IF s = 3 THEN t - 3 ELSE t - 4
  <2>1. t % 4 = s
    BY <1>5, <1>6
  <2> QED  BY <2>1 DEF Before
<1>7. (4 * l) \div 4 = l /\ (4 * l) % 4 = 0
  <2>1. 4 * l + 0 = 4 * l
    BY <1>3
  <2> QED  BY <1>5, <2>1
<1>8. Before(4 * l) = IF z > 0 THEN 4 * l - 4 * N + 3 ELSE 4 * l - 1
  BY <1>2, <1>4, <1>7 DEF Before
<1>9. /\ Before(4 * l + 1) = 4 * l - 3
      /\ Before(4 * l + 2) = 4 * l - 2
      /\ Before(4 * l + 3) = 4 * l
  <2>1. 4 * l + 1 \in Nat /\ 4 * l + 2 \in Nat /\ 4 * l + 3 \in Nat
    BY <1>3
  <2>2. /\ Before(4 * l + 1) = (4 * l + 1) - 4
        /\ Before(4 * l + 2) = (4 * l + 2) - 4
        /\ Before(4 * l + 3) = (4 * l + 3) - 3
    <3>1. \A t \in Nat : /\ t = 4 * l + 1 => Before(t) = t - 4
                         /\ t = 4 * l + 2 => Before(t) = t - 4
                         /\ t = 4 * l + 3 => Before(t) = t - 3
      BY <1>6
    <3> QED  BY <2>1, <3>1, Zenon
  <2> QED  BY <1>3, <2>2
<1> QED  BY <1>3, <1>8, <1>9 DEF p, l

\* What the iteration before, and the one a row of B before, used.
LEMMA PreviousIteration ==
  ASSUME NEW x \in 0 .. N - 1, NEW y \in 0 .. N - 1, NEW z \in 0 .. N - 1
  PROVE  LET l == (x * N + z) * N + y IN
         /\ y > 0 => l > 0 /\ At(4 * l - 3) = A + x * N + z
         /\ y = 0 /\ (x > 0 \/ z > 0) =>
              l > 0 /\ At(4 * l - 3) = A + (x * N + z) - 1
         /\ y > 0 \/ z > 0 => l > 0 /\ At(4 * l - 2) = B + (z * N + y) - 1
         /\ z = 0 /\ (x > 0 \/ y > 0) =>
              l > 0 /\ At(4 * l - 1) = C + (x * N + y) - 1
         /\ z > 0 => 4 * l - 4 * N >= 0 /\ At(4 * l - 4 * N + 3) = C + x * N + y
<1> DEFINE l == (x * N + z) * N + y
           L(u, w, v) == (u * N + w) * N + v
<1>1. N \in Nat \ {0} /\ x * N \in Nat /\ z * N \in Nat
  BY NAssumption
<1>2. A \in Nat /\ B \in Nat /\ C \in Nat
  <2>1. N * N \in Nat
    BY <1>1
  <2> QED  BY <2>1 DEF A, B, C
<1>3. ASSUME NEW u \in 0 .. N - 1, NEW v \in 0 .. N - 1, NEW w \in 0 .. N - 1
      PROVE  /\ L(u, w, v) \in Nat
             /\ At(4 * L(u, w, v) + 1) = A + u * N + w
             /\ At(4 * L(u, w, v) + 2) = B + w * N + v
             /\ At(4 * L(u, w, v) + 3) = C + u * N + v
  <2>1. L(u, w, v) \in Nat
    BY BeforeOf
  <2> QED  BY <2>1, AtOf
<1>4. l \in Nat
  BY BeforeOf
<1>5. ASSUME y > 0
      PROVE  /\ l > 0 /\ At(4 * l - 3) = A + x * N + z
             /\ At(4 * l - 2) = B + (z * N + y) - 1
             /\ At(4 * l - 1) = C + (x * N + y) - 1
  <2>1. y - 1 \in 0 .. N - 1
    BY <1>1, <1>5
  <2>2. (x * N + z) * N \in Nat
    <3>1. x * N + z \in Nat
      BY <1>1
    <3> HIDE DEF l
    <3> QED  BY <1>1, <3>1
  <2>3. l > 0 /\ L(x, z, y - 1) = l - 1
    BY <1>5, <2>2
  <2>4. /\ At(4 * L(x, z, y - 1) + 1) = A + x * N + z
        /\ At(4 * L(x, z, y - 1) + 2) = B + z * N + (y - 1)
        /\ At(4 * L(x, z, y - 1) + 3) = C + x * N + (y - 1)
    BY <1>3, <2>1
  <2>5. /\ B + z * N + (y - 1) = B + (z * N + y) - 1
        /\ C + x * N + (y - 1) = C + (x * N + y) - 1
    BY <1>1, <1>2
  <2> HIDE DEF L, l
  <2>6. /\ 4 * (l - 1) + 1 = 4 * l - 3 /\ 4 * (l - 1) + 2 = 4 * l - 2
        /\ 4 * (l - 1) + 3 = 4 * l - 1
    BY <1>4
  <2> QED  BY <2>3, <2>4, <2>5, <2>6
<1>6. ASSUME y = 0, z > 0
      PROVE  /\ l > 0 /\ At(4 * l - 3) = A + (x * N + z) - 1
             /\ At(4 * l - 2) = B + (z * N + y) - 1
  <2>1. z - 1 \in 0 .. N - 1 /\ N - 1 \in 0 .. N - 1
    BY <1>1, <1>6
  <2>2. /\ L(x, z - 1, N - 1) = l - 1
        /\ (z - 1) * N + (N - 1) = (z * N + y) - 1
    BY <1>1, <1>6
  <2>3. /\ L(x, z - 1, N - 1) \in Nat
        /\ At(4 * L(x, z - 1, N - 1) + 1) = A + x * N + (z - 1)
        /\ At(4 * L(x, z - 1, N - 1) + 2) = B + (z - 1) * N + (N - 1)
    BY <1>3, <2>1
  <2>4. /\ A + x * N + (z - 1) = A + (x * N + z) - 1
        /\ B + (z - 1) * N + (N - 1) = B + (z * N + y) - 1
    <3>1. (z - 1) * N \in Nat
      BY <1>1, <2>1
    <3> QED  BY <1>1, <1>2, <2>2, <3>1
  <2> HIDE DEF L, l
  <2>5. 4 * (l - 1) + 1 = 4 * l - 3 /\ 4 * (l - 1) + 2 = 4 * l - 2 /\ l > 0
    BY <1>4, <2>2, <2>3
  <2> QED  BY <2>2, <2>3, <2>4, <2>5
<1>7. ASSUME y = 0, z = 0, x > 0
      PROVE  /\ l > 0 /\ At(4 * l - 3) = A + (x * N + z) - 1
             /\ At(4 * l - 1) = C + (x * N + y) - 1
  <2>1. x - 1 \in 0 .. N - 1 /\ N - 1 \in 0 .. N - 1
    BY <1>1, <1>7
  <2>2. /\ L(x - 1, N - 1, N - 1) = l - 1
        /\ (x - 1) * N + (N - 1) = x * N - 1
    BY <1>1, <1>7
  <2>3. /\ L(x - 1, N - 1, N - 1) \in Nat
        /\ At(4 * L(x - 1, N - 1, N - 1) + 1) = A + (x - 1) * N + (N - 1)
        /\ At(4 * L(x - 1, N - 1, N - 1) + 3) = C + (x - 1) * N + (N - 1)
    BY <1>3, <2>1
  <2>4. /\ A + (x - 1) * N + (N - 1) = A + (x * N + z) - 1
        /\ C + (x - 1) * N + (N - 1) = C + (x * N + y) - 1
    <3>1. (x - 1) * N \in Nat
      BY <1>1, <2>1
    <3> QED  BY <1>1, <1>2, <1>7, <2>2, <3>1
  <2> HIDE DEF L, l
  <2>5. 4 * (l - 1) + 1 = 4 * l - 3 /\ 4 * (l - 1) + 3 = 4 * l - 1 /\ l > 0
    BY <1>4, <2>2, <2>3
  <2> QED  BY <2>2, <2>3, <2>4, <2>5
<1>8. ASSUME z > 0
      PROVE  4 * l - 4 * N >= 0 /\ At(4 * l - 4 * N + 3) = C + x * N + y
  <2>1. z - 1 \in 0 .. N - 1
    BY <1>1, <1>8
  <2>2. L(x, z - 1, y) = l - N
    BY <1>1
  <2>3. /\ L(x, z - 1, y) \in Nat
        /\ At(4 * L(x, z - 1, y) + 3) = C + x * N + y
    BY <1>3, <2>1
  <2> HIDE DEF L, l
  <2>4. 4 * (l - N) + 3 = 4 * l - 4 * N + 3 /\ 4 * l - 4 * N >= 0
    BY <1>1, <1>4, <2>2, <2>3
  <2> QED  BY <2>2, <2>3, <2>4
<1> HIDE DEF l
<1>9. /\ y > 0 => l > 0 /\ At(4 * l - 3) = A + x * N + z
      /\ y = 0 /\ (x > 0 \/ z > 0) =>
           l > 0 /\ At(4 * l - 3) = A + (x * N + z) - 1
      /\ y > 0 \/ z > 0 => l > 0 /\ At(4 * l - 2) = B + (z * N + y) - 1
      /\ z = 0 /\ (x > 0 \/ y > 0) =>
           l > 0 /\ At(4 * l - 1) = C + (x * N + y) - 1
  BY <1>5, <1>6, <1>7
<1> QED  BY <1>8, <1>9 DEF l

\* The access that comes next, and the one it looks back to: the same word,
\* or the word before it.
LEMMA AccessNow ==
  ASSUME DriverUse, LoopOK, AccessesOK, order = "smart", i < N
  PROVE  LET t == gets + puts IN
         /\ step \in {"c", "put"} => At(t) = AddrC
         /\ step = "a" => At(t) = AddrA
         /\ step = "b" => At(t) = AddrB
         /\ step = "c" /\ k > 0 =>
              Before(t) \in 0 .. t - 1 /\ At(Before(t)) = AddrC
         /\ step = "c" /\ k = 0 /\ i * N + j > 0 =>
              Before(t) \in 0 .. t - 1 /\ At(Before(t)) = C + (i * N + j) - 1
         /\ step = "a" /\ j > 0 =>
              Before(t) \in 0 .. t - 1 /\ At(Before(t)) = AddrA
         /\ step = "a" /\ j = 0 /\ i * N + k > 0 =>
              Before(t) \in 0 .. t - 1 /\ At(Before(t)) = A + (i * N + k) - 1
         /\ step = "b" /\ k * N + j > 0 =>
              Before(t) \in 0 .. t - 1 /\ At(Before(t)) = B + (k * N + j) - 1
         /\ step = "put" =>
              Before(t) \in 0 .. t - 1 /\ At(Before(t)) = AddrC
<1> DEFINE l == (i * N + k) * N + j
           t == gets + puts
<1>1. /\ i \in 0 .. N - 1 /\ j \in 0 .. N - 1 /\ k \in 0 .. N - 1
      /\ N \in Nat \ {0}
  BY NAssumption DEF LoopOK
<1>2. /\ l \in Nat
      /\ Before(4 * l) = IF k > 0 THEN 4 * l - 4 * N + 3 ELSE 4 * l - 1
      /\ Before(4 * l + 1) = 4 * l - 3
      /\ Before(4 * l + 2) = 4 * l - 2
      /\ Before(4 * l + 3) = 4 * l
  BY <1>1, BeforeOf
<1>3. /\ At(4 * l) = AddrC /\ At(4 * l + 1) = AddrA
      /\ At(4 * l + 2) = AddrB /\ At(4 * l + 3) = AddrC
  <2>1. /\ At(4 * l) = C + i * N + j /\ At(4 * l + 1) = A + i * N + k
        /\ At(4 * l + 2) = B + k * N + j /\ At(4 * l + 3) = C + i * N + j
    <3> DEFINE L(x, y, z) == (x * N + z) * N + y
    <3>1. \A x, y, z \in 0 .. N - 1 :
            /\ At(4 * L(x, y, z)) = C + x * N + y
            /\ At(4 * L(x, y, z) + 1) = A + x * N + z
            /\ At(4 * L(x, y, z) + 2) = B + z * N + y
            /\ At(4 * L(x, y, z) + 3) = C + x * N + y
      BY AtOf
    <3>2. l = L(i, j, k)
      OBVIOUS
    <3> HIDE DEF L, l
    <3> QED  BY <1>1, <3>1, <3>2
  <2> QED  BY <2>1 DEF AddrA, AddrB, AddrC
<1>4. /\ j > 0 => l > 0 /\ At(4 * l - 3) = AddrA
      /\ j = 0 /\ (i > 0 \/ k > 0) =>
           l > 0 /\ At(4 * l - 3) = A + (i * N + k) - 1
      /\ j > 0 \/ k > 0 => l > 0 /\ At(4 * l - 2) = B + (k * N + j) - 1
      /\ k = 0 /\ (i > 0 \/ j > 0) =>
           l > 0 /\ At(4 * l - 1) = C + (i * N + j) - 1
      /\ k > 0 => 4 * l - 4 * N >= 0 /\ At(4 * l - 4 * N + 3) = AddrC
  BY <1>1, PreviousIteration DEF AddrA, AddrC
<1>5. /\ i * N + j > 0 => i > 0 \/ j > 0
      /\ i * N + k > 0 => i > 0 \/ k > 0
      /\ k * N + j > 0 => k > 0 \/ j > 0
  <2>1. 0 * N = 0
    BY <1>1
  <2>2. (i = 0 => i * N = 0) /\ (k = 0 => k * N = 0)
    BY <2>1
  <2> QED  BY <1>1, <2>2
<1>6. /\ step = "c" => t = 4 * l
      /\ step = "a" => t = 4 * l + 1
      /\ step = "b" => t = 4 * l + 2
      /\ step = "put" => t = 4 * l + 3
  <2>1. puts = l /\ gets = 3 * puts + Loads
    BY DEF AccessesOK, Middle, Inner
  <2> HIDE DEF l
  <2> QED  BY <1>2, <2>1 DEF Loads
<1> HIDE DEF l, t
<1>7. CASE step = "c"
  <2>1. /\ Before(t) = IF k > 0 THEN 4 * l - 4 * N + 3 ELSE 4 * l - 1
        /\ t = 4 * l /\ At(t) = AddrC
    BY <1>2, <1>3, <1>6, <1>7
  <2>2. k > 0 => Before(t) \in 0 .. t - 1 /\ At(Before(t)) = AddrC
    BY <1>1, <1>2, <1>4, <2>1
  <2>3. k = 0 /\ i * N + j > 0 =>
          Before(t) \in 0 .. t - 1 /\ At(Before(t)) = C + (i * N + j) - 1
    BY <1>1, <1>2, <1>4, <1>5, <2>1
  <2> QED  BY <1>7, <2>1, <2>2, <2>3 DEF t
<1>8. CASE step = "a"
  <2>1. Before(t) = 4 * l - 3 /\ t = 4 * l + 1 /\ At(t) = AddrA
    BY <1>2, <1>3, <1>6, <1>8
  <2>2. j > 0 => Before(t) \in 0 .. t - 1 /\ At(Before(t)) = AddrA
    BY <1>2, <1>4, <2>1
  <2>3. j = 0 /\ i * N + k > 0 =>
          Before(t) \in 0 .. t - 1 /\ At(Before(t)) = A + (i * N + k) - 1
    BY <1>2, <1>4, <1>5, <2>1
  <2> QED  BY <1>8, <2>1, <2>2, <2>3 DEF t
<1>9. CASE step = "b"
  <2>1. Before(t) = 4 * l - 2 /\ t = 4 * l + 2 /\ At(t) = AddrB
    BY <1>2, <1>3, <1>6, <1>9
  <2>2. k * N + j > 0 =>
          Before(t) \in 0 .. t - 1 /\ At(Before(t)) = B + (k * N + j) - 1
    BY <1>2, <1>4, <1>5, <2>1
  <2> QED  BY <1>9, <2>1, <2>2 DEF t
<1>10. CASE step = "put"
  <2>1. Before(t) = 4 * l /\ t = 4 * l + 3 /\ At(t) = AddrC
    BY <1>2, <1>3, <1>6, <1>10
  <2>2. Before(t) \in 0 .. t - 1 /\ At(Before(t)) = AddrC
    BY <1>2, <1>3, <2>1
  <2> QED  BY <1>10, <2>1, <2>2 DEF t
<1> QED  BY <1>7, <1>8, <1>9, <1>10 DEF LoopOK

\* A block that was used at the access looked back to is still there: those
\* of its set used since are too few to have evicted it.
LEMMA StillThere ==
  ASSUME ReuseUse, ReuseInv, order = "smart", cache_org # DIRECT, i < N,
         NEW x \in Addr, x = At(gets + puts),
         Before(gets + puts) \in 0 .. (gets + puts) - 1,
         block(At(Before(gets + puts))) = block(x)
  PROVE  found(x)
<1> DEFINE t == gets + puts
           p == Before(t)
           blk == block(x)
           V == {block(At(u)) : u \in p + 1 .. t - 1}
           W == {d \in V \ {blk} : SetNo(cache_org, d) = SetNo(cache_org, blk)}
<1>1. /\ TimesOK /\ UsesOK /\ CacheInv /\ SoundUse /\ EvenSets /\ RecencyInv
      /\ RowsFit(cache_org)
  BY DEF ReuseInv, ReuseUse, DriverUse, DriverInv, RecencyInv
<1>2. t \in 0 .. 4 * (N * N * N) - 1 /\ t \in Nat /\ p \in 0 .. t - 1
  BY RoomForAccess DEF ReuseInv, ReuseUse, DriverInv
<1>3. Cardinality(W) < Room(cache_org)
  <2>1. p >= 0 /\ block(At(p)) = block(At(t))
    BY <1>2
  <2> HIDE DEF t, p
  <2>2. \A u \in 0 .. 4 * (N * N * N) - 1 :
          Before(u) >= 0 /\ block(At(Before(u))) = block(At(u)) =>
            Cardinality({d \in {block(At(v)) : v \in Before(u) + 1 .. u - 1}
                                 \ {block(At(u))} :
                           SetNo(cache_org, d) = SetNo(cache_org, block(At(u)))})
              < Room(cache_org)
    BY <1>1 DEF RowsFit
  <2>3. blk = block(At(t))
    BY DEF t
  <2> QED  BY <1>2, <2>1, <2>2, <2>3 DEF p
<1>4. Room(cache_org) = Ways /\ cache_org \in {FULLY, TWOWAY}
  BY <1>1 DEF CacheInv, TypeOK, Room, Ways, FULLY, TWOWAY, DIRECT
<1>5. IsFiniteSet(W)
  <2> DEFINE g == [u \in p + 1 .. t - 1 |-> block(At(u))]
  <2>1. IsFiniteSet(p + 1 .. t - 1)
    BY <1>2, FS_Interval
  <2> HIDE DEF g, t, p
  <2>2. IsFiniteSet({g[u] : u \in p + 1 .. t - 1})
    BY <2>1, ImageFinite
  <2>3. {g[u] : u \in p + 1 .. t - 1} = V
    BY DEF g
  <2>4. W \subseteq V
    OBVIOUS
  <2> QED  BY <2>2, <2>3, <2>4, FS_Subset
<1>6. lastUse[blk] >= p + 1 /\ lastUse[blk] \in Nat /\ blk \in BlockNo
  <2>1. blk \in BlockNo
    BY DEF BlockNo
  <2>2. lastUse[block(At(p))] >= p + 1
    BY <1>1, <1>2 DEF TimesOK
  <2> QED  BY <1>1, <2>1, <2>2 DEF UsesOK
<1>7. Later(blk) \subseteq W
  <2> SUFFICES ASSUME NEW d \in Later(blk) PROVE d \in W
    OBVIOUS
  <2>1. d \in Rivals(blk) /\ lastUse[d] > lastUse[blk]
    BY DEF Later
  <2>2. d \in BlockNo /\ SetNo(cache_org, d) = SetNo(cache_org, blk)
    BY <1>4, <2>1 DEF Rivals, SetNo, FULLY, TWOWAY, DIRECT
  <2>3. lastUse[d] \in Nat /\ lastUse[d] <= t
    BY <1>1, <2>2 DEF UsesOK
  <2>4. d = block(At(lastUse[d] - 1))
    BY <1>1, <1>2, <1>6, <2>1, <2>2, <2>3 DEF TimesOK
  <2>5. lastUse[d] - 1 \in p + 1 .. t - 1
    BY <1>2, <1>6, <2>1, <2>3
  <2>6. d # blk
    BY <1>6, <2>1
  <2> QED  BY <2>2, <2>4, <2>5, <2>6
<1>8. lastUse[blk] > 0
  BY <1>2, <1>6
<1> HIDE DEF W, blk
<1> QED  BY <1>1, <1>3, <1>4, <1>5, <1>7, <1>8, FoundIfRecent DEF blk

-----------------------------------------------------------------------------
(* The misses of the smart order.                                          *)

\* What an access adds to the misses.
Missed(x) == IF found(x) THEN 0 ELSE 1

\* An access is recorded, and counted if it misses.
LEMMA ReuseAccess ==
  ASSUME ReuseUse, ReuseInv, i < N, NEW x \in Addr,
         getData(x) \/ \E v \in Value : putData(x, v), Used(x),
         \/ gets' = gets + 1 /\ puts' = puts
         \/ puts' = puts + 1 /\ gets' = gets,
         order = "smart" => x = At(gets + puts)
  PROVE  /\ RecencyInv' /\ cache_org' = cache_org
         /\ order = "smart" => TimesOK'
         /\ numMisses' = numMisses + Missed(x)
<1>1. /\ SoundUse /\ CacheInv /\ RecencyInv /\ DriverUse /\ LoopOK
      /\ AccessesOK
  BY DEF ReuseUse, DriverUse, ReuseInv, DriverInv
<1>2. gets + puts < MaxAccesses /\ gets \in Nat /\ puts \in Nat
  BY <1>1, RoomForAccess
<1>3. RecencyInv'
  BY <1>1, <1>2, RecencyAccess
<1>4. numMisses' = numMisses + Missed(x) /\ cache_org' = cache_org
  <2>1. numMisses \in Nat
    BY <1>1 DEF CacheInv, TypeOK
  <2>2. \/ getHit(x) \/ getMiss(x)
        \/ \E v : putHit(x, v) \/ putMiss(x, v)
    BY DEF getData, putData
  <2>3. /\ cache_org' = cache_org
        /\ \/ found(x) /\ numMisses' = numMisses
           \/ ~found(x) /\ numMisses' = numMisses + 1
    BY <2>2, Zenon DEF getHit, getMiss, putHit, putMiss
  <2> QED  BY <2>1, <2>3 DEF Missed
<1>5. ASSUME order = "smart" PROVE TimesOK'
  <2>1. /\ TimesOK /\ UsesOK
        /\ \A y \in Addr : block(y) \in BlockNo
    BY <1>5 DEF ReuseInv, RecencyInv, BlockNo
  <2>2. gets' + puts' = (gets + puts) + 1
    BY <1>2
  <2> DEFINE now == gets + puts
  <2>3. \A d \in BlockNo :
          lastUse'[d] = IF d = block(x) THEN now + 1 ELSE lastUse[d]
    BY <2>1 DEF Used, UsesOK
  <2>4. now \in Nat /\ At(now) = x /\ block(x) \in BlockNo
    BY <1>2, <1>5, <2>1
  <2>5. \A d \in BlockNo : lastUse[d] \in Nat /\ lastUse[d] <= now
    BY <2>1 DEF UsesOK
  <2>6. ASSUME NEW u \in 0 .. now - 1
        PROVE  At(u) \in Addr /\ lastUse[block(At(u))] >= u + 1
    BY <1>2, <2>1, <2>6 DEF TimesOK
  <2>7. \A d \in BlockNo : lastUse[d] > 0 => d = block(At(lastUse[d] - 1))
    BY <2>1 DEF TimesOK
  <2>8. (gets' + puts') - 1 = now
    BY <1>2, <2>2
  <2> HIDE DEF now
  <2>9. ASSUME NEW u \in 0 .. now
        PROVE  At(u) \in Addr /\ lastUse'[block(At(u))] >= u + 1
    <3>1. CASE u = now
      BY <2>3, <2>4, <3>1
    <3>2. CASE u # now
      <4>1. u \in 0 .. now - 1
        BY <2>4, <3>2
      <4>2. At(u) \in Addr /\ lastUse[block(At(u))] >= u + 1
            /\ block(At(u)) \in BlockNo
        BY <2>1, <2>6, <4>1
      <4> QED  BY <2>3, <2>4, <2>5, <4>1, <4>2
    <3> QED  BY <3>1, <3>2
  <2>10. ASSUME NEW d \in BlockNo, lastUse'[d] > 0
         PROVE  d = block(At(lastUse'[d] - 1))
    <3>1. (now + 1) - 1 = now
      BY <2>4
    <3>2. CASE d = block(x)
      BY <2>3, <2>4, <3>1, <3>2
    <3>3. CASE d # block(x)
      BY <2>3, <2>7, <2>10, <3>3
    <3> QED  BY <3>2, <3>3
  <2> QED  BY <2>8, <2>9, <2>10 DEF TimesOK
<1> QED  BY <1>3, <1>4, <1>5

\* One word more of a matrix has been read: a miss is of a new block.
LEMMA OneWordMore ==
  ASSUME NEW first \in Nat, NEW n \in Nat, NEW x,
         \/ found(x)
         \/ n = 0 \/ block(first + n) # block(first + n - 1)
  PROVE  Blocks(first, n) + Missed(x) <= Blocks(first, n + 1)
<1>1. Blocks(first, n) \in Nat /\ Blocks(first, n + 1) \in Nat
  <2>1. n + 1 \in Nat
    OBVIOUS
  <2> QED  BY <2>1, BlocksOfFinite
<1>2. Blocks(first, n) <= Blocks(first, n + 1)
  BY BlocksGrow
<1>3. ~found(x) => Blocks(first, n + 1) = Blocks(first, n) + 1
  BY BlocksFresh
<1> QED  BY <1>1, <1>2, <1>3 DEF Missed

LEMMA ReadFacts ==
  ASSUME LoopOK
  PROVE  /\ i \in Nat /\ ReadA \in Nat /\ ReadB \in Nat /\ ReadC \in Nat
         /\ A \in Nat /\ B \in Nat /\ C \in Nat
         /\ Blocks(A, ReadA) \in Nat /\ Blocks(B, ReadB) \in Nat
         /\ Blocks(C, ReadC) \in Nat /\ Blocks(B, N * N) \in Nat
         /\ i * Blocks(B, N * N) \in Nat
<1>1. i \in Nat /\ j \in Nat /\ k \in Nat /\ N \in Nat
  BY NAssumption DEF LoopOK
<1>2. i * N \in Nat /\ (i + 1) * N \in Nat /\ k * N \in Nat /\ N * N \in Nat
  BY <1>1
<1>3. ReadA \in Nat /\ ReadB \in Nat /\ ReadC \in Nat
  BY <1>1, <1>2 DEF ReadA, ReadB, ReadC
<1>4. A \in Nat /\ B \in Nat /\ C \in Nat
  BY <1>2 DEF A, B, C
<1>5. /\ Blocks(A, ReadA) \in Nat /\ Blocks(B, ReadB) \in Nat
      /\ Blocks(C, ReadC) \in Nat /\ Blocks(B, N * N) \in Nat
  BY <1>2, <1>3, <1>4, BlocksOfFinite
<1>6. i * Blocks(B, N * N) \in Nat
  BY <1>1, <1>5
<1> QED  BY <1>1, <1>3, <1>4, <1>5, <1>6

LEMMA MissesGrow ==
  ASSUME MissesOK, LoopOK, NEW x, cache_org' = cache_org,
         numMisses' = numMisses + Missed(x),
         cache_org # DIRECT => Allowed' \in Nat /\ Allowed + Missed(x) <= Allowed'
  PROVE  MissesOK'
<1>1. Allowed \in Nat
  BY ReadFacts DEF Allowed
<1>2. Missed(x) \in {0, 1}
  BY DEF Missed
<1> QED  BY <1>1, <1>2 DEF MissesOK

\* A load of C misses in the first of the rows of B only, and then only the
\* first word of a block.
LEMMA ReuseLoadC ==
  ASSUME ReuseUse, ReuseInv, LoadC, DriverInv'
  PROVE  ReuseInv'
<1>1. /\ DriverUse /\ LoopOK /\ LoopOK' /\ AccessesOK
      /\ i < N /\ i \in 0 .. N - 1 /\ j \in 0 .. N - 1 /\ k \in 0 .. N - 1
      /\ step = "c" /\ step' = "a" /\ Load(AddrC)
      /\ i' = i /\ j' = j /\ k' = k /\ order' = order
  BY NAssumption DEF LoadC, loopVars, ReuseUse, ReuseInv, DriverInv, LoopOK
<1>2. AddrC \in Addr
  BY <1>1, Addresses DEF AddrC
<1>3. order = "smart" => AddrC = At(gets + puts)
  BY <1>1, AccessNow
<1>4. /\ RecencyInv' /\ cache_org' = cache_org
      /\ order = "smart" => TimesOK'
      /\ numMisses' = numMisses + Missed(AddrC)
  BY <1>1, <1>2, <1>3, ReuseAccess DEF Load
<1>5. ASSUME order = "smart" PROVE MissesOK'
  <2>1. ReadA' = ReadA /\ ReadB' = ReadB
    BY <1>1 DEF ReadA, ReadB
  <2>2. ASSUME cache_org # DIRECT
        PROVE  Allowed' \in Nat /\ Allowed + Missed(AddrC) <= Allowed'
    <3>1. CASE k > 0
      <4>1. found(AddrC)
        <5>1. /\ Before(gets + puts) \in 0 .. (gets + puts) - 1
              /\ At(Before(gets + puts)) = AddrC
          BY <1>1, <1>5, <3>1, AccessNow
        <5> QED  BY <1>1, <1>2, <1>3, <1>5, <2>2, <5>1, StillThere
      <4>2. ReadC' = ReadC
        BY <1>1, <3>1 DEF ReadC
      <4> QED  BY <1>1, <2>1, <4>1, <4>2, ReadFacts DEF Allowed, Missed
    <3>2. CASE k = 0
      <4> DEFINE n == i * N + j
      <4>1. n \in Nat /\ ReadC = n /\ ReadC' = n + 1
        <5>1. i * N \in Nat
          BY <1>1, NAssumption
        <5> QED  BY <1>1, <3>2, <5>1 DEF ReadC
      <4>2. C \in Nat /\ AddrC = C + n
        <5>1. i * N \in Nat
          BY <1>1, NAssumption
        <5> QED  BY <1>1, <5>1, ReadFacts DEF AddrC
      <4>3. ASSUME n > 0
            PROVE  /\ Before(gets + puts) \in 0 .. (gets + puts) - 1
                   /\ At(Before(gets + puts)) = C + n - 1
        <5>1. /\ Before(gets + puts) \in 0 .. (gets + puts) - 1
              /\ At(Before(gets + puts)) = C + (i * N + j) - 1
          BY <1>1, <1>5, <3>2, <4>3, AccessNow
        <5> HIDE DEF n
        <5> QED  BY <4>1, <4>2, <5>1 DEF n
      <4> HIDE DEF n
      <4>4. \/ found(AddrC)
            \/ n = 0 \/ block(C + n) # block(C + n - 1)
        <5> SUFFICES ASSUME n > 0, block(C + n) = block(C + n - 1)
                     PROVE  found(AddrC)
          BY <4>1
        <5> QED  BY <1>1, <1>2, <1>3, <1>5, <2>2, <4>2, <4>3, StillThere
      <4>5. Blocks(C, n) + Missed(AddrC) <= Blocks(C, n + 1)
        BY <4>1, <4>2, <4>4, OneWordMore
      <4>6. Missed(AddrC) \in {0, 1} /\ Blocks(C, n + 1) \in Nat
        <5>1. n + 1 \in Nat
          BY <4>1
        <5> QED  BY <4>2, <5>1, BlocksOfFinite DEF Missed
      <4> QED  BY <1>1, <2>1, <4>1, <4>5, <4>6, ReadFacts DEF Allowed
    <3> QED  BY <1>1, <3>1, <3>2
  <2> QED  BY <1>1, <1>4, <1>5, <2>2, MissesGrow DEF ReuseInv
<1> QED  BY <1>1, <1>4, <1>5 DEF ReuseInv

\* One of A misses at the start of a row of B only.
LEMMA ReuseLoadA ==
  ASSUME ReuseUse, ReuseInv, LoadA, DriverInv'
  PROVE  ReuseInv'
<1>1. /\ DriverUse /\ LoopOK /\ LoopOK' /\ AccessesOK
      /\ i < N /\ i \in 0 .. N - 1 /\ j \in 0 .. N - 1 /\ k \in 0 .. N - 1
      /\ step = "a" /\ step' = "b" /\ Load(AddrA)
      /\ i' = i /\ j' = j /\ k' = k /\ order' = order
  BY NAssumption DEF LoadA, loopVars, ReuseUse, ReuseInv, DriverInv, LoopOK
<1>2. AddrA \in Addr
  BY <1>1, Addresses DEF AddrA
<1>3. order = "smart" => AddrA = At(gets + puts)
  BY <1>1, AccessNow
<1>4. /\ RecencyInv' /\ cache_org' = cache_org
      /\ order = "smart" => TimesOK'
      /\ numMisses' = numMisses + Missed(AddrA)
  BY <1>1, <1>2, <1>3, ReuseAccess DEF Load
<1>5. ASSUME order = "smart" PROVE MissesOK'
  <2>1. ReadC' = ReadC /\ ReadB' = ReadB
    BY <1>1 DEF ReadC, ReadB
  <2>2. ASSUME cache_org # DIRECT
        PROVE  Allowed' \in Nat /\ Allowed + Missed(AddrA) <= Allowed'
    <3>1. CASE j > 0
      <4>1. found(AddrA)
        <5>1. /\ Before(gets + puts) \in 0 .. (gets + puts) - 1
              /\ At(Before(gets + puts)) = AddrA
          BY <1>1, <1>5, <3>1, AccessNow
        <5> QED  BY <1>1, <1>2, <1>3, <1>5, <2>2, <5>1, StillThere
      <4>2. ReadA' = ReadA
        BY <1>1, <3>1 DEF ReadA
      <4> QED  BY <1>1, <2>1, <4>1, <4>2, ReadFacts DEF Allowed, Missed
    <3>2. CASE j = 0
      <4> DEFINE n == i * N + k
      <4>1. n \in Nat /\ ReadA = n /\ ReadA' = n + 1
        <5>1. i * N \in Nat
          BY <1>1, NAssumption
        <5> QED  BY <1>1, <3>2, <5>1 DEF ReadA
      <4>2. A \in Nat /\ AddrA = A + n
        <5>1. i * N \in Nat
          BY <1>1, NAssumption
        <5> QED  BY <1>1, <5>1, ReadFacts DEF AddrA
      <4>3. ASSUME n > 0
            PROVE  /\ Before(gets + puts) \in 0 .. (gets + puts) - 1
                   /\ At(Before(gets + puts)) = A + n - 1
        <5>1. /\ Before(gets + puts) \in 0 .. (gets + puts) - 1
              /\ At(Before(gets + puts)) = A + (i * N + k) - 1
          BY <1>1, <1>5, <3>2, <4>3, AccessNow
        <5> HIDE DEF n
        <5> QED  BY <4>1, <4>2, <5>1 DEF n
      <4> HIDE DEF n
      <4>4. \/ found(AddrA)
            \/ n = 0 \/ block(A + n) # block(A + n - 1)
        <5> SUFFICES ASSUME n > 0, block(A + n) = block(A + n - 1)
                     PROVE  found(AddrA)
          BY <4>1
        <5> QED  BY <1>1, <1>2, <1>3, <1>5, <2>2, <4>2, <4>3, StillThere
      <4>5. Blocks(A, n) + Missed(AddrA) <= Blocks(A, n + 1)
        BY <4>1, <4>2, <4>4, OneWordMore
      <4>6. Missed(AddrA) \in {0, 1} /\ Blocks(A, n + 1) \in Nat
        <5>1. n + 1 \in Nat
          BY <4>1
        <5> QED  BY <4>2, <5>1, BlocksOfFinite DEF Missed
      <4> QED  BY <1>1, <2>1, <4>1, <4>5, <4>6, ReadFacts DEF Allowed
    <3> QED  BY <1>1, <3>1, <3>2
  <2> QED  BY <1>1, <1>4, <1>5, <2>2, MissesGrow DEF ReuseInv
<1> QED  BY <1>1, <1>4, <1>5 DEF ReuseInv

\* One of B misses only the first word of a block.
LEMMA ReuseLoadB ==
  ASSUME ReuseUse, ReuseInv, LoadB, DriverInv'
  PROVE  ReuseInv'
<1>1. /\ DriverUse /\ LoopOK /\ LoopOK' /\ AccessesOK
      /\ i < N /\ i \in 0 .. N - 1 /\ j \in 0 .. N - 1 /\ k \in 0 .. N - 1
      /\ step = "b" /\ step' = "put" /\ Load(AddrB)
      /\ i' = i /\ j' = j /\ k' = k /\ order' = order
  BY NAssumption DEF LoadB, loopVars, ReuseUse, ReuseInv, DriverInv, LoopOK
<1>2. AddrB \in Addr
  BY <1>1, Addresses DEF AddrB
<1>3. order = "smart" => AddrB = At(gets + puts)
  BY <1>1, AccessNow
<1>4. /\ RecencyInv' /\ cache_org' = cache_org
      /\ order = "smart" => TimesOK'
      /\ numMisses' = numMisses + Missed(AddrB)
  BY <1>1, <1>2, <1>3, ReuseAccess DEF Load
<1>5. ASSUME order = "smart" PROVE MissesOK'
  <2>1. ReadC' = ReadC /\ ReadA' = ReadA
    BY <1>1 DEF ReadC, ReadA
  <2>2. ASSUME cache_org # DIRECT
        PROVE  Allowed' \in Nat /\ Allowed + Missed(AddrB) <= Allowed'
    <3> DEFINE n == k * N + j
    <3>1. n \in Nat /\ ReadB = n /\ ReadB' = n + 1
      <4>1. k * N \in Nat
        BY <1>1, NAssumption
      <4> QED  BY <1>1, <4>1 DEF ReadB
    <3>2. B \in Nat /\ AddrB = B + n
      <4>1. k * N \in Nat
        BY <1>1, NAssumption
      <4> QED  BY <1>1, <4>1, ReadFacts DEF AddrB
    <3>3. ASSUME n > 0
          PROVE  /\ Before(gets + puts) \in 0 .. (gets + puts) - 1
                 /\ At(Before(gets + puts)) = B + n - 1
      <4>1. /\ Before(gets + puts) \in 0 .. (gets + puts) - 1
            /\ At(Before(gets + puts)) = B + (k * N + j) - 1
        BY <1>1, <1>5, <3>3, AccessNow
      <4> HIDE DEF n
      <4> QED  BY <3>1, <3>2, <4>1 DEF n
    <3> HIDE DEF n
    <3>4. \/ found(AddrB)
          \/ n = 0 \/ block(B + n) # block(B + n - 1)
      <4> SUFFICES ASSUME n > 0, block(B + n) = block(B + n - 1)
                   PROVE  found(AddrB)
        BY <3>1
      <4> QED  BY <1>1, <1>2, <1>3, <1>5, <2>2, <3>2, <3>3, StillThere
    <3>5. Blocks(B, n) + Missed(AddrB) <= Blocks(B, n + 1)
      BY <3>1, <3>2, <3>4, OneWordMore
    <3>6. Missed(AddrB) \in {0, 1} /\ Blocks(B, n + 1) \in Nat
      <4>1. n + 1 \in Nat
        BY <3>1
      <4> QED  BY <3>2, <4>1, BlocksOfFinite DEF Missed
    <3> QED  BY <1>1, <2>1, <3>1, <3>5, <3>6, ReadFacts DEF Allowed
  <2> QED  BY <1>1, <1>4, <1>5, <2>2, MissesGrow DEF ReuseInv
<1> QED  BY <1>1, <1>4, <1>5 DEF ReuseInv

\* The store is to the word that was loaded: it never misses, and what has
\* been read stays what it was when the loops go on.
LEMMA ReuseStore ==
  ASSUME ReuseUse, ReuseInv, StoreC, DriverInv'
  PROVE  ReuseInv'
<1>1. /\ DriverUse /\ LoopOK /\ LoopOK' /\ AccessesOK
      /\ i < N /\ i \in 0 .. N - 1 /\ j \in 0 .. N - 1 /\ k \in 0 .. N - 1
      /\ step = "put" /\ step' = "c" /\ Store(AddrC, c') /\ order' = order
  BY NAssumption DEF StoreC, ReuseUse, ReuseInv, DriverInv, LoopOK
<1>2. AddrC \in Addr /\ c' \in Value
  BY StoredSum DEF ReuseUse, ReuseInv
<1>3. order = "smart" => AddrC = At(gets + puts)
  BY <1>1, AccessNow
<1>4. /\ RecencyInv' /\ cache_org' = cache_org
      /\ order = "smart" => TimesOK'
      /\ numMisses' = numMisses + Missed(AddrC)
  BY <1>1, <1>2, <1>3, ReuseAccess DEF Store
<1>5. ASSUME order = "smart" PROVE MissesOK'
  <2>1. ASSUME cache_org # DIRECT PROVE Missed(AddrC) = 0
    <3>1. /\ Before(gets + puts) \in 0 .. (gets + puts) - 1
          /\ At(Before(gets + puts)) = AddrC
      BY <1>1, <1>5, AccessNow
    <3>2. found(AddrC)
      BY <1>1, <1>2, <1>3, <1>5, <2>1, <3>1, StillThere
    <3> QED  BY <3>2 DEF Missed
  <2>2. /\ j' = IF j = N - 1 THEN 0 ELSE j + 1
        /\ k' = IF j # N - 1 THEN k ELSE IF k = N - 1 THEN 0 ELSE k + 1
        /\ i' = IF j = N - 1 /\ k = N - 1 THEN i + 1 ELSE i
    BY <1>1, <1>5, NextIteration DEF Inner, Middle
  <2> DEFINE q == Blocks(B, N * N)
  <2>3. /\ N \in Nat \ {0} /\ i * N \in Nat /\ k * N \in Nat /\ N * N \in Nat
        /\ (i + 1) * N = i * N + N /\ (k + 1) * N = k * N + N
        /\ 0 * N = 0 /\ (N - 1) * N = N * N - N
    BY <1>1, NAssumption
  <2>4. /\ ReadA = i * N + k + 1 /\ ReadB = k * N + j + 1
        /\ ReadC = IF k > 0 THEN (i + 1) * N ELSE i * N + j + 1
    BY <1>1 DEF ReadA, ReadB, ReadC
  <2>5. /\ ReadA' = i' * N + k' + (IF j' > 0 THEN 1 ELSE 0)
        /\ ReadB' = k' * N + j' + 0
        /\ ReadC' = IF k' > 0 THEN (i' + 1) * N ELSE i' * N + j' + 0
    BY <1>1 DEF ReadA, ReadB, ReadC
  <2>6. /\ Blocks(A, ReadA) \in Nat /\ Blocks(B, ReadB) \in Nat
        /\ Blocks(C, ReadC) \in Nat /\ q \in Nat /\ i * q \in Nat
    BY <1>1, ReadFacts
  <2>7. Allowed' = Allowed
    <3>1. CASE j # N - 1
      <4>1. j' = j + 1 /\ k' = k /\ i' = i
        BY <2>2, <3>1
      <4>2. ReadA' = ReadA /\ ReadB' = ReadB /\ ReadC' = ReadC
        BY <1>1, <2>3, <2>4, <2>5, <4>1
      <4> QED  BY <4>1, <4>2 DEF Allowed
    <3>2. CASE j = N - 1 /\ k # N - 1
      <4>1. j' = 0 /\ k' = k + 1 /\ i' = i
        BY <2>2, <3>2
      <4>2. ReadA' = ReadA /\ ReadB' = ReadB /\ ReadC' = ReadC
        BY <1>1, <2>3, <2>4, <2>5, <3>2, <4>1
      <4> QED  BY <4>1, <4>2 DEF Allowed
    <3>3. CASE j = N - 1 /\ k = N - 1
      <4>1. j' = 0 /\ k' = 0 /\ i' = i + 1
        BY <2>2, <3>3
      <4>2. ReadA' = ReadA /\ ReadB' = 0 /\ ReadC' = ReadC /\ ReadB = N * N
        BY <1>1, <2>3, <2>4, <2>5, <3>3, <4>1
      <4>3. Blocks(B, 0) = 0
        BY FS_EmptySet DEF Blocks
      <4>4. (i + 1) * q = i * q + q
        <5> HIDE DEF q
        <5> QED  BY <1>1, <2>6
      <4>5. /\ Allowed = Blocks(A, ReadA) + Blocks(C, ReadC) + i * q + q
            /\ Allowed' = Blocks(A, ReadA) + Blocks(C, ReadC) + (i + 1) * q + 0
        BY <4>1, <4>2, <4>3 DEF Allowed
      <4> HIDE DEF q
      <4> QED  BY <2>6, <4>4, <4>5
    <3> QED  BY <3>1, <3>2, <3>3
  <2>8. Allowed \in Nat
    BY <1>1, ReadFacts DEF Allowed
  <2> QED  BY <1>1, <1>4, <1>5, <2>1, <2>7, <2>8, MissesGrow DEF ReuseInv
<1> QED  BY <1>1, <1>4, <1>5 DEF ReuseInv

LEMMA ReuseInit ==
  ASSUME ReuseUse, DInit
  PROVE  ReuseInv
<1>1. DriverUse /\ SoundUse /\ DriverInv /\ LoopOK
  BY DriverInit DEF ReuseUse, DriverUse, DriverInv
<1>2. HInit /\ cache_org \in Orgs /\ numMisses = 0
  BY DEF DInit, HInit, Init
<1>3. RecencyInv
  BY <1>1, <1>2, RecencyInit
<1>4. TimesOK
  BY <1>2 DEF HInit, TimesOK
<1>5. MissesOK
  <2>1. Allowed \in Nat
    BY <1>1, ReadFacts DEF Allowed
  <2> QED  BY <1>2, <2>1 DEF MissesOK
<1> QED  BY <1>1, <1>2, <1>3, <1>4, <1>5 DEF ReuseInv

LEMMA ReuseStep ==
  ASSUME ReuseUse, ReuseInv, [Multiply]_dvars
  PROVE  ReuseInv'
<1>1. DriverInv'
  BY DriverStep DEF ReuseUse, ReuseInv
<1>2. CASE Multiply
  BY <1>1, <1>2, ReuseLoadC, ReuseLoadA, ReuseLoadB, ReuseStore DEF Multiply
<1>3. CASE UNCHANGED dvars
  <2>1. /\ UNCHANGED hvars
        /\ order' = order /\ i' = i /\ j' = j /\ k' = k /\ step' = step
    BY <1>3 DEF dvars, hvars
  <2>2. RecencyInv' /\ cache_org' = cache_org
    <3>1. SoundUse /\ CacheInv /\ RecencyInv /\ [HNext]_hvars
      BY <2>1 DEF ReuseUse, DriverUse, ReuseInv, DriverInv
    <3> QED  BY <2>1, <3>1, RecencyStep DEF hvars
  <2>3. TimesOK => TimesOK'
    BY <2>1 DEF hvars, TimesOK
  <2>4. MissesOK => MissesOK'
    <3>1. ReadA' = ReadA /\ ReadB' = ReadB /\ ReadC' = ReadC
      BY <2>1 DEF ReadA, ReadB, ReadC
    <3> QED  BY <2>1, <3>1 DEF hvars, MissesOK, Allowed
  <2> QED  BY <1>1, <2>1, <2>2, <2>3, <2>4 DEF ReuseInv
<1> QED  BY <1>2, <1>3

\* The matrices have no more blocks than they have, and B is read once for
\* each row of A.
LEMMA MissesBounded ==
  ASSUME LoopOK, MissesOK
  PROVE  SmartReuses
<1> SUFFICES ASSUME order = "smart", cache_org # DIRECT, i < N
             PROVE  numMisses <= BlocksOf(A) + BlocksOf(C)
                                   + (i + 1) * BlocksOf(B)
  BY DEF SmartReuses
<1>1. /\ i \in 0 .. N - 1 /\ j \in 0 .. N - 1 /\ k \in 0 .. N - 1
      /\ N \in Nat \ {0} /\ N * N \in Nat
  BY NAssumption DEF LoopOK
<1>2. /\ i * N + k \in 0 .. N * N - 1 /\ k * N + j \in 0 .. N * N - 1
      /\ i * N + j \in 0 .. N * N - 1 /\ (i + 1) * N <= N * N
      /\ (i + 1) * N \in Nat
  <2>1. i * N + (N - 1) \in 0 .. N * N - 1 /\ i * N \in Nat
    BY <1>1, PairBound
  <2>2. (i + 1) * N = (i * N + (N - 1)) + 1
    BY <1>1
  <2>3. /\ i * N + k \in 0 .. N * N - 1 /\ k * N + j \in 0 .. N * N - 1
        /\ i * N + j \in 0 .. N * N - 1
    BY <1>1, PairBound
  <2> QED  BY <1>1, <2>1, <2>2, <2>3
<1>3. ReadA <= N * N /\ ReadB <= N * N /\ ReadC <= N * N
  BY <1>1, <1>2 DEF ReadA, ReadB, ReadC
<1>4. /\ ReadA \in Nat /\ ReadB \in Nat /\ ReadC \in Nat
      /\ A \in Nat /\ B \in Nat /\ C \in Nat
      /\ Blocks(A, ReadA) \in Nat /\ Blocks(B, ReadB) \in Nat
      /\ Blocks(C, ReadC) \in Nat /\ Blocks(B, N * N) \in Nat
      /\ i * Blocks(B, N * N) \in Nat
  BY ReadFacts
<1>5. /\ Blocks(A, ReadA) <= Blocks(A, N * N)
      /\ Blocks(B, ReadB) <= Blocks(B, N * N)
      /\ Blocks(C, ReadC) <= Blocks(C, N * N)
      /\ Blocks(A, N * N) \in Nat /\ Blocks(C, N * N) \in Nat
  BY <1>1, <1>3, <1>4, BlocksGrow, BlocksOfFinite
<1>6. BlocksOf(A) = Blocks(A, N * N) /\ BlocksOf(B) = Blocks(B, N * N)
      /\ BlocksOf(C) = Blocks(C, N * N)
  BY DEF BlocksOf, Blocks
<1>7. numMisses \in Nat /\ numMisses <= Blocks(A, ReadA) + Blocks(C, ReadC)
        + i * Blocks(B, N * N) + Blocks(B, ReadB)
  BY DEF MissesOK, Allowed
<1>8. (i + 1) * Blocks(B, N * N) = i * Blocks(B, N * N) + Blocks(B, N * N)
  BY <1>1, <1>4
<1> QED  BY <1>4, <1>5, <1>6, <1>7, <1>8

\* What makes the smart order smart (smart6.cpp:21-29): behind each
\* associative organization each block of B is missed once at most for each
\* row of A, and the blocks of A and C once in all, for matrices of every size
\* whose rows fit in the cache.
THEOREM ReuseCorrect ==
  ASSUME ReuseUse
  PROVE  OnceSpec => []SmartReuses
<1>1. DInit => ReuseInv
  BY ReuseInit
<1>2. ReuseInv /\ [Multiply]_dvars => ReuseInv'
  BY ReuseStep
<1>3. ReuseInv => SmartReuses
  BY MissesBounded DEF ReuseInv, DriverInv, SmartReuses
<1> QED  BY <1>1, <1>2, <1>3, PTL DEF OnceSpec

-----------------------------------------------------------------------------
(* When the rows fit in a fully associative cache.                         *)

\* The most blocks a row can touch, wherever it starts.
RowBlocks == (N + WORDS_PER_BLOCK - 2) \div WORDS_PER_BLOCK + 1

LEMMA WindowBlocks ==
  ASSUME NEW first \in Nat, NEW n \in 0 .. N
  PROVE  RowBlocks \in Nat \ {0} /\ Blocks(first, n) <= RowBlocks
<1> DEFINE w == WORDS_PER_BLOCK
           last == first + N - 1
           p == first \div w
           r == first % w
           q == (N + w - 2) \div w
           e == (N + w - 2) % w
<1>1. w \in Nat \ {0} /\ N \in Nat \ {0} /\ n \in Nat /\ last \in Nat
  BY SizeAssumption, NAssumption
<1>2. /\ p \in Nat /\ r \in 0 .. w - 1 /\ first = p * w + r
      /\ q \in Nat /\ e \in 0 .. w - 1 /\ N + w - 2 = q * w + e
  <2>1. N + w - 2 \in Nat
    BY <1>1
  <2> QED  BY <1>1, <2>1, DivMod
<1>3. block(first) = p /\ RowBlocks = q + 1
  BY DEF block, RowBlocks
<1>4. block(last) <= p + q /\ block(last) \in Nat /\ p <= block(last)
  <2> HIDE DEF p, q, r, e, w
  <2>1. p * w \in Nat /\ q * w \in Nat /\ (p + q) * w = p * w + q * w
    BY <1>1, <1>2
  <2>2. (p + q) * w + e \in Nat /\ last <= (p + q) * w + e /\ first <= last
    BY <1>1, <1>2, <2>1
  <2>3. block((p + q) * w + e) = p + q
    <3>1. p + q \in Nat
      BY <1>2
    <3>2. ((p + q) * w + e) \div w = p + q
      BY <1>1, <1>2, <3>1, DivModInverse
    <3> QED  BY <3>2 DEF block, w
  <2> QED  BY <1>1, <1>3, <2>2, <2>3, BlockMonotone
<1>5. {block(first + x) : x \in 0 .. N - 1} \subseteq p .. block(last)
  <2> SUFFICES ASSUME NEW x \in 0 .. N - 1
               PROVE  block(first + x) \in p .. block(last)
    OBVIOUS
  <2> HIDE DEF p
  <2>1. first + x \in Nat /\ first <= first + x /\ first + x <= last
    BY <1>1
  <2>2. /\ block(first) <= block(first + x) /\ block(first + x) <= block(last)
        /\ block(first + x) \in Nat
    BY <1>1, <2>1, BlockMonotone
  <2> QED  BY <1>2, <1>3, <1>4, <2>2
<1>6. Blocks(first, N) <= q + 1
  <2> HIDE DEF p, q
  <2>1. /\ IsFiniteSet(p .. block(last))
        /\ Cardinality(p .. block(last)) = block(last) - p + 1
    <3>1. p \in Int /\ block(last) \in Int /\ ~(p > block(last))
      BY <1>2, <1>4
    <3> QED  BY <3>1, FS_Interval
  <2>2. Blocks(first, N) <= Cardinality(p .. block(last))
    BY <1>5, <2>1, FS_Subset DEF Blocks
  <2>3. Blocks(first, N) \in Nat
    BY <1>1, BlocksOfFinite
  <2> QED  BY <1>2, <1>4, <2>1, <2>2, <2>3
<1>7. Blocks(first, n) <= Blocks(first, N)
  BY <1>1, BlocksGrow
<1>8. Blocks(first, n) \in Nat /\ Blocks(first, N) \in Nat
  BY <1>1, BlocksOfFinite
<1> QED  BY <1>2, <1>3, <1>6, <1>7, <1>8

\* Every access is one of an iteration.
LEMMA Iterations ==
  ASSUME NEW t \in 0 .. 4 * (N * N * N) - 1
  PROVE  \E x, y, z \in 0 .. N - 1, s \in 0 .. 3 :
           t = 4 * ((x * N + z) * N + y) + s
<1> DEFINE l == t \div 4
           p == l \div N
           c3 == N * N * N
<1>1. N \in Nat \ {0} /\ N * N \in Nat /\ c3 = (N * N) * N /\ c3 \in Nat
  BY NAssumption
<1>2. t \in Nat /\ l \in Nat /\ t % 4 \in 0 .. 3 /\ t = l * 4 + (t % 4)
  <2>1. t \in Nat
    BY <1>1
  <2> QED  BY <2>1, DivMod
<1>3. l < c3
  <2> HIDE DEF l, c3
  <2> QED  BY <1>1, <1>2 DEF c3
<1>4. p \in Nat /\ l % N \in 0 .. N - 1 /\ l = p * N + (l % N)
  <2> HIDE DEF l
  <2> QED  BY <1>1, <1>2, DivMod
<1>5. ASSUME NEW m \in Nat, NEW u \in Nat, NEW v \in 0 .. N - 1,
             u * N + v < m * N
      PROVE  u \in 0 .. m - 1
  <2> SUFFICES ASSUME m <= u PROVE FALSE
    OBVIOUS
  <2>1. m * N <= u * N /\ m * N \in Nat /\ u * N \in Nat
    <3>1. (u - m) * N >= 0 /\ (u - m) * N = u * N - m * N
      BY <1>1
    <3> QED  BY <1>1, <3>1
  <2> QED  BY <1>5, <2>1
<1>6. p \in 0 .. N * N - 1
  <2> HIDE DEF l, p, c3
  <2> QED  BY <1>1, <1>3, <1>4, <1>5
<1>7. p \div N \in Nat /\ p % N \in 0 .. N - 1 /\ p = (p \div N) * N + (p % N)
  <2> HIDE DEF p
  <2> QED  BY <1>1, <1>4, DivMod
<1>8. p \div N \in 0 .. N - 1
  <2> HIDE DEF p
  <2> QED  BY <1>1, <1>5, <1>6, <1>7
<1>9. t = 4 * (((p \div N) * N + (p % N)) * N + (l % N)) + (t % 4)
  <2> HIDE DEF l, p
  <2> QED  BY <1>2, <1>4, <1>7
<1> HIDE DEF l, p
<1> QED  BY <1>2, <1>4, <1>7, <1>8, <1>9

\* Between the store to a word of C and its load a row of B later come words of
\* one row of C, two of A, and of B as many as a row has, but one.
LEMMA BetweenRows ==
  ASSUME NEW x \in 0 .. N - 1, NEW y \in 0 .. N - 1, NEW z \in 1 .. N - 1,
         NEW u \in 4 * ((x * N + z) * N + y) - 4 * N + 4
                     .. 4 * ((x * N + z) * N + y) - 1
  PROVE  \/ \E v \in 0 .. N - 1 : At(u) = C + x * N + v
         \/ At(u) \in {A + x * N + z - 1, A + x * N + z}
         \/ \E v \in 0 .. (N - 1) - 1 : At(u) = (B + (z - 1) * N + y + 1) + v
<1> DEFINE L(a1, b1, c1) == (a1 * N + c1) * N + b1
           l == L(x, y, z)
           m == u \div 4
           s == u % 4
           d == m - (l - N)
<1>1. /\ N \in Nat \ {0} /\ x * N \in Nat /\ z * N \in Nat
      /\ (z - 1) * N = z * N - N /\ z - 1 \in 0 .. N - 1
  BY NAssumption
<1>2. A \in Nat /\ B \in Nat /\ C \in Nat
  <2>1. N * N \in Nat
    BY <1>1
  <2> QED  BY <2>1 DEF A, B, C
<1>3. \A a1, b1, c1 \in 0 .. N - 1 :
        /\ L(a1, b1, c1) \in Nat
        /\ At(4 * L(a1, b1, c1)) = C + a1 * N + b1
        /\ At(4 * L(a1, b1, c1) + 1) = A + a1 * N + c1
        /\ At(4 * L(a1, b1, c1) + 2) = B + c1 * N + b1
        /\ At(4 * L(a1, b1, c1) + 3) = C + a1 * N + b1
  <2> SUFFICES ASSUME NEW a1 \in 0 .. N - 1, NEW b1 \in 0 .. N - 1,
                      NEW c1 \in 0 .. N - 1
               PROVE  /\ L(a1, b1, c1) \in Nat
                      /\ At(4 * L(a1, b1, c1)) = C + a1 * N + b1
                      /\ At(4 * L(a1, b1, c1) + 1) = A + a1 * N + c1
                      /\ At(4 * L(a1, b1, c1) + 2) = B + c1 * N + b1
                      /\ At(4 * L(a1, b1, c1) + 3) = C + a1 * N + b1
    OBVIOUS
  <2>1. L(a1, b1, c1) \in Nat
    BY BeforeOf
  <2> QED  BY <2>1, AtOf
<1>4. L(x, y, z - 1) = l - N
  BY <1>1
<1>5. l \in Nat /\ l - N \in Nat /\ u \in 4 * l - 4 * N + 4 .. 4 * l - 1
  <2>1. l \in Nat /\ L(x, y, z - 1) \in Nat
    BY <1>1, <1>3
  <2> QED  BY <1>4, <2>1
<1>6. m \in Nat /\ s \in 0 .. 3 /\ u = 4 * m + s /\ d \in 1 .. N - 1
  <2> HIDE DEF L, l
  <2>1. u \in Nat
    BY <1>1, <1>5
  <2>2. m \in Nat /\ s \in 0 .. 3 /\ u = m * 4 + s
    BY <2>1, DivMod
  <2> HIDE DEF m, s
  <2> QED  BY <1>1, <1>5, <2>2
<1>7. ASSUME NEW f \in 0 .. N - 1, NEW g \in 0 .. N - 1, m = L(x, f, g)
      PROVE  At(u) \in {C + x * N + f, A + x * N + g, B + g * N + f}
  <2>1. u \in {4 * m, 4 * m + 1, 4 * m + 2, 4 * m + 3}
    BY <1>6
  <2>2. /\ At(4 * m) = C + x * N + f /\ At(4 * m + 1) = A + x * N + g
        /\ At(4 * m + 2) = B + g * N + f /\ At(4 * m + 3) = C + x * N + f
    <3> HIDE DEF L, m
    <3> QED  BY <1>3, <1>7
  <2> HIDE DEF m
  <2> QED  BY <2>1, <2>2
<1>8. CASE y + d <= N - 1
  <2>1. y + d \in 0 .. N - 1
    BY <1>6, <1>8
  <2>2. m = L(x, y + d, z - 1)
    <3>1. L(x, y + d, z - 1) = L(x, y, z - 1) + d
      <4>1. (x * N + (z - 1)) * N \in Nat
        <5>1. x * N + (z - 1) \in Nat
          BY <1>1
        <5> HIDE DEF d
        <5> QED  BY <1>1, <5>1
      <4> HIDE DEF d, l, m
      <4> QED  BY <1>6, <4>1
    <3> HIDE DEF L, l, m
    <3> QED  BY <1>4, <1>5, <1>6, <3>1 DEF d
  <2>3. At(u) \in {C + x * N + (y + d), A + x * N + (z - 1),
                   B + (z - 1) * N + (y + d)}
    BY <1>1, <1>7, <2>1, <2>2
  <2>4. /\ A + x * N + (z - 1) = A + x * N + z - 1
        /\ B + (z - 1) * N + (y + d) = (B + (z - 1) * N + y + 1) + (d - 1)
    <3>1. (z - 1) * N \in Nat
      BY <1>1
    <3> HIDE DEF d
    <3> QED  BY <1>1, <1>2, <1>6, <3>1
  <2>5. d - 1 \in 0 .. (N - 1) - 1
    BY <1>1, <1>6
  <2> HIDE DEF d
  <2> QED  BY <2>1, <2>3, <2>4, <2>5
<1>9. CASE y + d >= N
  <2>1. y + d - N \in 0 .. N - 1
    BY <1>1, <1>6, <1>9
  <2>2. m = L(x, y + d - N, z)
    <3>1. L(x, y + d - N, z) = l + d - N
      <4>1. (x * N + z) * N \in Nat
        <5>1. x * N + z \in Nat
          BY <1>1
        <5> HIDE DEF d
        <5> QED  BY <1>1, <5>1
      <4> HIDE DEF d, m
      <4> QED  BY <1>1, <1>6, <4>1
    <3> HIDE DEF L, l, m
    <3> QED  BY <1>1, <1>5, <1>6, <3>1 DEF d
  <2>3. At(u) \in {C + x * N + (y + d - N), A + x * N + z,
                   B + z * N + (y + d - N)}
    BY <1>1, <1>7, <2>1, <2>2
  <2>4. B + z * N + (y + d - N) = (B + (z - 1) * N + y + 1) + (d - 1)
    <3> HIDE DEF d
    <3> QED  BY <1>1, <1>2, <1>6
  <2>5. d - 1 \in 0 .. (N - 1) - 1
    BY <1>1, <1>6
  <2> HIDE DEF d
  <2> QED  BY <2>1, <2>3, <2>4, <2>5
<1>10. y + d <= N - 1 \/ y + d >= N
  BY <1>1, <1>6
<1> QED  BY <1>8, <1>9, <1>10

\* So a cache with room for two rows and two blocks more is enough: a row of
\* C, which has the block itself, one of B and two blocks of A.
LEMMA RowsFitFully ==
  ASSUME 2 * RowBlocks + 2 <= BLOCKS_IN_CACHE
  PROVE  RowsFit(FULLY)
<1> SUFFICES ASSUME NEW t \in 0 .. 4 * (N * N * N) - 1,
                    Before(t) >= 0, block(At(Before(t))) = block(At(t))
             PROVE  Cardinality({d \in {block(At(u)) : u \in Before(t) + 1 .. t - 1}
                                         \ {block(At(t))} :
                                   SetNo(FULLY, d) = SetNo(FULLY, block(At(t)))})
                      < Room(FULLY)
  BY DEF RowsFit
<1> DEFINE blk == block(At(t))
           V == {block(At(u)) : u \in Before(t) + 1 .. t - 1}
           W == {d \in V \ {blk} : SetNo(FULLY, d) = SetNo(FULLY, blk)}
<1>1. PICK x \in 0 .. N - 1, y \in 0 .. N - 1, z \in 0 .. N - 1, s \in 0 .. 3 :
        t = 4 * ((x * N + z) * N + y) + s
  BY Iterations, Zenon
<1> DEFINE l == (x * N + z) * N + y
<1>2. /\ l \in Nat
      /\ Before(4 * l) = IF z > 0 THEN 4 * l - 4 * N + 3 ELSE 4 * l - 1
      /\ Before(4 * l + 1) = 4 * l - 3
      /\ Before(4 * l + 2) = 4 * l - 2
      /\ Before(4 * l + 3) = 4 * l
  BY <1>1, BeforeOf
<1>3. /\ RowBlocks \in Nat \ {0} /\ BLOCKS_IN_CACHE \in Nat /\ N \in Nat \ {0}
      /\ Room(FULLY) = BLOCKS_IN_CACHE
  <2>1. RowBlocks \in Nat \ {0}
    <3>1. 0 \in Nat /\ 0 \in 0 .. N
      BY NAssumption
    <3> QED  BY <3>1, WindowBlocks
  <2> QED  BY <2>1, SizeAssumption, NAssumption DEF Room, FULLY, TWOWAY
<1>4. W \subseteq V \ {blk}
  OBVIOUS
<1>5. CASE s = 0 /\ z > 0
  <2> DEFINE R == {block(C + x * N + v) : v \in 0 .. N - 1}
             E == {block((B + (z - 1) * N + y + 1) + v) : v \in 0 .. (N - 1) - 1}
             F == {block(A + x * N + z - 1), block(A + x * N + z)}
             D == ((R \ {blk}) \cup E) \cup F
  <2>1. /\ t = 4 * l /\ Before(t) = 4 * l - 4 * N + 3
    BY <1>1, <1>2, <1>5
  <2>2. /\ C + x * N \in Nat /\ B + (z - 1) * N + y + 1 \in Nat
        /\ At(t) = C + x * N + y
    <3>1. At(t) = C + x * N + y
      <4>1. At(4 * l) = C + x * N + y
        <5> DEFINE L(a1, b1, c1) == (a1 * N + c1) * N + b1
        <5>1. \A a1, b1, c1 \in 0 .. N - 1 :
                At(4 * L(a1, b1, c1)) = C + a1 * N + b1
          BY AtOf
        <5>2. l = L(x, y, z)
          OBVIOUS
        <5> HIDE DEF L, l
        <5> QED  BY <5>1, <5>2
      <4> HIDE DEF l
      <4> QED  BY <2>1, <4>1
    <3>2. C \in Nat /\ B \in Nat
      <4>1. N * N \in Nat
        BY <1>3
      <4> QED  BY <4>1 DEF A, B, C
    <3>3. x * N \in Nat /\ (z - 1) * N \in Nat
      BY <1>3, <1>5
    <3> QED  BY <3>1, <3>2, <3>3
  <2>3. IsFiniteSet(R) /\ Cardinality(R) <= RowBlocks
    <3>1. N \in 0 .. N /\ N \in Nat
      BY <1>3
    <3>2. IsFiniteSet(R) /\ Blocks(C + x * N, N) = Cardinality(R)
      BY <2>2, <3>1, BlocksOfFinite DEF Blocks
    <3> QED  BY <2>2, <3>1, <3>2, WindowBlocks
  <2>4. IsFiniteSet(E) /\ Cardinality(E) <= RowBlocks
    <3>1. N - 1 \in 0 .. N /\ N - 1 \in Nat
      BY <1>3
    <3>2. /\ IsFiniteSet(E)
          /\ Blocks(B + (z - 1) * N + y + 1, N - 1) = Cardinality(E)
      BY <2>2, <3>1, BlocksOfFinite DEF Blocks
    <3> QED  BY <2>2, <3>1, <3>2, WindowBlocks
  <2>5. IsFiniteSet(F) /\ Cardinality(F) <= 2
    <3> DEFINE f1 == block(A + x * N + z - 1)
               f2 == block(A + x * N + z)
    <3> HIDE DEF f1, f2
    <3>1. IsFiniteSet({f1}) /\ Cardinality({f1}) = 1
      BY FS_Singleton
    <3>2. /\ IsFiniteSet({f1} \cup {f2})
          /\ Cardinality({f1} \cup {f2}) \in {1, 2}
      BY <3>1, FS_AddElement
    <3>3. F = {f1} \cup {f2}
      BY DEF f1, f2
    <3> QED  BY <3>2, <3>3
  <2>6. blk \in R
    <3>1. blk = block(C + x * N + y)
      BY <2>2
    <3> HIDE DEF blk
    <3> QED  BY <3>1
  <2>7. V \ {blk} \subseteq D
    <3> SUFFICES ASSUME NEW u \in Before(t) + 1 .. t - 1, block(At(u)) # blk
                 PROVE  block(At(u)) \in D
      OBVIOUS
    <3>1. u \in 4 * l - 4 * N + 4 .. 4 * l - 1
      <4> HIDE DEF l
      <4> QED  BY <1>2, <1>3, <2>1
    <3>2. z \in 1 .. N - 1
      BY <1>3, <1>5
    <3>3. \/ \E v \in 0 .. N - 1 : At(u) = C + x * N + v
          \/ At(u) \in {A + x * N + z - 1, A + x * N + z}
          \/ \E v \in 0 .. (N - 1) - 1 : At(u) = (B + (z - 1) * N + y + 1) + v
      BY <3>1, <3>2, BetweenRows
    <3> HIDE DEF blk
    <3> QED  BY <3>3, Zenon
  <2> HIDE DEF R, E, F, blk, V, W
  <2>8. IsFiniteSet(R \ {blk}) /\ Cardinality(R \ {blk}) = Cardinality(R) - 1
    BY <2>3, <2>6, FS_RemoveElement
  <2>9. /\ Cardinality(R) \in Nat /\ Cardinality(E) \in Nat
        /\ Cardinality(F) \in Nat
    BY <2>3, <2>4, <2>5, FS_CardinalityType
  <2>10. /\ IsFiniteSet((R \ {blk}) \cup E)
         /\ Cardinality((R \ {blk}) \cup E) <= Cardinality(R) - 1 + Cardinality(E)
    <3>1. /\ IsFiniteSet((R \ {blk}) \cup E)
          /\ Cardinality((R \ {blk}) \cup E) =
               Cardinality(R \ {blk}) + Cardinality(E)
                 - Cardinality((R \ {blk}) \cap E)
      BY <2>4, <2>8, FS_Union
    <3>2. Cardinality((R \ {blk}) \cap E) \in Nat
      <4>1. (R \ {blk}) \cap E \subseteq E
        OBVIOUS
      <4> QED  BY <2>4, <4>1, FS_Subset, FS_CardinalityType
    <3> QED  BY <2>8, <2>9, <3>1, <3>2
  <2>11. /\ IsFiniteSet(D)
         /\ Cardinality(D) <= Cardinality(R) - 1 + Cardinality(E) + Cardinality(F)
    <3> DEFINE G == (R \ {blk}) \cup E
    <3>1. /\ IsFiniteSet(G) /\ Cardinality(G) \in Nat
          /\ Cardinality(G) <= Cardinality(R) - 1 + Cardinality(E)
      BY <2>10, FS_CardinalityType
    <3> HIDE DEF G
    <3>2. /\ IsFiniteSet(G \cup F)
          /\ Cardinality(G \cup F) =
               Cardinality(G) + Cardinality(F) - Cardinality(G \cap F)
      BY <2>5, <3>1, FS_Union
    <3>3. Cardinality(G \cap F) \in Nat
      <4>1. G \cap F \subseteq F
        OBVIOUS
      <4> QED  BY <2>5, <4>1, FS_Subset, FS_CardinalityType
    <3>4. Cardinality(G \cup F) <= Cardinality(R) - 1 + Cardinality(E) + Cardinality(F)
      BY <2>9, <3>1, <3>2, <3>3
    <3> QED  BY <3>2, <3>4 DEF G
  <2>12. W \subseteq D
    BY <1>4, <2>7
  <2> HIDE DEF D
  <2>13. Cardinality(W) <= Cardinality(D) /\ Cardinality(W) \in Nat
         /\ Cardinality(D) \in Nat
    BY <2>11, <2>12, FS_Subset, FS_CardinalityType
  <2>14. Cardinality(W) < Room(FULLY)
    BY <1>3, <2>3, <2>4, <2>5, <2>9, <2>11, <2>13
  <2> QED  BY <2>14 DEF W, V, blk
<1>6. CASE ~(s = 0 /\ z > 0)
  <2>1. Before(t) \in t - 4 .. t - 1
    <3> HIDE DEF l
    <3>1. t = 4 * l + s /\ (s = 0 => t = 4 * l)
      BY <1>1, <1>2 DEF l
    <3>2. /\ s = 0 => Before(t) = t - 1
          /\ s = 1 => Before(t) = t - 4
          /\ s = 2 => Before(t) = t - 4
          /\ s = 3 => Before(t) = t - 3
      BY <1>1, <1>2, <1>6, <3>1
    <3> QED  BY <1>1, <1>2, <3>1, <3>2
  <2>2. t \in Nat
    BY <1>1, <1>2
  <2> DEFINE I == Before(t) + 1 .. t - 1
             g == [u \in I |-> block(At(u))]
  <2>3. IsFiniteSet(I) /\ Cardinality(I) <= 3 /\ Cardinality(I) \in Nat
    <3>1. Before(t) + 1 \in Int /\ t - 1 \in Int
      BY <2>1, <2>2
    <3>2. IsFiniteSet(I) /\ Cardinality(I) \in Nat
          /\ Cardinality(I) = IF Before(t) + 1 > t - 1 THEN 0
                              ELSE (t - 1) - (Before(t) + 1) + 1
      BY <3>1, FS_Interval, FS_CardinalityType
    <3> QED  BY <2>1, <2>2, <3>2
  <2>4. V = {g[u] : u \in I}
    OBVIOUS
  <2> HIDE DEF V, W, I, g, blk
  <2>5. IsFiniteSet(V) /\ Cardinality(V) <= Cardinality(I)
    BY <2>3, <2>4, ImageFinite
  <2>6. W \subseteq V
    BY <1>4
  <2>7. Cardinality(W) <= Cardinality(V) /\ Cardinality(W) \in Nat
        /\ Cardinality(V) \in Nat
    BY <2>5, <2>6, FS_Subset, FS_CardinalityType
  <2>8. Cardinality(W) < Room(FULLY)
    BY <1>3, <2>3, <2>5, <2>7
  <2> QED  BY <2>8 DEF W, V, blk
<1> QED  BY <1>5, <1>6

\* Behind the fully associative cache for every size of blocks and matrices
\* with two rows in the cache and two blocks besides: six columns in eight
\* blocks of four words are so (smart6.cpp, memory.hh:27-29).
THEOREM ReuseFullyCorrect ==
  ASSUME DriverUse, EvenSets, Orgs \subseteq {DIRECT, FULLY},
         2 * RowBlocks + 2 <= BLOCKS_IN_CACHE
  PROVE  OnceSpec => []SmartReuses
<1>1. RowsFit(FULLY)
  BY RowsFitFully
<1>2. ReuseUse
  BY <1>1 DEF ReuseUse
<1> QED  BY <1>2, ReuseCorrect
=============================================================================
