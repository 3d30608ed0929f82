---------------------------- MODULE MatrixDriver ----------------------------
(***************************************************************************)
(* The programs naive6.cpp .. naive25.cpp and smart6.cpp .. smart25.cpp of *)
(* lab5: C := C + A * B for square matrices kept behind the cache, once    *)
(* for each organization on the same Memory.  They differ in N and in the  *)
(* order of the two inner loops.                                           *)
(*                                                                         *)
(* One step is one access to memory.  Sums are integers; that none of them *)
(* overflows is SumsFit, below.                                            *)
(***************************************************************************)
EXTENDS CacheMemory

CONSTANTS
  N,        \* rows and columns
  Orders    \* subset of {"naive", "smart"}

ASSUME NAssumption == N \in Nat \ {0}
ASSUME OrdersAssumption == Orders \subseteq {"naive", "smart"}

VARIABLES
  order,      \* of the loops: naive is i, j, k and smart is i, k, j
  i, j, k,
  step,       \* the access that comes next: "c", "a", "b" or "put"
  c, a, b,
  blocks0     \* history: main memory at the start

loopVars == <<order, i, j, k, blocks0>>
dvars == <<cache_org, cblocks, blocks, counter, clockX, numMisses, data,
           lastUse, gets, puts, order, i, j, k, step, c, a, b, blocks0>>

\* Where the matrices are.
A == 0
B == A + N * N
C == B + N * N

\* Variant: B is read by rows.
AddrB_Row == B + j * N + k

AddrC == C + i * N + j
AddrA == A + i * N + k
AddrB == B + k * N + j

\* The blocks of the cache hold no word of the program at first.
DInit ==
  /\ cblocks = [s \in Slot |-> CHOOSE blk \in InitBlock : TRUE]
  /\ data = 0
  /\ HInit
  /\ order \in Orders
  /\ i = 0 /\ j = 0 /\ k = 0
  /\ step = "c"
  /\ c = 0 /\ a = 0 /\ b = 0
  /\ blocks0 = blocks

-----------------------------------------------------------------------------
Load(x) == getData(x) /\ Used(x) /\ gets' = gets + 1 /\ puts' = puts

Store(x, v) == putData(x, v) /\ Used(x) /\ puts' = puts + 1 /\ gets' = gets

LoadC ==
  /\ i < N /\ step = "c" /\ step' = "a"
  /\ Load(AddrC) /\ c' = data'
  /\ UNCHANGED <<loopVars, a, b>>

LoadA ==
  /\ step = "a" /\ step' = "b"
  /\ Load(AddrA) /\ a' = data'
  /\ UNCHANGED <<loopVars, b, c>>

LoadB ==
  /\ step = "b" /\ step' = "put"
  /\ Load(AddrB) /\ b' = data'
  /\ UNCHANGED <<loopVars, a, c>>

\* The next iteration of the two inner loops, and of the outer one.
Inner  == IF order = "naive" THEN k ELSE j
Middle == IF order = "naive" THEN j ELSE k
Inner1  == (Inner + 1) % N
Middle1 == IF Inner = N - 1 THEN (Middle + 1) % N ELSE Middle

StoreC ==
  /\ step = "put" /\ step' = "c"
  /\ c' = c + a * b
  /\ Store(AddrC, c')
  /\ k' = IF order = "naive" THEN Inner1 ELSE Middle1
  /\ j' = IF order = "naive" THEN Middle1 ELSE Inner1
  /\ i' = IF Inner = N - 1 /\ Middle = N - 1 THEN i + 1 ELSE i
  /\ UNCHANGED <<order, blocks0, a, b>>

Multiply == LoadC \/ LoadA \/ LoadB \/ StoreC

\* The next organization; C is not set back.
NextOrg ==
  /\ i = N
  /\ SetOrg
  /\ i' = 0
  /\ lastUse' = [blk \in BlockNo |-> 0] /\ gets' = 0 /\ puts' = 0
  /\ UNCHANGED <<order, j, k, step, a, b, c, blocks0>>

\* One multiplication, in any one organization.
OnceSpec == DInit /\ [][Multiply]_dvars

\* The whole program.
MainSpec == DInit /\ [][Multiply \/ NextOrg]_dvars

-----------------------------------------------------------------------------
(* Properties.                                                             *)

\* The word main memory has, or had, at address x.
WordAt(m, x) == m[mem_idx(x)][offset(x)]

\* A load returns the word its address has ("Get data at address using fully
\* associative cache", memory.cpp:203).
OperandsLoaded ==
  /\ step # "c" => c = WordAt(blocks, AddrC)
  /\ step \in {"b", "put"} => a = WordAt(blocks, AddrA)
  /\ step = "put" => b = WordAt(blocks, AddrB)

\* How many of the products of cell (x, y) are done: either order of the loops
\* adds them from the first on.
Done(x, y) ==
  CASE x < i -> N
    [] x > i -> 0
    [] x = i /\ order = "naive" -> IF y < j THEN N ELSE IF y = j THEN k ELSE 0
    [] x = i /\ order = "smart" -> IF y < j THEN k + 1 ELSE k

\* The sum of the first n products of cell (x, y), by n, of the matrices that
\* memory m has.
Products(m, x, y) ==
  LET sum[n \in Nat] ==
        IF n = 0 THEN 0
        ELSE sum[n - 1] + WordAt(m, A + x * N + (n - 1)) *
                          WordAt(m, B + (n - 1) * N + y)
  IN  sum

\* No sum the programs compute overflows.
SumsFit ==
  /\ Value \subseteq Int
  /\ \A m \in InitData, x, y \in 0 .. N - 1, n \in 0 .. N :
       WordAt(m, C + x * N + y) + Products(m, x, y)[n] \in Value

\* At every moment main memory has, in each cell of C, its first value and
\* the products of the iterations that are done, in either order of the loops
\* and whatever the cache held and evicted meanwhile (naive6.cpp:21-29,
\* smart6.cpp:21-29).
PartialSums ==
  \A x, y \in 0 .. N - 1 :
    WordAt(blocks, C + x * N + y) =
      WordAt(blocks0, C + x * N + y) + Products(blocks0, x, y)[Done(x, y)]

BlocksOf(first) == Cardinality({block(first + x) : x \in 0 .. N * N - 1})

\* What makes the smart order smart: in an associative cache with room for
\* the rows it works on, each block of B is missed once for each row of A,
\* and the blocks of A and C once in all, so the misses the program prints
\* are bounded by the blocks and not by the accesses.
SmartReuses ==
  order = "smart" /\ cache_org # DIRECT /\ i < N =>
    numMisses <= BlocksOf(A) + BlocksOf(C) + (i + 1) * BlocksOf(B)

\* The address of access t in the smart order, counted from zero.
At(t) ==
  LET l == t \div 4
      x == (l \div N) \div N
      z == (l \div N) % N
      y == l % N
  IN  CASE t % 4 \in {0, 3} -> C + x * N + y
        [] t % 4 = 1        -> A + x * N + z
        [] t % 4 = 2        -> B + z * N + y

\* The access before t after which its block may still be there: for a load
\* of C the store to the same word a row of B ago, in the first of these rows
\* the store just before.
Before(t) ==
  CASE t % 4 = 0 -> IF ((t \div 4) \div N) % N > 0 THEN t - 4 * N + 3 ELSE t - 1
    [] t % 4 \in {1, 2} -> t - 4
    [] t % 4 = 3 -> t - 3

SetNo(org, blk) == IF org = TWOWAY THEN blk % NUM_OF_SET ELSE 0
Room(org) ==
  IF org = TWOWAY THEN BLOCKS_IN_CACHE \div NUM_OF_SET ELSE BLOCKS_IN_CACHE

\* The rows fit: between the two, fewer other blocks of its set are used than
\* the set has room for.
RowsFit(org) ==
  \A t \in 0 .. 4 * (N * N * N) - 1 :
    LET blk == block(At(t)) IN
    Before(t) >= 0 /\ block(At(Before(t))) = blk =>
      Cardinality({d \in {block(At(u)) : u \in Before(t) + 1 .. t - 1} \ {blk} :
                     SetNo(org, d) = SetNo(org, blk)}) < Room(org)
=============================================================================
