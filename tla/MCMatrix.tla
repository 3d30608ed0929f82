------------------------------ MODULE MCMatrix ------------------------------
(***************************************************************************)
(* Instances of MatrixDriver for TLC: the cache and the matrices of        *)
(* naive6.cpp and smart6.cpp.                                              *)
(***************************************************************************)
EXTENDS MatrixDriver

MCAddr == 0 .. 3 * N * N - 1
MCValue == 0 .. 9 * N
MCTag  == 0 .. BLOCKS_IN_MEMORY

\* A and B hold small numbers, no two rows or columns alike; C holds zero.
MCData ==
  { [m \in MemIdx |-> [o \in Offset |->
       LET x == m * WORDS_PER_BLOCK + o IN
       CASE x < B                -> (x \div N + x * seed) % 3
         [] x >= B /\ x < C      -> (x + seed * (x \div N) + x \div 4) % 2
         [] x >= C               -> 0]] : seed \in {1, 2} }

\* The numbers above are small enough for the sums.
ASSUME MCSumsFit == SumsFit

\* Six columns are few enough for eight blocks, in sets or not.
ASSUME MCRowsFit == RowsFit(FULLY) /\ RowsFit(TWOWAY)
=============================================================================
