------------------------------ MODULE MCCache ------------------------------
(***************************************************************************)
(* Instances of CacheMemory for TLC.                                       *)
(***************************************************************************)
EXTENDS CacheMemory

\* Memory that was never written holds zero.
MCZeroData == {[i \in MemIdx |-> [o \in Offset |-> 0]]}
=============================================================================
