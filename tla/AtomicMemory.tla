---------------------------- MODULE AtomicMemory ----------------------------
(***************************************************************************)
(* What class Memory of lab5/memory.hh promises its callers, whatever the  *)
(* cache inside it: a load returns what was last stored at its address.    *)
(***************************************************************************)
CONSTANTS Addr, Value

VARIABLES
  store,   \* what was last stored at each address
  data     \* what the last load returned

amVars == <<store, data>>

Init ==
  /\ store \in [Addr -> Value]
  /\ data \in Value

getData(a) == data' = store[a] /\ UNCHANGED store

putData(a, v) == store' = [store EXCEPT ![a] = v] /\ UNCHANGED data

Next ==
  \E a \in Addr : getData(a) \/ \E v \in Value : putData(a, v)
=============================================================================
