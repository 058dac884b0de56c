------------------------- MODULE MCClusterScheduler -------------------------
(* Instances of ClusterScheduler for TLC: one item per job, and two slots  *)
(* of the kind that takes it on different nodes.                           *)
EXTENDS ClusterScheduler

OneJobEach == [i \in Items |-> i]
KindByName == [i \in Items |-> IF i = "t" THEN "transfer" ELSE IF i = "s" THEN "service_close" ELSE "query"]
Attempts == [i \in Items |-> IF i = "q" THEN 1 ELSE 2]
NodeBySlot == [o \in Owners |-> IF o \in {"hk:1", "hk:2"} THEN "hk" ELSE "sg"]
QueryKinds == {"query", "library_lookup", "transfer_summary", "service_close"}
TransferSlots == [o \in Owners |-> {"transfer"}]
QuerySlots == [o \in Owners |-> QueryKinds]
=============================================================================
