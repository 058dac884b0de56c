-------------------------- MODULE MCClusterBulkLogin --------------------------
(* One server has a slot, the one the pages reach has none of this scope.    *)
EXTENDS ClusterBulkLogin, TLC

CONSTANTS n1, n2, a

MCSlotOrder == (n1 :> <<>>) @@ (n2 :> <<a>>)
=============================================================================
