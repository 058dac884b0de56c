----------------------------- MODULE MCLocalJobs -----------------------------
(* Two starts of any kinds, two query slots and a transfer slot, two barcodes *)
(* or orders, one retry.                                                      *)
EXTENDS LocalJobs

CONSTANTS q1, q2

MCSlotOrder == <<q1, q2>>
=============================================================================
