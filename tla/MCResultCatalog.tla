--------------------------- MODULE MCResultCatalog ---------------------------
(* Two barcodes and two clients: enough for two publications of a barcode,  *)
(* a deletion across a publication, and an operation on all rows across one *)
(* on one row.                                                              *)
EXTENDS ResultCatalog, TLC

CONSTANTS b1, b2, c1, c2

TwoBarcodes == {b1, b2}
TwoClients == {c1, c2}
Interchangeable == Permutations(TwoBarcodes) \cup Permutations(TwoClients)
=============================================================================
