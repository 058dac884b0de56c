--------------------------- MODULE MCCatalogTables ---------------------------
(* Two clients, and two keys of each table (three accounts): enough for one *)
(* replacement across another, in either order of load, DELETE and commit,  *)
(* and for a rename to a username that appears meanwhile.                   *)
EXTENDS CatalogTables, TLC

CONSTANTS c1, c2, p, q, a, b, m, n, d, e

TwoClients == {c1, c2}
TwoPrefixes == {p, q}
ThreeIds == {Admin, a, b}
ThreeNames == {Admin, m, n}
TwoDealers == {d, e}
Interchangeable ==
  UNION {Permutations(S) : S \in {TwoClients, TwoPrefixes, {a, b}, {m, n}, TwoDealers}}
=============================================================================
