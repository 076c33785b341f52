---------------------------- MODULE MCOfflineGame ----------------------------
(* OfflineGame on small instances.                                         *)
EXTENDS OfflineGame, TLC

CONSTANTS c1, c2, r1, r2

Symmetry == Permutations(Cell) \union Permutations(Request)
=============================================================================
