---------------------------- MODULE MCRoomMatch ----------------------------
(* RoomMatch on small instances.                                           *)
EXTENDS RoomMatch, TLC

CONSTANTS c1, c2, r1, r2

Symmetry == Permutations({c1, c2}) \union Permutations(Request)
=============================================================================
