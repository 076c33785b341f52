------------------------------ MODULE MCFriends ------------------------------
(* Friends on small instances.                                             *)
EXTENDS Friends, TLC

CONSTANTS u1, u2, r1, r2, r3

Symmetry == Permutations(User) \union Permutations(Request)
=============================================================================
