----------------------------- MODULE MCPresence -----------------------------
(* Presence with three sockets and two pages, for TLC.                     *)
EXTENDS Presence, TLC

CONSTANTS s1, s2, s3, p1, p2
=============================================================================
