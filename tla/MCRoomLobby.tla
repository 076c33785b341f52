---------------------------- MODULE MCRoomLobby ----------------------------
(* RoomLobby with two guests, for TLC.                                     *)
EXTENDS RoomLobby

CONSTANTS g1, g2
=============================================================================
