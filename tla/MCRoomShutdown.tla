---------------------------- MODULE MCRoomShutdown ----------------------------
(* RoomShutdown for TLC; calls and session ids are interchangeable.         *)
EXTENDS RoomShutdown, TLC

Symmetry == Permutations(Calls) \cup Permutations(Sessions)
=============================================================================
