--------------------------- MODULE MCRoomLifecycle ---------------------------
(* RoomLifecycle for TLC; request and recording ids are interchangeable.    *)
EXTENDS RoomLifecycle, TLC

Symmetry == Permutations(Requests) \cup Permutations(Recordings)
=============================================================================
