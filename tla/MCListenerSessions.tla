-------------------------- MODULE MCListenerSessions --------------------------
(* ListenerSessions for TLC: two sessions of two users.  Calls, and the two  *)
(* pairs of a user and the session it owns, are interchangeable.             *)
EXTENDS ListenerSessions, TLC

CONSTANTS u1, u2, s1, s2

MCOwnerOf == (s1 :> u1) @@ (s2 :> u2)

SwapPairs == (s1 :> s2) @@ (s2 :> s1) @@ (u1 :> u2) @@ (u2 :> u1)
Symmetry == Permutations(Calls) \cup {SwapPairs}
=============================================================================
