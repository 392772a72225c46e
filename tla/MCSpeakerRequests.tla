-------------------------- MODULE MCSpeakerRequests --------------------------
(* SpeakerRequests for TLC; ids of each kind are interchangeable.           *)
EXTENDS SpeakerRequests, TLC

Symmetry == Permutations(Users) \cup Permutations(Requests)
            \cup Permutations(Blocks) \cup Permutations(Calls)
=============================================================================
