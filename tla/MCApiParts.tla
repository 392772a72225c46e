------------------------------ MODULE MCApiParts ------------------------------
(***************************************************************************)
(* Two parts of the API that share nothing, for TLC, one per behaviour:    *)
(* the profiles, and the channels of the events.  Handlers are             *)
(* interchangeable.                                                        *)
(***************************************************************************)
EXTENDS UserProfiles, RealtimeChannels, TLC

CONSTANTS r1, r2, host, guest

VARIABLE part

ApiInit == Init /\ AccessInit /\ part \in {"profiles", "channels"}

(* A token for a channel nobody publishes to is got by somebody who has no  *)
(* other.                                                                   *)
UnusedAlone ==
    \A u \in Users : \A c \in tokens[u] :
        c.kind \in {"deeper", "session"} => tokens = [v \in Users |-> IF v = u THEN {c} ELSE {}]

ApiNext ==
    /\ \/ part = "profiles" /\ Next /\ UNCHANGED accessVars
       \/ part = "channels" /\ AccessNext /\ UnusedAlone' /\ UNCHANGED vars
    /\ UNCHANGED part

ApiSpec == ApiInit /\ [][ApiNext]_<<part, vars, accessVars>>

(* Two rooms, each moderated by a guest of the other: both pairs may be     *)
(* swapped together.                                                        *)
MCModerators == r1 :> {host} @@ r2 :> {guest}

Swap == r1 :> r2 @@ r2 :> r1 @@ host :> guest @@ guest :> host

Symmetry == Permutations(Handlers) \cup {Swap}
=============================================================================
