--------------------------- MODULE MCClientPages ---------------------------
(***************************************************************************)
(* The whole client on the smallest instance in which every component has  *)
(* something to do, one participant, one request, one upcoming room, in    *)
(* every interleaving of a few turns of its components.                    *)
(***************************************************************************)
EXTENDS ClientPages

CONSTANT MaxTurns   \* bound: handlers, timers, events and changes of page

VARIABLE turns

TurnsInit ==
    /\ ClientInit
    /\ plugged = {} /\ network = [onLine |-> TRUE, signal |-> "good"]
    /\ turns = 0

TurnsNext ==
    /\ turns < MaxTurns
    /\ turns' = turns + 1
    /\ ClientNext

TurnsSpec == TurnsInit /\ [][TurnsNext]_<<turns, clientVars>>

MCPosition == [alice |-> 0]

MCNoMessages == <<>>

MCRoomSpeakers == <<"alex">>

MCRooms == {"r0", "r3"}
MCStatus == [r0 |-> "live", r3 |-> "scheduled"]
MCTopic == [r0 |-> {"tech"}, r3 |-> {"design"}]
MCAgendaSeed == <<"r0">>
MCSeedKind == [r0 |-> "mine"]

MCFirst == [S \in SUBSET Mics |-> IF S = {} THEN NoMic ELSE CHOOSE m \in S : TRUE]

MCStart == <<0, 0>>
=============================================================================
