--------------------------- MODULE MCClientParts ---------------------------
(***************************************************************************)
(* The client on a small instance, one component at a time: in a behaviour *)
(* only the part chosen at the start is used, the others are mounted and   *)
(* unmounted with their pages.  The theorems of ClientProofs say why that  *)
(* is enough: whole, the client is nothing but its components.             *)
(***************************************************************************)
EXTENDS ClientPages, TLC

VARIABLE part

Parts == {"chats", "reactions", "panel", "stage", "board", "microphone", "photo", "frame"}

PartsInit ==
    /\ ClientInit
    /\ part \in Parts
    /\ part # "microphone" => plugged = {}
    /\ part # "frame" => network = [onLine |-> TRUE, signal |-> "good"]

\* Nothing but words and reactions: no reply, no emoji picker, no search.
Plain == compose.reply = NoReply /\ ~compose.picker /\ ~drawer.search /\ urls = {}

PartTurn ==
    \/ part = "chats" /\ ChatTurn /\ (ReactedMessages = {})'
    \/ part = "reactions" /\ ChatTurn /\ Plain'
    \/ part = "panel" /\ PanelTurn
    \/ part = "stage" /\ StageTurn
    \/ part = "board" /\ BoardTurn
    \/ part = "microphone" /\ UNCHANGED photoVars /\ ProfileTurn
    \/ part = "photo" /\ ProfileTurn /\ ~UNCHANGED photoVars
    \/ part = "frame" /\ FrameTurn

PartsNext ==
    /\ PartTurn \/ \E to \in Pages : Navigate(to)
    /\ UNCHANGED part

PartsSpec == PartsInit /\ [][PartsNext]_<<part, clientVars>>

(* The people, by their places in the list of the room. *)
MCParticipants == {"alice", "brian", "carol"}
MCPosition == [alice |-> 0, brian |-> 1, carol |-> 2]
MCListeners == {"brian", "carol"}
MCMatching == {"carol"}

MCPeople == {"alex", "alice", "brian", "carol"}
MCFriends == {"alice", "brian"}
MCHosts == {"alice"}
MCSeedLikes == <<2>>

MCRoomSpeakers == <<"alice", "alex">>
MCRoomListeners == {"brian", "carol"}
MCSeedRequests == {"carol", "wade"}
MCSpeaking == {"alice", "carol"}

(* A live room of the user, a live one of the market, and upcoming ones: in *)
(* the agenda as a reminder, outside it, and in it under the market.        *)
MCRooms == {"r0", "r2", "r3", "r4", "r8"}
MCStatus == [r0 |-> "live", r2 |-> "live", r3 |-> "scheduled",
             r4 |-> "scheduled", r8 |-> "scheduled"]
MCTopic == [r0 |-> {"tech"}, r2 |-> {"startup"}, r3 |-> {"design"},
            r4 |-> {"music"}, r8 |-> {"productivity"}]
MCAgendaSeed == <<"r0", "r2", "r3", "r8">>
MCSeedKind == [r0 |-> "mine", r2 |-> "market", r3 |-> "reminder", r8 |-> "market"]
MCTopicTags == {{"tech"}, {"business"}}
MCFound == {"r2", "r4"}

MCFirst == [S \in SUBSET Mics |-> IF S = {} THEN NoMic ELSE CHOOSE m \in S : TRUE]

MCPeopleInRoom == {"alex", "alice"}
MCInvitable == {"alice", "dianne", "esther"}
MCInviteMatching == {"dianne"}
MCStart == <<1, 23, 58>>

\* One test is like another.
TestSymmetry == Permutations(Tests)
=============================================================================
