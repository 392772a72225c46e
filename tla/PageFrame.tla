----------------------------- MODULE PageFrame -----------------------------
(***************************************************************************)
(* What stands around the components of the client: the top bar's network  *)
(* status (top-bar.tsx), the bar that leads back to the room               *)
(* (active-room-back-bar.tsx), and the header of the live room page with   *)
(* its invite menu, actions menu, dialogs and clock (live-room-page.tsx;   *)
(* the leave dialog is listener-panel.tsx's).  Its menus and dialogs are   *)
(* modal.  To end or to leave the room shows a notice and changes nothing. *)
(***************************************************************************)
EXTENDS WaveCastPage, Naturals, Sequences, FiniteSets

CONSTANTS InvitableFriends,  \* friends of the user, wherever they are
          PeopleInRoom,      \* the people of the room
          InviteMatching,    \* the friends the searched term matches
          StartDuration,     \* the room's duration in the data: hours, minutes, seconds
          MaxSeconds         \* bound: seconds that pass in one visit

ASSUME FrameAssumption ==
    /\ InviteMatching \subseteq InvitableFriends
    /\ StartDuration \in Seq(Nat)
    /\ MaxSeconds \in Nat

VARIABLES activeRoom,     \* ui store: activeRoomId is set
          header,         \* the menu or dialog that is open
          inviteSearch,   \* the invite menu's search field has a term
          invitedIds,     \* invitedFriendIds
          roomDuration,   \* seconds
          network,        \* what the browser knows of the network
          newsDue,        \* a change the browser has still to report
          status          \* what the top bar keeps of it

headerVars  == <<header, inviteSearch, invitedIds, roomDuration>>
networkVars == <<network, newsDue, status>>
frameVars   == <<activeRoom, headerVars, networkVars>>

Headers   == {"none", "invite", "actions", "end", "leave"}
Qualities == {"excellent", "good", "poor"}

(***************************************************************************)
(* The clock.                                                              *)
(***************************************************************************)

\* parseDuration: anything but two or three parts is zero.
ParseDuration(parts) ==
    CASE Len(parts) = 3 -> parts[1] * 3600 + parts[2] * 60 + parts[3]
      [] Len(parts) = 2 -> parts[1] * 60 + parts[2]
      [] OTHER -> 0

\* formatTimer
FormatTimer(total) == <<total \div 3600, (total % 3600) \div 60, total % 60>>

StartSeconds == ParseDuration(StartDuration)

\* The interval of one second.
SecondPasses ==
    /\ page = "room" /\ UNCHANGED page
    /\ roomDuration < StartSeconds + MaxSeconds
    /\ roomDuration' = roomDuration + 1
    /\ UNCHANGED <<activeRoom, header, inviteSearch, invitedIds, networkVars>>

(***************************************************************************)
(* The network status.                                                     *)
(***************************************************************************)

\* updateNetwork: offline, the quality stays what it was.
UpdateNetwork(s) ==
    [isOffline |-> ~network.onLine,
     quality   |-> IF network.onLine THEN network.signal ELSE s.quality]

\* networkStatusLabel
StatusLabel == IF status.isOffline THEN "offline" ELSE status.quality

NetworkChanges ==
    /\ \E n \in [onLine : BOOLEAN, signal : Qualities] : n # network /\ network' = n
    /\ newsDue' = TRUE
    /\ UNCHANGED <<page, activeRoom, headerVars, status>>

\* The events online, offline and change.
NetworkEvent ==
    /\ newsDue
    /\ status' = UpdateNetwork(status)
    /\ newsDue' = FALSE
    /\ UNCHANGED <<page, activeRoom, headerVars, network>>

(***************************************************************************)
(* The header of the live room page.                                       *)
(***************************************************************************)

Header(from, to) ==
    /\ page = "room" /\ UNCHANGED page
    /\ header = from /\ header' = to
    /\ UNCHANGED <<activeRoom, roomDuration, networkVars>>

OpenHeader(h) == Header("none", h) /\ UNCHANGED <<inviteSearch, invitedIds>>

CloseHeader == header # "none" /\ Header(header, "none") /\ UNCHANGED <<inviteSearch, invitedIds>>

\* The term outlives the menu.
SearchFriends ==
    Header("invite", "invite") /\ inviteSearch' = ~inviteSearch /\ UNCHANGED invitedIds

\* filteredFriendsInRoom and filteredFriendsNotInRoom
ListedFriends == IF inviteSearch THEN InviteMatching ELSE InvitableFriends

\* renderInviteFriendItem: the button is there for friends outside the room.
OffersInvite(f) == f \in ListedFriends \ PeopleInRoom /\ f \notin invitedIds

\* handleInviteFriend
InviteFriend(f) ==
    /\ Header("invite", "invite")
    /\ OffersInvite(f)
    /\ f \notin PeopleInRoom /\ f \notin invitedIds
    /\ invitedIds' = invitedIds \cup {f}
    /\ UNCHANGED inviteSearch

\* The item "End Room" of the actions menu.
AskToEnd == Header("actions", "end") /\ UNCHANGED <<inviteSearch, invitedIds>>

\* handleEndRoom, handleLeaveRoom: a notice, and the dialog closes.
EndRoom == Header("end", "none") /\ UNCHANGED <<inviteSearch, invitedIds>>

LeaveRoom == Header("leave", "none") /\ UNCHANGED <<inviteSearch, invitedIds>>

(***************************************************************************)
(* The parts of the frame.                                                 *)
(***************************************************************************)

InviteFriendMenu ==
    \/ OpenHeader("invite") \/ SearchFriends
    \/ \E f \in InvitableFriends : InviteFriend(f)

ActionsMenu == OpenHeader("actions") \/ AskToEnd

EndDialog == EndRoom

LeaveDialog == OpenHeader("leave") \/ LeaveRoom

\* Every page has a top bar of its own, which reads the network when mounted.
FrameGoTo(to) ==
    /\ activeRoom' = (activeRoom \/ to = "room")
    /\ header' = "none" /\ inviteSearch' = FALSE /\ invitedIds' = {}
    /\ roomDuration' = StartSeconds
    /\ status' = UpdateNetwork([isOffline |-> FALSE, quality |-> "good"])
    /\ newsDue' = FALSE
    /\ UNCHANGED network

FrameInit ==
    /\ activeRoom = (page = "room")
    /\ header = "none" /\ inviteSearch = FALSE /\ invitedIds = {}
    /\ roomDuration = StartSeconds
    /\ network \in [onLine : BOOLEAN, signal : Qualities]
    /\ status = UpdateNetwork([isOffline |-> FALSE, quality |-> "good"])
    /\ newsDue = FALSE

FrameStep ==
    \/ InviteFriendMenu \/ ActionsMenu \/ EndDialog \/ LeaveDialog \/ CloseHeader
    \/ SecondPasses \/ NetworkChanges \/ NetworkEvent

FrameNext == FrameStep \/ \E to \in Pages : ChangePage(to) /\ FrameGoTo(to)

FrameSpec == page \in Pages /\ FrameInit /\ [][FrameNext]_<<page, frameVars>>

(***************************************************************************)
(* Properties.                                                             *)
(***************************************************************************)

FrameTypeOK ==
    /\ page \in Pages
    /\ activeRoom \in BOOLEAN /\ inviteSearch \in BOOLEAN /\ newsDue \in BOOLEAN
    /\ header \in Headers
    /\ invitedIds \subseteq InvitableFriends
    /\ roomDuration \in Nat
    /\ network \in [onLine : BOOLEAN, signal : Qualities]
    /\ status \in [isOffline : BOOLEAN, quality : Qualities]

\* Once the browser has reported, the top bar names the network there is: the
\* quality kept from before going offline is not shown for the one after, on
\* whichever page the changes came.
NetworkShown ==
    ~newsDue =>
        StatusLabel = IF network.onLine THEN network.signal ELSE "offline"

\* The frame is sound: types, the network shown, nobody of the room invited,
\* the way back offered from the moment the room was visited (the store's
\* activeRoomId is set when the room is mounted and never cleared), and
\* the clock reading the seconds it counts.
FrameCoherent ==
    /\ FrameTypeOK
    /\ NetworkShown
    /\ invitedIds \cap PeopleInRoom = {}
    /\ page = "room" => activeRoom
    /\ ParseDuration(FormatTimer(roomDuration)) = roomDuration
    /\ FormatTimer(roomDuration)[2] < 60 /\ FormatTimer(roomDuration)[3] < 60

=============================================================================
