---------------------------- MODULE ClientPages ----------------------------
(***************************************************************************)
(* The web client: its components on their pages, the router, and what one *)
(* component does to another.  The chats are opened from the people list   *)
(* and from the top bar through the store's friend; a menu, a dialog or a  *)
(* drawer that is open keeps the user from everything outside it; a change *)
(* of page touches them all.                                               *)
(***************************************************************************)
EXTENDS PrivateChats, RoomPanel, RoomStage, RoomBoard, MicrophoneTest, PageFrame

CONSTANT FirstInRoom   \* defaultPrivateChatTarget

clientVars == <<page, chatVars, panelVars, stageVars, boardVars, micVars, frameVars>>

(***************************************************************************)
(* What is modal.                                                          *)
(***************************************************************************)

ChatModal    == drawer.open \/ listing.open
StageModal   == inviteMenu
SidebarModal == sidebar.open
HeaderModal  == header # "none"

(***************************************************************************)
(* The steps of each component in the client.                              *)
(***************************************************************************)

\* The private chat button of the top bar, the chat button of a friend.
OpenedBy(p) == (p = FirstInRoom /\ UNCHANGED page) \/ OffersChat(p)

ChatOpens ==
    /\ ~StageModal /\ ~SidebarModal /\ ~HeaderModal
    /\ \E p \in Participants : OpenedBy(p) /\ OpenChat(p)

ChatHandlers == ListenersDialog \/ DrawerHeader \/ ThreadList \/ MessageBubbles \/ Composer

ChatTurn ==
    /\ \/ ChatOpens
       \/ ~StageModal /\ ~SidebarModal /\ ~HeaderModal /\ ChatHandlers
       \/ TypingTimeout
    /\ UNCHANGED <<page, panelVars, stageVars, boardVars, micVars, frameVars>>

PanelTurn ==
    /\ ~ChatModal /\ ~StageModal /\ ~SidebarModal /\ ~HeaderModal
    /\ PanelStep
    /\ UNCHANGED <<page, chatVars, stageVars, boardVars, micVars, frameVars>>

StageHandlers == HandButton \/ MicButton \/ InviteButton

StageTurn ==
    /\ \/ ~ChatModal /\ ~SidebarModal /\ ~HeaderModal /\ StageHandlers
       \/ PulseTimeout
    /\ UNCHANGED <<page, chatVars, panelVars, boardVars, micVars, frameVars>>

BoardTurn ==
    /\ ~ChatModal /\ ~StageModal /\ ~HeaderModal
    /\ BoardStep
    /\ UNCHANGED <<page, chatVars, panelVars, stageVars, micVars, frameVars>>

ProfileTurn ==
    /\ ProfileStep
    /\ UNCHANGED <<page, chatVars, panelVars, stageVars, boardVars, frameVars>>

HeaderHandlers ==
    InviteFriendMenu \/ ActionsMenu \/ EndDialog \/ LeaveDialog \/ CloseHeader

FrameTurn ==
    /\ \/ ~ChatModal /\ ~StageModal /\ ~SidebarModal /\ HeaderHandlers
       \/ SecondPasses \/ NetworkChanges \/ NetworkEvent
    /\ UNCHANGED <<page, chatVars, panelVars, stageVars, boardVars, micVars>>

\* The stage of the last visit comes back with the page.
NavigateKeepsStage(to) ==
    /\ ChangePage(to)
    /\ ChatsGoTo(to) /\ PanelGoTo(to) /\ UNCHANGED stageVars
    /\ BoardGoTo(to) /\ ProfileGoTo(to) /\ FrameGoTo(to)

\* The router: a link, the back bar, or the browser's own buttons.
Navigate(to) ==
    /\ ChangePage(to)
    /\ ChatsGoTo(to) /\ PanelGoTo(to) /\ StageGoTo(to)
    /\ BoardGoTo(to) /\ ProfileGoTo(to) /\ FrameGoTo(to)

ClientInit ==
    /\ page \in Pages
    /\ ChatInit /\ PanelInit /\ StageInit /\ BoardInit /\ ProfileInit /\ FrameInit

ClientNext ==
    \/ ChatTurn \/ PanelTurn \/ StageTurn \/ BoardTurn \/ ProfileTurn \/ FrameTurn
    \/ \E to \in Pages : Navigate(to)

ClientSpec == ClientInit /\ [][ClientNext]_clientVars

(***************************************************************************)
(* Properties.                                                             *)
(***************************************************************************)

\* Every component behaves in the client as its own specification says it
\* does alone: no other component, and no change of page, moves its state in
\* a way it does not know (the stores are the only state they share).
PartsImplemented ==
    ChatSpec /\ PanelSpec /\ StageSpec /\ BoardSpec /\ ProfileSpec /\ FrameSpec

\* The reactions of both chats add up: a count is what the others gave plus
\* the user's own, after whatever taking back and replacing.
ReactionsAddUp ==
    /\ \A p \in Participants : \A i \in DOMAIN chats[p].messages :
          AddsUp(chats[p].messages[i].reactions, 0)
    /\ \A i \in DOMAIN roomMessages :
          AddsUp(roomMessages[i].reactions, roomMessages[i].likes)

\* The side panel and the frame, which stand beside every other part.
PageCoherent == PanelCoherent /\ FrameCoherent

=============================================================================
