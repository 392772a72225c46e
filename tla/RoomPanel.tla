----------------------------- MODULE RoomPanel -----------------------------
(***************************************************************************)
(* The side panel of the live room page (room-side-panel.tsx): the room's  *)
(* chat, the list of people with connection requests and removals, and the *)
(* tab the ui store remembers.  All but the tab is the component's own     *)
(* state.  A removal concerns this list alone: no other part of the page   *)
(* hears of it.                                                            *)
(***************************************************************************)
EXTENDS MessageReactions, WaveCastPage, Sequences, FiniteSets

CONSTANTS People,          \* the people the list starts with, the user too
          Friends, Hosts,  \* subsets of People
          SeedLikes,       \* the likes of the messages the chat starts with
          MaxSaid,         \* bound: messages the user sends in one visit
          MaxMarked        \* bound: messages that carry a reaction of the user

ASSUME PanelAssumption ==
    /\ Self \in People
    /\ Friends \subseteq People /\ Hosts \subseteq People
    /\ SeedLikes \in Seq(Nat)
    /\ MaxSaid \in Nat /\ MaxMarked \in Nat

VARIABLES roomTab,        \* ui store: activeRoomTab
          roomPeople, requestedIds, roomMessages,
          roomCompose     \* chatText, emoji picker, replyingToMessage

panelVars == <<roomTab, roomPeople, requestedIds, roomMessages, roomCompose>>

Tabs == {"chat", "people", "activity"}

\* A message is known by its place; 0 is no message.
RoomMessages == [likes : Nat, quote : Nat, reactions : Reactions]

SeedRoomMessages ==
    [i \in DOMAIN SeedLikes |->
        [likes |-> SeedLikes[i], quote |-> 0, reactions |-> Liked(SeedLikes[i])]]

EmptyRoomCompose == [draft |-> "", picker |-> FALSE, reply |-> 0]

\* canModerateRoom: the user is the Host in the client's data.
CanModerate == TRUE

(***************************************************************************)
(* The chat.                                                               *)
(***************************************************************************)

InTab(t) == page = "room" /\ roomTab = t /\ UNCHANGED page

RoomComposing(c) ==
    /\ InTab("chat")
    /\ roomCompose' = c
    /\ UNCHANGED <<roomTab, roomPeople, requestedIds, roomMessages>>

TypeInRoom(d) == RoomComposing([roomCompose EXCEPT !.draft = d])

AddRoomEmoji ==
    /\ roomCompose.picker
    /\ RoomComposing([roomCompose EXCEPT !.draft = "text", !.picker = FALSE])

ToggleRoomPicker == RoomComposing([roomCompose EXCEPT !.picker = ~@])

\* handleReplyToMessage
ReplyInRoom(i) ==
    RoomComposing([roomCompose EXCEPT !.reply = IF @ = i THEN 0 ELSE i])

CancelRoomReply ==
    roomCompose.reply # 0 /\ RoomComposing([roomCompose EXCEPT !.reply = 0])

\* appendRoomMessage: a draft of spaces adds nothing and keeps the reply.
AppendRoomMessage ==
    IF roomCompose.draft = "text"
    THEN /\ Len(roomMessages) < Len(SeedLikes) + MaxSaid
         /\ roomMessages' = Append(roomMessages,
                [likes |-> 0, quote |-> roomCompose.reply, reactions |-> Liked(0)])
         /\ roomCompose' = EmptyRoomCompose
    ELSE /\ UNCHANGED roomMessages
         /\ roomCompose' = [roomCompose EXCEPT !.draft = "", !.picker = FALSE]

\* handleSendRoomChat
SendRoomChat ==
    /\ InTab("chat")
    /\ AppendRoomMessage
    /\ UNCHANGED <<roomTab, roomPeople, requestedIds>>

\* toggleRoomMessageReaction, toggleRoomEmojiReaction
ReactInRoom(i, r) ==
    /\ InTab("chat")
    /\ roomMessages' = [roomMessages EXCEPT ![i].reactions = React(@, r)]
    /\ Cardinality({i} \cup {j \in DOMAIN roomMessages : Reacted(roomMessages[j].reactions)})
          <= MaxMarked
    /\ UNCHANGED <<roomTab, roomPeople, requestedIds, roomCompose>>

(***************************************************************************)
(* The people.                                                             *)
(***************************************************************************)

IsFriend(p) == p \in Friends \cap roomPeople

\* The chat button of a friend's entry (the chats do the rest).
OffersChat(p) == InTab("people") /\ p \in roomPeople /\ IsFriend(p) /\ p # Self

\* requestFriend: the button of somebody who is no friend, until it was used.
RequestFriend(p) ==
    /\ InTab("people")
    /\ p \in roomPeople \ {Self} /\ ~IsFriend(p)
    /\ p \notin requestedIds
    /\ requestedIds' = requestedIds \cup {p}
    /\ UNCHANGED <<roomTab, roomPeople, roomMessages, roomCompose>>

\* The request to the person who is taken out stays.
KickKeepsRequest(p) ==
    /\ InTab("people")
    /\ p \in roomPeople \ {Self}
    /\ CanModerate /\ p \notin Hosts
    /\ roomPeople' = roomPeople \ {p}
    /\ UNCHANGED <<roomTab, requestedIds, roomMessages, roomCompose>>

\* handleKickPerson, once the user has confirmed.
KickPerson(p) ==
    /\ InTab("people")
    /\ p \in roomPeople \ {Self}
    /\ CanModerate /\ p \notin Hosts
    /\ roomPeople' = roomPeople \ {p}
    /\ requestedIds' = requestedIds \ {p}
    /\ UNCHANGED <<roomTab, roomMessages, roomCompose>>

(***************************************************************************)
(* The parts of the panel.                                                 *)
(***************************************************************************)

ChooseTab(t) ==
    /\ page = "room" /\ UNCHANGED page
    /\ roomTab # t /\ roomTab' = t
    /\ UNCHANGED <<roomPeople, requestedIds, roomMessages, roomCompose>>

RoomBubbles ==
    \E i \in DOMAIN roomMessages :
        \/ ReplyInRoom(i)
        \/ \E r \in QuickReactions : ReactInRoom(i, r)

RoomComposer ==
    \/ CancelRoomReply
    \/ \E d \in {"", "blank", "text"} : TypeInRoom(d)
    \/ AddRoomEmoji \/ ToggleRoomPicker \/ SendRoomChat

PeopleList == \E p \in People : RequestFriend(p) \/ KickPerson(p)

PanelGoTo(to) ==
    /\ roomPeople' = People
    /\ requestedIds' = {}
    /\ roomMessages' = SeedRoomMessages
    /\ roomCompose' = EmptyRoomCompose
    /\ UNCHANGED roomTab

PanelInit ==
    /\ roomTab = "chat"
    /\ roomPeople = People
    /\ requestedIds = {}
    /\ roomMessages = SeedRoomMessages
    /\ roomCompose = EmptyRoomCompose

PanelStep == RoomBubbles \/ RoomComposer \/ PeopleList \/ \E t \in Tabs : ChooseTab(t)

PanelNext == PanelStep \/ \E to \in Pages : ChangePage(to) /\ PanelGoTo(to)

PanelSpec == page \in Pages /\ PanelInit /\ [][PanelNext]_<<page, panelVars>>

(***************************************************************************)
(* Properties.                                                             *)
(***************************************************************************)

PanelTypeOK ==
    /\ roomTab \in Tabs
    /\ roomPeople \subseteq People
    /\ requestedIds \subseteq People
    /\ roomMessages \in Seq(RoomMessages)
    /\ roomCompose \in [draft : {"", "blank", "text"}, picker : BOOLEAN, reply : Nat]

\* Every request sent is to somebody still in the list, who is neither a
\* friend nor the user; the user and the hosts are never taken out; a reply
\* being written, and every quote, is of a message that came before
\* (handleKickPerson, requestFriend, appendRoomMessage).
PanelCoherent ==
    /\ PanelTypeOK
    /\ requestedIds \subseteq roomPeople \ (Friends \cup {Self})
    /\ {Self} \cup Hosts \subseteq roomPeople
    /\ roomCompose.reply \in 0 .. Len(roomMessages)
    /\ \A i \in DOMAIN roomMessages : roomMessages[i].quote \in 0 .. (i - 1)

============================================================================
