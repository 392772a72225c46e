--------------------------- MODULE PrivateChats ---------------------------
(***************************************************************************)
(* The private chats of the live room page (listener-panel.tsx): the       *)
(* drawer with its threads, messages and composer, the listeners' dialog,  *)
(* and the two fields of the ui store they share with the rest of the      *)
(* page, activeP2PFriendId and p2pUnreadCount.  One step is one handler    *)
(* with the effects React runs after it: React flushes the effects of a    *)
(* click or a key before it handles the next one.  A message is known by   *)
(* its place in its chat, for chats only grow.  The drawer and the dialog  *)
(* are modal: nothing outside them can be used while one is open.          *)
(***************************************************************************)
EXTENDS MessageReactions, WaveCastPage, Sequences, FiniteSets, FiniteSetsExt

CONSTANTS Participants,   \* the people of the room, the user apart
          Position,       \* each participant's place in the room's list
          Listeners,      \* the participants the listeners' dialog lists
          Matching,       \* the participants the searched term matches
          NoPerson,
          MaxMine,        \* bound: messages the user sends in one visit
          MaxReacted      \* bound: messages that carry a reaction of the user

ASSUME ChatAssumption ==
    /\ IsFiniteSet(Participants)
    /\ Position \in [Participants -> Nat]
    /\ Listeners \subseteq Participants
    /\ Matching \subseteq Participants
    /\ NoPerson \notin Participants
    /\ MaxMine \in Nat /\ MaxReacted \in Nat

VARIABLES activeFriend,   \* ui store: whose chat is open
          unreadBadge,    \* ui store: the number on the top bar's button
          chats,          \* each participant's messages and unread count
          compose,        \* draft, emoji picker, reply, typing indicator
          drawer,         \* open, search field, thread list
          listing,        \* the listeners' dialog
          urls            \* live object URLs of attachments

chatVars == <<activeFriend, unreadBadge, chats, compose, drawer, listing, urls>>

NoReply == [chat |-> NoPerson, message |-> 0]
Replies == [chat : Participants \cup {NoPerson}, message : Nat]
NoUrl   == 0

\* A draft is empty, only spaces, or has something to send.
Drafts == {"", "blank", "text"}

Messages == [mine : BOOLEAN, isUnread : BOOLEAN, quote : Replies,
             url : Nat, reactions : Reactions]

NewMessage(mine, isUnread, quote, url) ==
    [mine |-> mine, isUnread |-> isUnread, quote |-> quote, url |-> url,
     reactions |-> Liked(0)]

\* Two people in three have written to the user, one in three of all of
\* them a message that counts as unread.
SeedChat(p) ==
    [messages    |-> IF Position[p] % 3 = 2 THEN <<>>
                     ELSE <<NewMessage(FALSE, Position[p] % 3 = 0, NoReply, NoUrl)>>,
     unreadCount |-> IF Position[p] % 3 = 0 THEN 1 ELSE 0]

SeedChats == [p \in Participants |-> SeedChat(p)]

EmptyCompose == [draft |-> "", picker |-> FALSE, reply |-> NoReply, typing |-> FALSE]
ClosedDrawer == [open |-> FALSE, search |-> FALSE, threads |-> TRUE]
ClosedList   == [open |-> FALSE, selected |-> NoPerson]

\* totalUnreadCount
TotalUnread(c) == MapThenSumSet(LAMBDA p : c[p].unreadCount, Participants)

\* markConversationThreadAsRead: a thread with a message still marked unread
\* is left as it is.
MarkAsRead(c, p) ==
    IF \/ \E i \in DOMAIN c[p].messages : c[p].messages[i].isUnread
       \/ c[p].unreadCount = 0
    THEN c
    ELSE LET read == [i \in DOMAIN c[p].messages |-> [c[p].messages[i] EXCEPT !.isUnread = FALSE]]
         IN [c EXCEPT ![p] = [messages |-> read, unreadCount |-> 0]]

\* The effect that mirrors the total into the store.
ShowChats(c) == chats' = c /\ unreadBadge' = TotalUnread(c)

\* The URLs a bubble uses: for the image or the video, and for the download.
AttachmentPreview(m) == {m.url} \ {NoUrl}

\* Everything the component keeps starts anew.
FreshPanel ==
    /\ compose' = EmptyCompose
    /\ listing' = ClosedList
    /\ urls' = {}

(***************************************************************************)
(* Opening and closing.                                                    *)
(***************************************************************************)

OnRoomPage == page = "room" /\ UNCHANGED page

Idle == ~drawer.open /\ ~listing.open

\* Another part of the page (the people list, the top bar) sets the store's
\* friend; the panel's effect opens the drawer.
OpenChat(p) ==
    /\ OnRoomPage /\ Idle
    /\ activeFriend' = p
    /\ drawer' = [drawer EXCEPT !.open = TRUE, !.threads = TRUE]
    /\ ShowChats(MarkAsRead(chats, p))
    /\ UNCHANGED <<compose, listing, urls>>

\* The threads listed: everybody, or those that match what is searched.
Visible == IF drawer.search THEN Matching ELSE Participants

\* The reply is left for the next chat.
ChooseThreadKeepsReply(p) ==
    /\ OnRoomPage /\ drawer.open /\ drawer.threads /\ p \in Visible
    /\ activeFriend' = p
    /\ compose' = [EmptyCompose EXCEPT !.reply = compose.reply]
    /\ listing' = ClosedList
    /\ ShowChats(IF p = activeFriend THEN chats ELSE MarkAsRead(chats, p))
    /\ UNCHANGED <<drawer, urls>>

\* handleOpenChatWithPerson, and the friend's effect when it is another one.
ChooseThread(p) ==
    /\ OnRoomPage /\ drawer.open /\ drawer.threads /\ p \in Visible
    /\ activeFriend' = p
    /\ compose' = EmptyCompose
    /\ listing' = ClosedList
    /\ ShowChats(IF p = activeFriend THEN chats ELSE MarkAsRead(chats, p))
    /\ UNCHANGED <<drawer, urls>>

\* handleP2PDrawerOpenChange(false), and the friend's effect.
CloseDrawer ==
    /\ OnRoomPage /\ drawer.open
    /\ activeFriend' = NoPerson
    /\ drawer' = ClosedDrawer
    /\ compose' = EmptyCompose
    /\ UNCHANGED <<unreadBadge, chats, listing, urls>>

\* handleToggleConversationThread
ToggleThreads ==
    /\ OnRoomPage /\ drawer.open
    /\ drawer' = [drawer EXCEPT !.threads = ~@]
    /\ ShowChats(IF drawer.threads THEN chats ELSE MarkAsRead(chats, activeFriend))
    /\ UNCHANGED <<activeFriend, compose, listing, urls>>

Search ==
    /\ OnRoomPage /\ drawer.open
    /\ drawer' = [drawer EXCEPT !.search = ~@]
    /\ UNCHANGED <<activeFriend, unreadBadge, chats, compose, listing, urls>>

(***************************************************************************)
(* The open chat.                                                          *)
(***************************************************************************)

Chatting == OnRoomPage /\ drawer.open /\ activeFriend # NoPerson

\* A step that changes only the composer.
Composing(c) ==
    /\ Chatting
    /\ compose' = c
    /\ UNCHANGED <<activeFriend, unreadBadge, chats, drawer, listing, urls>>

\* The draft changes: the effect starts the typing indicator and its timer
\* when there is something to send, and stops both when there is not.
Draft(d, picker) ==
    Composing([compose EXCEPT !.draft = d, !.picker = picker, !.typing = d = "text"])

Type(d) == Draft(d, compose.picker)

AddEmoji == compose.picker /\ Draft("text", FALSE)

TogglePicker == Composing([compose EXCEPT !.picker = ~@])

\* Enter on a draft with nothing to send, or a file picker being opened.
ClosePicker == compose.picker /\ Composing([compose EXCEPT !.picker = FALSE])

\* The 900 ms timer of the typing indicator.
TypingTimeout == compose.typing /\ Composing([compose EXCEPT !.typing = FALSE])

\* handleP2PReplyMessage: choosing the same message again drops the reply.
Reply(i) ==
    LET r == [chat |-> activeFriend, message |-> i]
    IN Composing([compose EXCEPT !.reply = IF @ = r THEN NoReply ELSE r])

CancelReply == compose.reply # NoReply /\ Composing([compose EXCEPT !.reply = NoReply])

MyMessages ==
    MapThenSumSet(LAMBDA p : Cardinality({i \in DOMAIN chats[p].messages :
                                             chats[p].messages[i].mine}),
                  Participants)

\* The chat answered still counts as unread.
AppendKeepsCount(m) ==
    /\ MyMessages < MaxMine
    /\ ShowChats([chats EXCEPT ![activeFriend].messages = Append(@, m)])

\* A message of the user is appended to the open chat, which counts as read.
AppendMine(m) ==
    /\ MyMessages < MaxMine
    /\ ShowChats([chats EXCEPT ![activeFriend] =
                     [messages |-> Append(@.messages, m), unreadCount |-> 0]])

\* sendP2PMessage
Send ==
    /\ Chatting
    /\ compose.draft = "text"
    /\ AppendMine(NewMessage(TRUE, FALSE, compose.reply, NoUrl))
    /\ compose' = EmptyCompose
    /\ UNCHANGED <<activeFriend, drawer, listing, urls>>

FreshUrl == Cardinality(urls) + 1

\* appendP2PMessageWithAttachment, once a file has been chosen: the draft and
\* the reply stay.
Attach ==
    /\ Chatting
    /\ ~compose.picker
    /\ AppendMine(NewMessage(TRUE, FALSE, NoReply, FreshUrl))
    /\ urls' = urls \cup {FreshUrl}
    /\ UNCHANGED <<activeFriend, compose, drawer, listing>>

ReactedMessages ==
    {pi \in UNION {{p} \X DOMAIN chats[p].messages : p \in Participants} :
        Reacted(chats[pi[1]].messages[pi[2]].reactions)}

\* toggleP2PEmojiReaction
ReactInChat(i, r) ==
    /\ Chatting
    /\ ShowChats([chats EXCEPT ![activeFriend].messages[i].reactions = React(@, r)])
    /\ Cardinality(ReactedMessages \cup {<<activeFriend, i>>}) <= MaxReacted
    /\ UNCHANGED <<activeFriend, compose, drawer, listing, urls>>

(***************************************************************************)
(* The listeners' dialog.                                                  *)
(***************************************************************************)

Listing(l) ==
    /\ OnRoomPage
    /\ listing' = l
    /\ UNCHANGED <<activeFriend, unreadBadge, chats, compose, drawer, urls>>

OpenListeners == Idle /\ Listing([open |-> TRUE, selected |-> NoPerson])

CloseListeners == listing.open /\ Listing(ClosedList)

ShowListener(p) ==
    listing.open /\ listing.selected = NoPerson /\ Listing([listing EXCEPT !.selected = p])

BackToList ==
    listing.open /\ listing.selected # NoPerson /\ Listing([listing EXCEPT !.selected = NoPerson])

(***************************************************************************)
(* The parts of the panel and what each offers.                            *)
(***************************************************************************)

ListenersDialog ==
    \/ OpenListeners \/ CloseListeners \/ BackToList
    \/ \E p \in Listeners : ShowListener(p)

DrawerHeader == CloseDrawer \/ Search \/ ToggleThreads

ThreadList == \E p \in Participants : ChooseThread(p)

\* The buttons under a bubble, and the menu a right click opens on it.
ReactionTray(i) ==
    \E r \in Tray(chats[activeFriend].messages[i].reactions) : ReactInChat(i, r)

BubbleMenu(i) == Reply(i) \/ \E r \in QuickReactions : ReactInChat(i, r)

MessageBubbles ==
    /\ activeFriend # NoPerson
    /\ \E i \in DOMAIN chats[activeFriend].messages : ReactionTray(i) \/ BubbleMenu(i)

Composer ==
    \/ CancelReply
    \/ \E d \in Drafts : Type(d)
    \/ AddEmoji \/ TogglePicker \/ ClosePicker
    \/ Send \/ Attach

\* Mounting the panel seeds the chats and runs its effects with the friend
\* the store still has; unmounting revokes the URLs.
ChatsGoTo(to) ==
    /\ FreshPanel
    /\ UNCHANGED activeFriend
    /\ IF to = "room"
       THEN /\ drawer' = [ClosedDrawer EXCEPT !.open = activeFriend # NoPerson]
            /\ ShowChats(IF activeFriend = NoPerson THEN SeedChats
                         ELSE MarkAsRead(SeedChats, activeFriend))
       ELSE /\ drawer' = ClosedDrawer
            /\ chats' = SeedChats
            /\ UNCHANGED unreadBadge

ChatInit ==
    /\ activeFriend = NoPerson
    /\ chats = SeedChats
    /\ unreadBadge = IF page = "room" THEN TotalUnread(SeedChats) ELSE 0
    /\ compose = EmptyCompose
    /\ drawer = ClosedDrawer
    /\ listing = ClosedList
    /\ urls = {}

ChatStep ==
    \/ ListenersDialog \/ DrawerHeader \/ ThreadList
    \/ MessageBubbles \/ Composer \/ TypingTimeout
    \/ \E p \in Participants : OpenChat(p)

ChatNext == ChatStep \/ \E to \in Pages : ChangePage(to) /\ ChatsGoTo(to)

ChatSpec == page \in Pages /\ ChatInit /\ [][ChatNext]_<<page, chatVars>>

(***************************************************************************)
(* Properties.                                                             *)
(***************************************************************************)

\* The badge is left to BadgeCountsUnanswered, which says what it counts.
ChatTypeOK ==
    /\ page \in Pages
    /\ activeFriend \in Participants \cup {NoPerson}
    /\ chats \in [Participants -> [messages : Seq(Messages), unreadCount : Nat]]
    /\ compose \in [draft : Drafts, picker : BOOLEAN, reply : Replies, typing : BOOLEAN]
    /\ drawer \in [open : BOOLEAN, search : BOOLEAN, threads : BOOLEAN]
    /\ listing \in [open : BOOLEAN, selected : Listeners \cup {NoPerson}]
    /\ urls \subseteq Nat

\* On the room page the drawer is open exactly while the store names a friend,
\* whoever set it and whichever page was visited in between.
DrawerFollowsFriend == page = "room" => (drawer.open <=> activeFriend # NoPerson)

\* Nothing typed, replied to or searched for in one chat is left for the next
\* one: a closed drawer has an empty composer.
NothingLeftOver ==
    /\ ~drawer.open => compose = EmptyCompose /\ drawer = ClosedDrawer
    /\ compose.typing => compose.draft = "text"
    /\ compose.reply # NoReply =>
          /\ compose.reply.chat = activeFriend
          /\ compose.reply.message \in DOMAIN chats[activeFriend].messages

\* A quote names an earlier message of the chat it stands in, however the
\* user changed chats between choosing the message and sending the answer.
QuotesPointBack ==
    \A p \in Participants : \A i \in DOMAIN chats[p].messages :
        LET q == chats[p].messages[i].quote
        IN q # NoReply => q.chat = p /\ q.message \in 1 .. (i - 1)

\* The object URLs that are live are those of the attachments on screen: none
\* is revoked while a preview or a download link uses it, none is left when
\* the page has gone.
AttachmentsLive ==
    urls = UNION {UNION {AttachmentPreview(chats[p].messages[i]) :
                            i \in DOMAIN chats[p].messages} : p \in Participants}

\* The private chats are coherent: their types, the drawer that follows the
\* store's friend, the composer that belongs to the open chat, quotes and
\* attachments that are what they point to, and one modal part at a time (the
\* effects and handlers of listener-panel.tsx).
ChatCoherent ==
    /\ ChatTypeOK
    /\ DrawerFollowsFriend
    /\ NothingLeftOver
    /\ QuotesPointBack
    /\ AttachmentsLive
    /\ ~(drawer.open /\ listing.open)

\* The badge of the top bar counts the chats with an unread seed that the user
\* has not answered: reading one does not lower it (the guard of
\* markConversationThreadAsRead), a message or an attachment does.
BadgeCountsUnanswered ==
    page = "room" =>
        unreadBadge = Cardinality({p \in Participants :
            /\ Position[p] % 3 = 0
            /\ \A i \in DOMAIN chats[p].messages : ~chats[p].messages[i].mine})

===========================================================================
