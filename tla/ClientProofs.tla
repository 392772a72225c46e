---------------------------- MODULE ClientProofs ----------------------------
(***************************************************************************)
(* The proofs about the client's parts, for any people, rooms, messages    *)
(* and devices: each part alone, then the client as a whole.               *)
(***************************************************************************)
EXTENDS ClientPages, FiniteSetTheorems, SequenceTheorems, WellFoundedInduction, TLAPS

-----------------------------------------------------------------------------
(***************************************************************************)
(* The private chats stay coherent, for any participants and any numbers   *)
(* of messages.  ChatInv is inductive: it adds to ChatCoherent only that   *)
(* the live URLs are finitely many, so that a fresh one can be counted.    *)
(* The steps that do not add a message keep every message's quote and URL  *)
(* (SameMessages); the lemma SameKeeps says what follows from that.        *)
(***************************************************************************)

ChatsType == [Participants -> [messages : Seq(Messages), unreadCount : Nat]]

ChatInv == ChatCoherent /\ IsFiniteSet(urls)

ChatSubscript == <<page, chatVars>>

\* The chats c and d have the same messages, but for reactions and marks.
SameMessages(c, d) ==
    \A p \in Participants :
        /\ DOMAIN d[p].messages = DOMAIN c[p].messages
        /\ \A i \in DOMAIN c[p].messages :
              /\ d[p].messages[i].quote = c[p].messages[i].quote
              /\ d[p].messages[i].url = c[p].messages[i].url

-----------------------------------------------------------------------------
(* Messages and their reactions.                                           *)

LEMMA SeedReactions == Liked(0) \in Reactions
BY DEF Liked, Reactions, Tallies, NoTally

\* Taking back or replacing a reaction leaves counts that are not negative.
LEMMA TogglesTally ==
    ASSUME NEW R, NEW t \in Tallies(R), NEW r \in R
    PROVE  Toggle(t, r) \in Tallies(R)
<1>1. t.counts \in [R -> Nat] /\ DOMAIN t.counts = R
  BY DEF Tallies
<1>2. \A n \in Nat : OneLess(n) \in Nat
  BY DEF OneLess
<1>3. Toggle(t, r).counts \in [R -> Nat]
  BY <1>1, <1>2 DEF Toggle
<1>4. Toggle(t, r).own \in R \cup {NoReaction}
  BY DEF Toggle
<1> QED BY <1>3, <1>4 DEF Toggle, Tallies

LEMMA ReactsWell ==
    ASSUME NEW m \in Reactions, NEW r \in QuickReactions
    PROVE  React(m, r) \in Reactions
<1>1. m.thumbs \in Tallies(Thumbs) /\ m.emoji \in Tallies(Emojis)
  BY DEF Reactions
<1>2. CASE r \in Thumbs
  BY <1>1, <1>2, TogglesTally DEF React, Reactions
<1>3. CASE r \notin Thumbs
  BY <1>1, <1>3, TogglesTally DEF React, Reactions, QuickReactions
<1> QED BY <1>2, <1>3

LEMMA NewMessages ==
    ASSUME NEW mine \in BOOLEAN, NEW isUnread \in BOOLEAN, NEW q \in Replies, NEW url \in Nat
    PROVE  /\ NewMessage(mine, isUnread, q, url) \in Messages
           /\ NewMessage(mine, isUnread, q, url).quote = q
           /\ NewMessage(mine, isUnread, q, url).url = url
BY SeedReactions DEF NewMessage, Messages

LEMMA SeedsAreChats ==
    /\ SeedChats \in ChatsType
    /\ \A p \in Participants : \A i \in DOMAIN SeedChats[p].messages :
          /\ SeedChats[p].messages[i].quote = NoReply
          /\ SeedChats[p].messages[i].url = NoUrl
<1>1. NoReply \in Replies /\ NoUrl \in Nat
  BY DEF NoReply, Replies, NoUrl
<1> SUFFICES ASSUME NEW p \in Participants
             PROVE  /\ SeedChat(p) \in [messages : Seq(Messages), unreadCount : Nat]
                    /\ \A i \in DOMAIN SeedChat(p).messages :
                          /\ SeedChat(p).messages[i].quote = NoReply
                          /\ SeedChat(p).messages[i].url = NoUrl
  BY DEF SeedChats, ChatsType
<1> DEFINE unread == Position[p] % 3 = 0
           m == NewMessage(FALSE, unread, NoReply, NoUrl)
<1>2. m \in Messages /\ m.quote = NoReply /\ m.url = NoUrl
  BY <1>1, NewMessages
<1>3. SeedChat(p).messages \in {<<>>, <<m>>} /\ SeedChat(p).unreadCount \in {0, 1}
  BY DEF SeedChat
<1>4. SeedChat(p) = [messages |-> SeedChat(p).messages, unreadCount |-> SeedChat(p).unreadCount]
  BY DEF SeedChat
<1> HIDE DEF m
<1>5. SeedChat(p).messages \in Seq(Messages)
  <2>1. <<>> \in Seq(Messages)
    OBVIOUS
  <2>2. <<m>> \in Seq(Messages)
    BY <1>2
  <2> QED BY <1>3, <2>1, <2>2
<1> QED BY <1>2, <1>3, <1>4, <1>5

-----------------------------------------------------------------------------
(* The steps that keep the messages.                                       *)

LEMMA MarkingKeeps ==
    ASSUME NEW c \in ChatsType, NEW p \in Participants
    PROVE  MarkAsRead(c, p) \in ChatsType /\ SameMessages(c, MarkAsRead(c, p))
<1> DEFINE kept == \/ \E i \in DOMAIN c[p].messages : c[p].messages[i].isUnread
                   \/ c[p].unreadCount = 0
<1>1. CASE kept
  BY <1>1 DEF MarkAsRead, SameMessages
<1>2. CASE ~kept
  <2> DEFINE ms == [i \in DOMAIN c[p].messages |-> [c[p].messages[i] EXCEPT !.isUnread = FALSE]]
             d  == [c EXCEPT ![p] = [messages |-> ms, unreadCount |-> 0]]
  <2>1. c[p] \in [messages : Seq(Messages), unreadCount : Nat] /\ c[p].messages \in Seq(Messages)
    BY DEF ChatsType
  <2>2. MarkAsRead(c, p) = d
    BY <1>2 DEF MarkAsRead
  <2>3. \A i \in DOMAIN c[p].messages :
           ms[i] \in Messages /\ ms[i].quote = c[p].messages[i].quote
             /\ ms[i].url = c[p].messages[i].url
    <3> SUFFICES ASSUME NEW i \in DOMAIN c[p].messages
                 PROVE  ms[i] \in Messages /\ ms[i].quote = c[p].messages[i].quote
                          /\ ms[i].url = c[p].messages[i].url
      OBVIOUS
    <3>1. c[p].messages[i] \in Messages
      BY <2>1
    <3>2. ms[i] = [c[p].messages[i] EXCEPT !.isUnread = FALSE]
      OBVIOUS
    <3> QED BY <3>1, <3>2 DEF Messages
  <2>4. ms \in Seq(Messages) /\ DOMAIN ms = DOMAIN c[p].messages
    <3>1. DOMAIN c[p].messages = 1 .. Len(c[p].messages) /\ Len(c[p].messages) \in Nat
      BY <2>1
    <3>2. ms \in [1 .. Len(c[p].messages) -> Messages]
      BY <2>3, <3>1
    <3> QED BY <3>1, <3>2
  <2> HIDE DEF ms
  <2>5. d \in ChatsType /\ SameMessages(c, d)
    BY <2>3, <2>4 DEF ChatsType, SameMessages
  <2> QED BY <2>2, <2>5
<1> QED BY <1>1, <1>2

LEMMA ReactingKeeps ==
    ASSUME NEW c \in ChatsType, NEW p \in Participants, NEW i \in DOMAIN c[p].messages,
           NEW r \in QuickReactions
    PROVE  LET d == [c EXCEPT ![p].messages[i].reactions = React(@, r)]
           IN d \in ChatsType /\ SameMessages(c, d)
<1> DEFINE d  == [c EXCEPT ![p].messages[i].reactions = React(@, r)]
           m  == [c[p].messages[i] EXCEPT !.reactions = React(c[p].messages[i].reactions, r)]
           ms == [c[p].messages EXCEPT ![i] = m]
           e  == [c EXCEPT ![p] = [c[p] EXCEPT !.messages = ms]]
<1>1. c[p] \in [messages : Seq(Messages), unreadCount : Nat] /\ c[p].messages \in Seq(Messages)
  BY DEF ChatsType
<1>2. c[p].messages[i] \in Messages
  BY <1>1
<1>3. m \in Messages /\ m.quote = c[p].messages[i].quote /\ m.url = c[p].messages[i].url
  BY <1>2, ReactsWell DEF Messages
<1>4. d = e
  OBVIOUS
<1> HIDE DEF m, d
<1>5. ms \in Seq(Messages) /\ DOMAIN ms = DOMAIN c[p].messages
  BY <1>1, <1>3
<1>6. \A j \in DOMAIN c[p].messages : /\ ms[j].quote = c[p].messages[j].quote
                                      /\ ms[j].url = c[p].messages[j].url
  BY <1>1, <1>3
<1> HIDE DEF ms
<1>7. e \in ChatsType /\ SameMessages(c, e)
  BY <1>1, <1>5, <1>6 DEF ChatsType, SameMessages
<1> QED BY <1>4, <1>7 DEF d


\* What a step that keeps the messages keeps with them.
LEMMA SameKeeps ==
    ASSUME chats \in ChatsType, chats' \in ChatsType, SameMessages(chats, chats'),
           QuotesPointBack, AttachmentsLive, urls' = urls
    PROVE  QuotesPointBack' /\ AttachmentsLive'
<1>1. QuotesPointBack'
  BY DEF QuotesPointBack, SameMessages
<1>2. AttachmentsLive'
  <2>1. \A p \in Participants : DOMAIN chats'[p].messages = DOMAIN chats[p].messages
    BY DEF SameMessages
  <2>2. \A p \in Participants : \A i \in DOMAIN chats[p].messages :
           chats'[p].messages[i].url = chats[p].messages[i].url
    BY DEF SameMessages
  <2> QED BY <2>1, <2>2 DEF AttachmentsLive, AttachmentPreview
<1> QED BY <1>1, <1>2

\* The message m is appended to the chat with the person p.
AppendedTo(p, m) ==
    /\ chats' \in ChatsType
    /\ \A q \in Participants \ {p} : chats'[q] = chats[q]
    /\ chats'[p].messages = Append(chats[p].messages, m)

LEMMA Appending ==
    ASSUME chats \in ChatsType, NEW m \in Messages, activeFriend \in Participants, AppendMine(m)
    PROVE  AppendedTo(activeFriend, m)
<1> DEFINE p == activeFriend
           ms == Append(chats[p].messages, m)
<1>1. chats[p] \in [messages : Seq(Messages), unreadCount : Nat]
  BY DEF ChatsType
<1>2. chats' = [chats EXCEPT ![p] = [messages |-> ms, unreadCount |-> 0]]
  BY DEF AppendMine, ShowChats
<1>3. ms \in Seq(Messages)
  BY <1>1
<1> HIDE DEF ms
<1>4. chats' \in ChatsType
  BY <1>2, <1>3 DEF ChatsType
<1> QED BY <1>2, <1>4 DEF AppendedTo, ChatsType, ms

LEMMA AppendingKeepsQuotes ==
    ASSUME chats \in ChatsType, NEW p \in Participants, NEW m \in Messages, AppendedTo(p, m),
           QuotesPointBack,
           m.quote # NoReply => m.quote.chat = p /\ m.quote.message \in DOMAIN chats[p].messages
    PROVE  QuotesPointBack'
<1>1. chats[p].messages \in Seq(Messages)
  BY DEF ChatsType
<1>2. ASSUME NEW q \in Participants \ {p}, NEW i \in DOMAIN chats'[q].messages
      PROVE  chats'[q].messages[i].quote # NoReply =>
               /\ chats'[q].messages[i].quote.chat = q
               /\ chats'[q].messages[i].quote.message \in 1 .. (i - 1)
  BY <1>2 DEF AppendedTo, QuotesPointBack
<1>3. ASSUME NEW i \in DOMAIN chats'[p].messages
      PROVE  chats'[p].messages[i].quote # NoReply =>
               /\ chats'[p].messages[i].quote.chat = p
               /\ chats'[p].messages[i].quote.message \in 1 .. (i - 1)
  <2> DEFINE n == Len(chats[p].messages)
  <2>1. n \in Nat /\ DOMAIN chats[p].messages = 1 .. n /\ i \in 1 .. n + 1
    BY <1>1 DEF AppendedTo
  <2>2. CASE i = n + 1
    <3>1. chats'[p].messages[i] = m
      BY <1>1, <2>2 DEF AppendedTo
    <3>2. i - 1 = n
      BY <2>1, <2>2
    <3> QED BY <2>1, <3>1, <3>2
  <2>3. CASE i # n + 1
    <3>1. i \in DOMAIN chats[p].messages
      BY <2>1, <2>3
    <3>2. chats'[p].messages[i] = chats[p].messages[i]
      BY <1>1, <2>1, <3>1 DEF AppendedTo
    <3> QED BY <3>1, <3>2 DEF QuotesPointBack
  <2> QED BY <2>2, <2>3
<1> QED BY <1>2, <1>3 DEF QuotesPointBack

\* The URLs in use are those there were and the new message's.
LEMMA AppendingKeepsUrls ==
    ASSUME chats \in ChatsType, NEW p \in Participants, NEW m \in Messages, AppendedTo(p, m),
           AttachmentsLive, urls' = urls \cup ({m.url} \ {NoUrl})
    PROVE  AttachmentsLive'
<1> DEFINE InUse(ms) == UNION {AttachmentPreview(ms[i]) : i \in DOMAIN ms}
<1>1. chats[p].messages \in Seq(Messages)
  BY DEF ChatsType
<1>2. InUse(chats'[p].messages) = InUse(chats[p].messages) \cup ({m.url} \ {NoUrl})
  <2> DEFINE ms == chats[p].messages
  <2>1. /\ DOMAIN ms = 1 .. Len(ms) /\ Len(ms) \in Nat
        /\ DOMAIN Append(ms, m) = 1 .. Len(ms) + 1
        /\ \A i \in 1 .. Len(ms) : Append(ms, m)[i] = ms[i]
        /\ Append(ms, m)[Len(ms) + 1] = m
    BY <1>1
  <2>2. DOMAIN Append(ms, m) = DOMAIN ms \cup {Len(ms) + 1}
    BY <2>1
  <2>3. InUse(Append(ms, m)) = InUse(ms) \cup AttachmentPreview(m)
    BY <2>1, <2>2
  <2> QED BY <2>3 DEF AppendedTo, AttachmentPreview
<1>3. \A q \in Participants \ {p} : InUse(chats'[q].messages) = InUse(chats[q].messages)
  BY DEF AppendedTo
<1>4. urls = UNION {InUse(chats[q].messages) : q \in Participants}
  BY DEF AttachmentsLive
<1> HIDE DEF InUse
<1>5. urls' = UNION {InUse(chats'[q].messages) : q \in Participants}
  BY <1>2, <1>3, <1>4
<1> QED BY <1>5 DEF AttachmentsLive, InUse

-----------------------------------------------------------------------------
(* The inductive invariant.                                                *)

\* What ChatInv says of the composer, the drawer and the dialog.
PartsOK ==
    /\ page \in Pages
    /\ activeFriend \in Participants \cup {NoPerson}
    /\ compose \in [draft : Drafts, picker : BOOLEAN, reply : Replies, typing : BOOLEAN]
    /\ drawer \in [open : BOOLEAN, search : BOOLEAN, threads : BOOLEAN]
    /\ listing \in [open : BOOLEAN, selected : Listeners \cup {NoPerson}]
    /\ DrawerFollowsFriend
    /\ NothingLeftOver
    /\ ~(drawer.open /\ listing.open)

\* What it says of the chats and their attachments.
ChatsOK ==
    /\ chats \in ChatsType
    /\ urls \subseteq Nat /\ IsFiniteSet(urls)
    /\ QuotesPointBack /\ AttachmentsLive

LEMMA TwoHalves == /\ ChatInv <=> PartsOK /\ ChatsOK
                   /\ ChatInv' <=> PartsOK' /\ ChatsOK'
BY DEF ChatInv, ChatCoherent, ChatTypeOK, PartsOK, ChatsOK, ChatsType

LEMMA EmptyParts ==
    /\ NoReply \in Replies
    /\ EmptyCompose \in [draft : Drafts, picker : BOOLEAN, reply : Replies, typing : BOOLEAN]
    /\ EmptyCompose.typing = FALSE /\ EmptyCompose.reply = NoReply
    /\ ClosedDrawer \in [open : BOOLEAN, search : BOOLEAN, threads : BOOLEAN]
    /\ ClosedDrawer.open = FALSE
    /\ ClosedList \in [open : BOOLEAN, selected : Listeners \cup {NoPerson}]
    /\ ClosedList.open = FALSE
BY DEF EmptyCompose, ClosedDrawer, ClosedList, NoReply, Replies, Drafts

LEMMA SeededChatsOK ==
    /\ chats = SeedChats /\ urls = {} => ChatsOK
    /\ chats' \in ChatsType /\ SameMessages(SeedChats, chats') /\ urls' = {} => ChatsOK'
<1>1. ASSUME chats = SeedChats, urls = {} PROVE ChatsOK
  <2>1. QuotesPointBack
    BY <1>1, SeedsAreChats DEF QuotesPointBack
  <2>2. AttachmentsLive
    BY <1>1, SeedsAreChats DEF AttachmentsLive, AttachmentPreview
  <2> QED BY <1>1, <2>1, <2>2, SeedsAreChats, FS_EmptySet DEF ChatsOK
<1>2. ASSUME chats' \in ChatsType, SameMessages(SeedChats, chats'), urls' = {} PROVE ChatsOK'
  <2>1. \A p \in Participants : \A i \in DOMAIN chats'[p].messages :
           chats'[p].messages[i].quote = NoReply /\ chats'[p].messages[i].url = NoUrl
    BY <1>2, SeedsAreChats DEF SameMessages
  <2>2. QuotesPointBack'
    BY <2>1 DEF QuotesPointBack
  <2>3. AttachmentsLive'
    BY <1>2, <2>1 DEF AttachmentsLive, AttachmentPreview
  <2> QED BY <1>2, <2>2, <2>3, FS_EmptySet DEF ChatsOK
<1> QED BY <1>1, <1>2

LEMMA ChatStarts == page \in Pages /\ ChatInit => ChatInv
<1> SUFFICES ASSUME page \in Pages, ChatInit PROVE PartsOK /\ ChatsOK
  BY TwoHalves
<1>1. PartsOK
  BY EmptyParts DEF ChatInit, PartsOK, DrawerFollowsFriend, NothingLeftOver
<1>2. ChatsOK
  BY SeededChatsOK DEF ChatInit
<1> QED BY <1>1, <1>2

\* A step that keeps the messages and the URLs.
LEMMA ChatsStay ==
    ASSUME ChatsOK, chats' \in ChatsType, SameMessages(chats, chats'), urls' = urls
    PROVE  ChatsOK'
BY SameKeeps DEF ChatsOK

LEMMA UnmovedChats == chats \in ChatsType => SameMessages(chats, chats)
BY DEF SameMessages

-----------------------------------------------------------------------------
(* Opening and closing.                                                    *)

LEMMA OpeningKeepsInv ==
    ASSUME ChatInv, NEW p \in Participants, OpenChat(p) \/ ChooseThread(p)
    PROVE  ChatInv'
<1>1. PartsOK /\ ChatsOK
  BY TwoHalves
<1>2. chats' \in ChatsType /\ SameMessages(chats, chats') /\ urls' = urls
  <2>1. chats' \in {chats, MarkAsRead(chats, p)} /\ urls' = urls
    BY DEF OpenChat, ChooseThread, ShowChats
  <2> QED BY <1>1, <2>1, MarkingKeeps, UnmovedChats DEF ChatsOK
<1>3. ChatsOK'
  BY <1>1, <1>2, ChatsStay
<1>4. PartsOK'
  <2>1. CASE OpenChat(p)
    BY <1>1, <2>1, ChatAssumption, EmptyParts
       DEF OpenChat, OnRoomPage, Idle, PartsOK, DrawerFollowsFriend, NothingLeftOver
  <2>2. CASE ChooseThread(p)
    BY <1>1, <2>2, ChatAssumption, EmptyParts
       DEF ChooseThread, OnRoomPage, PartsOK, DrawerFollowsFriend, NothingLeftOver
  <2> QED BY <2>1, <2>2
<1> QED BY <1>3, <1>4, TwoHalves

LEMMA HeaderKeepsInv == ChatInv /\ DrawerHeader => ChatInv'
<1> SUFFICES ASSUME ChatInv, DrawerHeader PROVE ChatInv'
  OBVIOUS
<1>1. PartsOK /\ ChatsOK
  BY TwoHalves
<1>2. CASE CloseDrawer
  <2>1. ChatsOK'
    BY <1>1, <1>2, ChatsStay, UnmovedChats DEF CloseDrawer, ChatsOK
  <2>2. PartsOK'
    BY <1>1, <1>2, EmptyParts
       DEF CloseDrawer, OnRoomPage, PartsOK, DrawerFollowsFriend, NothingLeftOver
  <2> QED BY <2>1, <2>2, TwoHalves
<1>3. CASE ToggleThreads
  <2>1. activeFriend \in Participants
    BY <1>1, <1>3 DEF ToggleThreads, OnRoomPage, PartsOK, DrawerFollowsFriend
  <2>2. chats' \in ChatsType /\ SameMessages(chats, chats') /\ urls' = urls
    <3>1. chats' \in {chats, MarkAsRead(chats, activeFriend)} /\ urls' = urls
      BY <1>3 DEF ToggleThreads, ShowChats
    <3> QED BY <1>1, <2>1, <3>1, MarkingKeeps, UnmovedChats DEF ChatsOK
  <2>3. ChatsOK'
    BY <1>1, <2>2, ChatsStay
  <2>4. PartsOK'
    <3>1. drawer' = [drawer EXCEPT !.threads = ~@] /\ drawer.open
          /\ UNCHANGED <<page, activeFriend, compose, listing>>
      BY <1>3 DEF ToggleThreads, OnRoomPage
    <3>2. drawer'.open /\ drawer' \in [open : BOOLEAN, search : BOOLEAN, threads : BOOLEAN]
      BY <1>1, <3>1 DEF PartsOK
    <3>3. DOMAIN chats'[activeFriend].messages = DOMAIN chats[activeFriend].messages
      BY <2>1, <2>2 DEF SameMessages
    <3> QED BY <1>1, <3>1, <3>2, <3>3 DEF PartsOK, DrawerFollowsFriend, NothingLeftOver
  <2> QED BY <2>3, <2>4, TwoHalves
<1>4. CASE Search
  <2>1. ChatsOK'
    BY <1>1, <1>4, ChatsStay, UnmovedChats DEF Search, ChatsOK
  <2>2. PartsOK'
    <3>1. drawer' = [drawer EXCEPT !.search = ~@] /\ drawer.open
          /\ UNCHANGED <<page, activeFriend, compose, chats, listing>>
      BY <1>4 DEF Search, OnRoomPage
    <3>2. drawer'.open /\ drawer' \in [open : BOOLEAN, search : BOOLEAN, threads : BOOLEAN]
      BY <1>1, <3>1 DEF PartsOK
    <3> QED BY <1>1, <3>1, <3>2 DEF PartsOK, DrawerFollowsFriend, NothingLeftOver
  <2> QED BY <2>1, <2>2, TwoHalves
<1> QED BY <1>2, <1>3, <1>4 DEF DrawerHeader

-----------------------------------------------------------------------------
(* The open chat.                                                          *)

\* A step that changes only the composer, to one that belongs to the chat.
LEMMA ComposingKeepsInv ==
    ASSUME ChatInv, NEW c, Composing(c),
           c \in [draft : Drafts, picker : BOOLEAN, reply : Replies, typing : BOOLEAN],
           c.typing => c.draft = "text",
           c.reply # NoReply => /\ c.reply.chat = activeFriend
                                /\ c.reply.message \in DOMAIN chats[activeFriend].messages
    PROVE  ChatInv'
<1>1. PartsOK /\ ChatsOK
  BY TwoHalves
<1>2. /\ UNCHANGED <<page, activeFriend, unreadBadge, chats, drawer, listing, urls>>
      /\ compose' = c /\ drawer.open
  BY DEF Composing, Chatting, OnRoomPage
<1>3. ChatsOK'
  BY <1>1, <1>2, ChatsStay, UnmovedChats DEF ChatsOK
<1>4. PartsOK'
  BY <1>1, <1>2 DEF PartsOK, DrawerFollowsFriend, NothingLeftOver
<1> QED BY <1>3, <1>4, TwoHalves

LEMMA ComposerOK ==
    ChatInv => /\ compose \in [draft : Drafts, picker : BOOLEAN, reply : Replies, typing : BOOLEAN]
               /\ compose.typing => compose.draft = "text"
               /\ compose.reply # NoReply =>
                     /\ compose.reply.chat = activeFriend
                     /\ compose.reply.message \in DOMAIN chats[activeFriend].messages
BY DEF ChatInv, ChatCoherent, ChatTypeOK, NothingLeftOver

LEMMA DraftKeepsInv ==
    ASSUME ChatInv, NEW d \in Drafts, NEW picker \in BOOLEAN, Draft(d, picker)
    PROVE  ChatInv'
<1> DEFINE c == [compose EXCEPT !.draft = d, !.picker = picker, !.typing = d = "text"]
<1>1. Composing(c)
  BY DEF Draft
<1>2. (d = "text") \in BOOLEAN
  OBVIOUS
<1>3. /\ c \in [draft : Drafts, picker : BOOLEAN, reply : Replies, typing : BOOLEAN]
      /\ c.reply = compose.reply /\ c.draft = d /\ c.typing = (d = "text")
  BY <1>2, ComposerOK
<1> HIDE DEF c
<1>4. c.typing => c.draft = "text"
  BY <1>3
<1> QED BY <1>1, <1>3, <1>4, ComposerOK, ComposingKeepsInv

LEMMA TypingKeepsInv ==
    ChatInv /\ (TypingTimeout \/ CancelReply \/ AddEmoji \/ TogglePicker \/ ClosePicker
                  \/ \E d \in Drafts : Type(d)) => ChatInv'
<1>1. ASSUME ChatInv, TypingTimeout PROVE ChatInv'
  <2> DEFINE c == [compose EXCEPT !.typing = FALSE]
  <2>1. /\ c \in [draft : Drafts, picker : BOOLEAN, reply : Replies, typing : BOOLEAN]
        /\ c.typing = FALSE /\ c.reply = compose.reply /\ Composing(c)
    BY <1>1, ComposerOK DEF TypingTimeout
  <2> HIDE DEF c
  <2> QED BY <1>1, <2>1, ComposerOK, ComposingKeepsInv
<1>2. ASSUME ChatInv, CancelReply PROVE ChatInv'
  <2> DEFINE c == [compose EXCEPT !.reply = NoReply]
  <2>1. /\ c \in [draft : Drafts, picker : BOOLEAN, reply : Replies, typing : BOOLEAN]
        /\ c.typing = compose.typing /\ c.draft = compose.draft /\ c.reply = NoReply
        /\ Composing(c)
    BY <1>2, ComposerOK, EmptyParts DEF CancelReply
  <2> HIDE DEF c
  <2> QED BY <1>2, <2>1, ComposerOK, ComposingKeepsInv
<1>3. ASSUME ChatInv, NEW b \in BOOLEAN, Composing([compose EXCEPT !.picker = b]) PROVE ChatInv'
  <2> DEFINE c == [compose EXCEPT !.picker = b]
  <2>1. /\ c \in [draft : Drafts, picker : BOOLEAN, reply : Replies, typing : BOOLEAN]
        /\ c.typing = compose.typing /\ c.draft = compose.draft /\ c.reply = compose.reply
        /\ Composing(c)
    BY <1>3, ComposerOK
  <2> HIDE DEF c
  <2> QED BY <1>3, <2>1, ComposerOK, ComposingKeepsInv
<1>4. ChatInv /\ (TogglePicker \/ ClosePicker) => ChatInv'
  BY <1>3, ComposerOK DEF TogglePicker, ClosePicker
<1>5. ChatInv /\ (AddEmoji \/ \E d \in Drafts : Type(d)) => ChatInv'
  <2>1. ChatInv => compose.picker \in BOOLEAN
    BY ComposerOK
  <2>2. "text" \in Drafts
    BY DEF Drafts
  <2> QED BY <2>1, <2>2, DraftKeepsInv DEF AddEmoji, Type
<1> QED BY <1>1, <1>2, <1>4, <1>5

\* handleP2PReplyMessage answers a message of the open chat.
LEMMA ReplyingKeepsInv ==
    ASSUME ChatInv, NEW i \in DOMAIN chats[activeFriend].messages, Reply(i)
    PROVE  ChatInv'
<1> DEFINE r == [chat |-> activeFriend, message |-> i]
           c == [compose EXCEPT !.reply = IF @ = r THEN NoReply ELSE r]
<1>1. activeFriend \in Participants
  BY DEF Reply, Composing, Chatting, ChatInv, ChatCoherent, ChatTypeOK
<1>2. chats[activeFriend].messages \in Seq(Messages)
  BY <1>1 DEF ChatInv, ChatCoherent, ChatTypeOK
<1>3. i \in Nat
  BY <1>2
<1>4. r \in Replies /\ r.chat = activeFriend /\ r.message = i
  BY <1>1, <1>3 DEF Replies
<1> HIDE DEF r
<1>5. /\ c \in [draft : Drafts, picker : BOOLEAN, reply : Replies, typing : BOOLEAN]
      /\ c.typing = compose.typing /\ c.draft = compose.draft /\ c.reply \in {NoReply, r}
  BY <1>4, ComposerOK, EmptyParts
<1>6. Composing(c)
  BY DEF Reply, r
<1> HIDE DEF c
<1> QED BY <1>4, <1>5, <1>6, ComposerOK, ComposingKeepsInv

LEMMA ReactionKeepsInv ==
    ASSUME ChatInv, NEW i \in DOMAIN chats[activeFriend].messages, NEW r \in QuickReactions,
           ReactInChat(i, r)
    PROVE  ChatInv'
<1>1. PartsOK /\ ChatsOK
  BY TwoHalves
<1>2. activeFriend \in Participants /\ drawer.open
  BY <1>1 DEF PartsOK, ReactInChat, Chatting
<1>3. /\ chats' = [chats EXCEPT ![activeFriend].messages[i].reactions = React(@, r)]
      /\ UNCHANGED <<page, activeFriend, compose, drawer, listing, urls>>
  BY DEF ReactInChat, ShowChats, Chatting, OnRoomPage
<1>4. chats' \in ChatsType /\ SameMessages(chats, chats')
  BY <1>1, <1>2, <1>3, ReactingKeeps DEF ChatsOK
<1>5. ChatsOK'
  BY <1>1, <1>3, <1>4, ChatsStay
<1>6. DOMAIN chats'[activeFriend].messages = DOMAIN chats[activeFriend].messages
  BY <1>2, <1>4 DEF SameMessages
<1>7. PartsOK'
  BY <1>1, <1>2, <1>3, <1>6 DEF PartsOK, DrawerFollowsFriend, NothingLeftOver
<1> QED BY <1>5, <1>7, TwoHalves

LEMMA BubblesKeepInv == ChatInv /\ MessageBubbles => ChatInv'
<1> SUFFICES ASSUME ChatInv, MessageBubbles PROVE ChatInv'
  OBVIOUS
<1>1. PICK i \in DOMAIN chats[activeFriend].messages : ReactionTray(i) \/ BubbleMenu(i)
  BY DEF MessageBubbles
<1>2. Reply(i) \/ \E r \in QuickReactions : ReactInChat(i, r)
  BY <1>1 DEF ReactionTray, BubbleMenu, Tray, QuickReactions
<1> QED BY <1>2, ReplyingKeepsInv, ReactionKeepsInv

LEMMA SendingKeepsInv == ChatInv /\ (Send \/ Attach) => ChatInv'
<1>1. ASSUME ChatInv, Send PROVE ChatInv'
  <2> DEFINE m == NewMessage(TRUE, FALSE, compose.reply, NoUrl)
  <2>1. PartsOK /\ ChatsOK /\ activeFriend \in Participants
    BY <1>1, TwoHalves DEF Send, Chatting, PartsOK
  <2>2. /\ AppendMine(m) /\ compose' = EmptyCompose /\ drawer.open
        /\ UNCHANGED <<page, activeFriend, drawer, listing, urls>>
    BY <1>1 DEF Send, Chatting, OnRoomPage
  <2>3. m \in Messages /\ m.quote = compose.reply /\ m.url = NoUrl
    <3>1. compose.reply \in Replies /\ NoUrl \in Nat
      BY <2>1 DEF PartsOK, NoUrl
    <3> QED BY <3>1, SeedReactions DEF NewMessage, Messages
  <2> HIDE DEF m
  <2>4. AppendedTo(activeFriend, m)
    BY <2>1, <2>2, <2>3, Appending DEF ChatsOK
  <2>5. QuotesPointBack'
    BY <1>1, <2>1, <2>3, <2>4, ComposerOK, AppendingKeepsQuotes DEF ChatsOK
  <2>6. urls' = urls \cup ({m.url} \ {NoUrl})
    BY <2>2, <2>3
  <2>7. AttachmentsLive'
    BY <2>1, <2>3, <2>4, <2>6, AppendingKeepsUrls DEF ChatsOK
  <2>8. ChatsOK'
    BY <2>1, <2>2, <2>4, <2>5, <2>7 DEF ChatsOK, AppendedTo
  <2>9. PartsOK'
    BY <2>1, <2>2, EmptyParts DEF PartsOK, DrawerFollowsFriend, NothingLeftOver
  <2> QED BY <2>8, <2>9, TwoHalves
<1>2. ASSUME ChatInv, Attach PROVE ChatInv'
  <2> DEFINE m == NewMessage(TRUE, FALSE, NoReply, FreshUrl)
  <2>1. PartsOK /\ ChatsOK /\ activeFriend \in Participants
    BY <1>2, TwoHalves DEF Attach, Chatting, PartsOK
  <2>2. /\ AppendMine(m) /\ urls' = urls \cup {FreshUrl}
        /\ UNCHANGED <<page, activeFriend, compose, drawer, listing>> /\ drawer.open
    BY <1>2 DEF Attach, Chatting, OnRoomPage
  <2>3. FreshUrl \in Nat /\ FreshUrl # NoUrl
    BY <2>1, FS_CardinalityType DEF ChatsOK, FreshUrl, NoUrl
  <2>4. m \in Messages /\ m.quote = NoReply /\ m.url = FreshUrl
    <3>1. NoReply \in Replies
      BY EmptyParts
    <3> QED BY <2>3, <3>1, SeedReactions DEF NewMessage, Messages
  <2> HIDE DEF m
  <2>5. AppendedTo(activeFriend, m)
    BY <2>1, <2>2, <2>4, Appending DEF ChatsOK
  <2>6. QuotesPointBack'
    BY <2>1, <2>4, <2>5, AppendingKeepsQuotes DEF ChatsOK
  <2>7. urls' = urls \cup ({m.url} \ {NoUrl})
    BY <2>2, <2>3, <2>4
  <2>8. AttachmentsLive'
    BY <2>1, <2>4, <2>5, <2>7, AppendingKeepsUrls DEF ChatsOK
  <2>9. urls' \subseteq Nat /\ IsFiniteSet(urls')
    BY <2>1, <2>2, <2>3, FS_AddElement DEF ChatsOK
  <2>10. ChatsOK'
    BY <2>5, <2>6, <2>8, <2>9 DEF ChatsOK, AppendedTo
  <2>11. \A i \in DOMAIN chats[activeFriend].messages : i \in DOMAIN chats'[activeFriend].messages
    <3>1. chats[activeFriend].messages \in Seq(Messages)
      BY <2>1 DEF ChatsOK, ChatsType
    <3> QED BY <2>5, <3>1 DEF AppendedTo
  <2>12. PartsOK'
    BY <2>1, <2>2, <2>11 DEF PartsOK, DrawerFollowsFriend, NothingLeftOver
  <2> QED BY <2>10, <2>12, TwoHalves
<1> QED BY <1>1, <1>2

-----------------------------------------------------------------------------
(* The dialog, the page, and the theorem.                                  *)

LEMMA DialogKeepsInv == ChatInv /\ ListenersDialog => ChatInv'
<1> SUFFICES ASSUME ChatInv, ListenersDialog PROVE ChatInv'
  OBVIOUS
<1>1. PartsOK /\ ChatsOK
  BY TwoHalves
<1>2. /\ UNCHANGED <<page, activeFriend, chats, compose, drawer, urls>>
      /\ listing' \in [open : BOOLEAN, selected : Listeners \cup {NoPerson}]
      /\ listing'.open => ~drawer.open
  <2> DEFINE Dialogs == [open : BOOLEAN, selected : Listeners \cup {NoPerson}]
  <2>1. listing \in Dialogs /\ ClosedList \in Dialogs /\ ClosedList.open = FALSE
        /\ ~(drawer.open /\ listing.open)
    BY <1>1, EmptyParts DEF PartsOK
  <2>2. CASE OpenListeners
    BY <2>2 DEF OpenListeners, Listing, OnRoomPage, Idle
  <2>3. CASE CloseListeners
    BY <2>1, <2>3 DEF CloseListeners, Listing, OnRoomPage
  <2>4. CASE BackToList
    BY <2>1, <2>4 DEF BackToList, Listing, OnRoomPage
  <2>5. CASE \E p \in Listeners : ShowListener(p)
    BY <2>1, <2>5 DEF ShowListener, Listing, OnRoomPage
  <2> QED BY <2>2, <2>3, <2>4, <2>5 DEF ListenersDialog
<1>3. ChatsOK'
  BY <1>1, <1>2, ChatsStay, UnmovedChats DEF ChatsOK
<1>4. PartsOK'
  BY <1>1, <1>2 DEF PartsOK, DrawerFollowsFriend, NothingLeftOver
<1> QED BY <1>3, <1>4, TwoHalves

LEMMA LeavingKeepsChats ==
    \A to \in Pages : ChatInv /\ ChangePage(to) /\ ChatsGoTo(to) => ChatInv'
<1> SUFFICES ASSUME NEW to \in Pages, ChatInv, ChangePage(to), ChatsGoTo(to) PROVE ChatInv'
  OBVIOUS
<1>1. PartsOK /\ ChatsOK
  BY TwoHalves
<1>2. /\ page' = to /\ activeFriend' = activeFriend /\ compose' = EmptyCompose
      /\ listing' = ClosedList /\ urls' = {}
  BY DEF ChangePage, ChatsGoTo, FreshPanel
<1>3. chats' \in ChatsType /\ SameMessages(SeedChats, chats')
  <2>1. \/ chats' = SeedChats
        \/ activeFriend \in Participants /\ chats' = MarkAsRead(SeedChats, activeFriend)
    BY <1>1 DEF ChatsGoTo, ShowChats, PartsOK
  <2> QED BY <2>1, SeedsAreChats, MarkingKeeps DEF SameMessages
<1>4. ChatsOK'
  BY <1>2, <1>3, SeededChatsOK
<1>5. PartsOK'
  <2>1. CASE to = "room"
    <3>1. drawer' = [ClosedDrawer EXCEPT !.open = activeFriend # NoPerson]
      BY <2>1 DEF ChatsGoTo
    <3>2. /\ drawer' \in [open : BOOLEAN, search : BOOLEAN, threads : BOOLEAN]
          /\ drawer'.open <=> activeFriend # NoPerson
          /\ ~drawer'.open => drawer' = ClosedDrawer
      BY <3>1 DEF ClosedDrawer
    <3> QED BY <1>1, <1>2, <3>2, EmptyParts DEF PartsOK, DrawerFollowsFriend, NothingLeftOver
  <2>2. CASE to # "room"
    <3>1. drawer' = ClosedDrawer
      BY <2>2 DEF ChatsGoTo
    <3> QED BY <1>1, <1>2, <2>2, <3>1, EmptyParts
            DEF PartsOK, DrawerFollowsFriend, NothingLeftOver
  <2> QED BY <2>1, <2>2
<1> QED BY <1>4, <1>5, TwoHalves

LEMMA ChatInductive == ChatInv /\ [ChatNext]_ChatSubscript => ChatInv'
<1> SUFFICES ASSUME ChatInv, [ChatNext]_ChatSubscript PROVE ChatInv'
  OBVIOUS
<1>1. CASE ChatStep
  BY <1>1, OpeningKeepsInv, HeaderKeepsInv, TypingKeepsInv, BubblesKeepInv, SendingKeepsInv,
     DialogKeepsInv DEF ChatStep, ThreadList, Composer
<1>2. CASE \E to \in Pages : ChangePage(to) /\ ChatsGoTo(to)
  BY <1>2, LeavingKeepsChats
<1>3. CASE UNCHANGED ChatSubscript
  BY <1>3 DEF ChatSubscript, chatVars, ChatInv, ChatCoherent, ChatTypeOK, DrawerFollowsFriend,
              NothingLeftOver, QuotesPointBack, AttachmentsLive
<1> QED BY <1>1, <1>2, <1>3 DEF ChatNext

\* The private chats are coherent in every state: the drawer follows the
\* store's friend, nothing is left over for the next chat, quotes point back
\* and attachments in use are live.
THEOREM ChatsStayCoherent == ChatSpec => []ChatCoherent
<1>1. ChatInv => ChatCoherent
  BY DEF ChatInv
<1>2. ChatSpec => []ChatInv
  BY ChatStarts, ChatInductive, PTL DEF ChatSpec, ChatSubscript
<1> QED BY <1>1, <1>2, PTL

-----------------------------------------------------------------------------
(***************************************************************************)
(* The stage stays coherent, a request ends on stage, an announcement ends *)
(* with its timer, for any speakers, listeners and requests.  StageInv is  *)
(* inductive: types, nobody on stage twice, and the agreement of the flag, *)
(* the requests seen and the timer with the store.  The cards follow from  *)
(* it state by state.                                                      *)
(***************************************************************************)

StageInv == StageTypeOK /\ OnStageOnce /\ HandsAgree

StageSubscript == <<page, stageVars>>

-----------------------------------------------------------------------------

LEMMA StageStarts == page \in Pages /\ StageInit => StageInv
<1> SUFFICES ASSUME page \in Pages, StageInit PROVE StageInv
  OBVIOUS
<1>1. requestPending \in BOOLEAN /\ (requestPending <=> Self \in speakerRequests)
  <2>1. requestPending = (Self \in SeedRequests) /\ speakerRequests = SeedRequests
    BY DEF StageInit
  <2>2. CASE Self \in SeedRequests
    <3>1. requestPending = TRUE
      BY <2>1, <2>2
    <3> QED BY <2>1, <2>2, <3>1
  <2>3. CASE Self \notin SeedRequests
    <3>1. (Self \in SeedRequests) = FALSE
      BY <2>3
    <3>2. requestPending = FALSE
      BY <2>1, <3>1
    <3> QED BY <2>1, <2>3, <3>2
  <2> QED BY <2>2, <2>3
<1>2. onStage \in Seq(Everyone) /\ OnStageOnce
  BY StageAssumption DEF StageInit, OnStageOnce
<1>3. StageTypeOK
  BY <1>1, <1>2 DEF StageInit, StageTypeOK, Everyone
<1>4. HandsAgree
  BY <1>1 DEF StageInit, HandsAgree, RaisedHands
<1> QED BY <1>2, <1>3, <1>4 DEF StageInv

\* The effect of stage-panel.tsx on the requests keeps timer and announcement
\* together.
LEMMA EffectKeepsHands ==
    ASSUME StageInv, NEW rs \in SUBSET Everyone, RequestsBecome(rs)
    PROVE  /\ speakerRequests' = rs /\ seenRequests' = rs
           /\ pulse' \in Everyone \cup {NoOne} /\ pulseTimer' \in Everyone \cup {NoOne}
           /\ pulseTimer' # NoOne => pulse' = pulseTimer'
BY DEF RequestsBecome, StageInv, StageTypeOK

LEMMA ToggleKeepsInv == StageInv /\ ToggleRequest => StageInv'
<1> SUFFICES ASSUME StageInv, ToggleRequest PROVE StageInv'
  OBVIOUS
<1> DEFINE rs == IF Self \in speakerRequests THEN speakerRequests \ {Self}
                 ELSE speakerRequests \cup {Self}
<1>1. rs \in SUBSET Everyone
  BY DEF StageInv, StageTypeOK, Everyone
<1>2. RequestsBecome(rs) /\ requestPending' = (Self \notin speakerRequests)
  BY DEF ToggleRequest
<1>3. /\ speakerRequests' = rs /\ seenRequests' = rs
      /\ pulse' \in Everyone \cup {NoOne} /\ pulseTimer' \in Everyone \cup {NoOne}
      /\ pulseTimer' # NoOne => pulse' = pulseTimer'
  BY <1>1, <1>2, EffectKeepsHands
<1>4. UNCHANGED <<page, micEnabled, onStage, inviteMenu>>
  BY DEF ToggleRequest, InRoom
<1>5. StageTypeOK' /\ OnStageOnce'
  BY <1>1, <1>2, <1>3, <1>4 DEF StageInv, StageTypeOK, OnStageOnce
<1>6. HandsAgree'
  BY <1>2, <1>3 DEF HandsAgree, RaisedHands
<1> QED BY <1>5, <1>6 DEF StageInv

\* Whoever comes on stage stands there once.
LEMMA ComingKeepsOnce ==
    ASSUME NEW p \in Everyone, StageTypeOK, OnStageOnce, ComesOnStage(p)
    PROVE  /\ onStage' \in Seq(Everyone) /\ OnStageOnce'
           /\ OnStage' = OnStage \cup {p}
<1>1. onStage \in Seq(Everyone) /\ p \notin OnStage /\ onStage' = Append(onStage, p)
  BY DEF StageTypeOK, ComesOnStage
<1>2. /\ onStage' \in Seq(Everyone)
      /\ DOMAIN onStage' = 1 .. Len(onStage) + 1
      /\ DOMAIN onStage = 1 .. Len(onStage) /\ Len(onStage) \in Nat
      /\ \A i \in DOMAIN onStage : onStage'[i] = onStage[i]
      /\ onStage'[Len(onStage) + 1] = p
  BY <1>1
<1>3. OnStageOnce'
  BY <1>1, <1>2 DEF OnStageOnce, OnStage
<1>4. OnStage' = OnStage \cup {p}
  BY <1>2 DEF OnStage
<1> QED BY <1>2, <1>3, <1>4

LEMMA ApproveKeepsInv == \A p \in Everyone : StageInv /\ ApproveRequest(p) => StageInv'
<1> SUFFICES ASSUME StageInv, NEW p \in Everyone, ApproveRequest(p) PROVE StageInv'
  OBVIOUS
<1> DEFINE rs == speakerRequests \ {p}
<1>1. rs \in SUBSET Everyone /\ RequestsBecome(rs)
  BY DEF StageInv, StageTypeOK, ApproveRequest
<1>2. /\ speakerRequests' = rs /\ seenRequests' = rs
      /\ pulse' \in Everyone \cup {NoOne} /\ pulseTimer' \in Everyone \cup {NoOne}
      /\ pulseTimer' # NoOne => pulse' = pulseTimer'
  BY <1>1, EffectKeepsHands
<1>3. onStage' \in Seq(Everyone) /\ OnStageOnce'
  BY ComingKeepsOnce DEF StageInv, ApproveRequest
<1>4. /\ UNCHANGED <<page, micEnabled>> /\ inviteMenu' = FALSE
      /\ requestPending' = (requestPending /\ p # Self)
  BY DEF ApproveRequest, ComesOnStage, InRoom
<1>5. StageTypeOK'
  <2>1. requestPending' \in BOOLEAN
    BY <1>4
  <2> QED BY <1>1, <1>2, <1>3, <1>4, <2>1 DEF StageInv, StageTypeOK
<1>6. requestPending' <=> Self \in speakerRequests'
  BY <1>2, <1>4 DEF StageInv, HandsAgree
<1>7. HandsAgree'
  BY <1>2, <1>6 DEF HandsAgree, RaisedHands
<1> QED BY <1>3, <1>5, <1>7 DEF StageInv

LEMMA InviteKeepsInv == \A p \in Everyone : StageInv /\ InviteListener(p) => StageInv'
<1> SUFFICES ASSUME StageInv, NEW p \in Everyone, InviteListener(p) PROVE StageInv'
  OBVIOUS
<1>1. onStage' \in Seq(Everyone) /\ OnStageOnce'
  BY ComingKeepsOnce DEF StageInv, InviteListener
<1>2. /\ UNCHANGED <<page, micEnabled, requestPending, speakerRequests, pulse, pulseTimer,
                     seenRequests>>
      /\ inviteMenu' = FALSE
  BY DEF InviteListener, ComesOnStage, InRoom
<1> QED BY <1>1, <1>2 DEF StageInv, StageTypeOK, HandsAgree, RaisedHands

LEMMA OthersKeepInv ==
    StageInv /\ (ToggleMic \/ PulseTimeout \/ InviteMenu \/ UNCHANGED StageSubscript) => StageInv'
<1> SUFFICES ASSUME StageInv, ToggleMic \/ PulseTimeout \/ InviteMenu \/ UNCHANGED StageSubscript
             PROVE  StageInv'
  OBVIOUS
<1> USE DEF StageInv, StageTypeOK, OnStageOnce, HandsAgree, RaisedHands
<1>1. CASE ToggleMic
  BY <1>1 DEF ToggleMic, InRoom
<1>2. CASE PulseTimeout
  BY <1>2 DEF PulseTimeout, InRoom, storeVars
<1>3. CASE InviteMenu
  BY <1>3 DEF InviteMenu, InRoom, storeVars
<1>4. CASE UNCHANGED StageSubscript
  BY <1>4 DEF StageSubscript, stageVars
<1> QED BY <1>1, <1>2, <1>3, <1>4

LEMMA GoToKeepsInv ==
    \A to \in Pages : StageInv /\ ChangePage(to) /\ StageGoTo(to) => StageInv'
<1> SUFFICES ASSUME StageInv, NEW to \in Pages, ChangePage(to), StageGoTo(to) PROVE StageInv'
  OBVIOUS
<1>1. /\ UNCHANGED storeVars /\ page' = to /\ onStage' = RoomSpeakers
      /\ inviteMenu' = FALSE /\ pulse' = NoOne /\ pulseTimer' = NoOne
      /\ seenRequests' = IF to = "room" THEN speakerRequests ELSE {}
  BY DEF ChangePage, StageGoTo
<1>2. StageTypeOK' /\ OnStageOnce'
  BY <1>1, StageAssumption DEF StageInv, StageTypeOK, OnStageOnce, storeVars
<1>3. HandsAgree'
  BY <1>1 DEF StageInv, HandsAgree, RaisedHands, storeVars
<1> QED BY <1>2, <1>3 DEF StageInv

LEMMA StageInductive == StageInv /\ [StageNext]_StageSubscript => StageInv'
BY ToggleKeepsInv, ApproveKeepsInv, InviteKeepsInv, OthersKeepInv, GoToKeepsInv
   DEF StageNext, StageStep, HandButton, MicButton, InviteButton

LEMMA StageInvariant == StageSpec => []StageInv
BY StageStarts, StageInductive, PTL DEF StageSpec, StageSubscript

-----------------------------------------------------------------------------
(* The cards.                                                              *)

\* A card in the large place goes to somebody who talks (stage-panel.tsx, the
\* four layouts).
LEMMA LargeTalks == /\ Cards.large \subseteq OnStage
                    /\ Cards.row = OnStage \ Cards.large
                    /\ \A p \in Cards.large : Talks(p)
<1>1. CASE SelfSpeaks
  BY <1>1 DEF Cards, SelfSpeaks, Talks, ActiveSpeakers
<1>2. CASE ~SelfSpeaks /\ Cardinality(ActiveSpeakers) = 1
  <2>1. ActiveSpeakers # {}
    BY <1>2, FS_EmptySet
  <2>2. Focused \in ActiveSpeakers
    BY <2>1 DEF Focused
  <2>3. Focused \in OnStage /\ Focused # Self
    BY <1>2, <2>2, StageAssumption DEF ActiveSpeakers
  <2>4. Talks(Focused)
    BY <2>2, <2>3 DEF Talks
  <2>5. Cards = [large |-> {Focused}, row |-> OnStage \ {Focused}]
    BY <1>2 DEF Cards
  <2> QED BY <2>3, <2>4, <2>5
<1>3. CASE ~SelfSpeaks /\ Cardinality(ActiveSpeakers) # 1
  BY <1>3 DEF Cards
<1> QED BY <1>1, <1>2, <1>3

LEMMA CardsForEveryone == EveryoneHasACard
<1>1. ActiveSpeakers = {p \in OnStage : Talks(p)}
  BY StageAssumption DEF ActiveSpeakers, Talks, SelfSpeaks
<1>2. StageHeader.speaking = Cardinality(ActiveSpeakers)
  BY DEF StageHeader
<1>3. Talks(Self) => micEnabled
  BY DEF Talks
<1> QED BY <1>1, <1>2, <1>3, LargeTalks DEF EveryoneHasACard

\* The stage is coherent in every state, for any people.
THEOREM StageStaysCoherent == StageSpec => []StageCoherent
<1>1. StageInv => StageCoherent
  BY CardsForEveryone DEF StageInv, StageCoherent
<1> QED BY <1>1, StageInvariant, PTL

-----------------------------------------------------------------------------

\* A request leaves the store only with the step that brings its person on
\* stage, or by the user's own hand.
THEOREM RequestsEnd == StageSpec => RequestsEndOnStage
<1> DEFINE Ends == \A p \in speakerRequests \ speakerRequests' :
                      \/ p \notin OnStage /\ p \in OnStage'
                      \/ p = Self /\ onStage' = onStage
<1>1. StageInv /\ [StageNext]_StageSubscript => [Ends]_stageVars
  <2> SUFFICES ASSUME StageInv, [StageNext]_StageSubscript PROVE Ends
    OBVIOUS
  <2>1. CASE ToggleRequest
    BY <2>1 DEF ToggleRequest, RequestsBecome
  <2>2. CASE \E p \in Everyone : ApproveRequest(p)
    <3> PICK p \in Everyone : ApproveRequest(p)
      BY <2>2
    <3>1. speakerRequests \ speakerRequests' \subseteq {p}
      BY DEF ApproveRequest, RequestsBecome
    <3>2. p \notin OnStage /\ p \in OnStage'
      BY ComingKeepsOnce DEF ApproveRequest, ComesOnStage, StageInv
    <3> QED BY <3>1, <3>2
  <2>3. CASE \/ MicButton \/ PulseTimeout \/ InviteMenu
             \/ \E p \in Everyone : InviteListener(p)
             \/ \E to \in Pages : ChangePage(to) /\ StageGoTo(to)
             \/ UNCHANGED StageSubscript
    <3>1. speakerRequests' = speakerRequests
      BY <2>3 DEF MicButton, ToggleMic, PulseTimeout, InviteMenu, InviteListener, StageGoTo,
                  StageSubscript, stageVars, storeVars
    <3> QED BY <3>1
  <2> QED BY <2>1, <2>2, <2>3 DEF StageNext, StageStep, HandButton, InviteButton
<1> QED BY <1>1, StageInvariant, PTL DEF StageSpec, StageSubscript, RequestsEndOnStage

\* An announced hand goes with its timer, a newer hand or the page, and only a
\* change of the requests takes the timer from it.
THEOREM AnnouncementsEnd == StageSpec => AnnouncedUntilTimeout
<1> DEFINE Until == pulse # NoOne =>
                      /\ pulse' = NoOne => pulseTimer = pulse \/ page' # page
                      /\ pulse' = pulse /\ pulseTimer' # pulseTimer =>
                            speakerRequests' # speakerRequests
<1>1. StageInv /\ [StageNext]_StageSubscript => [Until]_stageVars
  <2> SUFFICES ASSUME StageInv, [StageNext]_StageSubscript PROVE Until
    OBVIOUS
  <2>1. ASSUME NEW rs \in SUBSET Everyone, RequestsBecome(rs), rs # speakerRequests
        PROVE  Until
    BY <2>1, StageAssumption DEF RequestsBecome
  <2>2. CASE ToggleRequest
    BY <2>1, <2>2 DEF ToggleRequest, StageInv, StageTypeOK, Everyone
  <2>3. CASE \E p \in Everyone : ApproveRequest(p)
    BY <2>1, <2>3 DEF ApproveRequest, RequestQueue, StageInv, StageTypeOK
  <2>4. CASE PulseTimeout
    BY <2>4 DEF PulseTimeout, StageInv, HandsAgree
  <2>5. CASE \E to \in Pages : ChangePage(to) /\ StageGoTo(to)
    BY <2>5 DEF ChangePage, StageGoTo
  <2>6. CASE \/ MicButton \/ InviteMenu \/ UNCHANGED StageSubscript
             \/ \E p \in Everyone : InviteListener(p)
    BY <2>6 DEF MicButton, ToggleMic, InviteMenu, InviteListener, StageSubscript, stageVars
  <2> QED BY <2>2, <2>3, <2>4, <2>5, <2>6 DEF StageNext, StageStep, HandButton, InviteButton
<1> QED BY <1>1, StageInvariant, PTL DEF StageSpec, StageSubscript, AnnouncedUntilTimeout

-----------------------------------------------------------------------------
(***************************************************************************)
(* The microphone test keeps its stream in hand, for any number of tests   *)
(* and microphones, in every order of the browser's answers.  MicInv adds  *)
(* to TestingHasStream what the refs mean while calls are under way: a     *)
(* call of this visit is under way only on the page; a call that has not   *)
(* resumed its context is not the one the ref names, and once its stream   *)
(* has come that stream is held.                                           *)
(***************************************************************************)

CallsInHand ==
    \A t \in Tests :
        /\ tests[t].here => page = "profile"
        /\ tests[t].awaits \in {"stream", "context"} => t # micStream
        /\ tests[t].awaits = "context" => t \in held

MicInv == TestingHasStream /\ CallsInHand

MicSubscript == <<page, micVars>>

-----------------------------------------------------------------------------

LEMMA MicStarts == page \in Pages /\ ProfileInit => MicInv
<1> SUFFICES ASSUME ProfileInit PROVE MicInv
  OBVIOUS
<1>1. ProfileTypeOK
  BY DEF ProfileInit, ProfileTypeOK, NoCall
<1>2. PhotoLive
  BY DEF ProfileInit, PhotoLive
<1>3. CallsInHand
  BY DEF ProfileInit, CallsInHand, NoCall
<1> QED BY <1>1, <1>2, <1>3 DEF ProfileInit, MicInv, TestingHasStream

\* A list that names its devices leaves a microphone chosen (refreshDevices).
LEMMA ReadingChooses ==
    ASSUME plugged \subseteq Mics, selectedMic \in Mics \cup {NoMic}, DevicesRead
    PROVE  /\ devices' \subseteq Mics \cup {Unnamed} /\ selectedMic' \in Mics \cup {NoMic}
           /\ devices' \cap Mics # {} => selectedMic' # NoMic
<1>1. PICK list \in Listings :
         /\ devices' = list
         /\ selectedMic' = IF selectedMic # NoMic THEN selectedMic ELSE FirstId(list)
  BY DEF DevicesRead, Listings
<1>2. CASE list = {Unnamed}
  BY <1>1, <1>2, MicAssumption DEF FirstId
<1>3. CASE list = plugged \/ list = {}
  BY <1>1, <1>3, MicAssumption DEF FirstId
<1> QED BY <1>2, <1>3 DEF Listings

LEMMA DevicesKeepInv ==
    /\ \A ok \in BOOLEAN : MicInv /\ MountRefresh(ok) => MicInv'
    /\ \A m \in Mics : MicInv /\ (ChooseMic(m) \/ Plug(m)) => MicInv'
<1> USE DEF MicInv, TestingHasStream, CallsInHand, ProfileTypeOK, PhotoLive, testVars, photoVars
<1>1. ASSUME NEW ok \in BOOLEAN, MicInv, MountRefresh(ok) PROVE MicInv'
  <2>1. /\ devices' \subseteq Mics \cup {Unnamed} /\ selectedMic' \in Mics \cup {NoMic}
        /\ devices' \cap Mics # {} => selectedMic' # NoMic
    <3>1. CASE ok
      BY <1>1, <3>1, ReadingChooses DEF MountRefresh
    <3>2. CASE ~ok
      BY <1>1, <3>2 DEF MountRefresh
    <3> QED BY <3>1, <3>2
  <2> QED BY <1>1, <2>1 DEF MountRefresh, OnProfile
<1>2. ASSUME NEW m \in Mics, MicInv, ChooseMic(m) PROVE MicInv'
  BY <1>2, MicAssumption DEF ChooseMic, OnProfile
<1>3. ASSUME NEW m \in Mics, MicInv, Plug(m) PROVE MicInv'
  BY <1>3 DEF Plug
<1> QED BY <1>1, <1>2, <1>3

LEMMA PressingKeepsInv ==
    MicInv /\ (PressStop \/ \E t \in Tests : PressTest(t)) => MicInv'
<1> USE DEF MicInv, TestingHasStream, CallsInHand, ProfileTypeOK, PhotoLive, deviceVars, photoVars
<1>1. ASSUME MicInv, PressStop PROVE MicInv'
  BY <1>1, MicAssumption DEF PressStop, StopTest, OnProfile
<1>2. ASSUME MicInv, NEW t \in Tests, PressTest(t) PROVE MicInv'
  <2>1. t # micStream
    BY <1>2 DEF PressTest, Free
  <2> QED BY <1>2, <2>1 DEF PressTest, OnProfile
<1> QED BY <1>1, <1>2

LEMMA AnswersKeepInv ==
    ASSUME MicInv, NEW t \in Tests,
           StreamComes(t) \/ ContextResumes(t) \/ LoopStarts(t) \/ Refused(t) \/ Frame(t)
    PROVE  MicInv'
<1> USE DEF MicInv, TestingHasStream, CallsInHand, ProfileTypeOK, PhotoLive, photoVars
<1>1. CASE StreamComes(t)
  BY <1>1 DEF StreamComes, deviceVars
<1>2. CASE ContextResumes(t)
  <2>1. t \in held /\ UNCHANGED <<page, held, loops, lastFrame, deviceVars, photoVars>>
    BY <1>2 DEF ContextResumes
  <2>2. tests' = [tests EXCEPT ![t].awaits = "devices"]
    BY <1>2 DEF ContextResumes
  <2>3. CASE tests[t].here
    <3>1. micStream' = t /\ isMicTesting' = TRUE /\ permission' = "ready" /\ page = "profile"
      BY <1>2, <2>3 DEF ContextResumes
    <3>2. CallsInHand'
      BY <2>1, <2>2, <3>1
    <3> QED BY <2>1, <2>2, <3>1, <3>2, MicAssumption DEF deviceVars
  <2>4. CASE ~tests[t].here
    <3>1. UNCHANGED <<micStream, isMicTesting, permission>>
      BY <1>2, <2>4 DEF ContextResumes
    <3> QED BY <2>1, <2>2, <3>1 DEF deviceVars
  <2> QED BY <2>3, <2>4
<1>3. CASE LoopStarts(t)
  <2>1. /\ devices' \subseteq Mics \cup {Unnamed} /\ selectedMic' \in Mics \cup {NoMic}
        /\ devices' \cap Mics # {} => selectedMic' # NoMic
    BY <1>3, ReadingChooses DEF LoopStarts
  <2> QED BY <1>3, <2>1 DEF LoopStarts, NoCall
<1>4. CASE Refused(t)
  BY <1>4 DEF Refused, Fails, NoCall, deviceVars
<1>5. CASE Frame(t)
  BY <1>5 DEF Frame, OnProfile, deviceVars
<1> QED BY <1>1, <1>2, <1>3, <1>4, <1>5

LEMMA PhotosKeepInv == MicInv /\ (ChangePhoto \/ RemovePhoto) => MicInv'
<1> SUFFICES ASSUME MicInv, ChangePhoto \/ RemovePhoto PROVE MicInv'
  OBVIOUS
<1>1. UNCHANGED <<page, testVars, deviceVars>>
  BY DEF ChangePhoto, RemovePhoto, OnProfile
<1>2. photoUrls \subseteq {photo}
  BY DEF MicInv, TestingHasStream, PhotoLive
<1>3. PhotoLive'
  <2>1. CASE ChangePhoto
    <3>1. PICK url \in {2, 3} : photo' = url /\ photoUrls' = (photoUrls \ {photo}) \cup {url}
      BY <2>1 DEF ChangePhoto
    <3>2. photoUrls' = {url} /\ url \notin {0, Own}
      BY <1>2, <3>1 DEF Own
    <3> QED BY <3>1, <3>2 DEF PhotoLive
  <2>2. CASE RemovePhoto
    BY <1>2, <2>2 DEF RemovePhoto, PhotoLive
  <2> QED BY <2>1, <2>2
<1> QED BY <1>1, <1>3 DEF MicInv, TestingHasStream, CallsInHand, ProfileTypeOK, testVars, deviceVars

LEMMA LeavingKeepsInv ==
    \A to \in Pages : MicInv /\ ChangePage(to) /\ ProfileGoTo(to) => MicInv'
<1> SUFFICES ASSUME NEW to \in Pages, MicInv, ChangePage(to), ProfileGoTo(to) PROVE MicInv'
  OBVIOUS
<1>1. /\ held' = held \ {micStream} /\ loops' = {}
      /\ lastFrame' = NoTest /\ micStream' = NoTest /\ isMicTesting' = FALSE
      /\ permission' = "idle" /\ devices' = {} /\ selectedMic' = NoMic /\ plugged' = plugged
  BY DEF ProfileGoTo, StopTest
<1>2. tests' = [t \in Tests |-> [tests[t] EXCEPT !.here = FALSE]]
  BY DEF ProfileGoTo
<1>3. ProfileTypeOK'
  BY <1>1, <1>2 DEF MicInv, TestingHasStream, ProfileTypeOK
<1>4. PhotoLive'
  BY DEF ProfileGoTo, MicInv, TestingHasStream, PhotoLive, Own
<1>5. CallsInHand'
  BY <1>1, <1>2, MicAssumption DEF MicInv, TestingHasStream, ProfileTypeOK, CallsInHand
<1> QED BY <1>1, <1>3, <1>4, <1>5 DEF MicInv, TestingHasStream

LEMMA MicInductive == MicInv /\ [ProfileNext]_MicSubscript => MicInv'
<1> SUFFICES ASSUME MicInv, [ProfileNext]_MicSubscript PROVE MicInv'
  OBVIOUS
<1>1. CASE UNCHANGED MicSubscript
  BY <1>1 DEF MicSubscript, micVars, testVars, deviceVars, photoVars, MicInv, TestingHasStream,
              CallsInHand, ProfileTypeOK, PhotoLive
<1>2. CASE ProfileStep
  BY <1>2, DevicesKeepInv, PressingKeepsInv, AnswersKeepInv, PhotosKeepInv
     DEF ProfileStep, DevicesPanel, PhotoPanel
<1>3. CASE \E to \in Pages : ChangePage(to) /\ ProfileGoTo(to)
  BY <1>3, LeavingKeepsInv
<1> QED BY <1>1, <1>2, <1>3 DEF ProfileNext

LEMMA MicInvariant == ProfileSpec => []MicInv
BY MicStarts, MicInductive, PTL DEF ProfileSpec, MicSubscript

\* While the button says that a test runs there is a stream for it to stop.
THEOREM TestsHaveStreams == ProfileSpec => []TestingHasStream
<1>1. MicInv => TestingHasStream
  BY DEF MicInv
<1> QED BY <1>1, MicInvariant, PTL

-----------------------------------------------------------------------------

\* Only an overlap of tests, a page left before the context resumes, or a
\* context that is refused makes a stream nobody will stop.
THEOREM StraysComeOfOverlaps == ProfileSpec => StrayOnlyByOverlap
<1> DEFINE Overlap(t) ==
             \/ micStream = t /\ micStream' \in Tests \ {t}
             \/ tests[t].awaits \in {"stream", "context"} /\ ~tests[t].here
             \/ tests[t].awaits = "context" /\ (page' # page \/ tests'[t].awaits = "nothing")
<1>1. MicInv /\ [ProfileNext]_MicSubscript => [\A t \in Stray' \ Stray : Overlap(t)]_micVars
  <2> SUFFICES ASSUME MicInv, [ProfileNext]_MicSubscript, NEW t \in Stray' \ Stray
               PROVE  Overlap(t)
    OBVIOUS
  <2> USE DEF Stray
  <2>1. held \subseteq Tests /\ tests \in [Tests -> [awaits : {"nothing", "stream", "context", "devices"},
                                        here : BOOLEAN, mic : Mics \cup {NoMic}]]
    BY DEF MicInv, TestingHasStream, ProfileTypeOK
  <2>2. CASE PressStop
    BY <2>1, <2>2 DEF PressStop, StopTest
  <2>3. CASE \E u \in Tests : PressTest(u)
    BY <2>1, <2>3 DEF PressTest, Free
  <2>4. CASE \E u \in Tests : StreamComes(u)
    BY <2>1, <2>4 DEF StreamComes
  <2>5. CASE \E u \in Tests : ContextResumes(u)
    BY <2>1, <2>5 DEF ContextResumes
  <2>6. CASE \E u \in Tests : LoopStarts(u)
    BY <2>1, <2>6 DEF LoopStarts, NoCall
  <2>7. CASE \E u \in Tests : Refused(u)
    BY <2>1, <2>7 DEF Refused, Fails, NoCall
  <2>8. CASE \E to \in Pages : ChangePage(to) /\ ProfileGoTo(to)
    BY <2>1, <2>8 DEF ChangePage, ProfileGoTo, StopTest
  <2>9. CASE \/ \E ok \in BOOLEAN : MountRefresh(ok)
             \/ \E m \in Mics : ChooseMic(m) \/ Plug(m)
             \/ \E u \in Tests : Frame(u)
             \/ ChangePhoto \/ RemovePhoto
             \/ UNCHANGED MicSubscript
    BY <2>9 DEF MountRefresh, ChooseMic, Plug, Frame, ChangePhoto, RemovePhoto, MicSubscript,
                micVars, testVars
  <2> QED BY <2>2, <2>3, <2>4, <2>5, <2>6, <2>7, <2>8, <2>9
          DEF ProfileNext, ProfileStep, DevicesPanel, PhotoPanel
<1> QED BY <1>1, MicInvariant, PTL DEF ProfileSpec, MicSubscript, StrayOnlyByOverlap

-----------------------------------------------------------------------------
(***************************************************************************)
(* The side panel and the reactions of both chats.  A reaction is taken    *)
(* back or replaced without touching what the others reacted (Others), so  *)
(* the counts add up after any number of toggles; PanelInv is inductive.   *)
(***************************************************************************)

\* A message that was just seeded or sent has the likes it was given.
LEMMA LikedAddsUp ==
    ASSUME NEW n \in Nat
    PROVE  Liked(n) \in Reactions /\ AddsUp(Liked(n), n)
<1>1. /\ Liked(n).thumbs = [counts |-> [r \in Thumbs |-> IF r = "like" THEN n ELSE 0],
                            own    |-> NoReaction]
      /\ Liked(n).emoji = [counts |-> [r \in Emojis |-> 0], own |-> NoReaction]
  BY DEF Liked, NoTally
<1>2. \A r \in Thumbs \cup Emojis : r # NoReaction
  BY ReactionAssumption
<1>3. Others(Liked(n).thumbs) = [r \in Thumbs |-> IF r = "like" THEN n ELSE 0]
  BY <1>1, <1>2 DEF Others
<1>4. Others(Liked(n).emoji) = [e \in Emojis |-> 0]
  BY <1>1, <1>2 DEF Others
<1>5. Liked(n) \in Reactions
  BY DEF Liked, Reactions, Tallies, NoTally
<1> QED BY <1>3, <1>4, <1>5 DEF AddsUp

\* Toggling a reaction changes nothing of what the others reacted.
LEMMA TogglingKeepsOthers ==
    ASSUME NEW R, NoReaction \notin R, NEW t \in Tallies(R), NEW r \in R,
           Others(t) \in [R -> Nat]
    PROVE  Others(Toggle(t, r)) = Others(t)
<1> DEFINE u == Toggle(t, r)
<1>1. t.counts \in [R -> Nat] /\ t.own \in R \cup {NoReaction} /\ DOMAIN t.counts = R
  BY DEF Tallies
<1>2. /\ u.counts = [x \in R |-> IF x = t.own THEN OneLess(t.counts[x])
                                 ELSE IF x = r THEN t.counts[x] + 1 ELSE t.counts[x]]
      /\ u.own = IF t.own = r THEN NoReaction ELSE r
  BY <1>1 DEF Toggle
<1>3. DOMAIN u.counts = R
  BY <1>2
<1> HIDE DEF u
<1>4. ASSUME NEW x \in R
      PROVE  u.counts[x] - (IF x = u.own THEN 1 ELSE 0)
                = t.counts[x] - (IF x = t.own THEN 1 ELSE 0)
  <2>1. t.counts[x] \in Nat
    BY <1>1
  <2>2. CASE x = t.own
    <3>1. Others(t)[x] = t.counts[x] - 1 /\ Others(t)[x] \in Nat
      BY <1>1, <2>2 DEF Others
    <3>2. u.counts[x] = t.counts[x] - 1
      BY <1>2, <2>1, <2>2, <3>1 DEF OneLess
    <3>3. x # u.own
      BY <1>2, <2>2
    <3> QED BY <2>1, <2>2, <3>2, <3>3
  <2>3. CASE x # t.own /\ x = r
    BY <1>2, <2>1, <2>3
  <2>4. CASE x # t.own /\ x # r
    BY <1>2, <2>1, <2>4
  <2> QED BY <2>2, <2>3, <2>4
<1> QED BY <1>1, <1>3, <1>4 DEF Others, u

LEMMA ReactingAddsUp ==
    ASSUME NEW m \in Reactions, NEW n \in Nat, AddsUp(m, n), NEW r \in QuickReactions
    PROVE  AddsUp(React(m, r), n)
<1>1. m.thumbs \in Tallies(Thumbs) /\ m.emoji \in Tallies(Emojis)
  BY DEF Reactions
<1>2. NoReaction \notin Thumbs /\ NoReaction \notin Emojis
  BY ReactionAssumption
<1>3. Others(m.thumbs) \in [Thumbs -> Nat] /\ Others(m.emoji) \in [Emojis -> Nat]
  BY DEF AddsUp
<1>4. CASE r \in Thumbs
  <2>1. Others(Toggle(m.thumbs, r)) = Others(m.thumbs)
    BY <1>1, <1>2, <1>3, <1>4, TogglingKeepsOthers
  <2>2. React(m, r).thumbs = Toggle(m.thumbs, r) /\ React(m, r).emoji = m.emoji
    BY <1>4 DEF React, Reactions
  <2> QED BY <2>1, <2>2 DEF AddsUp
<1>5. CASE r \notin Thumbs
  <2>1. r \in Emojis
    BY <1>5 DEF QuickReactions
  <2>2. Others(Toggle(m.emoji, r)) = Others(m.emoji)
    BY <1>1, <1>2, <1>3, <2>1, TogglingKeepsOthers
  <2>3. React(m, r).emoji = Toggle(m.emoji, r) /\ React(m, r).thumbs = m.thumbs
    BY <1>5 DEF React, Reactions
  <2> QED BY <2>2, <2>3 DEF AddsUp
<1> QED BY <1>4, <1>5

-----------------------------------------------------------------------------

PanelSubscript == <<page, panelVars>>

\* A message of the room's chat that stands at place i.
RoomMessageOK(m, i) ==
    /\ m \in RoomMessages
    /\ AddsUp(m.reactions, m.likes)
    /\ m.quote \in 0 .. (i - 1)

MessagesOK ==
    /\ roomMessages \in Seq(RoomMessages)
    /\ \A i \in DOMAIN roomMessages : RoomMessageOK(roomMessages[i], i)

\* The room's composer takes the same drafts as the chats'.
RoomComposes == [draft : Drafts, picker : BOOLEAN, reply : Nat]

ComposeOK ==
    /\ roomCompose \in RoomComposes
    /\ roomCompose.reply \in 0 .. Len(roomMessages)

PeopleOK ==
    /\ roomPeople \subseteq People
    /\ requestedIds \subseteq roomPeople \ (Friends \cup {Self})
    /\ {Self} \cup Hosts \subseteq roomPeople

PanelInv == roomTab \in Tabs /\ PeopleOK /\ MessagesOK /\ ComposeOK

LEMMA EmptyRoomOK ==
    EmptyRoomCompose \in RoomComposes /\ EmptyRoomCompose.reply = 0
BY DEF EmptyRoomCompose, RoomComposes, Drafts

LEMMA PanelInvSuffices ==
    PanelInv => /\ PanelCoherent
                /\ \A i \in DOMAIN roomMessages :
                      AddsUp(roomMessages[i].reactions, roomMessages[i].likes)
<1>1. PanelInv => PanelTypeOK
  BY DEF PanelInv, PeopleOK, MessagesOK, ComposeOK, RoomComposes, Drafts, PanelTypeOK
<1> QED BY <1>1 DEF PanelInv, PeopleOK, MessagesOK, ComposeOK, RoomMessageOK, PanelCoherent

LEMMA SeedsOK ==
    /\ SeedRoomMessages \in Seq(RoomMessages)
    /\ \A i \in DOMAIN SeedRoomMessages : RoomMessageOK(SeedRoomMessages[i], i)
<1>1. Len(SeedLikes) \in Nat /\ DOMAIN SeedLikes = 1 .. Len(SeedLikes)
      /\ \A i \in DOMAIN SeedLikes : SeedLikes[i] \in Nat
  BY PanelAssumption
<1>2. ASSUME NEW i \in DOMAIN SeedLikes
      PROVE  RoomMessageOK(SeedRoomMessages[i], i)
  <2>1. SeedRoomMessages[i] = [likes |-> SeedLikes[i], quote |-> 0,
                               reactions |-> Liked(SeedLikes[i])]
    BY DEF SeedRoomMessages
  <2>2. Liked(SeedLikes[i]) \in Reactions /\ AddsUp(Liked(SeedLikes[i]), SeedLikes[i])
    BY <1>1, LikedAddsUp
  <2> QED BY <1>1, <2>1, <2>2 DEF RoomMessageOK, RoomMessages
<1>3. DOMAIN SeedRoomMessages = DOMAIN SeedLikes
  BY DEF SeedRoomMessages
<1>4. SeedRoomMessages \in [1 .. Len(SeedLikes) -> RoomMessages]
  BY <1>1, <1>2, <1>3 DEF RoomMessageOK, SeedRoomMessages
<1>5. SeedRoomMessages \in Seq(RoomMessages)
  BY <1>1, <1>4
<1> QED BY <1>2, <1>3, <1>5

LEMMA PanelStarts == page \in Pages /\ PanelInit => PanelInv
<1> SUFFICES ASSUME PanelInit PROVE PanelInv
  OBVIOUS
<1>1. PeopleOK /\ roomTab \in Tabs
  BY PanelAssumption DEF PanelInit, PeopleOK, Tabs
<1>2. MessagesOK
  BY SeedsOK DEF PanelInit, MessagesOK
<1>3. ComposeOK
  <2>1. Len(roomMessages) \in Nat
    BY <1>2 DEF MessagesOK
  <2> QED BY <2>1, EmptyRoomOK DEF PanelInit, ComposeOK
<1> QED BY <1>1, <1>2, <1>3 DEF PanelInv

LEMMA RoomComposerOK ==
    ASSUME PanelInv, NEW c, RoomComposing(c),
           c \in RoomComposes,
           c.reply \in 0 .. Len(roomMessages)
    PROVE  PanelInv'
BY DEF PanelInv, PeopleOK, MessagesOK, RoomMessageOK, ComposeOK, RoomComposing

\* Sending quotes the message being replied to, which came before.
LEMMA SendingInRoom == PanelInv /\ SendRoomChat => PanelInv'
<1> SUFFICES ASSUME PanelInv, SendRoomChat PROVE PanelInv'
  OBVIOUS
<1>1. PeopleOK' /\ (roomTab \in Tabs)'
  BY DEF PanelInv, PeopleOK, SendRoomChat
<1>2. CASE roomCompose.draft = "text"
  <2> DEFINE m == [likes |-> 0, quote |-> roomCompose.reply, reactions |-> Liked(0)]
  <2>1. roomMessages' = Append(roomMessages, m) /\ roomCompose' = EmptyRoomCompose
    BY <1>2 DEF SendRoomChat, AppendRoomMessage
  <2>2. roomCompose.reply \in 0 .. Len(roomMessages) /\ roomMessages \in Seq(RoomMessages)
        /\ Len(roomMessages) \in Nat
    BY DEF PanelInv, ComposeOK, MessagesOK
  <2>3. RoomMessageOK(m, Len(roomMessages) + 1)
    <3>1. Liked(0) \in Reactions /\ AddsUp(Liked(0), 0)
      BY LikedAddsUp
    <3>2. roomCompose.reply \in Nat
          /\ roomCompose.reply \in 0 .. (Len(roomMessages) + 1 - 1)
      BY <2>2
    <3>3. m \in RoomMessages
      BY <3>1, <3>2 DEF RoomMessages
    <3> QED BY <3>1, <3>2, <3>3 DEF RoomMessageOK
  <2> HIDE DEF m
  <2>4. m \in RoomMessages
    BY <2>3 DEF RoomMessageOK
  <2>5. /\ Append(roomMessages, m) \in Seq(RoomMessages)
        /\ Len(Append(roomMessages, m)) = Len(roomMessages) + 1
        /\ DOMAIN Append(roomMessages, m) = 1 .. Len(roomMessages) + 1
        /\ \A i \in 1 .. Len(roomMessages) : Append(roomMessages, m)[i] = roomMessages[i]
        /\ Append(roomMessages, m)[Len(roomMessages) + 1] = m
    BY <2>2, <2>4
  <2>6. \A i \in 1 .. Len(roomMessages) : RoomMessageOK(roomMessages[i], i)
    BY <2>2 DEF PanelInv, MessagesOK
  <2>7. \A i \in DOMAIN Append(roomMessages, m) : RoomMessageOK(Append(roomMessages, m)[i], i)
    BY <2>2, <2>3, <2>5, <2>6
  <2>8. MessagesOK'
    BY <2>1, <2>5, <2>7 DEF MessagesOK, RoomMessageOK
  <2>9. ComposeOK'
    BY <2>1, <2>2, <2>5, EmptyRoomOK DEF ComposeOK
  <2> QED BY <1>1, <2>8, <2>9 DEF PanelInv
<1>3. CASE roomCompose.draft # "text"
  <2>1. UNCHANGED roomMessages
        /\ \E d \in Drafts : roomCompose' = [roomCompose EXCEPT !.draft = d, !.picker = FALSE]
    <3>1. "" \in Drafts
      BY Zenon DEF Drafts
    <3> QED BY <1>3, <3>1, Zenon DEF SendRoomChat, AppendRoomMessage
  <2>2. ComposeOK'
    BY <2>1 DEF PanelInv, ComposeOK, RoomComposes
  <2> QED BY <1>1, <2>1, <2>2 DEF PanelInv, MessagesOK, RoomMessageOK
<1> QED BY <1>2, <1>3

LEMMA ReactingInRoom ==
    ASSUME PanelInv, NEW i \in DOMAIN roomMessages, NEW r \in QuickReactions, ReactInRoom(i, r)
    PROVE  PanelInv'
<1>1. PeopleOK' /\ (roomTab \in Tabs)'
  BY DEF PanelInv, PeopleOK, ReactInRoom
<1>2. /\ roomMessages \in Seq(RoomMessages) /\ Len(roomMessages) \in Nat
      /\ DOMAIN roomMessages = 1 .. Len(roomMessages)
      /\ RoomMessageOK(roomMessages[i], i)
  BY DEF PanelInv, MessagesOK
<1> DEFINE m == roomMessages[i]
           n == [m EXCEPT !.reactions = React(m.reactions, r)]
<1>3. m.reactions \in Reactions /\ m.likes \in Nat /\ m.quote \in Nat
      /\ AddsUp(m.reactions, m.likes)
  BY <1>2 DEF RoomMessageOK, RoomMessages
<1>4. React(m.reactions, r) \in Reactions /\ AddsUp(React(m.reactions, r), m.likes)
  BY <1>3, ReactsWell, ReactingAddsUp
<1>5. n \in RoomMessages /\ RoomMessageOK(n, i)
  BY <1>2, <1>4 DEF RoomMessageOK, RoomMessages
<1>6. roomMessages' = [roomMessages EXCEPT ![i] = n]
  BY DEF ReactInRoom
<1> HIDE DEF m, n
<1>7. roomMessages' \in Seq(RoomMessages) /\ Len(roomMessages') = Len(roomMessages)
      /\ DOMAIN roomMessages' = DOMAIN roomMessages
  BY <1>2, <1>5, <1>6
<1>8. \A j \in DOMAIN roomMessages : RoomMessageOK(roomMessages'[j], j)
  BY <1>2, <1>5, <1>6 DEF PanelInv, MessagesOK
<1>9. MessagesOK'
  BY <1>7, <1>8 DEF MessagesOK, RoomMessageOK
<1>10. ComposeOK'
  BY <1>7 DEF PanelInv, ComposeOK, ReactInRoom
<1> QED BY <1>1, <1>9, <1>10 DEF PanelInv

LEMMA PanelInductive == PanelInv /\ [PanelNext]_PanelSubscript => PanelInv'
<1> SUFFICES ASSUME PanelInv, [PanelNext]_PanelSubscript PROVE PanelInv'
  OBVIOUS
<1>0. /\ roomCompose \in RoomComposes
      /\ roomCompose.reply \in 0 .. Len(roomMessages)
      /\ Len(roomMessages) \in Nat /\ DOMAIN roomMessages = 1 .. Len(roomMessages)
  BY DEF PanelInv, ComposeOK, MessagesOK
<1>1. CASE RoomBubbles
  <2>1. PICK i \in DOMAIN roomMessages :
           ReplyInRoom(i) \/ \E r \in QuickReactions : ReactInRoom(i, r)
    BY <1>1 DEF RoomBubbles
  <2>2. CASE ReplyInRoom(i)
    <3> DEFINE c == [roomCompose EXCEPT !.reply = IF @ = i THEN 0 ELSE i]
    <3>1. /\ c \in RoomComposes
          /\ c.reply \in 0 .. Len(roomMessages)
      BY <1>0 DEF RoomComposes
    <3>2. RoomComposing(c)
      BY <2>2 DEF ReplyInRoom
    <3> QED BY <3>1, <3>2, RoomComposerOK
  <2> QED BY <2>1, <2>2, ReactingInRoom
<1>2. CASE RoomComposer
  <2>0. ASSUME NEW d \in Drafts, NEW b \in BOOLEAN,
               RoomComposing([roomCompose EXCEPT !.draft = d, !.picker = b])
        PROVE  PanelInv'
    <3> DEFINE c == [roomCompose EXCEPT !.draft = d, !.picker = b]
    <3>1. c \in RoomComposes /\ c.reply = roomCompose.reply /\ RoomComposing(c)
      BY <1>0, <2>0 DEF RoomComposes
    <3> HIDE DEF c
    <3> QED BY <1>0, <3>1, RoomComposerOK
  <2>1. CASE CancelRoomReply
    <3> DEFINE c == [roomCompose EXCEPT !.reply = 0]
    <3>1. c \in RoomComposes /\ c.reply = 0 /\ RoomComposing(c)
      BY <1>0, <2>1 DEF CancelRoomReply, RoomComposes
    <3> HIDE DEF c
    <3> QED BY <1>0, <3>1, RoomComposerOK
  <2>2. ASSUME NEW d \in Drafts, TypeInRoom(d) PROVE PanelInv'
    <3> DEFINE c == [roomCompose EXCEPT !.draft = d]
    <3>1. c \in RoomComposes /\ c.reply = roomCompose.reply /\ RoomComposing(c)
      BY <1>0, <2>2 DEF TypeInRoom, RoomComposes
    <3> HIDE DEF c
    <3> QED BY <1>0, <3>1, RoomComposerOK
  <2>3. CASE AddRoomEmoji
    <3>1. "text" \in Drafts
      BY DEF Drafts
    <3> QED BY <2>0, <2>3, <3>1 DEF AddRoomEmoji
  <2>4. CASE ToggleRoomPicker
    <3> DEFINE c == [roomCompose EXCEPT !.picker = ~@]
    <3>1. c \in RoomComposes /\ c.reply = roomCompose.reply /\ RoomComposing(c)
      BY <1>0, <2>4 DEF ToggleRoomPicker, RoomComposes
    <3> HIDE DEF c
    <3> QED BY <1>0, <3>1, RoomComposerOK
  <2> QED BY <1>2, <2>1, <2>2, <2>3, <2>4, SendingInRoom DEF RoomComposer, Drafts
<1>3. CASE PeopleList
  <2>1. PICK p \in People : RequestFriend(p) \/ KickPerson(p)
    BY <1>3 DEF PeopleList
  <2>2. PeopleOK'
    BY <2>1 DEF PanelInv, PeopleOK, RequestFriend, IsFriend, KickPerson
  <2> QED BY <2>1, <2>2 DEF PanelInv, MessagesOK, RoomMessageOK, ComposeOK, RequestFriend, KickPerson
<1>4. CASE \E t \in Tabs : ChooseTab(t)
  BY <1>4 DEF ChooseTab, PanelInv, PeopleOK, MessagesOK, RoomMessageOK, ComposeOK
<1>5. CASE \E to \in Pages : ChangePage(to) /\ PanelGoTo(to)
  <2>1. PeopleOK' /\ (roomTab \in Tabs)'
    BY <1>5, PanelAssumption DEF PanelGoTo, PanelInv, PeopleOK
  <2>2. MessagesOK'
    BY <1>5, SeedsOK DEF PanelGoTo, MessagesOK, RoomMessageOK
  <2>3. ComposeOK'
    <3>1. Len(SeedRoomMessages) \in Nat
      BY SeedsOK
    <3> QED BY <1>5, <3>1, EmptyRoomOK DEF PanelGoTo, ComposeOK
  <2> QED BY <2>1, <2>2, <2>3 DEF PanelInv
<1>6. CASE UNCHANGED PanelSubscript
  BY <1>6 DEF PanelSubscript, panelVars, PanelInv, PeopleOK, MessagesOK, RoomMessageOK, ComposeOK
<1> QED BY <1>1, <1>2, <1>3, <1>4, <1>5, <1>6 DEF PanelNext, PanelStep

LEMMA PanelInvariant == PanelSpec => []PanelInv
BY PanelStarts, PanelInductive, PTL DEF PanelSpec, PanelSubscript

-----------------------------------------------------------------------------
(***************************************************************************)
(* The frame.  The clock is written and read back for every number of      *)
(* seconds; the rest of FrameCoherent is inductive as it stands.           *)
(***************************************************************************)

FrameSubscript == <<page, frameVars>>

\* What the clock shows of a duration, read back, is that duration.
LEMMA ClockReadsBack ==
    ASSUME NEW n \in Nat
    PROVE  /\ ParseDuration(FormatTimer(n)) = n
           /\ FormatTimer(n)[2] < 60 /\ FormatTimer(n)[3] < 60
<1> DEFINE h == n \div 3600
           r == n % 3600
           m == r \div 60
           s == n % 60
           q == n \div 60
           t == r % 60
<1>1. h \in Nat /\ r \in 0 .. 3599 /\ n = 3600 * h + r
  OBVIOUS
<1>2. q \in Nat /\ s \in 0 .. 59 /\ n = 60 * q + s
  OBVIOUS
<1>3. m \in Nat /\ t \in 0 .. 59 /\ r = 60 * m + t
  <2>1. r \in Nat
    BY <1>1
  <2> HIDE DEF r
  <2> QED BY <2>1
<1>4. FormatTimer(n) = <<h, m, s>>
  BY DEF FormatTimer
<1> HIDE DEF h, r, m, s, q, t
<1>5. s = t /\ m < 60
  <2> DEFINE d == q - 60 * h - m
  <2>1. d \in Int /\ 60 * d = t - s /\ t - s \in -59 .. 59
    BY <1>1, <1>2, <1>3
  <2> HIDE DEF d
  <2>2. d = 0
    BY <2>1
  <2>3. s = t
    BY <1>2, <1>3, <2>1, <2>2
  <2>4. m < 60
    BY <1>1, <1>3
  <2> QED BY <2>3, <2>4
<1>6. n = h * 3600 + m * 60 + s
  BY <1>1, <1>2, <1>3, <1>5
<1>7. Len(FormatTimer(n)) = 3 /\ FormatTimer(n)[1] = h /\ FormatTimer(n)[2] = m
      /\ FormatTimer(n)[3] = s
  BY <1>4
<1>8. ParseDuration(FormatTimer(n)) = h * 3600 + m * 60 + s
  <2>1. \A p : Len(p) = 3 => ParseDuration(p) = p[1] * 3600 + p[2] * 60 + p[3]
    BY DEF ParseDuration
  <2> QED BY <1>7, <2>1
<1> QED BY <1>2, <1>5, <1>6, <1>7, <1>8

LEMMA StartIsNat == StartSeconds \in Nat
<1>1. \A i \in 1 .. Len(StartDuration) : StartDuration[i] \in Nat
  BY FrameAssumption
<1>2. CASE Len(StartDuration) = 3
  <2>1. StartDuration[1] \in Nat /\ StartDuration[2] \in Nat /\ StartDuration[3] \in Nat
    BY <1>1, <1>2
  <2> QED BY <1>2, <2>1 DEF StartSeconds, ParseDuration
<1>3. CASE Len(StartDuration) = 2
  <2>1. StartDuration[1] \in Nat /\ StartDuration[2] \in Nat
    BY <1>1, <1>3
  <2> QED BY <1>3, <2>1 DEF StartSeconds, ParseDuration
<1>4. CASE Len(StartDuration) \notin {2, 3}
  BY <1>4 DEF StartSeconds, ParseDuration
<1> QED BY <1>2, <1>3, <1>4

FrameInv ==
    /\ FrameTypeOK
    /\ NetworkShown
    /\ invitedIds \cap PeopleInRoom = {}
    /\ page = "room" => activeRoom

\* The quality the top bar keeps, once told of the network.
LEMMA UpdatesStatus ==
    ASSUME network \in [onLine : BOOLEAN, signal : Qualities],
           NEW s, s.quality \in Qualities
    PROVE  /\ UpdateNetwork(s) \in [isOffline : BOOLEAN, quality : Qualities]
           /\ (IF UpdateNetwork(s).isOffline THEN "offline" ELSE UpdateNetwork(s).quality)
                 = IF network.onLine THEN network.signal ELSE "offline"
BY DEF UpdateNetwork

LEMMA FrameStarts == page \in Pages /\ FrameInit => FrameInv
<1> SUFFICES ASSUME page \in Pages, FrameInit PROVE FrameInv
  OBVIOUS
<1> DEFINE s == [isOffline |-> FALSE, quality |-> "good"]
<1>1. s.quality \in Qualities
  BY DEF Qualities
<1>2. status = UpdateNetwork(s) /\ network \in [onLine : BOOLEAN, signal : Qualities]
  BY DEF FrameInit
<1> HIDE DEF s
<1>3. NetworkShown /\ status \in [isOffline : BOOLEAN, quality : Qualities]
  BY <1>1, <1>2, UpdatesStatus DEF NetworkShown, StatusLabel
<1> QED BY <1>3, StartIsNat DEF FrameInit, FrameInv, FrameTypeOK, Headers

LEMMA FrameInductive == FrameInv /\ [FrameNext]_FrameSubscript => FrameInv'
<1> SUFFICES ASSUME FrameInv, [FrameNext]_FrameSubscript PROVE FrameInv'
  OBVIOUS
<1> USE DEF FrameInv, FrameTypeOK, NetworkShown, StatusLabel
<1>1. ASSUME NEW to \in Headers, Header(header, to), UNCHANGED inviteSearch,
             UNCHANGED invitedIds \/ \E f \in InvitableFriends : InviteFriend(f)
      PROVE  FrameInv'
  BY <1>1 DEF Header, networkVars, InviteFriend
<1>2. CASE \/ \E h \in {"invite", "actions", "leave"} : OpenHeader(h)
           \/ CloseHeader \/ AskToEnd \/ EndRoom \/ LeaveRoom
           \/ \E f \in InvitableFriends : InviteFriend(f)
  BY <1>1, <1>2 DEF OpenHeader, CloseHeader, AskToEnd, EndRoom, LeaveRoom, InviteFriend,
                    Header, Headers
<1>3. CASE SearchFriends
  BY <1>3 DEF SearchFriends, Header, networkVars, Headers
<1>4. CASE SecondPasses
  BY <1>4 DEF SecondPasses, networkVars
<1>5. CASE NetworkChanges
  BY <1>5 DEF NetworkChanges, headerVars
<1>6. CASE NetworkEvent
  BY <1>6, UpdatesStatus DEF NetworkEvent, headerVars
<1>7. ASSUME NEW to \in Pages, ChangePage(to), FrameGoTo(to) PROVE FrameInv'
  <2> DEFINE s == [isOffline |-> FALSE, quality |-> "good"]
  <2>1. s.quality \in Qualities /\ status' = UpdateNetwork(s) /\ network' = network
    BY <1>7 DEF Qualities, FrameGoTo
  <2> HIDE DEF s
  <2>2. /\ (status \in [isOffline : BOOLEAN, quality : Qualities])'
        /\ StatusLabel' = IF network.onLine THEN network.signal ELSE "offline"
    BY <2>1, UpdatesStatus
  <2>3. /\ activeRoom' \in BOOLEAN /\ (page' = "room" => activeRoom')
        /\ header' \in Headers /\ inviteSearch' \in BOOLEAN /\ newsDue' \in BOOLEAN
        /\ invitedIds' = {} /\ roomDuration' \in Nat /\ page' \in Pages
    BY <1>7, StartIsNat DEF FrameGoTo, ChangePage, Headers
  <2> QED BY <2>1, <2>2, <2>3
<1>8. CASE UNCHANGED FrameSubscript
  BY <1>8 DEF FrameSubscript, frameVars, headerVars, networkVars
<1> QED BY <1>2, <1>3, <1>4, <1>5, <1>6, <1>7, <1>8
        DEF FrameNext, FrameStep, InviteFriendMenu, ActionsMenu, EndDialog, LeaveDialog

\* The frame of every page is sound (FrameCoherent): among the rest, the top
\* bar names the network there is, and the clock of the live room reads the
\* seconds it counts, for any duration and any number of seconds.
LEMMA FrameStaysCoherent == FrameSpec => []FrameCoherent
<1>1. FrameInv => FrameCoherent
  BY ClockReadsBack DEF FrameInv, FrameTypeOK, FrameCoherent
<1> QED BY <1>1, FrameStarts, FrameInductive, PTL DEF FrameSpec, FrameSubscript

-----------------------------------------------------------------------------
(***************************************************************************)
(* The reactions and the unread counts of the private chats.  TalkInv is   *)
(* inductive: the seed that counts as unread stays marked, so the guard of *)
(* markConversationThreadAsRead always keeps a thread as it is, and only   *)
(* an answer takes a chat's count down.                                    *)
(***************************************************************************)

CountsAsUnread(p) == Position[p] % 3 = 0

Unanswered(messages) == \A i \in DOMAIN messages : ~messages[i].mine

\* The chat c with the participant p.
TalkOK(p, c) ==
    /\ \A i \in DOMAIN c.messages : AddsUp(c.messages[i].reactions, 0)
    /\ CountsAsUnread(p) => 1 \in DOMAIN c.messages /\ c.messages[1].isUnread
    /\ c.unreadCount = IF CountsAsUnread(p) /\ Unanswered(c.messages) THEN 1 ELSE 0

TalkInv ==
    /\ \A p \in Participants : TalkOK(p, chats[p])
    /\ page = "room" => unreadBadge = TotalUnread(chats)

\* Reading a chat does not lower its count.
LEMMA MarkingChangesNothing ==
    ASSUME NEW c, NEW p \in Participants, TalkOK(p, c[p])
    PROVE  MarkAsRead(c, p) = c
BY DEF TalkOK, MarkAsRead

LEMMA SeedTalks == \A p \in Participants : TalkOK(p, SeedChats[p])
<1> SUFFICES ASSUME NEW p \in Participants PROVE TalkOK(p, SeedChat(p))
  BY DEF SeedChats
<1> DEFINE m == NewMessage(FALSE, CountsAsUnread(p), NoReply, NoUrl)
           s == SeedChat(p)
<1>1. AddsUp(m.reactions, 0) /\ m.mine = FALSE /\ m.isUnread = CountsAsUnread(p)
  BY LikedAddsUp DEF NewMessage
<1>2. /\ s.messages = IF Position[p] % 3 = 2 THEN <<>> ELSE <<m>>
      /\ s.unreadCount = IF CountsAsUnread(p) THEN 1 ELSE 0
  BY DEF SeedChat, CountsAsUnread
<1> HIDE DEF m, s
<1>3. CASE Position[p] % 3 = 2
  <2>1. ~CountsAsUnread(p) /\ s.messages = <<>>
    BY <1>2, <1>3 DEF CountsAsUnread
  <2>2. DOMAIN s.messages = {}
    BY <2>1
  <2> QED BY <1>2, <2>1, <2>2 DEF TalkOK, Unanswered, s
<1>4. CASE Position[p] % 3 # 2
  <2>1. s.messages = <<m>> /\ DOMAIN <<m>> = {1} /\ <<m>>[1] = m
    BY <1>2, <1>4
  <2> QED BY <1>1, <1>2, <2>1 DEF TalkOK, Unanswered, s
<1> QED BY <1>3, <1>4

LEMMA TalkStarts == ChatInit => TalkInv
BY SeedTalks DEF ChatInit, TalkInv

\* A message of the user, in the chat that is open.
LEMMA AnswersTalk ==
    ASSUME ChatInv, TalkInv, NEW q, NEW url, Chatting,
           AppendMine(NewMessage(TRUE, FALSE, q, url))
    PROVE  TalkInv'
<1> DEFINE p == activeFriend
           m == NewMessage(TRUE, FALSE, q, url)
           ms == chats[p].messages
<1>1. p \in Participants /\ ms \in Seq(Messages) /\ chats \in ChatsType
  BY DEF Chatting, ChatInv, ChatCoherent, ChatTypeOK, ChatsType
<1>2. AddsUp(m.reactions, 0) /\ m.mine = TRUE
  BY LikedAddsUp DEF NewMessage
<1>3. /\ chats' = [chats EXCEPT ![p] = [messages |-> Append(ms, m), unreadCount |-> 0]]
      /\ unreadBadge' = TotalUnread(chats')
  BY DEF AppendMine, ShowChats
<1> HIDE DEF p, m
<1>4. /\ chats'[p].messages = Append(ms, m) /\ chats'[p].unreadCount = 0
      /\ \A o \in Participants \ {p} : chats'[o] = chats[o]
  BY <1>1, <1>3 DEF ChatsType
<1> HIDE DEF ms
<1>5. /\ DOMAIN Append(ms, m) = 1 .. (Len(ms) + 1) /\ DOMAIN ms = 1 .. Len(ms)
      /\ Len(ms) \in Nat /\ Append(ms, m)[Len(ms) + 1] = m
      /\ \A i \in DOMAIN ms : Append(ms, m)[i] = ms[i]
  BY <1>1
<1>6. TalkOK(p, chats[p])
  BY <1>1 DEF TalkInv
<1>7. \A i \in DOMAIN Append(ms, m) : AddsUp(Append(ms, m)[i].reactions, 0)
  <2>1. \A i \in DOMAIN ms : AddsUp(ms[i].reactions, 0)
    BY <1>6 DEF TalkOK, ms
  <2>2. \A i \in DOMAIN Append(ms, m) : i \in DOMAIN ms \/ i = Len(ms) + 1
    BY <1>5
  <2> QED BY <1>2, <1>5, <2>1, <2>2
<1>8. CountsAsUnread(p) => 1 \in DOMAIN Append(ms, m) /\ Append(ms, m)[1].isUnread
  <2>1. CountsAsUnread(p) => 1 \in DOMAIN ms /\ ms[1].isUnread
    BY <1>6 DEF TalkOK, ms
  <2> QED BY <1>5, <2>1
<1>9. ~Unanswered(Append(ms, m))
  <2>1. Len(ms) + 1 \in DOMAIN Append(ms, m)
    BY <1>5
  <2> QED BY <1>2, <1>5, <2>1 DEF Unanswered
<1>10. TalkOK(p, chats'[p])
  BY <1>4, <1>7, <1>8, <1>9 DEF TalkOK
<1>11. \A o \in Participants : TalkOK(o, chats'[o])
  BY <1>4, <1>10 DEF TalkInv
<1> QED BY <1>3, <1>11 DEF TalkInv, TalkOK, Unanswered, CountsAsUnread

LEMMA ReactionsTalk ==
    ASSUME ChatInv, TalkInv, NEW i \in DOMAIN chats[activeFriend].messages,
           NEW r \in QuickReactions, ReactInChat(i, r)
    PROVE  TalkInv'
<1> DEFINE p == activeFriend
           ms == chats[p].messages
<1>1. p \in Participants /\ ms \in Seq(Messages) /\ chats \in ChatsType
  BY DEF ReactInChat, Chatting, ChatInv, ChatCoherent, ChatTypeOK, ChatsType
<1>2. /\ chats' = [chats EXCEPT ![p].messages[i].reactions = React(@, r)]
      /\ unreadBadge' = TotalUnread(chats')
  BY DEF ReactInChat, ShowChats
<1>3. ms[i] \in Messages /\ ms[i].reactions \in Reactions
  <2>1. ms[i] \in Messages
    BY <1>1
  <2> QED BY <2>1 DEF Messages
<1>4. TalkOK(p, chats[p])
  BY <1>1 DEF TalkInv
<1>5. AddsUp(React(ms[i].reactions, r), 0)
  BY <1>3, <1>4, ReactingAddsUp DEF TalkOK
<1>6. /\ DOMAIN chats'[p].messages = DOMAIN ms
      /\ chats'[p].messages[i].reactions = React(ms[i].reactions, r)
      /\ chats'[p].messages[i].mine = ms[i].mine
      /\ chats'[p].messages[i].isUnread = ms[i].isUnread
      /\ \A j \in DOMAIN ms \ {i} : chats'[p].messages[j] = ms[j]
      /\ chats'[p].unreadCount = chats[p].unreadCount
  <2>1. chats[p] \in [messages : Seq(Messages), unreadCount : Nat]
    BY <1>1 DEF ChatsType
  <2>2. chats'[p] = [chats[p] EXCEPT !.messages = [ms EXCEPT ![i] = [ms[i] EXCEPT !.reactions = React(@, r)]]]
    BY <1>1, <1>2 DEF ChatsType
  <2> QED BY <1>3, <2>1, <2>2 DEF Messages
<1>7. \A o \in Participants \ {p} : chats'[o] = chats[o]
  BY <1>1, <1>2 DEF ChatsType
<1>8. Unanswered(chats'[p].messages) <=> Unanswered(ms)
  BY <1>6 DEF Unanswered
<1>9. TalkOK(p, chats'[p])
  BY <1>4, <1>5, <1>6, <1>8 DEF TalkOK
<1>10. \A o \in Participants : TalkOK(o, chats'[o])
  BY <1>7, <1>9 DEF TalkInv
<1> QED BY <1>2, <1>10 DEF TalkInv, TalkOK, Unanswered, CountsAsUnread

LEMMA TalkInductive ==
    ChatInv /\ TalkInv /\ [ChatNext]_ChatSubscript => TalkInv'
<1> SUFFICES ASSUME ChatInv, TalkInv, [ChatNext]_ChatSubscript PROVE TalkInv'
  OBVIOUS
<1>1. \A p \in Participants : MarkAsRead(chats, p) = chats
  BY MarkingChangesNothing DEF TalkInv
<1>2. ASSUME chats' = chats, page' = page,
             unreadBadge' = unreadBadge \/ unreadBadge' = TotalUnread(chats')
      PROVE  TalkInv'
  BY <1>2 DEF TalkInv, TalkOK, Unanswered, CountsAsUnread
<1>3. CASE \E p \in Participants : OpenChat(p) \/ ChooseThread(p)
  BY <1>1, <1>2, <1>3 DEF OpenChat, ChooseThread, ShowChats, OnRoomPage
<1>4. CASE DrawerHeader
  <2>1. activeFriend # NoPerson => MarkAsRead(chats, activeFriend) = chats
    BY <1>1 DEF ChatInv, ChatCoherent, ChatTypeOK
  <2>2. ToggleThreads => activeFriend # NoPerson
    BY DEF ToggleThreads, OnRoomPage, ChatInv, ChatCoherent, DrawerFollowsFriend
  <2> QED BY <1>2, <1>4, <2>1, <2>2
          DEF DrawerHeader, CloseDrawer, Search, ToggleThreads, ShowChats, OnRoomPage
<1>5. CASE \/ ListenersDialog \/ TypingTimeout \/ CancelReply \/ AddEmoji \/ TogglePicker
           \/ ClosePicker \/ \E d \in Drafts : Type(d)
  <2>1. UNCHANGED <<page, chats, unreadBadge>>
    BY <1>5 DEF ListenersDialog, OpenListeners, CloseListeners, BackToList, ShowListener,
                Listing, TypingTimeout, CancelReply, AddEmoji, TogglePicker, ClosePicker,
                Type, Draft, Composing, Chatting, OnRoomPage
  <2> QED BY <1>2, <2>1
<1>6. CASE MessageBubbles
  <2>1. PICK i \in DOMAIN chats[activeFriend].messages :
           Reply(i) \/ \E r \in QuickReactions : ReactInChat(i, r)
    BY <1>6 DEF MessageBubbles, ReactionTray, BubbleMenu, Tray, QuickReactions
  <2>2. CASE Reply(i)
    BY <1>2, <2>2 DEF Reply, Composing, Chatting, OnRoomPage
  <2> QED BY <2>1, <2>2, ReactionsTalk
<1>7. CASE Send \/ Attach
  BY <1>7, AnswersTalk DEF Send, Attach
<1>8. ASSUME NEW to \in Pages, ChangePage(to), ChatsGoTo(to) PROVE TalkInv'
  <2>1. \A p \in Participants : MarkAsRead(SeedChats, p) = SeedChats
    BY SeedTalks, MarkingChangesNothing
  <2>2. activeFriend \in Participants \cup {NoPerson}
    BY DEF ChatInv, ChatCoherent, ChatTypeOK
  <2>3. chats' = SeedChats
    BY <1>8, <2>1, <2>2 DEF ChatsGoTo, ShowChats
  <2>4. page' = "room" => unreadBadge' = TotalUnread(chats')
    BY <1>8 DEF ChangePage, ChatsGoTo, ShowChats
  <2> QED BY <2>3, <2>4, SeedTalks DEF TalkInv, TalkOK, Unanswered, CountsAsUnread
<1>9. CASE UNCHANGED ChatSubscript
  BY <1>2, <1>9 DEF ChatSubscript, chatVars
<1> QED BY <1>3, <1>4, <1>5, <1>6, <1>7, <1>8, <1>9
        DEF ChatNext, ChatStep, ThreadList, Composer

LEMMA TalkInvariant == ChatSpec => []TalkInv
BY ChatStarts, TalkStarts, ChatInductive, TalkInductive, PTL DEF ChatSpec, ChatSubscript

-----------------------------------------------------------------------------
(***************************************************************************)
(* The badge.  A sum over the participants is a recursive function of the  *)
(* subset summed so far; that of counts which are 0 or 1 is the number of  *)
(* ones, for a smallest subset of which it is not would lose an element    *)
(* and still be one.                                                       *)
(***************************************************************************)

\* Every non-empty set of natural numbers has a least element.
LEMMA LeastOf ==
    ASSUME NEW T, T \subseteq Nat, T # {}
    PROVE  \E n \in T : \A m \in T : n <= m
<1> DEFINE R == {ss \in Nat \X Nat : ss[1] < ss[2]}
<1>1. IsWellFoundedOn(R, Nat)
  <2>1. OpToRel(<, Nat) = R
    BY DEF OpToRel
  <2>2. IsWellFoundedOn(OpToRel(<, Nat), Nat)
    BY NatLessThanWellFounded, Zenon
  <2> QED BY <2>1, <2>2, Zenon
<1>2. \A x, y \in Nat : y < x => <<y, x>> \in R
  OBVIOUS
<1> HIDE DEF R
<1>3. PICK x \in T : \A y \in T : ~ (<<y, x>> \in R)
  BY <1>1, WFMin
<1>4. \A y \in T : ~(y < x)
  BY <1>2, <1>3
<1>5. \A y \in T : x <= y
  BY <1>4
<1> QED BY <1>5

LEMMA SumOfUnits ==
    ASSUME NEW c, \A p \in Participants : c[p].unreadCount \in {0, 1}
    PROVE  TotalUnread(c) = Cardinality({p \in Participants : c[p].unreadCount = 1})
<1> DEFINE Of(s) == {p \in s : c[p].unreadCount = 1}
           one(s) == CHOOSE p \in s : TRUE
           IsSum(g) == g = [s \in SUBSET Participants |->
                               IF s = {} THEN 0 ELSE c[one(s)].unreadCount + g[s \ {one(s)}]]
           count == [s \in SUBSET Participants |-> Cardinality(Of(s))]
<1>1. TotalUnread(c) = (CHOOSE g : IsSum(g))[Participants]
  BY DEF TotalUnread, MapThenSumSet, MapThenFoldSet
<1>2. ASSUME NEW s \in SUBSET Participants
      PROVE  IsFiniteSet(s) /\ Cardinality(s) \in Nat
             /\ IsFiniteSet(Of(s)) /\ Cardinality(Of(s)) \in Nat
  <2>1. IsFiniteSet(s)
    BY ChatAssumption, FS_Subset
  <2>2. Of(s) \subseteq s
    OBVIOUS
  <2> QED BY <2>1, <2>2, FS_Subset, FS_CardinalityType
<1>3. ASSUME NEW s \in SUBSET Participants, s # {}
      PROVE  /\ one(s) \in s /\ s \ {one(s)} \in SUBSET Participants
             /\ Cardinality(s \ {one(s)}) = Cardinality(s) - 1
             /\ Cardinality(Of(s)) = c[one(s)].unreadCount + Cardinality(Of(s \ {one(s)}))
  <2> DEFINE p == one(s)
  <2>1. p \in s
    BY <1>3
  <2> HIDE DEF p
  <2>2. Cardinality(s \ {p}) = Cardinality(s) - 1
    BY <1>2, <2>1, FS_RemoveElement
  <2>3. Cardinality(Of(s)) = c[p].unreadCount + Cardinality(Of(s \ {p}))
    <3>1. CASE c[p].unreadCount = 1
      <4>1. p \in Of(s) /\ Of(s \ {p}) = Of(s) \ {p}
        BY <2>1, <3>1
      <4>2. Cardinality(Of(s) \ {p}) = Cardinality(Of(s)) - 1
        BY <1>2, <4>1, FS_RemoveElement
      <4>3. Cardinality(Of(s)) \in Nat
        BY <1>2
      <4>4. Cardinality(Of(s \ {p})) = Cardinality(Of(s)) - 1
        BY <4>1, <4>2
      <4> HIDE DEF Of
      <4> QED BY <3>1, <4>3, <4>4
    <3>2. CASE c[p].unreadCount = 0
      <4>1. Of(s \ {p}) = Of(s)
        BY <2>1, <3>2
      <4>2. Cardinality(Of(s)) \in Nat
        BY <1>2
      <4> HIDE DEF Of
      <4> QED BY <3>2, <4>1, <4>2
    <3> QED BY <2>1, <3>1, <3>2
  <2> QED BY <2>1, <2>2, <2>3 DEF p
<1> HIDE DEF Of, one
<1>4. Of({}) = {} /\ Cardinality({}) = 0
  BY FS_EmptySet DEF Of
<1>5. IsSum(count)
  BY <1>3, <1>4
<1> DEFINE g == CHOOSE h : IsSum(h)
<1>6. IsSum(g)
  <2> HIDE DEF IsSum, count
  <2> QED BY <1>5
<1> HIDE DEF g
<1>7. \A s \in SUBSET Participants : g[s] = Cardinality(Of(s))
  <2> DEFINE Wrong == {s \in SUBSET Participants : g[s] # Cardinality(Of(s))}
             T == {Cardinality(s) : s \in Wrong}
  <2> SUFFICES ASSUME Wrong # {} PROVE FALSE
    OBVIOUS
  <2>1. T \subseteq Nat /\ T # {}
    BY <1>2
  <2>2. PICK n \in T : \A m \in T : n <= m
    <3> HIDE DEF T
    <3> QED BY <2>1, LeastOf
  <2>3. PICK s \in Wrong : Cardinality(s) = n
    OBVIOUS
  <2>4. s # {}
    BY <1>4, <1>6, <2>3
  <2>5. g[s] = c[one(s)].unreadCount + g[s \ {one(s)}]
    BY <1>6, <2>3, <2>4
  <2>6. s \ {one(s)} \notin Wrong
    <3>1. s \ {one(s)} \in Wrong => Cardinality(s) <= Cardinality(s \ {one(s)})
      BY <2>2, <2>3
    <3> QED BY <1>2, <1>3, <2>3, <2>4, <3>1
  <2> QED BY <1>3, <2>3, <2>4, <2>5, <2>6
<1> QED BY <1>1, <1>7 DEF g, Of

\* The badge of the top bar counts the chats whose seed counts as unread and in
\* which the user has sent nothing, neither a message nor an attachment,
\* however often they were opened and read (markConversationThreadAsRead), for
\* any finite set of participants.
THEOREM BadgeIsTrue == ChatSpec => []BadgeCountsUnanswered
<1>1. TalkInv => BadgeCountsUnanswered
  <2> SUFFICES ASSUME TalkInv, page = "room" PROVE BadgeCountsUnanswered
    BY DEF BadgeCountsUnanswered
  <2>1. \A p \in Participants :
           /\ chats[p].unreadCount \in {0, 1}
           /\ chats[p].unreadCount = 1 <=> CountsAsUnread(p) /\ Unanswered(chats[p].messages)
    BY DEF TalkInv, TalkOK
  <2>2. unreadBadge = Cardinality({p \in Participants : chats[p].unreadCount = 1})
    BY <2>1, SumOfUnits DEF TalkInv
  <2>3. {p \in Participants : chats[p].unreadCount = 1}
           = {p \in Participants : CountsAsUnread(p) /\ Unanswered(chats[p].messages)}
    BY <2>1
  <2> QED BY <2>2, <2>3 DEF BadgeCountsUnanswered, CountsAsUnread, Unanswered
<1> QED BY <1>1, TalkInvariant, PTL

-----------------------------------------------------------------------------
(***************************************************************************)
(* The lists of rooms.  What Array.filter keeps is established first, by   *)
(* the least prefix for which it would fail.  BoardInv is inductive: it    *)
(* adds to BoardCoherent what ties the two pages together, that nothing is *)
(* removed or finished while the board is not shown and no notice is left  *)
(* of the sidebar while that is not shown.                                 *)
(***************************************************************************)

ElementsOf(s) == {s[i] : i \in DOMAIN s}

NoneTwice(s) == \A i, j \in DOMAIN s : s[i] = s[j] => i = j

\* The function that filters s by S, prefix after prefix.
IsKept(g, s, S) ==
    g = [i \in 0 .. Len(s) |->
            IF i = 0 THEN <<>>
            ELSE IF s[i] \in S THEN Append(g[i - 1], s[i])
            ELSE g[i - 1]]

LEMMA KeptExists ==
    ASSUME NEW D, NEW s \in Seq(D), NEW S
    PROVE  \E g : IsKept(g, s, S)
<1> DEFINE Step(g, i) == IF s[i] \in S THEN Append(g[i - 1], s[i]) ELSE g[i - 1]
           Upto(g, n) == /\ g = [i \in 0 .. n |-> g[i]]
                         /\ g[0] = <<>>
                         /\ \A i \in 1 .. n : g[i] = Step(g, i)
           Faulty == {n \in 0 .. Len(s) : ~ \E g : Upto(g, n)}
<1>1. Len(s) \in Nat
  OBVIOUS
<1>2. Upto([i \in 0 .. 0 |-> <<>>], 0)
  OBVIOUS
<1>3. ASSUME NEW n \in 1 .. Len(s), NEW g, Upto(g, n - 1)
      PROVE  \E h : Upto(h, n)
  <2> DEFINE v == Step(g, n)
             h == [i \in 0 .. n |-> IF i = n THEN v ELSE g[i]]
  <2>1. n \in Nat /\ n > 0
    BY <1>1
  <2>2. \A i \in 1 .. n : i \in 0 .. n /\ i - 1 \in 0 .. n /\ i - 1 # n
                          /\ (i # n => i \in 1 .. (n - 1))
    BY <2>1
  <2>3. /\ g[0] = <<>>
        /\ \A i \in 1 .. (n - 1) : g[i] = Step(g, i)
    BY <1>3
  <2> HIDE DEF v
  <2>4. h = [i \in 0 .. n |-> h[i]] /\ h[n] = v /\ \A i \in 0 .. n : i # n => h[i] = g[i]
    BY <2>1
  <2>5. h[0] = <<>>
    BY <2>1, <2>3, <2>4
  <2> HIDE DEF h
  <2>6. ASSUME NEW i \in 1 .. n PROVE h[i] = Step(h, i)
    <3>1. h[i - 1] = g[i - 1]
      BY <2>2, <2>4
    <3>2. h[i] = Step(g, i)
      <4> HIDE DEF Step
      <4> QED BY <2>2, <2>3, <2>4 DEF v
    <3> QED BY <3>1, <3>2
  <2> QED BY <2>4, <2>5, <2>6
<1> HIDE DEF Upto
<1>4. Faulty = {}
  <2> SUFFICES ASSUME Faulty # {} PROVE FALSE
    OBVIOUS
  <2>1. Faulty \subseteq Nat
    BY <1>1
  <2>2. PICK n \in Faulty : \A m \in Faulty : n <= m
    <3> HIDE DEF Faulty
    <3> QED BY <2>1, LeastOf
  <2>3. n \in 1 .. Len(s)
    BY <1>1, <1>2
  <2>4. n - 1 \in 0 .. Len(s) /\ n - 1 \notin Faulty
    <3>1. n - 1 \in 0 .. Len(s) /\ ~(n <= n - 1)
      BY <1>1, <2>3
    <3> QED BY <2>2, <3>1
  <2> QED BY <1>3, <2>3, <2>4
<1>5. PICK g : Upto(g, Len(s))
  BY <1>1, <1>4
<1>6. IsKept(g, s, S)
  <2> DEFINE e == [i \in 0 .. Len(s) |->
                      IF i = 0 THEN <<>>
                      ELSE IF s[i] \in S THEN Append(g[i - 1], s[i])
                      ELSE g[i - 1]]
  <2>1. \A i \in 0 .. Len(s) : i = 0 \/ i \in 1 .. Len(s)
    BY <1>1
  <2>2. \A i \in 1 .. Len(s) : i \in 0 .. Len(s) /\ i # 0
    BY <1>1
  <2>3. g[0] = <<>> /\ \A i \in 1 .. Len(s) : g[i] = Step(g, i)
    BY <1>5 DEF Upto
  <2>4. \A i \in 0 .. Len(s) : g[i] = e[i]
    BY <2>1, <2>2, <2>3
  <2>5. g = [i \in 0 .. Len(s) |-> g[i]]
    BY <1>5 DEF Upto
  <2>6. g = e
    <3> HIDE DEF e
    <3>1. e = [i \in 0 .. Len(s) |-> e[i]]
      BY DEF e
    <3> QED BY <2>4, <2>5, <3>1
  <2> QED BY <2>6 DEF IsKept
<1> QED BY <1>6

\* Array.filter keeps exactly the elements asked for, and repeats none that was
\* not repeated.
LEMMA FilteredWell ==
    ASSUME NEW D, NEW s \in Seq(D), NEW S
    PROVE  /\ Filtered(s, S) \in Seq(D)
           /\ ElementsOf(Filtered(s, S)) = ElementsOf(s) \cap S
           /\ NoneTwice(s) => NoneTwice(Filtered(s, S))
<1> DEFINE g == CHOOSE h : IsKept(h, s, S)
           Prefix(i) == {s[j] : j \in 1 .. i}
           Good(i) == /\ g[i] \in Seq(D)
                      /\ ElementsOf(g[i]) = Prefix(i) \cap S
                      /\ NoneTwice(s) => NoneTwice(g[i])
           Bad == {i \in 0 .. Len(s) : ~Good(i)}
<1>1. Filtered(s, S) = g[Len(s)]
  BY DEF Filtered, IsKept
<1>2. IsKept(g, s, S)
  BY KeptExists
<1>3. Len(s) \in Nat /\ DOMAIN s = 1 .. Len(s) /\ \A i \in 1 .. Len(s) : s[i] \in D
  OBVIOUS
<1> HIDE DEF g
<1>4. /\ g[0] = <<>>
      /\ \A i \in 1 .. Len(s) : g[i] = IF s[i] \in S THEN Append(g[i - 1], s[i]) ELSE g[i - 1]
  <2>1. 0 \in 0 .. Len(s) /\ \A i \in 1 .. Len(s) : i \in 0 .. Len(s) /\ i # 0
    BY <1>3
  <2>2. \A i \in 0 .. Len(s) : g[i] = IF i = 0 THEN <<>>
                                      ELSE IF s[i] \in S THEN Append(g[i - 1], s[i])
                                      ELSE g[i - 1]
    BY <1>2, Zenon DEF IsKept
  <2> QED BY <2>1, <2>2
<1>5. Good(0)
  <2>1. DOMAIN g[0] = {} /\ g[0] \in Seq(D)
    BY <1>4
  <2>2. Prefix(0) = {}
    OBVIOUS
  <2> QED BY <2>1, <2>2 DEF ElementsOf, NoneTwice
<1>6. ASSUME NEW i \in 1 .. Len(s), Good(i - 1) PROVE Good(i)
  <2>1. i \in Nat /\ i - 1 \in Nat /\ Prefix(i) = Prefix(i - 1) \cup {s[i]}
    BY <1>3
  <2>2. CASE s[i] \notin S
    <3>1. g[i] = g[i - 1]
      BY <1>4, <2>2
    <3>2. Prefix(i) \cap S = Prefix(i - 1) \cap S
      BY <2>1, <2>2
    <3> QED BY <1>6, <3>1, <3>2
  <2>3. CASE s[i] \in S
    <3> DEFINE t == g[i - 1]
               u == g[i]
    <3>1. u = Append(t, s[i]) /\ t \in Seq(D) /\ s[i] \in D
      BY <1>3, <1>4, <1>6, <2>3
    <3> HIDE DEF t, u
    <3>2. /\ u \in Seq(D) /\ Len(t) \in Nat /\ DOMAIN t = 1 .. Len(t)
          /\ DOMAIN u = 1 .. (Len(t) + 1)
          /\ \A j \in 1 .. Len(t) : u[j] = t[j]
          /\ u[Len(t) + 1] = s[i]
      BY <3>1
    <3>3. ElementsOf(u) = ElementsOf(t) \cup {s[i]}
      <4>1. \A j \in DOMAIN u : j \in DOMAIN t \/ j = Len(t) + 1
        BY <3>2
      <4>2. ElementsOf(u) \subseteq ElementsOf(t) \cup {s[i]}
        BY <3>2, <4>1 DEF ElementsOf
      <4>3. ElementsOf(t) \subseteq ElementsOf(u)
        BY <3>2 DEF ElementsOf
      <4>4. Len(t) + 1 \in DOMAIN u
        BY <3>2
      <4>5. s[i] \in ElementsOf(u)
        BY <3>2, <4>4 DEF ElementsOf
      <4> QED BY <4>2, <4>3, <4>5
    <3>4. ElementsOf(u) = Prefix(i) \cap S
      BY <1>6, <2>1, <2>3, <3>3 DEF t
    <3>5. ASSUME NoneTwice(s) PROVE NoneTwice(u)
      <4>1. NoneTwice(t)
        BY <1>6, <3>5 DEF t
      <4>2. s[i] \notin ElementsOf(t)
        <5>1. s[i] \notin Prefix(i - 1)
          BY <1>3, <2>1, <3>5 DEF NoneTwice
        <5>2. ElementsOf(t) \subseteq Prefix(i - 1)
          BY <1>6 DEF t
        <5> QED BY <5>1, <5>2
      <4>3. \A j \in DOMAIN t : t[j] # s[i]
        BY <4>2 DEF ElementsOf
      <4>4. \A j \in DOMAIN u : j \in DOMAIN t \/ j = Len(t) + 1
        BY <3>2
      <4> QED BY <3>2, <4>1, <4>3, <4>4 DEF NoneTwice
    <3> QED BY <3>2, <3>4, <3>5 DEF u
  <2> QED BY <2>2, <2>3
<1>7. Bad = {}
  <2> HIDE DEF Good
  <2> SUFFICES ASSUME Bad # {} PROVE FALSE
    OBVIOUS
  <2>1. Bad \subseteq Nat
    BY <1>3
  <2>2. PICK n \in Bad : \A m \in Bad : n <= m
    <3> HIDE DEF Bad
    <3> QED BY <2>1, LeastOf
  <2>3. n \in 1 .. Len(s)
    BY <1>3, <1>5
  <2>4. n - 1 \in 0 .. Len(s) /\ n - 1 \notin Bad
    <3>1. n - 1 \in 0 .. Len(s) /\ ~(n <= n - 1)
      BY <1>3, <2>3
    <3> QED BY <2>2, <3>1
  <2> QED BY <1>6, <2>3, <2>4
<1>8. Good(Len(s)) /\ Prefix(Len(s)) = ElementsOf(s)
  <2>1. Good(Len(s))
    <3> HIDE DEF Good
    <3> QED BY <1>3, <1>7
  <2> QED BY <1>3, <2>1 DEF ElementsOf
<1> QED BY <1>1, <1>8
-----------------------------------------------------------------------------
(* The invariant, and how the agenda is read.                               *)

BoardSubscript == <<page, boardVars>>

SidebarOK ==
    sidebar \in [mode : {"cards", "list"}, open : BOOLEAN, search : BOOLEAN,
                 filters : SUBSET TopicTags]

ReminderOK ==
    /\ remindedRoomIds \in Seq(Rooms)
    /\ NoneTwice(remindedRoomIds)
    /\ Reminded \subseteq Upcoming

NoticeOK ==
    /\ bookmarked \subseteq Rooms
    /\ toast.room \in Rooms \cup {NoRoom}
    /\ NoticesHold
    /\ page # "room" => toast = NoToast

AgendaOK ==
    /\ removed \subseteq Rooms /\ finished \subseteq Rooms
    /\ boardTab \in BoardTabs /\ selected \in Rooms
    /\ removed \cap Reminded = {}
    /\ FinishedWereLive
    /\ page # "my-room" => removed = {} /\ finished = {}
    /\ page = "my-room" => selected \in InAgenda \/ InAgenda = {}

BoardInv == page \in Pages /\ SidebarOK /\ ReminderOK /\ NoticeOK /\ AgendaOK

\* A list without elements is empty.
LEMMA EmptyOrNot ==
    ASSUME NEW D, NEW s \in Seq(D)
    PROVE  s = <<>> <=> ElementsOf(s) = {}
<1>1. DOMAIN s = 1 .. Len(s) /\ Len(s) \in Nat
  OBVIOUS
<1>2. ElementsOf(s) = {} <=> DOMAIN s = {}
  BY DEF ElementsOf
<1>3. DOMAIN s = {} <=> Len(s) = 0
  BY <1>1
<1>4. Len(s) = 0 <=> s = <<>>
  OBVIOUS
<1> QED BY <1>2, <1>3, <1>4

\* The board lists the seeds and the rooms reminded of, without those removed.
LEMMA AgendaElements ==
    ASSUME NEW reminders \in Seq(Rooms), NEW gone, NEW a,
           a = Filtered(AgendaSeed \o Filtered(reminders, Rooms \ Seeded), Rooms \ gone)
    PROVE  a \in Seq(Rooms) /\ ElementsOf(a) = (Seeded \cup ElementsOf(reminders)) \ gone
<1> DEFINE t == Filtered(reminders, Rooms \ Seeded)
           u == AgendaSeed \o t
<1>1. t \in Seq(Rooms) /\ ElementsOf(t) = ElementsOf(reminders) \cap (Rooms \ Seeded)
  BY FilteredWell
<1>2. AgendaSeed \in Seq(Rooms) /\ ElementsOf(AgendaSeed) = Seeded
  BY BoardAssumption DEF ElementsOf, Seeded
<1>3. a = Filtered(u, Rooms \ gone)
  OBVIOUS
<1> HIDE DEF t
<1>4. u \in Seq(Rooms) /\ Range(u) = Range(AgendaSeed) \cup Range(t)
  BY <1>1, <1>2, ConcatProperties, RangeConcatenation
<1>5. \A s : Range(s) = ElementsOf(s)
  BY DEF Range, ElementsOf
<1>6. ElementsOf(u) = Seeded \cup (ElementsOf(reminders) \cap (Rooms \ Seeded))
  BY <1>1, <1>2, <1>4, <1>5
<1> HIDE DEF u
<1>7. a \in Seq(Rooms) /\ ElementsOf(a) = ElementsOf(u) \cap (Rooms \ gone)
  <2>1. u \in Seq(Rooms)
    BY <1>4
  <2>2. /\ Filtered(u, Rooms \ gone) \in Seq(Rooms)
        /\ ElementsOf(Filtered(u, Rooms \ gone)) = ElementsOf(u) \cap (Rooms \ gone)
    BY <2>1, FilteredWell
  <2> QED BY <1>3, <2>2
<1>8. Seeded \subseteq Rooms /\ ElementsOf(reminders) \subseteq Rooms
  BY BoardAssumption DEF Seeded, ElementsOf
<1> QED BY <1>6, <1>7, <1>8

LEMMA AgendaIs ==
    /\ remindedRoomIds \in Seq(Rooms) =>
          Agenda \in Seq(Rooms) /\ InAgenda = (Seeded \cup Reminded) \ removed
    /\ remindedRoomIds' \in Seq(Rooms) => InAgenda' = (Seeded \cup Reminded') \ removed'
<1>1. ASSUME remindedRoomIds \in Seq(Rooms)
      PROVE  Agenda \in Seq(Rooms) /\ InAgenda = (Seeded \cup Reminded) \ removed
  <2>1. Agenda \in Seq(Rooms)
        /\ ElementsOf(Agenda) = (Seeded \cup ElementsOf(remindedRoomIds)) \ removed
    BY <1>1, AgendaElements DEF Agenda
  <2> QED BY <2>1 DEF InAgenda, Reminded, ElementsOf
<1>2. ASSUME remindedRoomIds' \in Seq(Rooms)
      PROVE  InAgenda' = (Seeded \cup Reminded') \ removed'
  <2>1. Agenda' = Filtered(AgendaSeed \o Filtered(remindedRoomIds', Rooms \ Seeded),
                           Rooms \ removed')
    BY DEF Agenda
  <2>2. ElementsOf(Agenda') = (Seeded \cup ElementsOf(remindedRoomIds')) \ removed'
    BY <1>2, <2>1, AgendaElements
  <2> QED BY <2>2 DEF InAgenda, Reminded, ElementsOf
<1> QED BY <1>1, <1>2

LEMMA VisibleInAgenda ==
    ASSUME ReminderOK
    PROVE  VisibleRooms \in Seq(Rooms) /\ ElementsOf(VisibleRooms) \subseteq InAgenda
<1>1. Agenda \in Seq(Rooms) /\ ElementsOf(Agenda) = InAgenda
  BY AgendaIs DEF ReminderOK, InAgenda, ElementsOf
<1>2. CASE boardTab = "all"
  BY <1>1, <1>2 DEF VisibleRooms
<1>3. CASE boardTab # "all"
  <2>1. VisibleRooms = Filtered(Agenda, {r \in InAgenda : Kind(r) = boardTab})
    BY <1>3 DEF VisibleRooms
  <2> QED BY <1>1, <2>1, FilteredWell
<1> QED BY <1>2, <1>3

LEMMA BoardInvSuffices == BoardInv => BoardCoherent
<1> SUFFICES ASSUME BoardInv PROVE BoardCoherent
  OBVIOUS
<1>1. BoardTypeOK
  BY DEF BoardInv, SidebarOK, ReminderOK, NoticeOK, AgendaOK, BoardTypeOK
<1>2. RemindedOnce
  BY DEF BoardInv, ReminderOK, NoneTwice, RemindedOnce
<1>3. SelectionHolds
  <2> SUFFICES ASSUME page = "my-room"
               PROVE  IF Agenda = <<>> THEN ShownRoom = NoRoom
                      ELSE selected \in InAgenda /\ ShownRoom = selected
    BY DEF SelectionHolds
  <2>1. /\ Agenda \in Seq(Rooms)
        /\ VisibleRooms \in Seq(Rooms) /\ ElementsOf(VisibleRooms) \subseteq InAgenda
    BY AgendaIs, VisibleInAgenda DEF BoardInv, ReminderOK
  <2>2. Agenda = <<>> <=> InAgenda = {}
    <3>1. InAgenda = ElementsOf(Agenda)
      BY DEF InAgenda, ElementsOf
    <3> QED BY <2>1, <3>1, EmptyOrNot
  <2>3. CASE InAgenda = {}
    <3>1. VisibleRooms = <<>>
      <4>1. ElementsOf(VisibleRooms) = {}
        BY <2>1, <2>3
      <4> QED BY <2>1, <4>1, EmptyOrNot
    <3> QED BY <2>2, <2>3, <3>1 DEF ShownRoom
  <2>4. CASE InAgenda # {}
    BY <2>2, <2>4 DEF BoardInv, AgendaOK, ShownRoom
  <2> QED BY <2>3, <2>4
<1> QED BY <1>1, <1>2, <1>3 DEF BoardInv, NoticeOK, AgendaOK, BoardCoherent

-----------------------------------------------------------------------------
(* The steps of the lists.                                                  *)

LEMMA BoardStays ==
    /\ SidebarOK /\ UNCHANGED sidebar => SidebarOK'
    /\ ReminderOK /\ UNCHANGED remindedRoomIds => ReminderOK' /\ Reminded' = Reminded
    /\ NoticeOK /\ UNCHANGED <<page, bookmarked, toast, remindedRoomIds>> => NoticeOK'
    /\ AgendaOK /\ UNCHANGED <<page, agendaVars, remindedRoomIds>> => AgendaOK'
<1>1. SidebarOK /\ UNCHANGED sidebar => SidebarOK'
  BY DEF SidebarOK
<1>2. UNCHANGED remindedRoomIds => Reminded' = Reminded
  BY DEF Reminded
<1>3. ReminderOK /\ UNCHANGED remindedRoomIds => ReminderOK'
  BY <1>2 DEF ReminderOK
<1>4. NoticeOK /\ UNCHANGED <<page, bookmarked, toast, remindedRoomIds>> => NoticeOK'
  <2> SUFFICES ASSUME NoticeOK, UNCHANGED <<page, bookmarked, toast, remindedRoomIds>>
               PROVE  NoticeOK'
    OBVIOUS
  <2>1. page' = page /\ bookmarked' = bookmarked /\ toast' = toast /\ Reminded' = Reminded
    BY <1>2
  <2>2. NoticesHold'
    BY <2>1 DEF NoticeOK, NoticesHold
  <2> QED BY <2>1, <2>2 DEF NoticeOK, NoToast
<1>5. UNCHANGED <<agendaVars, remindedRoomIds>> => InAgenda' = InAgenda
  BY DEF InAgenda, Agenda, agendaVars
<1>6. AgendaOK /\ UNCHANGED <<page, agendaVars, remindedRoomIds>> => AgendaOK'
  BY <1>2, <1>5 DEF AgendaOK, FinishedWereLive, agendaVars
<1> QED BY <1>1, <1>2, <1>3, <1>4, <1>6

\* The reminder of a room is dropped: the others stay, in their order.
LEMMA ReminderDropped ==
    ASSUME ReminderOK, NEW r, remindedRoomIds' = Without(r)
    PROVE  ReminderOK' /\ Reminded' = Reminded \ {r}
<1>1. /\ Without(r) \in Seq(Rooms) /\ NoneTwice(Without(r))
      /\ ElementsOf(Without(r)) = ElementsOf(remindedRoomIds) \cap (Rooms \ {r})
  BY FilteredWell DEF ReminderOK, Without
<1>2. ElementsOf(remindedRoomIds) = Reminded /\ Reminded \subseteq Rooms
  BY DEF ElementsOf, Reminded, ReminderOK
<1>3. Reminded' = ElementsOf(remindedRoomIds')
  BY DEF Reminded, ElementsOf
<1>4. Reminded' = Reminded \ {r}
  BY <1>1, <1>2, <1>3
<1> QED BY <1>1, <1>4 DEF ReminderOK

LEMMA ReminderAdded ==
    ASSUME ReminderOK, NEW r \in Upcoming, r \notin Reminded,
           remindedRoomIds' = Append(remindedRoomIds, r)
    PROVE  ReminderOK' /\ Reminded' = Reminded \cup {r}
<1> DEFINE s == remindedRoomIds
           t == Append(s, r)
<1>1. s \in Seq(Rooms) /\ NoneTwice(s) /\ \A i \in DOMAIN s : s[i] # r
  BY DEF ReminderOK, Reminded
<1>2. r \in Rooms
  BY DEF Upcoming
<1>3. /\ t \in Seq(Rooms) /\ Len(s) \in Nat /\ DOMAIN s = 1 .. Len(s)
      /\ DOMAIN t = 1 .. (Len(s) + 1) /\ t[Len(s) + 1] = r
      /\ \A i \in 1 .. Len(s) : t[i] = s[i]
  BY <1>1, <1>2
<1>4. Reminded = {s[i] : i \in DOMAIN s} /\ Reminded' = {t[i] : i \in DOMAIN t}
  BY DEF Reminded
<1> HIDE DEF s, t
<1>5. \A i \in DOMAIN t : i \in DOMAIN s \/ i = Len(s) + 1
  BY <1>3
<1>6. Len(s) + 1 \in DOMAIN t /\ DOMAIN s \subseteq DOMAIN t
  BY <1>3
<1>7. Reminded' = Reminded \cup {r}
  BY <1>3, <1>4, <1>5, <1>6
<1>8. NoneTwice(t)
  BY <1>1, <1>3, <1>5 DEF NoneTwice
<1> QED BY <1>3, <1>7, <1>8 DEF ReminderOK, t, s

\* handleUpcomingReminder: what the notice says is so.
LEMMA UpcomingKeepsInv ==
    ASSUME BoardInv, NEW r \in Rooms, UpcomingReminder(r)
    PROVE  BoardInv'
<1>1. /\ page = "room" /\ UNCHANGED <<page, agendaVars, sidebar, bookmarked>>
      /\ r \in Upcoming /\ ToggleReminder(r)
      /\ toast' = [room |-> r, says |-> IF r \in Reminded THEN "not reminded" ELSE "reminded"]
  BY DEF UpcomingReminder, InSidebar
<1>2. ReminderOK /\ NoticeOK /\ AgendaOK /\ SidebarOK
  BY DEF BoardInv
<1>3. /\ ReminderOK'
      /\ Reminded' = IF r \in Reminded THEN Reminded \ {r} ELSE Reminded \cup {r}
  BY <1>1, <1>2, ReminderDropped, ReminderAdded DEF ToggleReminder
<1>4. NoticeOK'
  BY <1>1, <1>2, <1>3 DEF NoticeOK, NoticesHold
<1>5. AgendaOK'
  BY <1>1, <1>2 DEF AgendaOK, FinishedWereLive, agendaVars
<1> QED BY <1>1, <1>2, <1>3, <1>4, <1>5, BoardStays DEF BoardInv

LEMMA SidebarKeepsInv ==
    BoardInv /\ (\/ TopicsDrawer \/ TopicRooms
                 \/ \E m \in {"cards", "list"} : ChooseMode(m)) => BoardInv'
<1> SUFFICES ASSUME BoardInv PROVE (\/ TopicsDrawer \/ TopicRooms
                                    \/ \E m \in {"cards", "list"} : ChooseMode(m)) => BoardInv'
  OBVIOUS
<1>1. ASSUME NEW s, SidebarBecomes(s),
             s \in [mode : {"cards", "list"}, open : BOOLEAN, search : BOOLEAN,
                    filters : SUBSET TopicTags]
      PROVE  BoardInv'
  <2>1. SidebarOK'
    BY <1>1 DEF SidebarBecomes, SidebarOK
  <2> QED BY <1>1, <2>1, BoardStays DEF SidebarBecomes, InSidebar, BoardInv
<1>2. sidebar \in [mode : {"cards", "list"}, open : BOOLEAN, search : BOOLEAN,
                   filters : SUBSET TopicTags]
  BY DEF BoardInv, SidebarOK
<1>3. TopicsDrawer => BoardInv'
  <2>1. OpenTopics => BoardInv'
    BY <1>1, <1>2 DEF OpenTopics
  <2>2. CloseTopics => BoardInv'
    BY <1>1, <1>2 DEF CloseTopics
  <2>3. SearchRooms => BoardInv'
    BY <1>1, <1>2 DEF SearchRooms
  <2>4. ClearTopicFilters => BoardInv'
    BY <1>1, <1>2 DEF ClearTopicFilters
  <2>5. ASSUME NEW t \in TopicTags, ToggleTopicFilter(t) PROVE BoardInv'
    BY <1>1, <1>2, <2>5 DEF ToggleTopicFilter
  <2> QED BY <2>1, <2>2, <2>3, <2>4, <2>5 DEF TopicsDrawer
<1>4. ASSUME NEW r \in Rooms, NEW eager \in BOOLEAN, TopicRoomBookmark(r, eager)
      PROVE  BoardInv'
  <2>1. /\ page = "room" /\ UNCHANGED <<page, agendaVars, remindedRoomIds, sidebar>>
        /\ bookmarked' = IF r \in bookmarked THEN bookmarked \ {r} ELSE bookmarked \cup {r}
        /\ toast'.room = r /\ toast'.says = IF eager /\ r \notin bookmarked THEN "saved"
                                            ELSE "not saved"
    BY <1>4 DEF TopicRoomBookmark, InSidebar
  <2>2. NoticeOK'
    BY <2>1 DEF BoardInv, NoticeOK, NoticesHold
  <2> QED BY <2>1, <2>2, BoardStays DEF BoardInv
<1>5. ASSUME NEW m \in {"cards", "list"}, ChooseMode(m) PROVE BoardInv'
  BY <1>1, <1>2, <1>5 DEF ChooseMode
<1> QED BY <1>3, <1>4, <1>5 DEF TopicRooms

\* Only a live room of the user's is finished, whatever reminders there are.
LEMMA FinishingKeepsInv ==
    ASSUME BoardInv, NEW r \in Rooms, page = "my-room", UNCHANGED <<page, sidebarVars>>,
           CanFinish(r), FinishRoom(r)
    PROVE  BoardInv'
<1>1. /\ finished' = finished \cup {r}
      /\ UNCHANGED <<remindedRoomIds, removed, boardTab, selected>>
  BY DEF FinishRoom
<1>2. SidebarOK' /\ ReminderOK' /\ Reminded' = Reminded /\ NoticeOK'
  BY <1>1, BoardStays DEF BoardInv, sidebarVars
<1>3. FinishedWereLive'
  <2>1. CASE r \in finished
    BY <1>1, <2>1 DEF BoardInv, AgendaOK, FinishedWereLive
  <2>2. CASE r \notin finished
    <3>1. Status[r] = "live" /\ ~(r \notin Reminded /\ r \in SeedScheduled)
          /\ (r \in Reminded \/ r \in SeedOwn)
      BY <2>2 DEF CanFinish, AgendaStatus, Mine
    <3>2. r \notin Reminded
      BY <3>1 DEF BoardInv, ReminderOK, Upcoming
    <3> QED BY <1>1, <3>1, <3>2 DEF BoardInv, AgendaOK, FinishedWereLive
  <2> QED BY <2>1, <2>2
<1>4. InAgenda' = InAgenda
  BY <1>1 DEF InAgenda, Agenda
<1>5. AgendaOK'
  BY <1>1, <1>2, <1>3, <1>4 DEF BoardInv, AgendaOK
<1> QED BY <1>2, <1>5 DEF BoardInv

\* removeRoom: the selection moves to a room the board still lists.
LEMMA RemovingKeepsInv ==
    ASSUME BoardInv, NEW r \in Rooms, RemoveRoom(r)
    PROVE  BoardInv'
<1> DEFINE others == Filtered(Agenda, Rooms \ {r})
<1>1. /\ page = "my-room" /\ UNCHANGED <<page, sidebarVars, finished, boardTab>>
      /\ r \in ElementsOf(VisibleRooms)
      /\ remindedRoomIds' = Without(r) /\ removed' = removed \cup {r}
      /\ selected' = IF selected # r THEN selected
                     ELSE IF others # <<>> THEN others[1] ELSE Agenda[1]
  BY DEF RemoveRoom, Card, RemoveReminder, ElementsOf
<1>2. ReminderOK' /\ Reminded' = Reminded \ {r}
  BY <1>1, ReminderDropped DEF BoardInv
<1>3. SidebarOK'
  BY <1>1, BoardStays DEF BoardInv, sidebarVars
<1>4. NoticeOK'
  <2>1. toast = NoToast /\ toast' = toast /\ bookmarked' = bookmarked
    BY <1>1 DEF BoardInv, NoticeOK, sidebarVars
  <2>2. toast.says = "nothing"
    BY <2>1 DEF NoToast
  <2> QED BY <1>1, <2>1, <2>2 DEF BoardInv, NoticeOK, NoticesHold
<1>5. Agenda \in Seq(Rooms) /\ InAgenda = (Seeded \cup Reminded) \ removed
      /\ ElementsOf(Agenda) = InAgenda
  BY AgendaIs DEF BoardInv, ReminderOK, InAgenda, ElementsOf
<1>6. InAgenda' = InAgenda \ {r}
  BY <1>1, <1>2, <1>5, AgendaIs DEF ReminderOK
<1>7. others \in Seq(Rooms) /\ ElementsOf(others) = InAgenda \cap (Rooms \ {r})
  BY <1>5, FilteredWell
<1>8. r \in InAgenda
  BY <1>1, VisibleInAgenda DEF BoardInv
<1>9. selected' \in Rooms /\ (selected' \in InAgenda' \/ InAgenda' = {})
  <2>0. InAgenda \subseteq Rooms
    BY <1>5 DEF ElementsOf
  <2>1. CASE selected # r
    BY <1>1, <1>6, <2>1 DEF BoardInv, AgendaOK
  <2>2. CASE selected = r /\ others # <<>>
    <3>1. others[1] \in ElementsOf(others) /\ selected' = others[1]
      <4>1. selected' = others[1]
        BY <1>1, <2>2
      <4> HIDE DEF others
      <4>2. 1 \in DOMAIN others
        BY <1>7, <2>2
      <4> QED BY <4>1, <4>2 DEF ElementsOf
    <3> HIDE DEF others
    <3> QED BY <1>6, <1>7, <2>0, <3>1
  <2>3. CASE selected = r /\ others = <<>>
    <3>1. Agenda[1] \in Rooms /\ selected' = Agenda[1]
      <4>1. selected' = Agenda[1]
        BY <1>1, <2>3
      <4>2. Agenda # <<>>
        BY <1>5, <1>8 DEF ElementsOf
      <4> QED BY <1>5, <4>1, <4>2
    <3>2. ElementsOf(others) = {}
      BY <2>3 DEF ElementsOf
    <3> HIDE DEF others
    <3> QED BY <1>6, <1>7, <2>0, <3>1, <3>2
  <2> QED BY <2>1, <2>2, <2>3
<1>10. AgendaOK'
  BY <1>1, <1>2, <1>9 DEF BoardInv, AgendaOK, FinishedWereLive
<1> QED BY <1>1, <1>2, <1>3, <1>4, <1>10 DEF BoardInv

LEMMA FreshBoardOK ==
    ASSUME ReminderOK, page' \in Pages, FreshBoard, UNCHANGED remindedRoomIds
    PROVE  BoardInv'
<1>1. ReminderOK' /\ Reminded' = Reminded
  BY BoardStays
<1>2. SidebarOK'
  BY DEF FreshBoard, ClosedSidebar, SidebarOK
<1>3. NoticeOK'
  BY DEF FreshBoard, NoToast, NoticeOK, NoticesHold
<1>4. AgendaSeed[1] \in Seeded /\ AgendaSeed[1] \in Rooms
  BY BoardAssumption DEF Seeded
<1>5. InAgenda' = (Seeded \cup Reminded') \ removed'
  BY <1>1, AgendaIs DEF ReminderOK
<1>6. AgendaOK'
  BY <1>4, <1>5 DEF FreshBoard, AgendaOK, FinishedWereLive, BoardTabs
<1> QED BY <1>1, <1>2, <1>3, <1>6 DEF BoardInv

LEMMA BoardStarts == page \in Pages /\ BoardInit => BoardInv
<1> SUFFICES ASSUME page \in Pages, BoardInit PROVE BoardInv
  OBVIOUS
<1>1. remindedRoomIds = <<>> /\ Reminded = {} /\ ReminderOK
  BY DEF BoardInit, Reminded, ReminderOK, NoneTwice
<1>2. SidebarOK
  BY DEF BoardInit, ClosedSidebar, SidebarOK
<1>3. NoticeOK
  BY DEF BoardInit, NoToast, NoticeOK, NoticesHold
<1>4. AgendaSeed[1] \in Seeded /\ AgendaSeed[1] \in Rooms
  BY BoardAssumption DEF Seeded
<1>5. InAgenda = (Seeded \cup Reminded) \ removed
  BY <1>1, AgendaIs DEF ReminderOK
<1>6. AgendaOK
  BY <1>1, <1>4, <1>5 DEF BoardInit, AgendaOK, FinishedWereLive, BoardTabs
<1> QED BY <1>1, <1>2, <1>3, <1>6 DEF BoardInv

LEMMA BoardInductive == BoardInv /\ [BoardNext]_BoardSubscript => BoardInv'
<1> SUFFICES ASSUME BoardInv, [BoardNext]_BoardSubscript PROVE BoardInv'
  OBVIOUS
<1>1. CASE AgendaCards
  <2>1. PICK r \in Rooms : SelectRoom(r) \/ RemoveRoom(r) \/ FinishFromCard(r)
    BY <1>1 DEF AgendaCards
  <2>2. CASE SelectRoom(r)
    <3>1. /\ page = "my-room" /\ r \in ElementsOf(VisibleRooms) /\ selected' = r
          /\ UNCHANGED <<page, sidebarVars, remindedRoomIds, removed, finished, boardTab>>
      BY <2>2 DEF SelectRoom, Card, ElementsOf
    <3>2. r \in InAgenda
      BY <3>1, VisibleInAgenda DEF BoardInv
    <3>3. InAgenda' = InAgenda
      BY <3>1 DEF InAgenda, Agenda
    <3>4. SidebarOK' /\ ReminderOK' /\ Reminded' = Reminded /\ NoticeOK'
      BY <3>1, BoardStays DEF BoardInv, sidebarVars
    <3>5. AgendaOK'
      BY <3>1, <3>2, <3>3, <3>4 DEF BoardInv, AgendaOK, FinishedWereLive
    <3> QED BY <3>1, <3>4, <3>5 DEF BoardInv
  <2>3. CASE FinishFromCard(r)
    BY <2>3, FinishingKeepsInv DEF FinishFromCard, Card
  <2> QED BY <2>1, <2>2, <2>3, RemovingKeepsInv
<1>2. CASE RoomInfoPanel
  <2>1. /\ page = "my-room" /\ UNCHANGED <<page, sidebarVars>>
        /\ CanFinish(ShownRoom) /\ FinishRoom(ShownRoom) /\ ShownRoom # NoRoom
    BY <1>2 DEF RoomInfoPanel, FinishFromInfo
  <2>2. ShownRoom \in Rooms
    <3>1. SelectionHolds /\ selected \in Rooms
      BY BoardInvSuffices DEF BoardCoherent, BoardInv, AgendaOK
    <3> QED BY <2>1, <3>1 DEF SelectionHolds
  <2> QED BY <2>1, <2>2, FinishingKeepsInv
<1>3. CASE \E t \in BoardTabs : ChooseBoardTab(t)
  <2>1. /\ page = "my-room" /\ boardTab' \in BoardTabs
        /\ UNCHANGED <<page, sidebarVars, remindedRoomIds, removed, finished, selected>>
    BY <1>3 DEF ChooseBoardTab
  <2>2. SidebarOK' /\ ReminderOK' /\ Reminded' = Reminded /\ NoticeOK'
    BY <2>1, BoardStays DEF BoardInv, sidebarVars
  <2>3. InAgenda' = InAgenda
    BY <2>1 DEF InAgenda, Agenda
  <2>4. AgendaOK'
    BY <2>1, <2>2, <2>3 DEF BoardInv, AgendaOK, FinishedWereLive
  <2> QED BY <2>1, <2>2, <2>4 DEF BoardInv
<1>4. CASE UpcomingRooms
  BY <1>4, UpcomingKeepsInv DEF UpcomingRooms
<1>5. CASE \E to \in Pages : ChangePage(to) /\ BoardGoTo(to)
  BY <1>5, FreshBoardOK DEF ChangePage, BoardGoTo, BoardInv
<1>6. CASE UNCHANGED BoardSubscript
  <2>1. UNCHANGED <<page, sidebar, bookmarked, toast, remindedRoomIds, agendaVars>>
    BY <1>6 DEF BoardSubscript, boardVars, sidebarVars
  <2> QED BY <2>1, BoardStays DEF BoardInv
<1> QED BY <1>1, <1>2, <1>3, <1>4, <1>5, <1>6, SidebarKeepsInv DEF BoardNext, BoardStep

\* The two pages agree, for any catalogue, seeds and topics: every room is
\* reminded of once and upcoming, none the user took off the board is, only
\* live rooms of the user's were finished, the notices are true, and the board
\* shows a room it lists (room-reminder-store.ts, live-sidebar.tsx,
\* my-room/page.tsx).
THEOREM BoardStaysCoherent == BoardSpec => []BoardCoherent
BY BoardStarts, BoardInductive, BoardInvSuffices, PTL DEF BoardSpec, BoardSubscript

-----------------------------------------------------------------------------
(***************************************************************************)
(* The client implements each of its components: a turn of one component   *)
(* is a step of that component and a stuttering step of every other, a     *)
(* change of page is a change of page for all of them.                     *)
(***************************************************************************)

\* The modality guards of the client only forbid handlers: a turn of the chats
\* is a step of the chats' own specification.
LEMMA ChatTurns == ChatTurn => ChatStep /\ UNCHANGED page
<1>1. ChatOpens => \E p \in Participants : OpenChat(p)
  BY DEF ChatOpens
<1>2. ChatHandlers => ChatStep
  BY DEF ChatHandlers, ChatStep
<1> QED BY <1>1, <1>2 DEF ChatTurn, ChatStep

\* A step of the client, as the chats see it (listener-panel.tsx).
LEMMA ChatSteps == [ClientNext]_clientVars => [ChatNext]_<<page, chatVars>>
<1> SUFFICES ASSUME [ClientNext]_clientVars PROVE [ChatNext]_<<page, chatVars>>
  OBVIOUS
<1>1. CASE ChatTurn
  BY <1>1, ChatTurns DEF ChatNext
<1>2. CASE PanelTurn \/ StageTurn \/ BoardTurn \/ ProfileTurn \/ FrameTurn
  BY <1>2 DEF PanelTurn, StageTurn, BoardTurn, ProfileTurn, FrameTurn
<1>3. CASE \E to \in Pages : Navigate(to)
  BY <1>3 DEF Navigate, ChatNext
<1>4. CASE UNCHANGED clientVars
  BY <1>4 DEF clientVars
<1> QED BY <1>1, <1>2, <1>3, <1>4 DEF ClientNext

\* As the side panel sees it (room-side-panel.tsx).
LEMMA PanelSteps == [ClientNext]_clientVars => [PanelNext]_<<page, panelVars>>
<1> SUFFICES ASSUME [ClientNext]_clientVars PROVE [PanelNext]_<<page, panelVars>>
  OBVIOUS
<1>1. CASE PanelTurn
  BY <1>1 DEF PanelTurn, PanelNext
<1>2. CASE ChatTurn \/ StageTurn \/ BoardTurn \/ ProfileTurn \/ FrameTurn
  BY <1>2 DEF ChatTurn, StageTurn, BoardTurn, ProfileTurn, FrameTurn
<1>3. CASE \E to \in Pages : Navigate(to)
  BY <1>3 DEF Navigate, PanelNext
<1>4. CASE UNCHANGED clientVars
  BY <1>4 DEF clientVars
<1> QED BY <1>1, <1>2, <1>3, <1>4 DEF ClientNext

\* As the stage sees it (stage-panel.tsx, speaker-store.ts).
LEMMA StageSteps == [ClientNext]_clientVars => [StageNext]_<<page, stageVars>>
<1> SUFFICES ASSUME [ClientNext]_clientVars PROVE [StageNext]_<<page, stageVars>>
  OBVIOUS
<1>1. CASE StageTurn
  BY <1>1 DEF StageTurn, StageHandlers, StageStep, StageNext
<1>2. CASE ChatTurn \/ PanelTurn \/ BoardTurn \/ ProfileTurn \/ FrameTurn
  BY <1>2 DEF ChatTurn, PanelTurn, BoardTurn, ProfileTurn, FrameTurn
<1>3. CASE \E to \in Pages : Navigate(to)
  BY <1>3 DEF Navigate, StageNext
<1>4. CASE UNCHANGED clientVars
  BY <1>4 DEF clientVars
<1> QED BY <1>1, <1>2, <1>3, <1>4 DEF ClientNext

\* As the lists of rooms see it (live-sidebar.tsx, my-room/page.tsx).
LEMMA BoardSteps == [ClientNext]_clientVars => [BoardNext]_<<page, boardVars>>
<1> SUFFICES ASSUME [ClientNext]_clientVars PROVE [BoardNext]_<<page, boardVars>>
  OBVIOUS
<1>1. CASE BoardTurn
  BY <1>1 DEF BoardTurn, BoardNext
<1>2. CASE ChatTurn \/ PanelTurn \/ StageTurn \/ ProfileTurn \/ FrameTurn
  BY <1>2 DEF ChatTurn, PanelTurn, StageTurn, ProfileTurn, FrameTurn
<1>3. CASE \E to \in Pages : Navigate(to)
  BY <1>3 DEF Navigate, BoardNext
<1>4. CASE UNCHANGED clientVars
  BY <1>4 DEF clientVars
<1> QED BY <1>1, <1>2, <1>3, <1>4 DEF ClientNext

\* As the profile page sees it (profile/page.tsx).
LEMMA ProfileSteps == [ClientNext]_clientVars => [ProfileNext]_<<page, micVars>>
<1> SUFFICES ASSUME [ClientNext]_clientVars PROVE [ProfileNext]_<<page, micVars>>
  OBVIOUS
<1>1. CASE ProfileTurn
  BY <1>1 DEF ProfileTurn, ProfileNext
<1>2. CASE ChatTurn \/ PanelTurn \/ StageTurn \/ BoardTurn \/ FrameTurn
  BY <1>2 DEF ChatTurn, PanelTurn, StageTurn, BoardTurn, FrameTurn
<1>3. CASE \E to \in Pages : Navigate(to)
  BY <1>3 DEF Navigate, ProfileNext
<1>4. CASE UNCHANGED clientVars
  BY <1>4 DEF clientVars
<1> QED BY <1>1, <1>2, <1>3, <1>4 DEF ClientNext

\* As the frame of the room page sees it (live-room-page.tsx, top-bar.tsx).
LEMMA FrameSteps == [ClientNext]_clientVars => [FrameNext]_<<page, frameVars>>
<1> SUFFICES ASSUME [ClientNext]_clientVars PROVE [FrameNext]_<<page, frameVars>>
  OBVIOUS
<1>1. CASE FrameTurn
  BY <1>1 DEF FrameTurn, HeaderHandlers, FrameStep, FrameNext
<1>2. CASE ChatTurn \/ PanelTurn \/ StageTurn \/ BoardTurn \/ ProfileTurn
  BY <1>2 DEF ChatTurn, PanelTurn, StageTurn, BoardTurn, ProfileTurn
<1>3. CASE \E to \in Pages : Navigate(to)
  BY <1>3 DEF Navigate, FrameNext
<1>4. CASE UNCHANGED clientVars
  BY <1>4 DEF clientVars
<1> QED BY <1>1, <1>2, <1>3, <1>4 DEF ClientNext

\* The client behaves as its components' specifications say, for any people,
\* rooms and devices: what is proved or checked of a component alone holds of
\* it in the client.
THEOREM ClientImplementsParts == ClientSpec => PartsImplemented
<1>1. ClientInit =>
        /\ page \in Pages
        /\ ChatInit /\ PanelInit /\ StageInit /\ BoardInit /\ ProfileInit /\ FrameInit
  BY DEF ClientInit
<1>2. ClientSpec => ChatSpec
  BY <1>1, ChatSteps, PTL DEF ClientSpec, ChatSpec
<1>3. ClientSpec => PanelSpec
  BY <1>1, PanelSteps, PTL DEF ClientSpec, PanelSpec
<1>4. ClientSpec => StageSpec
  BY <1>1, StageSteps, PTL DEF ClientSpec, StageSpec
<1>5. ClientSpec => BoardSpec
  BY <1>1, BoardSteps, PTL DEF ClientSpec, BoardSpec
<1>6. ClientSpec => ProfileSpec
  BY <1>1, ProfileSteps, PTL DEF ClientSpec, ProfileSpec
<1>7. ClientSpec => FrameSpec
  BY <1>1, FrameSteps, PTL DEF ClientSpec, FrameSpec
<1> QED BY <1>2, <1>3, <1>4, <1>5, <1>6, <1>7 DEF PartsImplemented

\* What the components' proofs establish holds of the whole client: the chats
\* and their badges, the stage, the lists of rooms and the microphone test stay
\* coherent, and their steps do what their action properties say, whatever the
\* other components do.
THEOREM ClientStaysCoherent ==
    ClientSpec => /\ [](ChatCoherent /\ BadgeCountsUnanswered /\ StageCoherent)
                  /\ [](BoardCoherent /\ TestingHasStream)
                  /\ RequestsEndOnStage /\ AnnouncedUntilTimeout /\ StrayOnlyByOverlap
<1>1. ClientSpec => ChatSpec /\ StageSpec /\ BoardSpec /\ ProfileSpec
  BY ClientImplementsParts DEF PartsImplemented
<1>2. ClientSpec => []ChatCoherent /\ []BadgeCountsUnanswered /\ []StageCoherent
  BY <1>1, ChatsStayCoherent, BadgeIsTrue, StageStaysCoherent
<1>3. ClientSpec => []BoardCoherent /\ []TestingHasStream
  BY <1>1, BoardStaysCoherent, TestsHaveStreams
<1>4. ClientSpec => RequestsEndOnStage /\ AnnouncedUntilTimeout /\ StrayOnlyByOverlap
  BY <1>1, RequestsEnd, AnnouncementsEnd, StraysComeOfOverlaps
<1> QED BY <1>2, <1>3, <1>4, PTL

\* In both chats a count is what the others reacted plus the user's own
\* reaction, after any taking back and replacing on any number of messages
\* (toggleP2PEmojiReaction, toggleRoomMessageReaction).
THEOREM ReactionsStayTrue == ClientSpec => []ReactionsAddUp
<1>1. TalkInv /\ PanelInv => ReactionsAddUp
  BY PanelInvSuffices DEF TalkInv, TalkOK, ReactionsAddUp
<1>2. ClientSpec => ChatSpec /\ PanelSpec
  BY ClientImplementsParts DEF PartsImplemented
<1> QED BY <1>1, <1>2, TalkInvariant, PanelInvariant, PTL

\* The side panel and the frame stay coherent on every page and through every
\* change of page (PanelCoherent, FrameCoherent).
THEOREM PageStaysCoherent == ClientSpec => []PageCoherent
<1>1. PanelInv /\ FrameCoherent => PageCoherent
  BY PanelInvSuffices DEF PageCoherent
<1>2. ClientSpec => PanelSpec /\ FrameSpec
  BY ClientImplementsParts DEF PartsImplemented
<1> QED BY <1>1, <1>2, PanelInvariant, FrameStaysCoherent, PTL

=============================================================================
