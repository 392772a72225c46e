----------------------------- MODULE RoomBoard -----------------------------
(***************************************************************************)
(* The lists of rooms: the sidebar of the live room page with its upcoming *)
(* rooms and its topics drawer (live-sidebar.tsx), the board of the page   *)
(* "My Rooms" (my-room/page.tsx), and the store of reminders that joins    *)
(* the two (room-reminder-store.ts).  Reminders are set in the sidebar and *)
(* show, or are dropped, on the board; what the board removes or finishes  *)
(* is forgotten when the user leaves it.                                   *)
(***************************************************************************)
EXTENDS WaveCastPage, Naturals, Sequences, FiniteSets

CONSTANTS Rooms,         \* the catalogue (mock-data.ts)
          Status,        \* each room's status in it
          Topic,         \* each room's topic, as its set of words
          AgendaSeed,    \* the rooms the board starts with, in order
          SeedKind,      \* "mine", "market" or "reminder" for each of those
          SeedOwn,       \* those of them the board shows as the user's
          SeedScheduled, \* those it shows as scheduled, whatever the catalogue says
          TopicTags,     \* the topics of the drawer, as sets of words
          Found,         \* the rooms that match the searched term
          NoRoom

Seeded == {AgendaSeed[i] : i \in DOMAIN AgendaSeed}
Upcoming == {r \in Rooms : Status[r] = "scheduled"}

ASSUME BoardAssumption ==
    /\ Status \in [Rooms -> {"live", "scheduled", "finished"}]
    /\ AgendaSeed \in Seq(Rooms) /\ AgendaSeed # <<>>
    /\ SeedKind \in [Seeded -> {"mine", "market", "reminder"}]
    /\ SeedOwn \subseteq Seeded /\ SeedScheduled \subseteq Seeded
    /\ Found \subseteq Rooms
    /\ NoRoom \notin Rooms

VARIABLES remindedRoomIds,   \* the reminder store, in the order they were set
          sidebar,           \* mode, topics drawer, search, filters
          bookmarked,        \* the sidebar's bookmarks
          toast,             \* what the last notice about a room said
          removed, finished, \* the board's removed and finished rooms
          boardTab, selected

sidebarVars == <<sidebar, bookmarked, toast>>
agendaVars  == <<removed, finished, boardTab, selected>>
boardVars   == <<remindedRoomIds, sidebarVars, agendaVars>>

\* Array.filter: the elements of s that are in S, in their order (SelectSeq
\* as a recursive function, whose equation a proof can use).
Filtered(s, S) ==
    LET kept[i \in 0 .. Len(s)] ==
            IF i = 0 THEN <<>>
            ELSE IF s[i] \in S THEN Append(kept[i - 1], s[i])
            ELSE kept[i - 1]
    IN  kept[Len(s)]

Reminded == {remindedRoomIds[i] : i \in DOMAIN remindedRoomIds}

NoToast == [room |-> NoRoom, says |-> "nothing"]

ClosedSidebar == [mode |-> "list", open |-> FALSE, search |-> FALSE, filters |-> {}]

(***************************************************************************)
(* The reminder store.                                                     *)
(***************************************************************************)

Without(r) == Filtered(remindedRoomIds, Rooms \ {r})

ToggleReminder(r) ==
    remindedRoomIds' = IF r \in Reminded THEN Without(r) ELSE Append(remindedRoomIds, r)

RemoveReminder(r) == remindedRoomIds' = Without(r)

(***************************************************************************)
(* The sidebar.                                                            *)
(***************************************************************************)

Related ==
    [tech      |-> {"tech", "talk"},
     business  |-> {"business", "entrepreneur", "startup", "vc"},
     education |-> {"education", "design"},
     music     |-> {"music", "marketing"},
     lifestyle |-> {"lifestyle", "productivity"}]

Keys == <<"tech", "business", "education", "music", "lifestyle">>

\* topicMatchesRoom: one contains the other, or the first of the keys the
\* topic contains is related to the room's topic.
TopicMatches(t, roomTopic) ==
    \/ t \subseteq roomTopic \/ roomTopic \subseteq t
    \/ \E i \in DOMAIN Keys :
          /\ Keys[i] \in t
          /\ \A j \in 1 .. (i - 1) : Keys[j] \notin t
          /\ Related[Keys[i]] \cap roomTopic # {}

\* filteredRoomResults
FilteredRooms ==
    {r \in Rooms :
        /\ sidebar.filters = {} \/ \E t \in sidebar.filters : TopicMatches(t, Topic[r])
        /\ sidebar.search => r \in Found}

InSidebar == page = "room" /\ UNCHANGED <<page, agendaVars>>

SidebarBecomes(s) ==
    InSidebar /\ sidebar' = s /\ UNCHANGED <<remindedRoomIds, bookmarked, toast>>

ChooseMode(m) ==
    ~sidebar.open /\ sidebar.mode # m /\ SidebarBecomes([sidebar EXCEPT !.mode = m])

\* handleUpcomingReminder: the notice is worded from the list on screen.
UpcomingReminder(r) ==
    /\ InSidebar /\ ~sidebar.open
    /\ r \in Upcoming
    /\ ToggleReminder(r)
    /\ toast' = [room |-> r, says |-> IF r \in Reminded THEN "not reminded" ELSE "reminded"]
    /\ UNCHANGED <<sidebar, bookmarked>>

\* handleTopicsMenuOpenChange: closing clears the search and keeps the filters.
OpenTopics  == ~sidebar.open /\ SidebarBecomes([sidebar EXCEPT !.open = TRUE])
CloseTopics ==
    sidebar.open /\ SidebarBecomes([sidebar EXCEPT !.open = FALSE, !.search = FALSE])

SearchRooms == sidebar.open /\ SidebarBecomes([sidebar EXCEPT !.search = ~@])

ToggleTopicFilter(t) ==
    /\ sidebar.open
    /\ SidebarBecomes([sidebar EXCEPT !.filters = IF t \in @ THEN @ \ {t} ELSE @ \cup {t}])

ClearTopicFilters ==
    sidebar.open /\ sidebar.filters # {} /\ SidebarBecomes([sidebar EXCEPT !.filters = {}])

\* handleTopicRoomBookmark: the notice is worded by a flag the state updater
\* sets.  React may run the updater at once (eager) or with the next render,
\* when the notice has been worded with the flag still false.
TopicRoomBookmark(r, eager) ==
    /\ InSidebar /\ sidebar.open
    /\ r \in FilteredRooms
    /\ bookmarked' = IF r \in bookmarked THEN bookmarked \ {r} ELSE bookmarked \cup {r}
    /\ toast' = [room |-> r, says |-> IF eager /\ r \notin bookmarked THEN "saved"
                                      ELSE "not saved"]
    /\ UNCHANGED <<remindedRoomIds, sidebar>>

(***************************************************************************)
(* The board.                                                              *)
(***************************************************************************)

\* agendaRooms: the seeds, then the reminded rooms that are not among them,
\* without those removed.
Agenda ==
    Filtered(AgendaSeed \o Filtered(remindedRoomIds, Rooms \ Seeded), Rooms \ removed)

InAgenda == {Agenda[i] : i \in DOMAIN Agenda}

\* A reminder of a seeded room takes the seed's place: its kind, and the
\* status and the owner (the user) of the catalogue.
Kind(r) == IF r \in Reminded THEN "reminder" ELSE SeedKind[r]

Mine(r) == r \in Reminded \/ r \in SeedOwn

AgendaStatus(r) ==
    IF r \in finished THEN "finished"
    ELSE IF r \notin Reminded /\ r \in SeedScheduled THEN "scheduled"
    ELSE Status[r]

VisibleRooms ==
    IF boardTab = "all" THEN Agenda
    ELSE Filtered(Agenda, {r \in InAgenda : Kind(r) = boardTab})

\* selectedRoom: the one chosen, else the first visible, else the first.
ShownRoom ==
    IF selected \in InAgenda THEN selected
    ELSE IF VisibleRooms # <<>> THEN VisibleRooms[1]
    ELSE IF Agenda # <<>> THEN Agenda[1] ELSE NoRoom

\* canFinishActiveRoom: such a card has a finish button, the others one that
\* removes the room.
CanFinish(r) == AgendaStatus(r) = "live" /\ Mine(r)

Card(r) == page = "my-room" /\ UNCHANGED <<page, sidebarVars>>
              /\ \E i \in DOMAIN VisibleRooms : VisibleRooms[i] = r

SelectRoom(r) ==
    /\ Card(r)
    /\ selected' = r
    /\ UNCHANGED <<remindedRoomIds, removed, finished, boardTab>>

\* The room stays selected.
RemoveKeepsSelection(r) ==
    /\ Card(r) /\ ~CanFinish(r)
    /\ RemoveReminder(r)
    /\ removed' = removed \cup {r}
    /\ UNCHANGED <<finished, boardTab, selected>>

\* removeRoom: the reminder goes too; the selection moves to the first other
\* room of the list as it was.
RemoveRoom(r) ==
    /\ Card(r) /\ ~CanFinish(r)
    /\ RemoveReminder(r)
    /\ removed' = removed \cup {r}
    /\ LET others == Filtered(Agenda, Rooms \ {r})
       IN selected' = IF selected # r THEN selected
                      ELSE IF others # <<>> THEN others[1] ELSE Agenda[1]
    /\ UNCHANGED <<finished, boardTab>>

FinishRoom(r) ==
    /\ finished' = finished \cup {r}
    /\ UNCHANGED <<remindedRoomIds, removed, boardTab, selected>>

FinishFromCard(r) == Card(r) /\ CanFinish(r) /\ FinishRoom(r)

\* The button of the information panel, which shows the selected room even
\* when the tab hides its card.
FinishFromInfo ==
    /\ page = "my-room" /\ UNCHANGED <<page, sidebarVars>>
    /\ ShownRoom # NoRoom /\ CanFinish(ShownRoom)
    /\ FinishRoom(ShownRoom)

RoomInfoPanel == FinishFromInfo

BoardTabs == {"all", "mine", "market", "reminder"}

ChooseBoardTab(t) ==
    /\ page = "my-room" /\ UNCHANGED <<page, sidebarVars>>
    /\ boardTab # t /\ boardTab' = t
    /\ UNCHANGED <<remindedRoomIds, removed, finished, selected>>

(***************************************************************************)
(* The pages' parts.                                                       *)
(***************************************************************************)

TopicsDrawer ==
    \/ OpenTopics \/ CloseTopics \/ SearchRooms \/ ClearTopicFilters
    \/ \E t \in TopicTags : ToggleTopicFilter(t)

TopicRooms == \E r \in Rooms, eager \in BOOLEAN : TopicRoomBookmark(r, eager)

UpcomingRooms == \E r \in Rooms : UpcomingReminder(r)

AgendaCards == \E r \in Rooms : SelectRoom(r) \/ RemoveRoom(r) \/ FinishFromCard(r)

FreshBoard ==
    /\ sidebar' = ClosedSidebar /\ bookmarked' = {} /\ toast' = NoToast
    /\ removed' = {} /\ finished' = {} /\ boardTab' = "all"
    /\ selected' = AgendaSeed[1]

BoardGoTo(to) == FreshBoard /\ UNCHANGED remindedRoomIds

BoardInit ==
    /\ remindedRoomIds = <<>>
    /\ sidebar = ClosedSidebar /\ bookmarked = {} /\ toast = NoToast
    /\ removed = {} /\ finished = {} /\ boardTab = "all"
    /\ selected = AgendaSeed[1]

BoardStep ==
    \/ TopicsDrawer \/ TopicRooms \/ UpcomingRooms
    \/ \E m \in {"cards", "list"} : ChooseMode(m)
    \/ AgendaCards \/ RoomInfoPanel
    \/ \E t \in BoardTabs : ChooseBoardTab(t)

BoardNext == BoardStep \/ \E to \in Pages : ChangePage(to) /\ BoardGoTo(to)

BoardSpec == page \in Pages /\ BoardInit /\ [][BoardNext]_<<page, boardVars>>

(***************************************************************************)
(* Properties.                                                             *)
(***************************************************************************)

BoardTypeOK ==
    /\ page \in Pages
    /\ remindedRoomIds \in Seq(Rooms)
    /\ sidebar \in [mode : {"cards", "list"}, open : BOOLEAN, search : BOOLEAN,
                    filters : SUBSET TopicTags]
    /\ bookmarked \subseteq Rooms
    /\ toast.room \in Rooms \cup {NoRoom}
    /\ removed \subseteq Rooms /\ finished \subseteq Rooms
    /\ boardTab \in BoardTabs
    /\ selected \in Rooms

\* A room is reminded of once, and only an upcoming one.
RemindedOnce ==
    /\ \A i, j \in DOMAIN remindedRoomIds : remindedRoomIds[i] = remindedRoomIds[j] => i = j
    /\ Reminded \subseteq Upcoming

\* A room is finished on the board only if the catalogue has it live and the
\* user owns it, through the card or through the panel, and whatever
\* reminders were set or dropped in between.
FinishedWereLive ==
    \A r \in finished : Status[r] = "live" /\ r \in SeedOwn \ SeedScheduled

\* What the last notice said of a reminder is so; of a bookmark, "saved" is
\* so, while "removed" may be said of one just saved (the flag is read before
\* the updater has run).
NoticesHold ==
    LET r == toast.room
    IN /\ toast.says = "reminded" => r \in Reminded
       /\ toast.says = "not reminded" => r \notin Reminded
       /\ toast.says = "saved" => r \in bookmarked

\* While the board lists a room, the information panel shows one it lists,
\* which is the one chosen: removing rooms never leaves it empty or on a
\* room that has gone (the selection of removeRoom, made from the list
\* before the removal).
SelectionHolds ==
    page = "my-room" =>
        IF Agenda = <<>> THEN ShownRoom = NoRoom
        ELSE selected \in InAgenda /\ ShownRoom = selected

\* The two pages agree: types, every room reminded of once and upcoming, no
\* reminder left of a room the user took off the board (removeRoom drops it,
\* and none can be set while the board is shown), what was finished, what the
\* notices say, and the room the information panel shows.
BoardCoherent ==
    /\ BoardTypeOK
    /\ RemindedOnce
    /\ removed \cap Reminded = {}
    /\ FinishedWereLive
    /\ NoticesHold
    /\ SelectionHolds

============================================================================
