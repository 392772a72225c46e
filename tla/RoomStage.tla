----------------------------- MODULE RoomStage -----------------------------
(***************************************************************************)
(* The stage of the live room page (stage-panel.tsx), the buttons for the  *)
(* microphone and the raised hand (listener-panel.tsx), and the store they *)
(* share (speaker-store.ts).  The store outlives the page; who is on stage *)
(* does not: the panel starts from the room's speakers at every visit.  A  *)
(* request is known by its person: the seeded ones are of different people *)
(* and the user's own has a fixed id.                                      *)
(***************************************************************************)
EXTENDS WaveCastPage, Naturals, Sequences, FiniteSets

CONSTANTS RoomSpeakers,     \* who is on stage when the panel is mounted
          RoomListeners,    \* the people the invite menu may offer
          SeedRequests,     \* the people whose requests the store starts with
          Speaking,         \* the people whose data says they speak
          NoOne

Everyone == {RoomSpeakers[i] : i \in DOMAIN RoomSpeakers}
                \cup RoomListeners \cup SeedRequests \cup {Self}

ASSUME StageAssumption ==
    /\ RoomSpeakers \in Seq(Everyone)
    /\ \A i, j \in DOMAIN RoomSpeakers : RoomSpeakers[i] = RoomSpeakers[j] => i = j
    /\ Self \notin Speaking
    /\ NoOne \notin Everyone

VARIABLES micEnabled, requestPending, speakerRequests,  \* speaker store
          onStage,         \* the speakers in the order they came
          inviteMenu,      \* the invite menu is open
          pulse,           \* whose hand the header announces
          pulseTimer,      \* the announcement the running timer will end
          seenRequests     \* the requests the effect has seen

stageVars == <<micEnabled, requestPending, speakerRequests, onStage,
               inviteMenu, pulse, pulseTimer, seenRequests>>

storeVars == <<micEnabled, requestPending, speakerRequests>>

OnStage == {onStage[i] : i \in DOMAIN onStage}

\* The requests the invite menu lists first, and the people it lists next.
RequestQueue == speakerRequests \ OnStage

InviteCandidates == RoomListeners \ OnStage

\* The raised hands shown under the listeners: the user's by the flag, the
\* others' by their requests.
RaisedHands ==
    (speakerRequests \ {Self}) \cup (IF requestPending THEN {Self} ELSE {})

(***************************************************************************)
(* Who speaks, and the cards of the stage.                                 *)
(***************************************************************************)

SelfSpeaks == micEnabled /\ Self \in OnStage

ActiveSpeakers == {p \in OnStage : p \in Speaking \/ (p = Self /\ SelfSpeaks)}

\* focusedSpeaker: the first of the active speakers, asked for when it is the
\* only one.
Focused == CHOOSE p \in ActiveSpeakers : TRUE

\* The card in the large place and those in the row, as the four layouts
\* put them.
Cards ==
    IF SelfSpeaks THEN [large |-> {Self}, row |-> OnStage \ {Self}]
    ELSE IF Cardinality(ActiveSpeakers) = 1
    THEN [large |-> {Focused}, row |-> OnStage \ {Focused}]
    ELSE [large |-> {}, row |-> OnStage]

\* A card has the talking rings.
Talks(p) == p \in ActiveSpeakers /\ (p # Self \/ micEnabled)

\* The line above the cards.
StageHeader ==
    [people |-> Len(onStage), speaking |-> Cardinality(ActiveSpeakers), hand |-> pulse]

(***************************************************************************)
(* Requests and the announcement of a raised hand.                         *)
(***************************************************************************)

InRoom == page = "room" /\ UNCHANGED page

\* The pending requests become rs: the previous effect's timer is cleared;
\* a request not seen before is announced and gets a timer of its own.
RequestsBecome(rs) ==
    /\ speakerRequests' = rs
    /\ seenRequests' = rs
    /\ IF rs \subseteq seenRequests
       THEN /\ UNCHANGED pulse
            /\ pulseTimer' = NoOne
       ELSE \E p \in rs \ seenRequests : pulse' = p /\ pulseTimer' = p

\* A hand that is lowered leaves the flag up.
ToggleKeepsFlag ==
    /\ InRoom /\ ~inviteMenu
    /\ requestPending' = TRUE
    /\ RequestsBecome(IF Self \in speakerRequests THEN speakerRequests \ {Self}
                      ELSE speakerRequests \cup {Self})
    /\ UNCHANGED <<micEnabled, onStage, inviteMenu>>

\* toggleRequest
ToggleRequest ==
    /\ InRoom /\ ~inviteMenu
    /\ requestPending' = (Self \notin speakerRequests)
    /\ RequestsBecome(IF Self \in speakerRequests THEN speakerRequests \ {Self}
                      ELSE speakerRequests \cup {Self})
    /\ UNCHANGED <<micEnabled, onStage, inviteMenu>>

\* The 3.2 s timer.
PulseTimeout ==
    /\ InRoom
    /\ pulseTimer # NoOne
    /\ pulse' = IF pulse = pulseTimer THEN NoOne ELSE pulse
    /\ pulseTimer' = NoOne
    /\ UNCHANGED <<storeVars, onStage, inviteMenu, seenRequests>>

\* addSpeakerToStage: the person comes last and the menu closes.
ComesOnStage(p) ==
    /\ InRoom /\ inviteMenu
    /\ p \notin OnStage
    /\ onStage' = Append(onStage, p)
    /\ inviteMenu' = FALSE
    /\ UNCHANGED micEnabled

\* From the queue: removeSpeakerRequest is called with the request.
ApproveRequest(p) ==
    /\ p \in RequestQueue
    /\ ComesOnStage(p)
    /\ requestPending' = (requestPending /\ p # Self)
    /\ RequestsBecome(speakerRequests \ {p})

\* From the list of listeners: without a request, so that one the listener
\* has made stays in the store.
InviteListener(p) ==
    /\ p \in InviteCandidates
    /\ ComesOnStage(p)
    /\ UNCHANGED <<requestPending, speakerRequests, pulse, pulseTimer, seenRequests>>

\* The menu's state among the dependencies of the effect.
InviteMenuStopsTimer ==
    /\ InRoom
    /\ inviteMenu' = ~inviteMenu
    /\ pulseTimer' = NoOne
    /\ UNCHANGED <<storeVars, onStage, pulse, seenRequests>>

InviteMenu ==
    /\ InRoom
    /\ inviteMenu' = ~inviteMenu
    /\ UNCHANGED <<storeVars, onStage, pulse, pulseTimer, seenRequests>>

ToggleMic ==
    /\ InRoom /\ ~inviteMenu
    /\ micEnabled' = ~micEnabled
    /\ UNCHANGED <<requestPending, speakerRequests, onStage, inviteMenu,
                   pulse, pulseTimer, seenRequests>>

\* The requests forgotten with the page.
GoToForgetsRequests(to) ==
    /\ UNCHANGED micEnabled
    /\ speakerRequests' = {} /\ requestPending' = FALSE
    /\ onStage' = RoomSpeakers
    /\ inviteMenu' = FALSE
    /\ pulse' = NoOne /\ pulseTimer' = NoOne
    /\ seenRequests' = {}

\* Mounting starts from the room's speakers and takes the pending requests
\* as seen; unmounting clears the timer.
StageGoTo(to) ==
    /\ UNCHANGED storeVars
    /\ onStage' = RoomSpeakers
    /\ inviteMenu' = FALSE
    /\ pulse' = NoOne /\ pulseTimer' = NoOne
    /\ seenRequests' = IF to = "room" THEN speakerRequests ELSE {}

StageInit ==
    /\ micEnabled = FALSE
    /\ speakerRequests = SeedRequests
    /\ requestPending = (Self \in SeedRequests)
    /\ onStage = RoomSpeakers
    /\ inviteMenu = FALSE
    /\ pulse = NoOne /\ pulseTimer = NoOne
    /\ seenRequests = IF page = "room" THEN SeedRequests ELSE {}

\* The button among the cards, its menu and the two lists in it.
InviteButton ==
    InviteMenu \/ \E p \in Everyone : ApproveRequest(p) \/ InviteListener(p)

\* The buttons under the listeners: the raised hand and the microphone.
HandButton == ToggleRequest

MicButton == ToggleMic

StageStep == HandButton \/ MicButton \/ InviteButton \/ PulseTimeout

StageNext == StageStep \/ \E to \in Pages : ChangePage(to) /\ StageGoTo(to)

StageSpec == page \in Pages /\ StageInit /\ [][StageNext]_<<page, stageVars>>

(***************************************************************************)
(* Properties.                                                             *)
(***************************************************************************)

StageTypeOK ==
    /\ page \in Pages
    /\ micEnabled \in BOOLEAN /\ requestPending \in BOOLEAN /\ inviteMenu \in BOOLEAN
    /\ speakerRequests \subseteq Everyone /\ seenRequests \subseteq Everyone
    /\ onStage \in Seq(Everyone)
    /\ pulse \in Everyone \cup {NoOne} /\ pulseTimer \in Everyone \cup {NoOne}

\* Nobody stands on stage twice, through whichever list of the menu he came.
OnStageOnce == \A i, j \in DOMAIN onStage : onStage[i] = onStage[j] => i = j

\* The stage and the store agree: the flag of the hand button says whether
\* the user's request is in the store, so that the raised hands shown are
\* the pending requests; what the effect has seen is what is pending; the
\* timer that runs is the announcement's own.
HandsAgree ==
    /\ requestPending <=> Self \in speakerRequests
    /\ RaisedHands = speakerRequests
    /\ page = "room" => seenRequests = speakerRequests
    /\ pulseTimer # NoOne => pulse = pulseTimer

\* Whichever layout is chosen, everyone on stage has one card, the large one
\* goes to somebody who talks, the user talks only with the microphone on, and
\* the header counts the cards that talk.
EveryoneHasACard ==
    /\ Cards.large \cup Cards.row = OnStage
    /\ Cards.large \cap Cards.row = {}
    /\ \A p \in Cards.large : Talks(p)
    /\ Talks(Self) => micEnabled
    /\ StageHeader.speaking = Cardinality({p \in OnStage : Talks(p)})

\* The stage is sound: types, nobody twice, flag and store in agreement, a
\* card for everyone (stage-panel.tsx, speaker-store.ts).
StageCoherent == StageTypeOK /\ OnStageOnce /\ HandsAgree /\ EveryoneHasACard

\* A listener's request leaves the store only with the step that brings him
\* on stage; the user's own only by his hand or in the same way.
RequestsEndOnStage ==
    [][\A p \in speakerRequests \ speakerRequests' :
          \/ p \notin OnStage /\ p \in OnStage'
          \/ p = Self /\ onStage' = onStage]_stageVars

\* The announcement of a raised hand stays until its own timer ends it, a
\* newer one replaces it or the page goes; what can take the timer from it is
\* a change of the requests and nothing else (the cleanup of the effect: the
\* announcement then has nothing to end it).
AnnouncedUntilTimeout ==
    [][pulse # NoOne =>
          /\ pulse' = NoOne => pulseTimer = pulse \/ page' # page
          /\ pulse' = pulse /\ pulseTimer' # pulseTimer =>
                speakerRequests' # speakerRequests]_stageVars

============================================================================
