--------------------------- MODULE RealtimeChannels ---------------------------
(***************************************************************************)
(* Who hears what.  A client is handed the channels it should subscribe to *)
(* when it joins (realtimeDescriptor), asks the API for a token for each   *)
(* (authorizeChannel), and the dispatcher chooses the channels of an event *)
(* (Resolve): three functions in two processes that agree only by writing  *)
(* the same strings.  Between them rooms start and finish, requests are    *)
(* decided, and tokens once issued stay.                                   *)
(*                                                                         *)
(* Users are those with an id: the API refuses a token to anybody else.    *)
(* The way of an event through Kafka is in EventDelivery, the steps of the *)
(* operations that publish it are in the other modules; here an operation  *)
(* is one step, and its event is sent until the dispatcher takes it.       *)
(***************************************************************************)
EXTENDS Naturals, FiniteSets

CONSTANTS
    Users, Rooms, Nobody,
    Moderators,    \* each room's owner, admins and moderators
    MaxTokens,     \* bound: tokens issued
    MaxDocuments,  \* bound: sessions, requests, blocks, recordings stored
    MaxSent        \* bound: events the dispatcher has not taken yet

ASSUME ChannelAssumption ==
    /\ Moderators \in [Rooms -> SUBSET Users]
    /\ Nobody \notin Users
    /\ {MaxTokens, MaxDocuments, MaxSent} \subseteq Nat

VARIABLES
    roomStatus,
    sessions,      \* who has had a listener session in which room
    recorded,      \* rooms of which there is a recording
    pending, approved, blocked,   \* who has such a request, or a block, where
    tokens,        \* user -> channels it has a subscription token for
    sent           \* events the dispatcher has not taken yet

speakingVars == <<pending, approved, blocked>>
accessVars   == <<roomStatus, sessions, recorded, speakingVars, tokens, sent>>

(* "room:r", "room:r:admins", "user:u", "listener_session:..", and what     *)
(* else may be asked for: a room's name with more parts.                    *)
RoomChannel(r)   == [kind |-> "room", of |-> r]
AdminsChannel(r) == [kind |-> "admins", of |-> r]
UserChannel(u)   == [kind |-> "user", of |-> u]
Channels == [kind : {"room", "admins", "deeper"}, of : Rooms]
            \cup {UserChannel(u) : u \in Users} \cup {[kind |-> "session", of |-> "any"]}

CanModerate(u, r) == u \in Moderators[r]

(* resolveRole: the room's roles come before an approved request.           *)
ResolveRole(u, r) ==
    IF CanModerate(u, r) THEN "moderator"
    ELSE IF <<u, r>> \in approved THEN "speaker"
    ELSE "listener"

(* What JoinRoom and CreateSpeakerSession hand out.                         *)
RealtimeDescriptor(u, r) ==
    {RoomChannel(r), UserChannel(u)}
    \cup {c \in {AdminsChannel(r)} : ResolveRole(u, r) = "moderator"}

(* Mutant of AuthorizeChannel: any role above a listener's will do.         *)
AuthorizesSpeakers(u, c) ==
    \/ c = UserChannel(u) \/ c.kind = "session"
    \/ /\ c.kind \in {"room", "deeper", "admins"} /\ roomStatus[c.of] # "absent"
       /\ c.kind = "admins" => ResolveRole(u, c.of) # "listener"

AuthorizeChannel(u, c) ==
    \/ c = UserChannel(u) \/ c.kind = "session"
    \/ /\ c.kind \in {"room", "deeper", "admins"} /\ roomStatus[c.of] # "absent"
       /\ c.kind = "admins" => ResolveRole(u, c.of) = "moderator"

-----------------------------------------------------------------------------
(* Events and their channels.                                               *)

Event(type, r, target) == [type |-> type, room |-> r, target |-> target]

ToTarget == {"speaker.approved", "speaker.declined", "speaker.revoked",
             "speaker.blocked", "speaker.unblocked", "moderation.user_removed"}
ToAdmins == {"speaker.requested", "recording.completed", "report.completed"}

EventTypes ==
    ToTarget \cup ToAdmins \cup
    {"room.created", "room.started", "room.finished", "recording.started",
     "listener.session.started", "listener.session.heartbeat_received",
     "listener.session.left", "listener.session.expired"}

Resolve(e) ==
    IF e.type \in ToTarget THEN UserChannel(e.target)
    ELSE IF e.type \in ToAdmins THEN AdminsChannel(e.room)
    ELSE RoomChannel(e.room)

(* Those Centrifugo hands the event to.                                     *)
Receivers(e) == {u \in Users : Resolve(e) \in tokens[u]}

-----------------------------------------------------------------------------
(* A client's call for a channel.                                           *)

RealtimeSubscriptionToken(u, c) ==
    /\ AuthorizeChannel(u, c)
    /\ c \notin tokens[u]
    /\ Cardinality(UNION {{v} \X tokens[v] : v \in Users}) < MaxTokens
    /\ tokens' = [tokens EXCEPT ![u] = @ \cup {c}]
    /\ UNCHANGED <<roomStatus, sessions, recorded, speakingVars, sent>>

-----------------------------------------------------------------------------
(* Operations that publish.                                                 *)

Publish(type, r, target) ==
    /\ Cardinality(sent) < MaxSent
    /\ sent' = sent \cup {Event(type, r, target)}
    /\ UNCHANGED tokens

CreateRoom(u, r) ==
    /\ CanModerate(u, r) /\ roomStatus[r] = "absent"
    /\ roomStatus' = [roomStatus EXCEPT ![r] = "draft"]
    /\ Publish("room.created", r, Nobody)
    /\ UNCHANGED <<sessions, recorded, speakingVars>>

StartRoom(u, r) ==
    /\ CanModerate(u, r) /\ roomStatus[r] = "draft"
    /\ roomStatus' = [roomStatus EXCEPT ![r] = "live"]
    /\ Publish("room.started", r, Nobody)
    /\ UNCHANGED <<sessions, recorded, speakingVars>>

FinishRoom(u, r) ==
    /\ CanModerate(u, r) /\ roomStatus[r] = "live"
    /\ roomStatus' = [roomStatus EXCEPT ![r] = "finished"]
    /\ Publish("room.finished", r, Nobody)
    /\ UNCHANGED <<sessions, recorded, speakingVars>>

Documents ==
    Cardinality(sessions) + Cardinality(pending) + Cardinality(approved) + Cardinality(blocked)
    + Cardinality(recorded)

(* JoinRoom of a listener; others get no listener session and no event.     *)
JoinRoom(u, r) ==
    /\ roomStatus[r] = "live" /\ ResolveRole(u, r) = "listener"
    /\ <<u, r>> \in sessions \/ Documents < MaxDocuments
    /\ sessions' = sessions \cup {<<u, r>>}
    /\ Publish("listener.session.started", r, Nobody)
    /\ UNCHANGED <<roomStatus, recorded, speakingVars>>

(* A heartbeat, leaving, and the sweep, which names the user as the target; *)
(* which of them the session's status allows is in ListenerSessions.        *)
ListenerSessionEvent(u, r) ==
    /\ <<u, r>> \in sessions
    /\ \/ Publish("listener.session.heartbeat_received", r, Nobody)
       \/ Publish("listener.session.left", r, Nobody)
       \/ Publish("listener.session.expired", r, u)
    /\ UNCHANGED <<roomStatus, sessions, recorded, speakingVars>>

RequestToSpeak(u, r) ==
    /\ roomStatus[r] = "live"
    /\ <<u, r>> \notin blocked \cup pending
    /\ Documents < MaxDocuments
    /\ pending' = pending \cup {<<u, r>>}
    /\ Publish("speaker.requested", r, u)
    /\ UNCHANGED <<roomStatus, sessions, recorded, approved, blocked>>

DecideSpeakerRequest(a, u, r) ==
    /\ CanModerate(a, r) /\ <<u, r>> \in pending
    /\ pending' = pending \ {<<u, r>>}
    /\ \/ approved' = approved \cup {<<u, r>>} /\ Publish("speaker.approved", r, u)
       \/ UNCHANGED approved /\ Publish("speaker.declined", r, u)
    /\ UNCHANGED <<roomStatus, sessions, recorded, blocked>>

BlockSpeaking(a, u, r) ==
    /\ CanModerate(a, r) /\ roomStatus[r] # "absent" /\ <<u, r>> \notin blocked
    /\ Documents < MaxDocuments
    /\ blocked' = blocked \cup {<<u, r>>}
    /\ Publish("speaker.blocked", r, u)
    /\ UNCHANGED <<roomStatus, sessions, recorded, pending, approved>>

UnblockSpeaking(a, u, r) ==
    /\ CanModerate(a, r) /\ <<u, r>> \in blocked
    /\ blocked' = blocked \ {<<u, r>>}
    /\ Publish("speaker.unblocked", r, u)
    /\ UNCHANGED <<roomStatus, sessions, recorded, pending, approved>>

(* RevokeSpeaker changes nothing; what RemoveParticipant does to sessions   *)
(* is in ListenerSessions.  Whoever is named is told.                       *)
RevokeOrRemove(a, u, r) ==
    /\ CanModerate(a, r) /\ roomStatus[r] # "absent"
    /\ \/ Publish("speaker.revoked", r, u)
       \/ Publish("moderation.user_removed", r, u)
    /\ UNCHANGED <<roomStatus, sessions, recorded, speakingVars>>

StartRecording(a, r) ==
    /\ CanModerate(a, r) /\ roomStatus[r] = "live"
    /\ r \in recorded \/ Documents < MaxDocuments
    /\ recorded' = recorded \cup {r}
    /\ Publish("recording.started", r, Nobody)
    /\ UNCHANGED <<roomStatus, sessions, speakingVars>>

(* StopRecording asks neither for a live room nor for a running recording.  *)
StopRecording(a, r) ==
    /\ CanModerate(a, r) /\ r \in recorded
    /\ Publish("recording.completed", r, Nobody)
    /\ UNCHANGED <<roomStatus, sessions, recorded, speakingVars>>

GenerateReport(a, r) ==
    /\ CanModerate(a, r) /\ roomStatus[r] # "absent"
    /\ Publish("report.completed", r, Nobody)
    /\ UNCHANGED <<roomStatus, sessions, recorded, speakingVars>>

-----------------------------------------------------------------------------

(* The dispatcher takes an event, for Receivers or to be refused.           *)
Dispatch(e) ==
    /\ sent' = sent \ {e}
    /\ UNCHANGED <<roomStatus, sessions, recorded, speakingVars, tokens>>

AccessInit ==
    /\ roomStatus = [r \in Rooms |-> "absent"]
    /\ sessions = {} /\ recorded = {}
    /\ pending = {} /\ approved = {} /\ blocked = {}
    /\ tokens = [u \in Users |-> {}]
    /\ sent = {}

AccessNext ==
    \/ \E u \in Users, c \in Channels : RealtimeSubscriptionToken(u, c)
    \/ \E u \in Users, r \in Rooms :
          \/ CreateRoom(u, r) \/ StartRoom(u, r) \/ FinishRoom(u, r)
          \/ StartRecording(u, r) \/ StopRecording(u, r) \/ GenerateReport(u, r)
          \/ JoinRoom(u, r) \/ ListenerSessionEvent(u, r) \/ RequestToSpeak(u, r)
          \/ \E v \in Users : \/ DecideSpeakerRequest(u, v, r) \/ RevokeOrRemove(u, v, r)
                             \/ BlockSpeaking(u, v, r) \/ UnblockSpeaking(u, v, r)
    \/ \E e \in sent : Dispatch(e)

AccessSpec == AccessInit /\ [][AccessNext]_accessVars

-----------------------------------------------------------------------------
AccessTypeOK ==
    /\ roomStatus \in [Rooms -> {"absent", "draft", "live", "finished"}]
    /\ sessions \subseteq Users \X Rooms /\ recorded \subseteq Rooms
    /\ pending \subseteq Users \X Rooms
    /\ approved \subseteq Users \X Rooms /\ blocked \subseteq Users \X Rooms
    /\ tokens \in [Users -> SUBSET Channels]
    /\ sent \subseteq [type : EventTypes, room : Rooms, target : Users \cup {Nobody}]

(* The people an event is about: the one a decision, block or removal names,*)
(* the moderators for what they are asked or have made, else everybody.     *)
Concerned(e) ==
    IF e.type \in ToTarget THEN {e.target}
    ELSE IF e.type \in ToAdmins THEN Moderators[e.room]
    ELSE Users

Listens(u, r) == RealtimeDescriptor(u, r) \subseteq tokens[u]

(* Whatever tokens were issued before, and whatever was decided since:      *)
(* every channel a user is handed for a room will be granted, whoever has   *)
(* tokens for all of them hears each event of the room that concerns him,   *)
(* and nobody hears an event that does not concern him - a speaker or a     *)
(* moderator of another room no request, nobody the decision on another     *)
(* (first of all, every variable has its type).                             *)
HeardByThoseConcerned ==
    /\ AccessTypeOK
    /\ \A u \in Users, r \in Rooms :
          roomStatus[r] # "absent" =>
              \A c \in RealtimeDescriptor(u, r) : AuthorizeChannel(u, c)
    /\ \A e \in sent :
          /\ Receivers(e) \subseteq Concerned(e)
          /\ {u \in Concerned(e) : Listens(u, e.room)} \subseteq Receivers(e)
=============================================================================
