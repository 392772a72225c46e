--------------------------- MODULE ListenerSessions ---------------------------
(***************************************************************************)
(* The listener sessions of one room: JoinRoom's listener path, heartbeat, *)
(* leave, removal by a moderator, expiry and the closing of the room's     *)
(* sessions (internal/app/voiceapp/service.go), on the session documents   *)
(* of the store and the room's listener set in Redis                       *)
(* (internal/infra/redis/presence_store.go).                               *)
(*                                                                         *)
(* A call reads, then saves a whole document, then updates the presence    *)
(* set, with nothing that holds other calls back in between; the calls     *)
(* that end several sessions do so one at a time.  Every call overwrites   *)
(* the status of what it read, and only a heartbeat (which refuses to go   *)
(* on unless it read "active") keeps it, so of a snapshot only its session *)
(* matters.  No guard tells left, removed and expired apart: all are       *)
(* "ended" here.                                                           *)
(***************************************************************************)
EXTENDS Integers, Sequences, FiniteSets

CONSTANTS
    Users, Sessions,    \* listeners; session ids handed out by ids.New
    OwnerOf,            \* session id -> the user that will own the session
    Calls,              \* API requests and job handlers at work at a time
    NoSession,
    ExpireLimit,        \* sessions one expiry sweep takes
    MaxFaults           \* bound: sessions whose call is cut short

ASSUME ListenerAssumption ==
    /\ OwnerOf \in [Sessions -> Users]
    /\ NoSession \notin Sessions
    /\ ExpireLimit \in Nat \ {0}
    /\ MaxFaults \in Nat

VARIABLES
    roomStatus,   \* "live" or "finished"
    closeJob,     \* the close_sessions job: "none", "queued" or "completed"
    status,       \* session -> status of its document: "none" before it exists,
                  \*   "ended" for left, removed and expired
    overdue,      \* active sessions whose last heartbeat is older than the
                  \*   timeout, the longest overdue first
    present,      \* the set room:<id>:listeners
    op,           \* call -> the operation it performs, or "idle"
    todo,         \* call -> sessions it has read and not yet saved
    saved,        \* call -> session it has saved and not yet marked
    mixed,        \* history: sessions that one call was keeping alive
                  \*   while another was ending them
    unmarked,     \* history: sessions whose call ended between save and mark
    stragglers    \* history: sessions saved by a join after the room finished

roomVars    == <<roomStatus, closeJob>>
sessionVars == <<status, overdue, present>>
callVars    == <<op, todo, saved>>
history     == <<mixed, unmarked, stragglers>>
vars        == <<roomVars, sessionVars, callVars, history>>

Keepers == {"join", "heartbeat"}
Enders == {"leave", "remove", "expire", "close"}
Overdue(s) == \E i \in DOMAIN overdue : overdue[i] = s

On(c, s) == op[c] # "idle" /\ (s \in todo[c] \/ saved[c] = s)
KeptBy(c, s) == On(c, s) /\ op[c] \in Keepers
EndedBy(c, s) == On(c, s) /\ op[c] \in Enders

TypeOK ==
    /\ roomStatus \in {"live", "finished"}
    /\ closeJob \in {"none", "queued", "completed"}
    /\ status \in [Sessions -> {"none", "active", "ended"}]
    /\ overdue \in Seq(Sessions)
    /\ \A s \in Sessions : Overdue(s) => status[s] = "active"
    /\ present \subseteq Sessions
    /\ op \in [Calls -> Keepers \cup Enders \cup {"idle"}]
    /\ todo \in [Calls -> SUBSET Sessions]
    /\ saved \in [Calls -> Sessions \cup {NoSession}]
    /\ mixed \subseteq Sessions
    /\ unmarked \subseteq Sessions
    /\ stragglers \subseteq Sessions

Init ==
    /\ roomStatus = "live" /\ closeJob = "none"
    /\ status = [s \in Sessions |-> "none"]
    /\ overdue = << >>
    /\ present = {}
    /\ op = [c \in Calls |-> "idle"]
    /\ todo = [c \in Calls |-> {}]
    /\ saved = [c \in Calls |-> NoSession]
    /\ mixed = {} /\ unmarked = {} /\ stragglers = {}

-----------------------------------------------------------------------------
(* What the calls read.                                                     *)

(* Call c starts operation o on the sessions S it has just read.            *)
Begin(c, o, S) ==
    /\ op[c] = "idle" /\ S # {}
    /\ op' = [op EXCEPT ![c] = o]
    /\ todo' = [todo EXCEPT ![c] = S]
    /\ mixed' = mixed \cup {s \in S : \E d \in Calls :
                                IF o \in Enders THEN KeptBy(d, s) ELSE EndedBy(d, s)}
    /\ UNCHANGED <<roomVars, sessionVars, saved, unmarked, stragglers>>

(* JoinRoom checks the room, and later saves a session with a fresh id.     *)
Join(c, s) ==
    /\ roomStatus = "live"
    /\ status[s] = "none"
    /\ \A d \in Calls : ~On(d, s)
    /\ Begin(c, "join", {s})

(* Mutant: a heartbeat is accepted whatever the session's status.           *)
HeartbeatOfAny(c, s) ==
    /\ status[s] # "none"
    /\ Begin(c, "heartbeat", {s})

Heartbeat(c, s) ==
    /\ status[s] = "active"
    /\ Begin(c, "heartbeat", {s})

(* LeaveListener does not look at the session's status.                     *)
Leave(c, s) ==
    /\ status[s] # "none"
    /\ Begin(c, "leave", {s})

ActiveSessions == {s \in Sessions : status[s] = "active"}

(* RemoveParticipant; a removal that finds no session changes nothing here. *)
RemoveParticipant(c, u) ==
    Begin(c, "remove", {s \in ActiveSessions : OwnerOf[s] = u})

(* ListStaleListenerSessions sorts by the last heartbeat and stops at the   *)
(* limit.  The mutants stop one too early, and take every active session.   *)
AllButOne(n) == {overdue[i] : i \in 1..(n - 1)}
NoCutOff(n) == ActiveSessions
OldestFirst(n) == {overdue[i] : i \in 1..n}

(* ExpireStaleListenerSessions; a sweep that finds none changes nothing.    *)
Expire(c) ==
    Begin(c, "expire", OldestFirst(IF Len(overdue) < ExpireLimit
                                   THEN Len(overdue) ELSE ExpireLimit))

(* Mutant of Close: it takes as many sessions as a sweep does.              *)
CloseLimited(c) ==
    /\ closeJob = "queued"
    /\ \A d \in Calls : op[d] # "close"
    /\ \E S \in SUBSET ActiveSessions :
          Cardinality(S) <= ExpireLimit /\ Begin(c, "close", S)

(* CloseRoomSessions, run by the job that FinishRoom queued; one worker at  *)
(* a time has that job (AsyncJobs, ExclusiveLease).                         *)
Close(c) ==
    /\ closeJob = "queued"
    /\ \A d \in Calls : op[d] # "close"
    /\ Begin(c, "close", ActiveSessions)

CloseFindsNone ==
    /\ closeJob = "queued" /\ ActiveSessions = {}
    /\ \A d \in Calls : op[d] # "close"
    /\ closeJob' = "completed"
    /\ UNCHANGED <<roomStatus, sessionVars, callVars, history>>

-----------------------------------------------------------------------------
(* What they write.                                                         *)

(* The sequence q, which holds s at most once, without it.                  *)
Without(q, s) ==
    IF \E i \in DOMAIN q : q[i] = s
    THEN LET k == CHOOSE i \in DOMAIN q : q[i] = s
         IN  [i \in 1..(Len(q) - 1) |-> IF i < k THEN q[i] ELSE q[i + 1]]
    ELSE q

SaveKept(c, s) ==
    /\ op[c] \in Keepers
    /\ status' = [status EXCEPT ![s] = "active"]
    /\ stragglers' = IF op[c] = "join" /\ roomStatus = "finished"
                     THEN stragglers \cup {s} ELSE stragglers

SaveEnded(c, s) ==
    /\ op[c] \in Enders
    /\ status' = [status EXCEPT ![s] = "ended"]
    /\ UNCHANGED stragglers

(* SaveListenerSession.                                                     *)
Save(c, s) ==
    /\ s \in todo[c]
    /\ saved[c] = NoSession
    /\ SaveKept(c, s) \/ SaveEnded(c, s)
    /\ overdue' = Without(overdue, s)
    /\ todo' = [todo EXCEPT ![c] = @ \ {s}]
    /\ saved' = [saved EXCEPT ![c] = s]
    /\ UNCHANGED <<roomVars, present, op, mixed, unmarked>>

(* MarkListenerActive, TouchListener or MarkListenerInactive; after the     *)
(* last session the call returns, and a close job is completed with it.     *)
MarkWith(c, update) ==
    /\ saved[c] # NoSession
    /\ present' = update
    /\ saved' = [saved EXCEPT ![c] = NoSession]
    /\ op' = IF todo[c] = {} THEN [op EXCEPT ![c] = "idle"] ELSE op
    /\ closeJob' = IF op[c] = "close" /\ todo[c] = {} THEN "completed"
                   ELSE closeJob
    /\ UNCHANGED <<roomStatus, status, overdue, todo, history>>

(* Mutant: only a call of a client takes its session out of the set.        *)
MarkForClients(c) ==
    MarkWith(c, CASE op[c] \in Keepers -> present \cup {saved[c]}
                  [] op[c] = "leave"   -> present \ {saved[c]}
                  [] OTHER             -> present)

Mark(c) == MarkWith(c, IF op[c] \in Keepers THEN present \cup {saved[c]}
                       ELSE present \ {saved[c]})

(* A Redis or store call fails, or the process stops, after a save: the     *)
(* call ends where it is, and the job that ran it stays queued.  Cut short  *)
(* elsewhere a call has done what one that had read less would do.          *)
CutShort(c) ==
    /\ saved[c] # NoSession
    /\ Cardinality(unmarked) < MaxFaults
    /\ unmarked' = unmarked \cup {saved[c]}
    /\ op' = [op EXCEPT ![c] = "idle"]
    /\ todo' = [todo EXCEPT ![c] = {}]
    /\ saved' = [saved EXCEPT ![c] = NoSession]
    /\ UNCHANGED <<roomVars, sessionVars, mixed, stragglers>>

-----------------------------------------------------------------------------
(* FinishRoom, as far as sessions are concerned (see RoomLifecycle).        *)
FinishRoom ==
    /\ roomStatus = "live"
    /\ roomStatus' = "finished"
    /\ closeJob' = "queued"
    /\ UNCHANGED <<sessionVars, callVars, history>>

(* No heartbeat was saved for ListenerSessionTimeout.                       *)
TimeOut(s) ==
    /\ status[s] = "active" /\ ~Overdue(s)
    /\ overdue' = Append(overdue, s)
    /\ UNCHANGED <<roomVars, status, present, callVars, history>>

Request(c) ==
    \/ \E s \in Sessions : Join(c, s) \/ Heartbeat(c, s) \/ Leave(c, s)
    \/ \E u \in Users : RemoveParticipant(c, u)

Proceed(c) == (\E s \in Sessions : Save(c, s)) \/ Mark(c)

Next ==
    \/ \E c \in Calls : Request(c) \/ Expire(c) \/ Close(c)
                          \/ Proceed(c) \/ CutShort(c)
    \/ CloseFindsNone
    \/ FinishRoom
    \/ \E s \in Sessions : TimeOut(s)

Spec == Init /\ [][Next]_vars

(* Calls that have started go on; a session without heartbeats times out;   *)
(* the scheduler queues an expiry sweep at every interval, which a worker   *)
(* gets to run again and again; a queued close job is claimed.  Nothing is  *)
(* assumed of the clients.                                                  *)
Fairness ==
    /\ \A c \in Calls : WF_vars(Proceed(c))
    /\ \A s \in Sessions : WF_vars(TimeOut(s))
    /\ SF_vars(\E c \in Calls : Expire(c))
    /\ SF_vars((\E c \in Calls : Close(c)) \/ CloseFindsNone)

FairSpec == Spec /\ Fairness

-----------------------------------------------------------------------------
(* A session that has ended stays ended, unless a heartbeat or the join was *)
(* under way while another call ended it (ListenerHeartbeat's stale save).  *)
EndedStaysEnded ==
    [][\A s \in Sessions : status[s] = "ended" /\ s \notin mixed
                               => status'[s] = "ended"]_vars

(* When no call is at work on a session, Redis lists it as present exactly  *)
(* when its document is active, unless the two kinds of calls overlapped or *)
(* a call died between the save and the mark: then a listener that is gone  *)
(* is counted for ever, or one that listens is not counted (first of all,   *)
(* every variable has its type).                                            *)
PresenceMatchesStore ==
    /\ TypeOK
    /\ \A s \in Sessions :
          (\A c \in Calls : ~On(c, s)) /\ s \notin mixed \cup unmarked
              => (s \in present <=> status[s] = "active")

(* The sweep expires a session only if no heartbeat of it is younger than   *)
(* the timeout, unless that heartbeat came in during the sweep.             *)
OnlyStaleExpire ==
    [][\A s \in Sessions, c \in Calls :
          op[c] = "expire" /\ saved'[c] = s
            /\ status[s] = "active" /\ status'[s] = "ended"
              => Overdue(s) \/ s \in mixed]_vars

(* Once the close job is completed the finished room has no active session  *)
(* but those a join saved after the room had finished, and those a          *)
(* heartbeat brought back under the hands of a call that ended them.        *)
FinishedRoomDrains ==
    closeJob = "completed" =>
        \A s \in Sessions : status[s] = "active" => s \in stragglers \cup mixed

(* A listener whose client goes silent does not stay active for ever, even  *)
(* in a room whose close job missed it: the expiry sweeps end it.           *)
SilentListenersEnd ==
    \A s \in Sessions :
        <>[](\A c \in Calls : ~KeptBy(c, s)) => []<>(status[s] # "active")
=============================================================================
