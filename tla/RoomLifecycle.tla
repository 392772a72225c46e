---------------------------- MODULE RoomLifecycle ----------------------------
(***************************************************************************)
(* One room document and its recordings: CreateRoom, StartRoom,            *)
(* FinishRoom, StartRecording and StopRecording                            *)
(* (internal/app/voiceapp/service.go).                                     *)
(*                                                                         *)
(* Every operation reads the room document once, changes its copy, and     *)
(* saves the whole copy (SaveRoom replaces the document); other requests   *)
(* read and save in between.  The calls a request makes after it has read  *)
(* are its Plan; it takes them one by one.                                 *)
(*                                                                         *)
(* Requests of users that may not moderate the room are refused before     *)
(* they change anything and are left out.  No code sets a room to          *)
(* "scheduled", "ending" or "cancelled".                                   *)
(***************************************************************************)
EXTENDS Sequences

CONSTANTS
    Requests,     \* API requests at work at a time
    Recordings,   \* recording ids handed out by ids.New
    NoRecording   \* the empty ActiveRecordingID

ASSUME RoomAssumption == NoRecording \notin Recordings

VARIABLES
    room,       \* the room document: its status and active recording
    recording,  \* recording id -> status of its document
    queued,     \* which of the room's jobs are in the job queue
    op,         \* request -> the operation it performs, or "idle"
    copy,       \* request -> its copy of the room document
    rec,        \* request -> the recording it is about
    plan,       \* request -> the calls it has still to make
    overwrote,  \* history: a save replaced a document its writer had not read
    cut,        \* history: operations cut short, or whose enqueue failed
    nested      \* history: a recording was started while another was active,
                \*   or one that was not the active one was stopped

docVars     == <<room, recording, queued>>
requestVars == <<op, copy, rec, plan>>
history     == <<overwrote, cut, nested>>
vars        == <<docVars, requestVars, history>>

(* Mutant of Plan: FinishRoom forgets the report job.                       *)
PlanWithoutReport ==
    [create         |-> <<"saveRoom", "publish">>,
     start          |-> <<"saveRoom", "publish">>,
     finish         |-> <<"saveRoom", "publish", "queueClose">>,
     startRecording |-> <<"saveRecording", "saveRoom", "publish">>,
     stopRecording  |-> <<"getRecording", "saveRecording", "saveRoom",
                          "publish">>]

Plan ==
    [create         |-> <<"saveRoom", "publish">>,
     start          |-> <<"saveRoom", "publish">>,
     finish         |-> <<"saveRoom", "publish", "queueClose", "queueReport">>,
     startRecording |-> <<"saveRecording", "saveRoom", "publish">>,
     stopRecording  |-> <<"getRecording", "saveRecording", "saveRoom",
                          "publish">>]

Ops == DOMAIN Plan
RoomDocs == [status : {"none", "draft", "live", "finished"},
             active : Recordings \cup {NoRecording}]
NoRoom == [status |-> "none", active |-> NoRecording]

TypeOK ==
    /\ room \in RoomDocs
    /\ recording \in [Recordings -> {"none", "started", "completed"}]
    /\ queued \subseteq {"close", "report"}
    /\ op \in [Requests -> Ops \cup {"idle"}]
    /\ copy \in [Requests -> RoomDocs]
    /\ rec \in [Requests -> Recordings \cup {NoRecording}]
    /\ plan \in [Requests -> Seq({"getRecording", "saveRecording", "saveRoom",
                                  "publish", "queueClose", "queueReport"})]
    /\ \A q \in Requests : op[q] = "idle" <=> plan[q] = << >>
    /\ overwrote \in BOOLEAN
    /\ cut \subseteq Ops
    /\ nested \in BOOLEAN

Init ==
    /\ room = NoRoom
    /\ recording = [r \in Recordings |-> "none"]
    /\ queued = {}
    /\ op = [q \in Requests |-> "idle"]
    /\ copy = [q \in Requests |-> NoRoom]
    /\ rec = [q \in Requests |-> NoRecording]
    /\ plan = [q \in Requests |-> << >>]
    /\ overwrote = FALSE /\ cut = {} /\ nested = FALSE

-----------------------------------------------------------------------------
(* A request reads the room and is let through or refused.                  *)

(* Request q starts operation o with a copy of the room, about recording r. *)
Begin(q, o, r) ==
    /\ op[q] = "idle"
    /\ op' = [op EXCEPT ![q] = o]
    /\ copy' = [copy EXCEPT ![q] = room]
    /\ rec' = [rec EXCEPT ![q] = r]
    /\ plan' = [plan EXCEPT ![q] = Plan[o]]
    /\ UNCHANGED <<docVars, overwrote, cut>>

CreateRoom(q) ==
    /\ room.status = "none"
    /\ \A p \in Requests : op[p] # "create"      \* the room id is fresh
    /\ Begin(q, "create", NoRecording)
    /\ UNCHANGED nested

StartRoom(q) ==
    /\ room.status = "draft"
    /\ Begin(q, "start", NoRecording)
    /\ UNCHANGED nested

(* Mutant: FinishRoom without the check of the status.                      *)
FinishAnyRoom(q) ==
    /\ room.status # "none"
    /\ Begin(q, "finish", NoRecording)
    /\ UNCHANGED nested

FinishRoom(q) ==
    /\ room.status = "live"
    /\ Begin(q, "finish", NoRecording)
    /\ UNCHANGED nested

(* StartRecording does not ask whether a recording is active.               *)
StartRecording(q, r) ==
    /\ room.status = "live"
    /\ recording[r] = "none"
    /\ \A p \in Requests : op[p] = "startRecording" => rec[p] # r
    /\ Begin(q, "startRecording", r)
    /\ nested' = (nested \/ room.active # NoRecording)

(* StopRecording asks neither for the room's status nor whether r is the    *)
(* active recording, nor whether it still runs.                             *)
StopRecording(q, r) ==
    /\ room.status # "none"
    /\ recording[r] # "none"
    /\ Begin(q, "stopRecording", r)
    /\ nested' = (nested \/ room.active # r)

-----------------------------------------------------------------------------
(* The calls of the plan.                                                   *)

Takes(q, step) == plan[q] # << >> /\ Head(plan[q]) = step

Idle(q) ==
    /\ op' = [op EXCEPT ![q] = "idle"]
    /\ copy' = [copy EXCEPT ![q] = NoRoom]
    /\ rec' = [rec EXCEPT ![q] = NoRecording]

(* The request goes on to the rest of its plan, and returns after the last. *)
Advance(q) ==
    /\ plan' = [plan EXCEPT ![q] = Tail(@)]
    /\ IF Len(plan[q]) = 1 THEN Idle(q) ELSE UNCHANGED <<op, copy, rec>>

(* GetRecording finds the recording; its room is this room.                 *)
ReadRecording(q) ==
    /\ Takes(q, "getRecording")
    /\ Advance(q)
    /\ UNCHANGED <<docVars, history>>

SaveRecording(q) ==
    /\ Takes(q, "saveRecording")
    /\ recording' = [recording EXCEPT ![rec[q]] =
                        IF op[q] = "startRecording" THEN "started" ELSE "completed"]
    /\ Advance(q)
    /\ UNCHANGED <<room, queued, history>>

(* Mutant of NewDocument: StopRecording leaves the active recording.        *)
KeepsActive(q) ==
    CASE op[q] = "create"         -> [copy[q] EXCEPT !.status = "draft"]
      [] op[q] = "start"          -> [copy[q] EXCEPT !.status = "live"]
      [] op[q] = "finish"         -> [copy[q] EXCEPT !.status = "finished"]
      [] op[q] = "startRecording" -> [copy[q] EXCEPT !.active = rec[q]]
      [] op[q] = "stopRecording"  -> copy[q]

NewDocument(q) ==
    CASE op[q] = "create"         -> [copy[q] EXCEPT !.status = "draft"]
      [] op[q] = "start"          -> [copy[q] EXCEPT !.status = "live"]
      [] op[q] = "finish"         -> [copy[q] EXCEPT !.status = "finished"]
      [] op[q] = "startRecording" -> [copy[q] EXCEPT !.active = rec[q]]
      [] op[q] = "stopRecording"  -> [copy[q] EXCEPT !.active = NoRecording]

SaveRoom(q) ==
    /\ Takes(q, "saveRoom")
    /\ room' = NewDocument(q)
    /\ overwrote' = (overwrote \/ copy[q] # room)
    /\ Advance(q)
    /\ UNCHANGED <<recording, queued, cut, nested>>

(* The event reaches the event log and the bus (EventDelivery).             *)
Publish(q) ==
    /\ Takes(q, "publish")
    /\ Advance(q)
    /\ UNCHANGED <<docVars, history>>

(* enqueueBestEffort: an error is logged and the request goes on.           *)
QueueJob(q, step, job) ==
    /\ Takes(q, step)
    /\ \/ queued' = queued \cup {job} /\ UNCHANGED cut
       \/ cut' = cut \cup {op[q]} /\ UNCHANGED queued
    /\ Advance(q)
    /\ UNCHANGED <<room, recording, overwrote, nested>>

(* A call of the plan returns an error, or the process stops; what was      *)
(* saved stays saved, and the rest is never done.                           *)
CutShort(q) ==
    /\ op[q] # "idle"
    /\ cut' = IF plan[q] = Plan[op[q]] THEN cut ELSE cut \cup {op[q]}
    /\ plan' = [plan EXCEPT ![q] = << >>]
    /\ Idle(q)
    /\ UNCHANGED <<docVars, overwrote, nested>>

Proceed(q) ==
    \/ ReadRecording(q) \/ SaveRecording(q) \/ SaveRoom(q) \/ Publish(q)
    \/ QueueJob(q, "queueClose", "close") \/ QueueJob(q, "queueReport", "report")

Next ==
    \E q \in Requests :
        \/ CreateRoom(q) \/ StartRoom(q) \/ FinishRoom(q)
        \/ \E r \in Recordings : StartRecording(q, r) \/ StopRecording(q, r)
        \/ Proceed(q)
        \/ CutShort(q)

Spec == Init /\ [][Next]_vars

-----------------------------------------------------------------------------
Quiet == \A q \in Requests : op[q] = "idle"
Tidy(ops) == ~overwrote /\ cut \cap ops = {}

(* In this step a request saves a copy whose status is out of date.         *)
SavesOldStatus ==
    \E q \in Requests : /\ Takes(q, "saveRoom") /\ copy[q].status # room.status
                         /\ plan'[q] = Tail(plan[q])

(* The room only ever goes from draft to live to finished, in every step    *)
(* but one kind: the save of a request that read the room before another    *)
(* request changed its status (a recording started or stopped while the     *)
(* room finished) puts the status it had read back in place.                *)
LifecycleOrder ==
    [][\/ <<room.status, room'.status>> \in
             {<<"none", "draft">>, <<"draft", "live">>, <<"live", "finished">>}
       \/ room'.status = room.status
       \/ SavesOldStatus]_vars

(* With no request at work, and none cut short or overwritten, the room     *)
(* names as active exactly the recording that runs, provided recordings     *)
(* were not nested: neither operation looks at ActiveRecordingID (first of  *)
(* all, every variable has its type).                                       *)
RecordingsTracked ==
    /\ TypeOK
    /\ Quiet /\ Tidy({"startRecording", "stopRecording"}) /\ ~nested =>
          {r \in Recordings : recording[r] = "started"} = {room.active} \ {NoRecording}

(* A finished room has its close and report jobs queued, unless the request *)
(* that finished it was cut short: after an error of publish a second       *)
(* FinishRoom is refused, so nobody queues them.                            *)
FinishQueuesJobs ==
    Quiet /\ room.status = "finished" /\ "finish" \notin cut =>
        queued = {"close", "report"}
=============================================================================
