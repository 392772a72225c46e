----------------------------- MODULE RoomShutdown -----------------------------
(***************************************************************************)
(* The end of a room over MongoDB: FinishRoom queues a job that closes the *)
(* room's sessions and one that reports on them; a worker claims, retries  *)
(* or gives up these jobs (see AsyncJobs) while listeners still join and   *)
(* send heartbeats, moderators ask for a report themselves, and a stale    *)
(* save of StartRecording or StopRecording brings the room back to life    *)
(* (see RoomLifecycle), after which it can be finished again.              *)
(*                                                                         *)
(* A call goes from one store or bus call to the next, and other calls go  *)
(* on in between.  The memory driver is left out: it keeps one store in    *)
(* the API's process and another in the worker's, so that the jobs of      *)
(* FinishRoom never run there.  So are leave, removal and sweep, which     *)
(* only end more sessions, and the listener set (see ListenerSessions).    *)
(***************************************************************************)
EXTENDS Integers

CONSTANTS
    Sessions,     \* listener session ids handed out by ids.New
    Calls,        \* API requests and job handlers at work at a time
    NoReport,
    MaxAttempts,  \* Config.JobMaxAttempts
    MaxFaults     \* bound: errors, stops and locks that end too early

ASSUME ShutdownAssumption ==
    /\ NoReport \notin [joined : SUBSET Sessions, by : {"user", "report"},
                          early : BOOLEAN]
    /\ MaxAttempts \in Nat \ {0}
    /\ MaxFaults \in Nat

VARIABLES
    room,      \* status of the room document: "live" or "finished"
    status,    \* session -> "none", "active" or "ended"
    report,    \* the room's document in room_reports, or NoReport
    job,       \* job of the room -> status of its document, "none" before it
    attempts,  \* job of the room -> how often it was claimed
    at,        \* call -> the call to store or bus it makes next, or "idle"
    serves,    \* call -> the job it handles, or "user" for an API request
    tried,     \* call -> attempts in its copy of the job
    todo,      \* call -> sessions it has still to save
    draft,     \* call -> the report it has put together
    before,    \* history: the sessions that existed when the room first finished
    kept,      \* history: ended sessions a late heartbeat made active again
    announced, \* history: reports named by an event voice.report.completed
    finished,  \* history: the room has been finished
    faults

documents == <<room, status, report>>
jobVars   == <<job, attempts>>
callVars  == <<at, serves, tried, todo, draft>>
history   == <<before, kept, announced, finished>>
vars      == <<documents, jobVars, callVars, history, faults>>

Jobs == {"close", "report"}
Steps == {"idle", "saveActive", "saveFinished", "publishFinished", "queueClose",
          "queueReport", "saveLive", "saveEnded", "readStats", "saveReport", "publishReport",
          "listActive", "endSessions", "succeeded", "failed"}

(* A report by the sessions it counts, who asked for it, and whether it was *)
(* put together before the room first finished.                             *)
Reports == [joined : SUBSET Sessions, by : {"user", "report"}, early : BOOLEAN]
Joined == {s \in Sessions : status[s] # "none"}
Active == {s \in Sessions : status[s] = "active"}

TypeOK ==
    /\ room \in {"live", "finished"}
    /\ status \in [Sessions -> {"none", "active", "ended"}]
    /\ report \in Reports \cup {NoReport}
    /\ job \in [Jobs -> {"none", "queued", "running", "completed", "dead_letter"}]
    /\ attempts \in [Jobs -> Nat]
    /\ at \in [Calls -> Steps]
    /\ serves \in [Calls -> Jobs \cup {"user"}]
    /\ tried \in [Calls -> Nat]
    /\ todo \in [Calls -> SUBSET Sessions]
    /\ draft \in [Calls -> Reports \cup {NoReport}]
    /\ \A c \in Calls : /\ at[c] \in {"listActive", "endSessions"} => serves[c] = "close"
                        /\ at[c] \in {"succeeded", "failed"} => serves[c] \in Jobs
                        /\ at[c] \in {"saveReport", "publishReport"}
                               => draft[c] \in Reports
    /\ before \subseteq Sessions /\ kept \subseteq Sessions
    /\ announced \subseteq Reports
    /\ finished \in BOOLEAN
    /\ faults \in 0..MaxFaults

Init ==
    /\ room = "live"
    /\ status = [s \in Sessions |-> "none"]
    /\ report = NoReport
    /\ job = [j \in Jobs |-> "none"] /\ attempts = [j \in Jobs |-> 0]
    /\ at = [c \in Calls |-> "idle"] /\ serves = [c \in Calls |-> "user"]
    /\ tried = [c \in Calls |-> 0]
    /\ todo = [c \in Calls |-> {}] /\ draft = [c \in Calls |-> NoReport]
    /\ before = {} /\ kept = {} /\ announced = {}
    /\ finished = FALSE /\ faults = 0

-----------------------------------------------------------------------------
(* How a call goes on.                                                      *)

Return(c) ==
    /\ at' = [at EXCEPT ![c] = "idle"]
    /\ serves' = [serves EXCEPT ![c] = "user"]
    /\ tried' = [tried EXCEPT ![c] = 0]
    /\ todo' = [todo EXCEPT ![c] = {}]
    /\ draft' = [draft EXCEPT ![c] = NoReport]

(* The last call succeeded: a request answers, a handler returns nil.       *)
Succeed(c) ==
    IF serves[c] = "user" THEN Return(c)
    ELSE /\ at' = [at EXCEPT ![c] = "succeeded"]
         /\ UNCHANGED <<serves, tried, todo, draft>>

(* Mutant of GiveUp: the handler drops the error.                           *)
DropError(c) == Succeed(c)

(* A call returned an error, and so does what made it.                      *)
GiveUp(c) ==
    IF serves[c] = "user" THEN Return(c)
    ELSE /\ at' = [at EXCEPT ![c] = "failed"]
         /\ UNCHANGED <<serves, tried, todo, draft>>

Fault == faults < MaxFaults /\ faults' = faults + 1

(* What was just done is followed by step, or has returned an error though  *)
(* it was done (a timeout, a lost answer).                                  *)
Then(c, step) ==
    \/ /\ at' = [at EXCEPT ![c] = step]
       /\ UNCHANGED <<serves, tried, todo, draft, faults>>
    \/ Fault /\ GiveUp(c)

Begin(c, step, who) ==
    /\ at[c] = "idle"
    /\ at' = [at EXCEPT ![c] = step]
    /\ serves' = [serves EXCEPT ![c] = who]

-----------------------------------------------------------------------------
(* Listeners.                                                               *)

JoinRoom(c, s) ==
    /\ room = "live" /\ status[s] = "none"
    /\ \A d \in Calls : s \notin todo[d]        \* the session id is fresh
    /\ Begin(c, "saveActive", "user")
    /\ todo' = [todo EXCEPT ![c] = {s}]
    /\ UNCHANGED <<documents, jobVars, tried, draft, history, faults>>

ListenerHeartbeat(c, s) ==
    /\ status[s] = "active"
    /\ Begin(c, "saveActive", "user")
    /\ todo' = [todo EXCEPT ![c] = {s}]
    /\ UNCHANGED <<documents, jobVars, tried, draft, history, faults>>

SaveActive(c) ==
    /\ at[c] = "saveActive"
    /\ status' = [s \in Sessions |-> IF s \in todo[c] THEN "active" ELSE status[s]]
    /\ kept' = kept \cup {s \in todo[c] : status[s] = "ended"}
    /\ Return(c)
    /\ UNCHANGED <<room, report, jobVars, before, announced, finished,
                   faults>>

-----------------------------------------------------------------------------
(* The room.                                                                *)

FinishRoom(c) ==
    /\ room = "live"
    /\ Begin(c, "saveFinished", "user")
    /\ UNCHANGED <<documents, jobVars, tried, todo, draft, history, faults>>

SaveFinished(c) ==
    /\ at[c] = "saveFinished"
    /\ room' = "finished"
    /\ finished' = TRUE
    /\ before' = IF finished THEN before ELSE Joined
    /\ Then(c, "publishFinished")
    /\ UNCHANGED <<status, report, jobVars, kept, announced>>

PublishFinished(c) ==
    /\ at[c] = "publishFinished"
    /\ Then(c, "queueClose")
    /\ UNCHANGED <<documents, jobVars, history>>

(* enqueueBestEffort: a key that is taken changes nothing, an error is only *)
(* logged; in MongoDB a key stays taken for good.                           *)
Enqueue(j) ==
    \/ /\ job' = [job EXCEPT ![j] = IF @ = "none" THEN "queued" ELSE @]
       /\ UNCHANGED faults
    \/ Fault /\ UNCHANGED job

QueueClose(c) ==
    /\ at[c] = "queueClose"
    /\ Enqueue("close")
    /\ at' = [at EXCEPT ![c] = "queueReport"]
    /\ UNCHANGED <<documents, attempts, serves, tried, todo, draft, history>>

QueueReport(c) ==
    /\ at[c] = "queueReport"
    /\ Enqueue("report")
    /\ Return(c)
    /\ UNCHANGED <<documents, attempts, history>>

(* StartRecording and StopRecording save the room with the status they read,*)
(* and StopRecording does not ask for it.                                   *)
StartRecording(c) ==
    /\ room = "live"
    /\ Begin(c, "saveLive", "user")
    /\ UNCHANGED <<documents, jobVars, tried, todo, draft, history, faults>>

StopRecording(c) ==
    /\ Begin(c, IF room = "live" THEN "saveLive" ELSE "saveEnded", "user")
    /\ UNCHANGED <<documents, jobVars, tried, todo, draft, history, faults>>

SaveRoomAsRead(c) ==
    /\ at[c] \in {"saveLive", "saveEnded"}
    /\ room' = IF at[c] = "saveLive" THEN "live" ELSE "finished"
    /\ Return(c)
    /\ UNCHANGED <<status, report, jobVars, history, faults>>

-----------------------------------------------------------------------------
(* The report.                                                              *)

(* POST /rooms/{roomId}/report/generate, at any time of the room.           *)
AskForReport(c) ==
    /\ Begin(c, "readStats", "user")
    /\ UNCHANGED <<documents, jobVars, tried, todo, draft, history, faults>>

ReportStats(c) ==
    /\ at[c] = "readStats"
    /\ draft' = [draft EXCEPT ![c] = [joined |-> Joined, early |-> ~finished,
                     by |-> IF serves[c] = "user" THEN "user" ELSE "report"]]
    /\ at' = [at EXCEPT ![c] = "saveReport"]
    /\ UNCHANGED <<documents, jobVars, serves, tried, todo, history, faults>>

(* Mutant of SaveReport: the new report replaces the old one, as it does in *)
(* the memory store.                                                        *)
ReplaceReport(c) ==
    /\ at[c] = "saveReport"
    /\ report' = draft[c]
    /\ Then(c, "publishReport")
    /\ UNCHANGED <<room, status, jobVars, history>>

(* SaveReport replaces the document of the room, but by one with an _id of  *)
(* its own, which MongoDB refuses if there is one: only the first is saved. *)
SaveReport(c) ==
    /\ at[c] = "saveReport"
    /\ IF report = NoReport
       THEN report' = draft[c] /\ Then(c, "publishReport")
       ELSE GiveUp(c) /\ UNCHANGED <<report, faults>>
    /\ UNCHANGED <<room, status, jobVars, history>>

PublishReport(c) ==
    /\ at[c] = "publishReport"
    /\ announced' = announced \cup {draft[c]}
    /\ \/ Succeed(c) /\ UNCHANGED faults
       \/ Fault /\ GiveUp(c)
    /\ UNCHANGED <<documents, jobVars, before, kept, finished>>

-----------------------------------------------------------------------------
(* The worker.                                                              *)

Handled(j) == \E c \in Calls : at[c] # "idle" /\ serves[c] = j

FirstStep(j) == IF j = "close" THEN "listActive" ELSE "readStats"

(* Mutant: a job is never taken over.                                       *)
ClaimQueued(c, j) ==
    /\ job[j] = "queued"
    /\ Begin(c, FirstStep(j), j)
    /\ job' = [job EXCEPT ![j] = "running"]
    /\ attempts' = [attempts EXCEPT ![j] = @ + 1]
    /\ tried' = [tried EXCEPT ![c] = attempts[j] + 1]
    /\ UNCHANGED <<documents, todo, draft, history, faults>>

(* ClaimNext takes a job that is due, or one whose lock has ended: its      *)
(* handler has stopped, or is slower than the lock (a fault).               *)
Claim(c, j) ==
    /\ job[j] \in {"queued", "running"}
    /\ IF job[j] = "running" /\ Handled(j) THEN Fault ELSE UNCHANGED faults
    /\ Begin(c, FirstStep(j), j)
    /\ job' = [job EXCEPT ![j] = "running"]
    /\ attempts' = [attempts EXCEPT ![j] = @ + 1]
    /\ tried' = [tried EXCEPT ![c] = attempts[j] + 1]
    /\ UNCHANGED <<documents, todo, draft, history>>

(* Mutant of ListActive: it takes one session, as if under a sweep's limit. *)
ListOne(c) ==
    /\ at[c] = "listActive"
    /\ IF Active = {} THEN Succeed(c)
       ELSE /\ at' = [at EXCEPT ![c] = "endSessions"]
            /\ \E s \in Active : todo' = [todo EXCEPT ![c] = {s}]
            /\ UNCHANGED <<serves, tried, draft>>
    /\ UNCHANGED <<documents, jobVars, history, faults>>

(* CloseRoomSessions: one read, then the sessions one by one.               *)
ListActive(c) ==
    /\ at[c] = "listActive"
    /\ IF Active = {} THEN Succeed(c)
       ELSE /\ at' = [at EXCEPT ![c] = "endSessions"]
            /\ todo' = [todo EXCEPT ![c] = Active]
            /\ UNCHANGED <<serves, tried, draft>>
    /\ UNCHANGED <<documents, jobVars, history, faults>>

EndSession(c, s) ==
    /\ at[c] = "endSessions" /\ s \in todo[c]
    /\ status' = [status EXCEPT ![s] = "ended"]
    /\ \/ /\ todo' = [todo EXCEPT ![c] = @ \ {s}]
          /\ at' = IF todo[c] = {s} THEN [at EXCEPT ![c] = "succeeded"] ELSE at
          /\ UNCHANGED <<serves, tried, draft, faults>>
       \/ Fault /\ GiveUp(c)
    /\ UNCHANGED <<room, report, jobVars, history>>

Complete(c) ==
    /\ at[c] = "succeeded"
    /\ job' = [job EXCEPT ![serves[c]] = "completed"]
    /\ Return(c)
    /\ UNCHANGED <<documents, attempts, history, faults>>

OneEarly(c) == tried[c] + 1 >= MaxAttempts       \* mutant: off by one
Exhausted(c) == tried[c] >= MaxAttempts

(* Runner.fail: the job is due again after a delay, or is a dead letter.    *)
RetryOrDeadLetter(c) ==
    /\ at[c] = "failed"
    /\ job' = [job EXCEPT ![serves[c]] = IF Exhausted(c) THEN "dead_letter"
                                                           ELSE "queued"]
    /\ Return(c)
    /\ UNCHANGED <<documents, attempts, history, faults>>

-----------------------------------------------------------------------------
(* A call to store or bus returns an error and has done nothing.            *)
CallFails(c) ==
    /\ at[c] \notin {"idle", "queueClose", "queueReport", "succeeded", "failed"}
    /\ Fault /\ GiveUp(c)
    /\ UNCHANGED <<documents, jobVars, history>>

(* The process of a call stops, or its settling write fails: a job it       *)
(* handles stays "running".                                                 *)
Stop(c) ==
    /\ at[c] # "idle"
    /\ Fault /\ Return(c)
    /\ UNCHANGED <<documents, jobVars, history>>

Ask(c) ==
    \/ \E s \in Sessions : JoinRoom(c, s) \/ ListenerHeartbeat(c, s)
    \/ FinishRoom(c) \/ StartRecording(c) \/ StopRecording(c) \/ AskForReport(c)

Proceed(c) ==
    \/ SaveActive(c) \/ SaveFinished(c) \/ PublishFinished(c) \/ QueueClose(c)
    \/ QueueReport(c) \/ SaveRoomAsRead(c) \/ ReportStats(c) \/ SaveReport(c)
    \/ PublishReport(c) \/ ListActive(c) \/ Complete(c) \/ RetryOrDeadLetter(c)
    \/ \E s \in Sessions : EndSession(c, s)

Next ==
    \E c \in Calls :
        \/ Ask(c) \/ Proceed(c)
        \/ \E j \in Jobs : Claim(c, j)
        \/ CallFails(c) \/ Stop(c)

Spec == Init /\ [][Next]_vars

(* Calls that have begun go on, and a job that is queued, or whose handler  *)
(* is gone, is claimed by one of the worker's goroutines; API requests may  *)
(* occupy the model's calls again and again, hence strong fairness.  No     *)
(* fault and no request is ever obliged to happen.                          *)
Fairness ==
    /\ \A c \in Calls : WF_vars(Proceed(c) /\ faults' = faults)
    /\ \A j \in Jobs : SF_vars(\E c \in Calls : Claim(c, j) /\ faults' = faults)

FairSpec == Spec /\ Fairness

-----------------------------------------------------------------------------
(* Once the close job is completed, after whatever retries, every session   *)
(* that existed when the room first finished has ended, unless a heartbeat  *)
(* that had read it before brought it back.  Of later sessions (a join that *)
(* had seen the room live, or a room brought back to life) it promises      *)
(* nothing: the job's key is taken, so a second FinishRoom queues none.     *)
CloseReachesAll ==
    job["close"] = "completed" => before \subseteq {s \in Sessions : status[s] = "ended"} \cup kept

(* A completed report job has stored the room's report and published it,    *)
(* and the report counts every session that existed when the room finished, *)
(* though it may run before, during or after the close job.                 *)
ReportIsComplete ==
    job["report"] = "completed" =>
        /\ report \in announced
        /\ before \subseteq report.joined

(* Every event voice.report.completed names the report GetReport returns,   *)
(* whoever asked for reports at the same time.                              *)
AnnouncedIsStored == announced \subseteq {report}

(* A report job is given up either because the room has a report already (a *)
(* moderator's, or that of an attempt that failed after its save, which no  *)
(* retry can replace) or after as many faults as it has attempts.           *)
DeadReportExplained ==
    job["report"] = "dead_letter" => report # NoReport \/ faults >= MaxAttempts

(* With fewer faults than attempts a queued close job is completed, and a   *)
(* room whose report job is queued gets a report, also if a handler stops   *)
(* half-way or is overtaken.                                                *)
JobsGetDone ==
    MaxFaults < MaxAttempts =>
        /\ job["close"] = "queued" ~> job["close"] = "completed"
        /\ job["report"] = "queued" ~> report # NoReport
=============================================================================
