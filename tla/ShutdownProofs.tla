---------------------------- MODULE ShutdownProofs ----------------------------
(***************************************************************************)
(* What RoomShutdown keeps, proved for any number of calls, sessions,      *)
(* attempts and faults: ShutdownInv carries what completed jobs have done, *)
(* PaidInv why a report job was given up.                                  *)
(***************************************************************************)
EXTENDS RoomShutdown, FiniteSetTheorems, TLAPS

(* The sessions the close job need not care for any more, and what the      *)
(* report job owes.                                                         *)
Closed == {s \in Sessions : status[s] = "ended"} \cup kept
Reported == report \in announced /\ before \subseteq report.joined

(* What a call knows from the steps it has made.                            *)
CallOK(c) ==
    /\ at[c] \in {"readStats", "saveReport", "publishReport"} => serves[c] # "close"
    /\ (\/ serves[c] \in Jobs
        \/ at[c] \in {"publishFinished", "queueClose", "queueReport"}) => finished
    /\ at[c] = "publishReport" => draft[c] = report
    /\ at[c] = "endSessions" => before \subseteq Closed \cup todo[c]
    /\ at[c] = "succeeded" /\ serves[c] = "close" => before \subseteq Closed
    /\ at[c] \in {"saveReport", "publishReport"} /\ serves[c] = "report"
          => before \subseteq draft[c].joined
    /\ at[c] = "succeeded" /\ serves[c] = "report" => Reported

DocumentsOK ==
    /\ announced \subseteq {report}
    /\ before \subseteq Joined
    /\ \A j \in Jobs : job[j] # "none" => finished
    /\ job["close"] = "completed" => before \subseteq Closed
    /\ job["report"] = "completed" => Reported

ShutdownInv == TypeOK /\ DocumentsOK /\ \A c \in Calls : CallOK(c)

(* What no step takes back: a room that was finished, the sessions that     *)
(* were closed by then, a report, an event.                                 *)
Stable ==
    /\ finished => finished' /\ before' = before /\ before \cap Closed \subseteq Closed'
    /\ report # NoReport => report' = report
    /\ announced \subseteq announced'

Untouched(c) == /\ at'[c] = at[c] /\ serves'[c] = serves[c]
                /\ todo'[c] = todo[c] /\ draft'[c] = draft[c]


-----------------------------------------------------------------------------
(* Pieces of the type invariant.                                            *)
CallTypes ==
    /\ at \in [Calls -> Steps]
    /\ serves \in [Calls -> Jobs \cup {"user"}]
    /\ tried \in [Calls -> Nat]
    /\ todo \in [Calls -> SUBSET Sessions]
    /\ draft \in [Calls -> Reports \cup {NoReport}]
    /\ \A c \in Calls : /\ at[c] \in {"listActive", "endSessions"} => serves[c] = "close"
                        /\ at[c] \in {"succeeded", "failed"} => serves[c] \in Jobs
                        /\ at[c] \in {"saveReport", "publishReport"}
                               => draft[c] \in Reports

OtherTypes ==
    /\ room \in {"live", "finished"}
    /\ status \in [Sessions -> {"none", "active", "ended"}]
    /\ report \in Reports \cup {NoReport}
    /\ job \in [Jobs -> {"none", "queued", "running", "completed", "dead_letter"}]
    /\ attempts \in [Jobs -> Nat]
    /\ before \subseteq Sessions /\ kept \subseteq Sessions
    /\ announced \subseteq Reports
    /\ finished \in BOOLEAN
    /\ faults \in 0..MaxFaults

LEMMA Types == TypeOK <=> CallTypes /\ OtherTypes
BY DEF TypeOK, CallTypes, OtherTypes

LEMMA NoReportIsNone == NoReport \notin Reports
BY ShutdownAssumption DEF Reports

LEMMA FaultType == ASSUME OtherTypes, Fault PROVE faults' \in 0..MaxFaults
BY ShutdownAssumption DEF OtherTypes, Fault

(* How a call goes on after its step: the other calls are left alone.       *)
Others(c) == \A d \in Calls \ {c} : Untouched(d)

LEMMA ReturnStep ==
    ASSUME CallTypes, NEW c \in Calls, Return(c)
    PROVE  CallTypes' /\ Others(c) /\ CallOK(c)'
<1>1. CallTypes'
  BY DEF CallTypes, Return, Steps, Jobs
<1>2. Others(c)
  BY DEF CallTypes, Return, Others, Untouched
<1>3. CallOK(c)'
  BY DEF CallTypes, Return, CallOK, Jobs
<1> QED BY <1>1, <1>2, <1>3

LEMMA GiveUpStep ==
    ASSUME CallTypes, NEW c \in Calls, GiveUp(c), serves[c] \in Jobs => finished'
    PROVE  CallTypes' /\ Others(c) /\ CallOK(c)'
<1>1. CASE serves[c] = "user"
  BY <1>1, ReturnStep DEF GiveUp
<1>2. CASE serves[c] # "user"
  <2>1. serves[c] \in Jobs
    BY <1>2 DEF CallTypes
  <2>2. /\ at' = [at EXCEPT ![c] = "failed"]
        /\ serves' = serves /\ tried' = tried /\ todo' = todo /\ draft' = draft
    BY <1>2 DEF GiveUp
  <2>3. CallTypes'
    BY <2>1, <2>2 DEF CallTypes, Steps
  <2>4. Others(c)
    BY <2>2 DEF CallTypes, Others, Untouched
  <2>5. CallOK(c)'
    BY <2>1, <2>2 DEF CallTypes, CallOK
  <2> QED BY <2>3, <2>4, <2>5
<1> QED BY <1>1, <1>2

LEMMA SucceedStep ==
    ASSUME CallTypes, NEW c \in Calls, Succeed(c), serves[c] \in Jobs => finished',
           serves[c] = "close" => (before \subseteq Closed)',
           serves[c] = "report" => Reported'
    PROVE  CallTypes' /\ Others(c) /\ CallOK(c)'
<1>1. CASE serves[c] = "user"
  BY <1>1, ReturnStep DEF Succeed
<1>2. CASE serves[c] # "user"
  <2>1. serves[c] \in Jobs
    BY <1>2 DEF CallTypes
  <2>2. /\ at' = [at EXCEPT ![c] = "succeeded"]
        /\ serves' = serves /\ tried' = tried /\ todo' = todo /\ draft' = draft
    BY <1>2 DEF Succeed
  <2>3. CallTypes'
    BY <2>1, <2>2 DEF CallTypes, Steps
  <2>4. Others(c)
    BY <2>2 DEF CallTypes, Others, Untouched
  <2>5. CallOK(c)'
    BY <2>1, <2>2 DEF CallTypes, CallOK
  <2> QED BY <2>3, <2>4, <2>5
<1> QED BY <1>1, <1>2

(* What the other calls know stays true.                                    *)
LEMMA OthersKeep ==
    ASSUME ShutdownInv, NEW c \in Calls, Stable, Others(c), NEW d \in Calls \ {c}
    PROVE  CallOK(d)'
<1>1. CallOK(d) /\ CallTypes /\ OtherTypes /\ DocumentsOK
  BY Types DEF ShutdownInv
<1>2. Untouched(d)
  BY DEF Others
<1>3. at[d] = "publishReport" => report # NoReport /\ draft[d] = report
  BY <1>1, NoReportIsNone DEF CallOK, CallTypes
<1>4. Reported => report # NoReport
  BY <1>1, NoReportIsNone DEF Reported, OtherTypes
<1>5. at[d] = "succeeded" => serves[d] \in Jobs
  BY <1>1 DEF CallTypes
<1>6. at[d] = "endSessions" => serves[d] \in Jobs
  BY <1>1 DEF CallTypes, Jobs
<1>7. serves[d] \in Jobs => finished
  BY <1>1 DEF CallOK
<1>8. (at[d] = "endSessions" => before \subseteq Closed \cup todo[d])'
  BY <1>1, <1>2, <1>6, <1>7 DEF CallOK, Untouched, Stable
<1>9. (at[d] = "succeeded" /\ serves[d] = "close" => before \subseteq Closed)'
  BY <1>1, <1>2, <1>5, <1>7 DEF CallOK, Untouched, Stable
<1>10. (at[d] = "succeeded" /\ serves[d] = "report" => Reported)'
  BY <1>1, <1>2, <1>4, <1>5, <1>7 DEF CallOK, Untouched, Stable, Reported
<1>11. (at[d] \in {"saveReport", "publishReport"} /\ serves[d] = "report"
          => before \subseteq draft[d].joined)'
  BY <1>1, <1>2, <1>7 DEF CallOK, Untouched, Stable, Jobs
<1> QED BY <1>1, <1>2, <1>3, <1>8, <1>9, <1>10, <1>11 DEF CallOK, Untouched, Stable

-----------------------------------------------------------------------------
(* The proof of each action shows that it is good for the call c it is of.  *)
Good(c) == /\ Stable /\ CallTypes' /\ OtherTypes' /\ Others(c)
           /\ CallOK(c)' /\ DocumentsOK'

LEMMA GoodKeepsInv ==
    ASSUME ShutdownInv, NEW c \in Calls, Good(c)
    PROVE  ShutdownInv'
<1>1. \A d \in Calls : CallOK(d)'
  BY OthersKeep DEF Good
<1>2. TypeOK'
  BY Types, PTL DEF Good
<1> QED BY <1>1, <1>2 DEF Good, ShutdownInv

(* Steps that write neither a document, a job nor a history.                *)
LEMMA QuietStep ==
    ASSUME ShutdownInv, UNCHANGED <<documents, jobVars, history>>,
           faults' \in 0..MaxFaults
    PROVE  Stable /\ OtherTypes' /\ DocumentsOK'
<1>1. OtherTypes /\ DocumentsOK
  BY Types DEF ShutdownInv
<1>2. UNCHANGED <<room, status, report, job, attempts, before, kept, announced, finished>>
  BY DEF documents, jobVars, history
<1>3. OtherTypes'
  BY <1>1, <1>2 DEF OtherTypes
<1>4. Stable
  BY <1>2 DEF Stable, Closed
<1>5. DocumentsOK'
  BY <1>1, <1>2 DEF DocumentsOK, Closed, Reported, Joined
<1> QED BY <1>3, <1>4, <1>5

LEMMA FaultsStay == ShutdownInv /\ UNCHANGED faults => faults' \in 0..MaxFaults
BY Types DEF ShutdownInv, OtherTypes

(* The requests only read.                                                  *)
LEMMA AskIsGood ==
    ASSUME ShutdownInv, NEW c \in Calls, Ask(c)
    PROVE  Good(c)
<1>0. CallTypes
  BY Types DEF ShutdownInv
<1>1. PICK step \in {"saveActive", "saveFinished", "saveLive", "saveEnded", "readStats"} :
        Begin(c, step, "user")
  BY DEF Ask, JoinRoom, ListenerHeartbeat, FinishRoom, StartRecording, StopRecording,
         AskForReport
<1>2. UNCHANGED <<documents, jobVars, history>> /\ UNCHANGED <<tried, draft, faults>>
  BY DEF Ask, JoinRoom, ListenerHeartbeat, FinishRoom, StartRecording, StopRecording,
         AskForReport
<1>3. todo' = todo \/ \E s \in Sessions : todo' = [todo EXCEPT ![c] = {s}]
  BY DEF Ask, JoinRoom, ListenerHeartbeat, FinishRoom, StartRecording, StopRecording,
         AskForReport
<1>4. at' = [at EXCEPT ![c] = step] /\ serves' = [serves EXCEPT ![c] = "user"]
  BY <1>1 DEF Begin
<1>5. CallTypes'
  BY <1>0, <1>2, <1>3, <1>4 DEF CallTypes, Steps
<1>6. Others(c)
  BY <1>0, <1>2, <1>3, <1>4 DEF CallTypes, Others, Untouched
<1>7. CallOK(c)'
  BY <1>0, <1>4 DEF CallTypes, CallOK, Jobs
<1> QED BY <1>2, <1>5, <1>6, <1>7, QuietStep, FaultsStay DEF Good

(* Calls that fail or stop.                                                 *)
LEMMA FailureIsGood ==
    ASSUME ShutdownInv, NEW c \in Calls, CallFails(c) \/ Stop(c)
    PROVE  Good(c)
<1>1. CallTypes /\ OtherTypes /\ CallOK(c)
  BY Types DEF ShutdownInv
<1>2. Fault /\ UNCHANGED <<documents, jobVars, history>>
  BY DEF CallFails, Stop
<1>3. Stable /\ OtherTypes' /\ DocumentsOK'
  BY <1>1, <1>2, FaultType, QuietStep
<1>4. serves[c] \in Jobs => finished'
  BY <1>1, <1>2 DEF CallOK, history
<1>5. GiveUp(c) \/ Return(c)
  BY DEF CallFails, Stop
<1>6. CallTypes' /\ Others(c) /\ CallOK(c)'
  BY <1>1, <1>4, <1>5, GiveUpStep, ReturnStep
<1> QED BY <1>3, <1>6 DEF Good

-----------------------------------------------------------------------------
(* The steps of listeners and of the room.                                  *)

LEMMA SaveActiveIsGood ==
    ASSUME ShutdownInv, NEW c \in Calls, SaveActive(c)
    PROVE  Good(c)
<1>1. CallTypes /\ OtherTypes /\ DocumentsOK
  BY Types DEF ShutdownInv
<1>2. todo[c] \subseteq Sessions
  BY <1>1 DEF CallTypes
<1>3. CallTypes' /\ Others(c) /\ CallOK(c)'
  BY <1>1, ReturnStep DEF SaveActive
<1>4. UNCHANGED <<room, report, job, attempts, before, announced, finished, faults>>
  BY DEF SaveActive, jobVars
<1>5. status' = [s \in Sessions |-> IF s \in todo[c] THEN "active" ELSE status[s]]
  BY DEF SaveActive
<1>6. kept' = kept \cup {s \in todo[c] : status[s] = "ended"}
  BY DEF SaveActive
<1>7. OtherTypes'
  BY <1>1, <1>2, <1>4, <1>5, <1>6 DEF OtherTypes
<1>8. Closed \subseteq Closed'
  BY <1>2, <1>5, <1>6 DEF Closed
<1>9. Joined \subseteq Joined'
  BY <1>1, <1>5 DEF Joined
<1>10. Stable
  BY <1>4, <1>8 DEF Stable
<1>11. DocumentsOK'
  BY <1>1, <1>4, <1>8, <1>9 DEF DocumentsOK, Reported
<1> QED BY <1>3, <1>7, <1>10, <1>11 DEF Good

LEMMA SaveFinishedIsGood ==
    ASSUME ShutdownInv, NEW c \in Calls, SaveFinished(c)
    PROVE  Good(c)
<1>1. CallTypes /\ OtherTypes /\ DocumentsOK
  BY Types DEF ShutdownInv
<1>2. /\ finished' = TRUE /\ room' = "finished"
      /\ before' = IF finished THEN before ELSE Joined
      /\ UNCHANGED <<status, report, job, attempts, kept, announced>>
  BY DEF SaveFinished, jobVars
<1>3. ASSUME at' = [at EXCEPT ![c] = "publishFinished"],
             UNCHANGED <<serves, tried, todo, draft, faults>>
      PROVE  CallTypes' /\ Others(c) /\ CallOK(c)'
  <2>1. CallTypes'
    BY <1>1, <1>3 DEF CallTypes, Steps
  <2>2. Others(c)
    BY <1>1, <1>3 DEF CallTypes, Others, Untouched
  <2>3. CallOK(c)'
    BY <1>1, <1>2, <1>3 DEF CallTypes, CallOK
  <2> QED BY <2>1, <2>2, <2>3
<1>4. ASSUME Fault, GiveUp(c)
      PROVE  CallTypes' /\ Others(c) /\ CallOK(c)'
  BY <1>1, <1>2, <1>4, GiveUpStep
<1>5. CallTypes' /\ Others(c) /\ CallOK(c)' /\ faults' \in 0..MaxFaults
  <2>1. CallTypes' /\ Others(c) /\ CallOK(c)'
    BY <1>3, <1>4 DEF SaveFinished, Then
  <2>2. faults' \in 0..MaxFaults
    BY <1>1, FaultType DEF SaveFinished, Then, OtherTypes
  <2> QED BY <2>1, <2>2
<1>6. OtherTypes'
  BY <1>1, <1>2, <1>5 DEF OtherTypes, Joined
<1>7. Stable
  BY <1>2 DEF Stable, Closed
<1>8. DocumentsOK'
  <2>1. CASE finished
    BY <1>1, <1>2, <2>1 DEF DocumentsOK, Closed, Reported, Joined
  <2>2. CASE ~finished
    <3>1. job["close"] = "none" /\ job["report"] = "none"
      BY <1>1, <2>2 DEF DocumentsOK, Jobs
    <3> QED BY <1>1, <1>2, <2>2, <3>1 DEF DocumentsOK, Joined
  <2> QED BY <2>1, <2>2
<1> QED BY <1>5, <1>6, <1>7, <1>8 DEF Good

LEMMA PublishFinishedIsGood ==
    ASSUME ShutdownInv, NEW c \in Calls, PublishFinished(c)
    PROVE  Good(c)
<1>1. CallTypes /\ OtherTypes /\ CallOK(c)
  BY Types DEF ShutdownInv
<1>2. UNCHANGED <<documents, jobVars, history>> /\ finished' = finished
  BY DEF PublishFinished, history
<1>3. finished'
  BY <1>1, <1>2 DEF CallOK, PublishFinished
<1>4. faults' \in 0..MaxFaults
  BY <1>1, FaultType DEF PublishFinished, Then, OtherTypes
<1>5. ASSUME at' = [at EXCEPT ![c] = "queueClose"],
             UNCHANGED <<serves, tried, todo, draft, faults>>
      PROVE  CallTypes' /\ Others(c) /\ CallOK(c)'
  <2>1. CallTypes'
    BY <1>1, <1>5 DEF CallTypes, Steps
  <2>2. Others(c)
    BY <1>1, <1>5 DEF CallTypes, Others, Untouched
  <2>3. CallOK(c)'
    BY <1>1, <1>3, <1>5 DEF CallTypes, CallOK
  <2> QED BY <2>1, <2>2, <2>3
<1>6. ASSUME Fault, GiveUp(c)
      PROVE  CallTypes' /\ Others(c) /\ CallOK(c)'
  BY <1>1, <1>3, <1>6, GiveUpStep
<1>7. CallTypes' /\ Others(c) /\ CallOK(c)'
  BY <1>5, <1>6 DEF PublishFinished, Then
<1> QED BY <1>2, <1>4, <1>7, QuietStep DEF Good

(* A job is queued only if its key is free, and only once the room has been *)
(* finished.                                                                *)
LEMMA EnqueueKeeps ==
    ASSUME ShutdownInv, finished, NEW j \in Jobs, Enqueue(j),
           UNCHANGED <<documents, attempts, history>>
    PROVE  Stable /\ OtherTypes' /\ DocumentsOK'
<1>1. OtherTypes /\ DocumentsOK
  BY Types DEF ShutdownInv
<1>2. UNCHANGED <<room, status, report, attempts, before, kept, announced, finished>>
  BY DEF documents, history
<1>3. job' \in [Jobs -> {"none", "queued", "running", "completed", "dead_letter"}]
  BY <1>1 DEF OtherTypes, Enqueue
<1>4. faults' \in 0..MaxFaults
  BY <1>1, FaultType DEF OtherTypes, Enqueue
<1>5. OtherTypes'
  BY <1>1, <1>2, <1>3, <1>4 DEF OtherTypes
<1>6. Stable
  BY <1>2 DEF Stable, Closed
<1>7. \A k \in Jobs : job'[k] = "completed" => job[k] = "completed"
  BY <1>1 DEF OtherTypes, Enqueue
<1>8. DocumentsOK'
  BY <1>1, <1>2, <1>7 DEF DocumentsOK, Closed, Reported, Joined, Jobs
<1> QED BY <1>5, <1>6, <1>8

LEMMA QueueCloseIsGood ==
    ASSUME ShutdownInv, NEW c \in Calls, QueueClose(c)
    PROVE  Good(c)
<1>1. CallTypes /\ CallOK(c)
  BY Types DEF ShutdownInv
<1>2. finished /\ finished' = finished
  BY <1>1 DEF CallOK, QueueClose, history
<1>3. Stable /\ OtherTypes' /\ DocumentsOK'
  BY <1>2, EnqueueKeeps DEF QueueClose, Jobs
<1>4. /\ at' = [at EXCEPT ![c] = "queueReport"]
      /\ UNCHANGED <<serves, tried, todo, draft>>
  BY DEF QueueClose
<1>5. CallTypes'
  BY <1>1, <1>4 DEF CallTypes, Steps
<1>6. Others(c)
  BY <1>1, <1>4 DEF CallTypes, Others, Untouched
<1>7. CallOK(c)'
  BY <1>1, <1>2, <1>4 DEF CallTypes, CallOK
<1> QED BY <1>3, <1>5, <1>6, <1>7 DEF Good

LEMMA QueueReportIsGood ==
    ASSUME ShutdownInv, NEW c \in Calls, QueueReport(c)
    PROVE  Good(c)
<1>1. CallTypes /\ CallOK(c)
  BY Types DEF ShutdownInv
<1>2. finished
  BY <1>1 DEF CallOK, QueueReport
<1>3. Stable /\ OtherTypes' /\ DocumentsOK'
  BY <1>2, EnqueueKeeps DEF QueueReport, Jobs
<1>4. CallTypes' /\ Others(c) /\ CallOK(c)'
  BY <1>1, ReturnStep DEF QueueReport
<1> QED BY <1>3, <1>4 DEF Good

LEMMA SaveRoomAsReadIsGood ==
    ASSUME ShutdownInv, NEW c \in Calls, SaveRoomAsRead(c)
    PROVE  Good(c)
<1>1. CallTypes /\ OtherTypes /\ DocumentsOK
  BY Types DEF ShutdownInv
<1>2. /\ room' \in {"live", "finished"}
      /\ UNCHANGED <<status, report, job, attempts, before, kept, announced,
                     finished, faults>>
  BY DEF SaveRoomAsRead, jobVars, history
<1>3. OtherTypes'
  BY <1>1, <1>2 DEF OtherTypes
<1>4. Stable
  BY <1>2 DEF Stable, Closed
<1>5. DocumentsOK'
  BY <1>1, <1>2 DEF DocumentsOK, Closed, Reported, Joined
<1>6. CallTypes' /\ Others(c) /\ CallOK(c)'
  BY <1>1, ReturnStep DEF SaveRoomAsRead
<1> QED BY <1>3, <1>4, <1>5, <1>6 DEF Good

-----------------------------------------------------------------------------
(* The steps of reports.                                                    *)

LEMMA ReportStatsIsGood ==
    ASSUME ShutdownInv, NEW c \in Calls, ReportStats(c)
    PROVE  Good(c)
<1> DEFINE new == [joined |-> Joined, early |-> ~finished,
                   by |-> IF serves[c] = "user" THEN "user" ELSE "report"]
<1>1. CallTypes /\ OtherTypes /\ DocumentsOK /\ CallOK(c)
  BY Types DEF ShutdownInv
<1>2. Stable /\ OtherTypes' /\ DocumentsOK'
  BY QuietStep, FaultsStay DEF ReportStats
<1>3. new \in Reports /\ new.joined = Joined
  BY <1>1 DEF Reports, Joined, OtherTypes
<1>4. /\ draft' = [draft EXCEPT ![c] = new]
      /\ at' = [at EXCEPT ![c] = "saveReport"]
      /\ UNCHANGED <<serves, tried, todo>>
  BY DEF ReportStats
<1>5. before' = before /\ finished' = finished
  BY DEF ReportStats, history
<1> HIDE DEF new
<1>6. CallTypes'
  BY <1>1, <1>3, <1>4 DEF CallTypes, Steps
<1>7. Others(c)
  BY <1>1, <1>4 DEF CallTypes, Others, Untouched
<1>8. serves[c] # "close"
  BY <1>1 DEF CallOK, ReportStats
<1>9. CallOK(c)'
  BY <1>1, <1>3, <1>4, <1>5, <1>8 DEF CallTypes, CallOK, DocumentsOK
<1> QED BY <1>2, <1>6, <1>7, <1>9 DEF Good

(* The first report is saved; nothing was announced before it, so it is the *)
(* only one ever announced.                                                 *)
LEMMA SaveReportIsGood ==
    ASSUME ShutdownInv, NEW c \in Calls, SaveReport(c)
    PROVE  Good(c)
<1>1. CallTypes /\ OtherTypes /\ DocumentsOK /\ CallOK(c)
  BY Types DEF ShutdownInv
<1>2. UNCHANGED <<room, status, job, attempts, before, kept, announced, finished>>
  BY DEF SaveReport, jobVars, history
<1>3. at[c] = "saveReport" /\ draft[c] \in Reports /\ serves[c] # "close"
  BY <1>1 DEF SaveReport, CallTypes, CallOK
<1>4. serves[c] \in Jobs => finished'
  BY <1>1, <1>2 DEF CallOK
<1>5. CASE report = NoReport
  <2>1. report' = draft[c] /\ Then(c, "publishReport")
    BY <1>5 DEF SaveReport
  <2>2. announced = {}
    BY <1>1, <1>5, NoReportIsNone DEF OtherTypes, DocumentsOK
  <2>3. faults' \in 0..MaxFaults
    BY <1>1, <2>1, FaultType DEF Then, OtherTypes
  <2>4. OtherTypes'
    BY <1>1, <1>2, <1>3, <2>1, <2>3 DEF OtherTypes
  <2>5. Stable
    BY <1>2, <1>5 DEF Stable, Closed
  <2>6. DocumentsOK'
    BY <1>1, <1>2, <2>2 DEF DocumentsOK, Closed, Joined, Reported
  <2>7. ASSUME at' = [at EXCEPT ![c] = "publishReport"],
               UNCHANGED <<serves, tried, todo, draft, faults>>
        PROVE  CallTypes' /\ Others(c) /\ CallOK(c)'
    <3>1. CallTypes'
      BY <1>1, <1>3, <2>7 DEF CallTypes, Steps
    <3>2. Others(c)
      BY <1>1, <2>7 DEF CallTypes, Others, Untouched
    <3>3. CallOK(c)'
      BY <1>1, <1>2, <1>3, <2>1, <2>7 DEF CallTypes, CallOK
    <3> QED BY <3>1, <3>2, <3>3
  <2>8. ASSUME Fault, GiveUp(c)
        PROVE  CallTypes' /\ Others(c) /\ CallOK(c)'
    BY <1>1, <1>4, <2>8, GiveUpStep
  <2>9. CallTypes' /\ Others(c) /\ CallOK(c)'
    BY <2>1, <2>7, <2>8 DEF Then
  <2> QED BY <2>4, <2>5, <2>6, <2>9 DEF Good
<1>6. CASE report # NoReport
  <2>1. GiveUp(c) /\ UNCHANGED <<documents, jobVars, history, faults>>
    BY <1>6 DEF SaveReport, documents
  <2>2. Stable /\ OtherTypes' /\ DocumentsOK'
    BY <2>1, QuietStep, FaultsStay
  <2>3. CallTypes' /\ Others(c) /\ CallOK(c)'
    BY <1>1, <1>4, <2>1, GiveUpStep
  <2> QED BY <2>2, <2>3 DEF Good
<1> QED BY <1>5, <1>6

LEMMA PublishReportIsGood ==
    ASSUME ShutdownInv, NEW c \in Calls, PublishReport(c)
    PROVE  Good(c)
<1>1. CallTypes /\ OtherTypes /\ DocumentsOK /\ CallOK(c)
  BY Types DEF ShutdownInv
<1>2. UNCHANGED <<room, status, report, job, attempts, before, kept, finished>>
  BY DEF PublishReport, documents, jobVars
<1>3. at[c] = "publishReport" /\ draft[c] \in Reports /\ serves[c] # "close"
  BY <1>1 DEF PublishReport, CallTypes, CallOK
<1>4. draft[c] = report /\ announced' = announced \cup {report}
  BY <1>1, <1>3 DEF PublishReport, CallOK
<1>5. faults' \in 0..MaxFaults
  BY <1>1, FaultType DEF PublishReport, OtherTypes
<1>6. OtherTypes'
  BY <1>1, <1>2, <1>3, <1>4, <1>5 DEF OtherTypes
<1>7. Stable
  BY <1>2, <1>4 DEF Stable, Closed
<1>8. DocumentsOK'
  BY <1>1, <1>2, <1>4 DEF DocumentsOK, Closed, Joined, Reported
<1>9. serves[c] \in Jobs => finished'
  BY <1>1, <1>2 DEF CallOK
<1>10. serves[c] = "report" => Reported'
  BY <1>1, <1>2, <1>3, <1>4 DEF CallOK, Reported
<1>11. CallTypes' /\ Others(c) /\ CallOK(c)'
  <2>1. CASE Succeed(c)
    BY <1>1, <1>3, <1>9, <1>10, <2>1, SucceedStep
  <2>2. CASE GiveUp(c)
    BY <1>1, <1>9, <2>2, GiveUpStep
  <2> QED BY <2>1, <2>2 DEF PublishReport
<1> QED BY <1>6, <1>7, <1>8, <1>11 DEF Good

-----------------------------------------------------------------------------
(* The steps of the worker.                                                 *)

LEMMA ClaimIsGood ==
    ASSUME ShutdownInv, NEW c \in Calls, NEW j \in Jobs, Claim(c, j)
    PROVE  Good(c)
<1>1. CallTypes /\ OtherTypes /\ DocumentsOK
  BY Types DEF ShutdownInv
<1>2. /\ UNCHANGED <<room, status, report, before, kept, announced, finished>>
      /\ UNCHANGED <<todo, draft>>
  BY DEF Claim, documents, history
<1>3. /\ job[j] \in {"queued", "running"}
      /\ job' = [job EXCEPT ![j] = "running"]
      /\ attempts' = [attempts EXCEPT ![j] = @ + 1]
      /\ tried' = [tried EXCEPT ![c] = attempts[j] + 1]
      /\ at' = [at EXCEPT ![c] = FirstStep(j)]
      /\ serves' = [serves EXCEPT ![c] = j]
  BY DEF Claim, Begin
<1>4. finished /\ finished'
  BY <1>1, <1>2, <1>3 DEF DocumentsOK
<1>5. attempts[j] + 1 \in Nat
  BY <1>1 DEF OtherTypes
<1>6. faults' \in 0..MaxFaults
  BY <1>1, FaultType DEF Claim, OtherTypes
<1>7. OtherTypes'
  BY <1>1, <1>2, <1>3, <1>5, <1>6 DEF OtherTypes
<1>8. Stable
  BY <1>2 DEF Stable, Closed
<1>9. DocumentsOK'
  BY <1>1, <1>2, <1>3, <1>4 DEF DocumentsOK, OtherTypes, Closed, Joined, Reported, Jobs
<1>10. CallTypes'
  BY <1>1, <1>2, <1>3, <1>5 DEF CallTypes, Steps, FirstStep, Jobs
<1>11. Others(c)
  BY <1>1, <1>2, <1>3 DEF CallTypes, Others, Untouched
<1>12. CallOK(c)'
  BY <1>1, <1>3, <1>4 DEF CallTypes, CallOK, FirstStep, Jobs
<1> QED BY <1>7, <1>8, <1>9, <1>10, <1>11, <1>12 DEF Good

LEMMA ListActiveIsGood ==
    ASSUME ShutdownInv, NEW c \in Calls, ListActive(c)
    PROVE  Good(c)
<1>1. CallTypes /\ OtherTypes /\ DocumentsOK /\ CallOK(c)
  BY Types DEF ShutdownInv
<1>2. Stable /\ OtherTypes' /\ DocumentsOK'
  BY QuietStep, FaultsStay DEF ListActive
<1>3. serves[c] = "close" /\ serves[c] \in Jobs /\ finished
  BY <1>1 DEF ListActive, CallTypes, CallOK, Jobs
<1>4. UNCHANGED <<status, before, kept, finished>>
  BY DEF ListActive, documents, history
<1>5. before \subseteq Closed \cup Active
  BY <1>1 DEF DocumentsOK, OtherTypes, Joined, Closed, Active
<1>6. CASE Active = {}
  <2>1. (before \subseteq Closed)'
    BY <1>4, <1>5, <1>6 DEF Closed
  <2>2. CallTypes' /\ Others(c) /\ CallOK(c)'
    BY <1>1, <1>3, <1>4, <1>6, <2>1, SucceedStep DEF ListActive
  <2> QED BY <1>2, <2>2 DEF Good
<1>7. CASE Active # {}
  <2>1. /\ at' = [at EXCEPT ![c] = "endSessions"]
        /\ todo' = [todo EXCEPT ![c] = Active]
        /\ UNCHANGED <<serves, tried, draft>>
    BY <1>7 DEF ListActive
  <2>2. CallTypes'
    BY <1>1, <1>3, <2>1 DEF CallTypes, Steps, Active
  <2>3. Others(c)
    BY <1>1, <2>1 DEF CallTypes, Others, Untouched
  <2>4. CallOK(c)'
    BY <1>1, <1>3, <1>4, <1>5, <2>1 DEF CallTypes, CallOK, Closed
  <2> QED BY <1>2, <2>2, <2>3, <2>4 DEF Good
<1> QED BY <1>6, <1>7

LEMMA EndSessionIsGood ==
    ASSUME ShutdownInv, NEW c \in Calls, NEW s \in Sessions, EndSession(c, s)
    PROVE  Good(c)
<1>1. CallTypes /\ OtherTypes /\ DocumentsOK /\ CallOK(c)
  BY Types DEF ShutdownInv
<1>2. /\ at[c] = "endSessions" /\ s \in todo[c]
      /\ status' = [status EXCEPT ![s] = "ended"]
      /\ UNCHANGED <<room, report, job, attempts, before, kept, announced, finished>>
  BY DEF EndSession, jobVars, history
<1>3. serves[c] = "close" /\ serves[c] \in Jobs /\ finished
  BY <1>1, <1>2 DEF CallTypes, CallOK, Jobs
<1>4. Closed' = Closed \cup {s}
  BY <1>1, <1>2 DEF OtherTypes, Closed
<1>5. Joined \subseteq Joined'
  BY <1>1, <1>2 DEF OtherTypes, Joined
<1>6. faults' \in 0..MaxFaults
  BY <1>1, FaultType DEF EndSession, OtherTypes
<1>7. OtherTypes'
  BY <1>1, <1>2, <1>6 DEF OtherTypes
<1>8. Stable
  BY <1>2, <1>4 DEF Stable
<1>9. DocumentsOK'
  BY <1>1, <1>2, <1>4, <1>5 DEF DocumentsOK, Reported
<1>10. before \subseteq Closed \cup todo[c]
  BY <1>1, <1>2 DEF CallOK
<1>11. ASSUME todo' = [todo EXCEPT ![c] = @ \ {s}],
              at' = IF todo[c] = {s} THEN [at EXCEPT ![c] = "succeeded"] ELSE at,
              UNCHANGED <<serves, tried, draft>>
       PROVE  CallTypes' /\ Others(c) /\ CallOK(c)'
  <2>1. CallTypes'
    BY <1>1, <1>3, <1>11 DEF CallTypes, Steps
  <2>2. Others(c)
    BY <1>1, <1>11 DEF CallTypes, Others, Untouched
  <2>3. todo'[c] = todo[c] \ {s} /\ (before \subseteq Closed \cup todo[c])'
    BY <1>1, <1>2, <1>4, <1>10, <1>11 DEF CallTypes
  <2>4. at'[c] = "succeeded" => (before \subseteq Closed)'
    BY <1>1, <1>2, <1>11, <2>3 DEF CallTypes
  <2>5. at'[c] \in {"succeeded", "endSessions"} /\ serves'[c] = "close"
    BY <1>1, <1>2, <1>3, <1>11 DEF CallTypes
  <2> QED BY <1>2, <1>3, <2>1, <2>2, <2>3, <2>4, <2>5 DEF CallOK
<1>12. ASSUME Fault, GiveUp(c)
       PROVE  CallTypes' /\ Others(c) /\ CallOK(c)'
  BY <1>1, <1>2, <1>3, <1>12, GiveUpStep
<1>13. CallTypes' /\ Others(c) /\ CallOK(c)'
  BY <1>11, <1>12 DEF EndSession
<1> QED BY <1>7, <1>8, <1>9, <1>13 DEF Good

(* A settling write; what a handler that succeeded knows becomes what the   *)
(* completed job promises.                                                  *)
LEMMA SettleIsGood ==
    ASSUME ShutdownInv, NEW c \in Calls, Complete(c) \/ RetryOrDeadLetter(c)
    PROVE  Good(c)
<1>1. CallTypes /\ OtherTypes /\ DocumentsOK /\ CallOK(c)
  BY Types DEF ShutdownInv
<1>2. UNCHANGED <<room, status, report, attempts, before, kept, announced,
                  finished, faults>>
  BY DEF Complete, RetryOrDeadLetter, documents, history
<1>3. serves[c] \in Jobs /\ finished
  BY <1>1 DEF CallTypes, CallOK, Complete, RetryOrDeadLetter
<1>4. PICK new \in {"queued", "completed", "dead_letter"} :
          /\ job' = [job EXCEPT ![serves[c]] = new]
          /\ new = "completed" => at[c] = "succeeded"
  BY DEF Complete, RetryOrDeadLetter
<1>5. OtherTypes'
  BY <1>1, <1>2, <1>3, <1>4 DEF OtherTypes
<1>6. Stable
  BY <1>2 DEF Stable, Closed
<1>7. job'["close"] = "completed" => before \subseteq Closed
  BY <1>1, <1>3, <1>4 DEF DocumentsOK, OtherTypes, CallOK
<1>8. job'["report"] = "completed" => Reported
  BY <1>1, <1>3, <1>4 DEF DocumentsOK, OtherTypes, CallOK
<1>9. DocumentsOK'
  BY <1>1, <1>2, <1>3, <1>7, <1>8 DEF DocumentsOK, Closed, Joined, Reported
<1>10. CallTypes' /\ Others(c) /\ CallOK(c)'
  BY <1>1, ReturnStep DEF Complete, RetryOrDeadLetter
<1> QED BY <1>5, <1>6, <1>9, <1>10 DEF Good

-----------------------------------------------------------------------------
LEMMA InitInv == Init => ShutdownInv
<1> SUFFICES ASSUME Init PROVE ShutdownInv
  OBVIOUS
<1>1. CallTypes
  BY DEF Init, CallTypes, Steps
<1>4. OtherTypes
  <2>1. faults \in 0..MaxFaults
    BY ShutdownAssumption DEF Init
  <2>2. announced \subseteq Reports /\ report \in Reports \cup {NoReport}
    BY DEF Init
  <2> QED BY <2>1, <2>2 DEF Init, OtherTypes, Jobs
<1>2. DocumentsOK
  BY DEF Init, DocumentsOK, Joined, Jobs
<1>3. \A c \in Calls : CallOK(c)
  BY DEF Init, CallOK, Jobs
<1> QED BY <1>1, <1>2, <1>3, <1>4, Types DEF ShutdownInv

LEMMA NextKeepsInv == ShutdownInv /\ [Next]_vars => ShutdownInv'
<1> SUFFICES ASSUME ShutdownInv, [Next]_vars PROVE ShutdownInv'
  OBVIOUS
<1>1. CASE UNCHANGED vars
  BY <1>1 DEF vars, documents, jobVars, callVars, history, ShutdownInv, TypeOK,
              DocumentsOK, CallOK, Closed, Reported, Joined
<1>2. ASSUME NEW c \in Calls, Proceed(c) PROVE Good(c)
  BY <1>2, SaveActiveIsGood, SaveFinishedIsGood, PublishFinishedIsGood, QueueCloseIsGood,
     QueueReportIsGood, SaveRoomAsReadIsGood, ReportStatsIsGood, SaveReportIsGood,
     PublishReportIsGood, ListActiveIsGood, EndSessionIsGood, SettleIsGood DEF Proceed
<1>3. ASSUME NEW c \in Calls,
             \/ Ask(c) \/ Proceed(c)
             \/ \E j \in Jobs : Claim(c, j)
             \/ CallFails(c) \/ Stop(c)
      PROVE  ShutdownInv'
  BY <1>2, <1>3, AskIsGood, ClaimIsGood, FailureIsGood, GoodKeepsInv
<1> QED BY <1>1, <1>3 DEF Next

LEMMA InvHolds == Spec => []ShutdownInv
BY InitInv, NextKeepsInv, PTL DEF Spec

(* Every variable of RoomShutdown keeps its type.                           *)
THEOREM ShutdownTypeCorrect == Spec => []TypeOK
<1>1. ShutdownInv => TypeOK
  BY DEF ShutdownInv
<1> QED BY <1>1, InvHolds, PTL

(* A completed close job has ended every session that existed when the room *)
(* first finished, but for late heartbeats (CloseRoomSessions), whatever    *)
(* failed, was retried, or ran twice.                                       *)
THEOREM ClosedIsClosed == Spec => []CloseReachesAll
<1>1. ShutdownInv => CloseReachesAll
  BY DEF ShutdownInv, DocumentsOK, CloseReachesAll, Closed
<1> QED BY <1>1, InvHolds, PTL

(* A completed report job has stored and published a report that counts all *)
(* sessions from before the room finished (GenerateReport).                 *)
THEOREM ReportsAreComplete == Spec => []ReportIsComplete
<1>1. ShutdownInv => ReportIsComplete
  BY DEF ShutdownInv, DocumentsOK, ReportIsComplete, Reported
<1> QED BY <1>1, InvHolds, PTL

(* No event ever names a report that is not the stored one (SaveReport over *)
(* MongoDB), for any number of jobs and moderators at once.                 *)
THEOREM AnnouncedIsKept == Spec => []AnnouncedIsStored
<1>1. ShutdownInv => AnnouncedIsStored
  BY DEF ShutdownInv, DocumentsOK, AnnouncedIsStored
<1> QED BY <1>1, InvHolds, PTL

-----------------------------------------------------------------------------
(* Why a report job without a report was given up: its attempts are paid    *)
(* for by faults.  A claim is preceded by a fault of the handler before it  *)
(* (which failed, or stopped) or is one itself (the lock ended too early);  *)
(* a handler that has failed and not settled its job yet has its fault in   *)
(* hand, and the attempt that is being made has not cost one yet.           *)

Failed == {c \in Calls : at[c] = "failed" /\ serves[c] = "report"}

Owed == IF job["report"] = "running" /\ Handled("report") THEN 1 ELSE 0

AttemptsPaid ==
    /\ attempts["report"] + Cardinality(Failed) <= faults + Owed
    /\ \A c \in Calls : serves[c] = "report" =>
          tried[c] <= IF at[c] = "failed" THEN faults ELSE faults + 1
    /\ job["report"] = "dead_letter" => faults >= MaxAttempts

ReportHandlers == \A c \in Calls : serves[c] = "report" =>
    at[c] \in {"readStats", "saveReport", "publishReport", "succeeded", "failed"}

PaidInv ==
    /\ ReportHandlers /\ IsFiniteSet(Failed)
    /\ report = NoReport => AttemptsPaid

(* What a step leaves alone of the calls that are not c.                    *)
OnlySteps(c) == \A d \in Calls \ {c} :
                   at'[d] = at[d] /\ serves'[d] = serves[d] /\ tried'[d] = tried[d]

LEMMA StepOfOne ==
    ASSUME CallTypes, NEW c \in Calls,
           Ask(c) \/ Proceed(c) \/ CallFails(c) \/ Stop(c) \/ \E j \in Jobs : Claim(c, j)
    PROVE  OnlySteps(c)
<1> USE DEF CallTypes, OnlySteps
<1>1. Return(c) => OnlySteps(c)
  BY DEF Return
<1>2. GiveUp(c) \/ Succeed(c) => OnlySteps(c)
  BY <1>1 DEF GiveUp, Succeed
<1>3. \A step : Then(c, step) => OnlySteps(c)
  BY <1>2 DEF Then
<1>4. Ask(c) => OnlySteps(c)
  BY DEF Ask, JoinRoom, ListenerHeartbeat, FinishRoom, StartRecording, StopRecording,
         AskForReport, Begin
<1>5. SaveActive(c) \/ QueueReport(c) \/ SaveRoomAsRead(c) \/ Complete(c)
        \/ RetryOrDeadLetter(c) \/ Stop(c) => OnlySteps(c)
  BY <1>1 DEF SaveActive, QueueReport, SaveRoomAsRead, Complete, RetryOrDeadLetter, Stop
<1>6. SaveFinished(c) \/ PublishFinished(c) \/ SaveReport(c) \/ PublishReport(c)
        \/ CallFails(c) => OnlySteps(c)
  BY <1>2, <1>3 DEF SaveFinished, PublishFinished, SaveReport, PublishReport, CallFails
<1>7. QueueClose(c) \/ ReportStats(c) => OnlySteps(c)
  BY DEF QueueClose, ReportStats
<1>8. ListActive(c) => OnlySteps(c)
  BY <1>2 DEF ListActive
<1>9. ASSUME NEW s \in Sessions, EndSession(c, s) PROVE OnlySteps(c)
  BY <1>2, <1>9 DEF EndSession
<1>10. ASSUME NEW j \in Jobs, Claim(c, j) PROVE OnlySteps(c)
  BY <1>10 DEF Claim, Begin
<1> QED
  BY <1>4, <1>5, <1>6, <1>7, <1>8, <1>9, <1>10 DEF Proceed

(* At most one more call has failed.                                        *)
LEMMA FailedGrows ==
    ASSUME NEW c \in Calls, OnlySteps(c), IsFiniteSet(Failed)
    PROVE  /\ IsFiniteSet(Failed')
           /\ Cardinality(Failed) \in Nat
           /\ Failed' = Failed \/ Failed' = Failed \cup {c} \/ Failed' = Failed \ {c}
           /\ c \in Failed' /\ c \notin Failed => Cardinality(Failed') = Cardinality(Failed) + 1
           /\ c \notin Failed' /\ c \in Failed => Cardinality(Failed') = Cardinality(Failed) - 1
           /\ (c \in Failed' <=> c \in Failed) => Cardinality(Failed') = Cardinality(Failed)
<1>1. Failed' = Failed \/ Failed' = Failed \cup {c} \/ Failed' = Failed \ {c}
  <2>1. \A d \in Calls \ {c} : d \in Failed' <=> d \in Failed
    BY DEF OnlySteps, Failed
  <2>2. Failed \subseteq Calls /\ Failed' \subseteq Calls
    BY DEF Failed
  <2> QED
    BY <2>1, <2>2
<1>2. Cardinality(Failed) \in Nat
  BY FS_CardinalityType
<1>3. /\ IsFiniteSet(Failed \cup {c})
      /\ c \notin Failed => Cardinality(Failed \cup {c}) = Cardinality(Failed) + 1
  BY FS_AddElement
<1>4. /\ IsFiniteSet(Failed \ {c})
      /\ c \in Failed => Cardinality(Failed \ {c}) = Cardinality(Failed) - 1
  BY FS_RemoveElement
<1> QED
  BY <1>1, <1>2, <1>3, <1>4

(* A step of a call c that does not serve the report job, before or after.  *)
Stranger(c) ==
    /\ serves[c] # "report" /\ serves'[c] # "report"
    /\ attempts'["report"] = attempts["report"]
    /\ \/ job'["report"] = job["report"]
       \/ job["report"] = "none" /\ job'["report"] = "queued"
    /\ faults' \in {faults, faults + 1}

(* A step of a handler of the report job that goes on with its work, or     *)
(* fails on account of a fault.                                             *)
GoesOn(c) ==
    /\ serves[c] = "report" /\ serves'[c] = "report" /\ tried'[c] = tried[c]
    /\ at[c] \in {"readStats", "saveReport", "publishReport"}
    /\ \/ at'[c] \in {"saveReport", "publishReport", "succeeded"}
       \/ at'[c] = "failed" /\ faults' = faults + 1
    /\ UNCHANGED jobVars /\ faults' \in {faults, faults + 1}

LEMMA StrangerSteps ==
    ASSUME TypeOK, ReportHandlers, NEW c \in Calls, serves[c] # "report",
           Ask(c) \/ Proceed(c) \/ CallFails(c) \/ Stop(c) \/ Claim(c, "close")
    PROVE  Stranger(c)
<1>1. CallTypes /\ OtherTypes
  BY Types
<1>2. Return(c) \/ GiveUp(c) \/ Succeed(c) => serves'[c] # "report"
  BY <1>1 DEF CallTypes, Return, GiveUp, Succeed
<1>3. \A step : Then(c, step) => serves'[c] # "report" /\ faults' \in {faults, faults + 1}
  BY <1>2 DEF Then, Fault
<1>4. serves'[c] # "report"
  <2>1. CASE Ask(c) \/ Claim(c, "close")
    BY <1>1, <2>1 DEF Ask, JoinRoom, ListenerHeartbeat, FinishRoom, StartRecording,
       StopRecording, AskForReport, Claim, Begin, CallTypes
  <2>2. CASE CallFails(c) \/ Stop(c)
    BY <1>2, <2>2 DEF CallFails, Stop
  <2>3. CASE Proceed(c)
    <3>1. ASSUME NEW s \in Sessions, EndSession(c, s) PROVE serves'[c] # "report"
      BY <1>2, <3>1 DEF EndSession
    <3> QED
      BY <1>2, <1>3, <2>3, <3>1 DEF Proceed, SaveActive, SaveFinished, PublishFinished,
         QueueClose, QueueReport, SaveRoomAsRead, ReportStats, SaveReport, PublishReport,
         ListActive, Complete, RetryOrDeadLetter
  <2> QED
    BY <2>1, <2>2, <2>3
<1>5. attempts'["report"] = attempts["report"]
  <2>1. CASE Ask(c) \/ CallFails(c) \/ Stop(c)
    BY <2>1 DEF Ask, JoinRoom, ListenerHeartbeat, FinishRoom, StartRecording,
       StopRecording, AskForReport, CallFails, Stop, jobVars
  <2>2. CASE Claim(c, "close")
    BY <1>1, <2>2 DEF Claim, OtherTypes, Jobs
  <2>3. CASE Proceed(c)
    BY <2>3 DEF Proceed, SaveActive, SaveFinished, PublishFinished,
       QueueClose, QueueReport, SaveRoomAsRead, ReportStats, SaveReport, PublishReport,
       ListActive, Complete, RetryOrDeadLetter, EndSession, jobVars
  <2> QED
    BY <2>1, <2>2, <2>3
<1>6. faults' \in {faults, faults + 1}
  <2>1. CASE Ask(c) \/ CallFails(c) \/ Stop(c) \/ Claim(c, "close")
    BY <2>1 DEF Ask, JoinRoom, ListenerHeartbeat, FinishRoom, StartRecording,
       StopRecording, AskForReport, CallFails, Stop, Claim, Fault
  <2>2. CASE Proceed(c)
    BY <1>3, <2>2 DEF Proceed, SaveActive, SaveFinished, PublishFinished,
       QueueClose, QueueReport, SaveRoomAsRead, ReportStats, SaveReport, PublishReport,
       ListActive, Complete, RetryOrDeadLetter, EndSession, Enqueue, Fault
  <2> QED
    BY <2>1, <2>2
<1>7. \/ job'["report"] = job["report"]
      \/ job["report"] = "none" /\ job'["report"] = "queued"
  <2>1. CASE Ask(c) \/ CallFails(c) \/ Stop(c)
    BY <2>1 DEF Ask, JoinRoom, ListenerHeartbeat, FinishRoom, StartRecording,
       StopRecording, AskForReport, CallFails, Stop, jobVars
  <2>2. CASE Claim(c, "close")
    BY <1>1, <2>2 DEF Claim, OtherTypes, Jobs
  <2>3. CASE QueueClose(c) \/ QueueReport(c)
    BY <1>1, <2>3 DEF QueueClose, QueueReport, Enqueue, OtherTypes, Jobs
  <2>4. CASE Complete(c) \/ RetryOrDeadLetter(c)
    <3>1. serves[c] \in Jobs
      BY <1>1, <2>4 DEF Complete, RetryOrDeadLetter, CallTypes
    <3> QED
      BY <1>1, <2>4, <3>1 DEF Complete, RetryOrDeadLetter, OtherTypes, Jobs
  <2>5. CASE /\ Proceed(c)
             /\ ~(QueueClose(c) \/ QueueReport(c) \/ Complete(c) \/ RetryOrDeadLetter(c))
    BY <2>5 DEF Proceed, SaveActive, SaveFinished, PublishFinished,
       SaveRoomAsRead, ReportStats, SaveReport, PublishReport,
       ListActive, EndSession, jobVars
  <2> QED
    BY <2>1, <2>2, <2>3, <2>4, <2>5
<1> QED
  BY <1>4, <1>5, <1>6, <1>7 DEF Stranger

(* While the room has no report, a handler of its report job reads, fails,  *)
(* stops or settles its job as failed.                                      *)
LEMMA HandlerSteps ==
    ASSUME ShutdownInv, ReportHandlers, NEW c \in Calls, serves[c] = "report",
           report = NoReport, report' = NoReport,
           Ask(c) \/ Proceed(c) \/ CallFails(c) \/ Stop(c) \/ \E j \in Jobs : Claim(c, j)
    PROVE  GoesOn(c) \/ Stop(c) \/ RetryOrDeadLetter(c)
<1>1. CallTypes /\ OtherTypes /\ CallOK(c) /\ announced \subseteq {report}
  BY Types DEF ShutdownInv, DocumentsOK
<1>2. at[c] \in {"readStats", "saveReport", "publishReport", "succeeded", "failed"}
  BY DEF ReportHandlers
<1>3. at[c] \notin {"publishReport", "succeeded"}
  BY <1>1, NoReportIsNone DEF CallOK, CallTypes, OtherTypes, Reported
<1>4. ~SaveReport(c)
  BY <1>1, NoReportIsNone DEF SaveReport, CallTypes
<1>5. CASE Ask(c) \/ \E j \in Jobs : Claim(c, j)
  BY <1>2, <1>5 DEF Ask, JoinRoom, ListenerHeartbeat, FinishRoom, StartRecording,
     StopRecording, AskForReport, Claim, Begin
<1>6. CASE ReportStats(c)
  <2>1. /\ at[c] = "readStats" /\ at' = [at EXCEPT ![c] = "saveReport"]
        /\ UNCHANGED <<serves, tried, jobVars, faults>>
    BY <1>6 DEF ReportStats
  <2> QED
    BY <1>1, <2>1 DEF GoesOn, CallTypes
<1>7. CASE CallFails(c)
  <2>1. /\ at[c] \in {"readStats", "saveReport"}
        /\ at' = [at EXCEPT ![c] = "failed"]
        /\ UNCHANGED <<serves, tried, jobVars>> /\ faults' = faults + 1
    BY <1>2, <1>3, <1>7 DEF CallFails, GiveUp, Fault
  <2> QED
    BY <1>1, <2>1 DEF GoesOn, CallTypes
<1>8. Proceed(c) => ReportStats(c) \/ RetryOrDeadLetter(c)
  BY <1>2, <1>3, <1>4 DEF Proceed, SaveActive, SaveFinished, PublishFinished,
     QueueClose, QueueReport, SaveRoomAsRead, PublishReport, ListActive, Complete,
     EndSession
<1> QED
  BY <1>5, <1>6, <1>7, <1>8

LEMMA HandlersKeep ==
    ASSUME TypeOK, ReportHandlers, NEW c \in Calls, OnlySteps(c),
           Ask(c) \/ Proceed(c) \/ CallFails(c) \/ Stop(c) \/ \E j \in Jobs : Claim(c, j)
    PROVE  ReportHandlers'
<1> DEFINE Fine == serves'[c] = "report" =>
              at'[c] \in {"readStats", "saveReport", "publishReport", "succeeded", "failed"}
<1> SUFFICES Fine
  BY DEF ReportHandlers, OnlySteps
<1>1. CallTypes
  BY Types
<1>2. Return(c) \/ GiveUp(c) \/ Succeed(c) => Fine
  BY <1>1 DEF CallTypes, Return, GiveUp, Succeed
<1>3. ASSUME NEW j \in Jobs, Claim(c, j) PROVE Fine
  BY <1>1, <1>3 DEF Claim, Begin, CallTypes, FirstStep
<1>4. CASE serves[c] # "report" /\ ~\E j \in Jobs : Claim(c, j)
  <2>1. Ask(c) \/ Proceed(c) \/ CallFails(c) \/ Stop(c)
    BY <1>4
  <2> QED
    BY <1>4, <2>1, StrangerSteps DEF Stranger
<1>5. CASE serves[c] = "report"
  <2>1. at[c] \in {"readStats", "saveReport", "publishReport", "succeeded", "failed"}
    BY <1>5 DEF ReportHandlers
  <2>2. ~Ask(c)
    BY <2>1 DEF Ask, JoinRoom, ListenerHeartbeat, FinishRoom, StartRecording,
       StopRecording, AskForReport, Begin
  <2>3. CASE CallFails(c) \/ Stop(c)
    BY <1>2, <2>3 DEF CallFails, Stop
  <2>4. CASE Proceed(c)
    <3>1. \/ ReportStats(c) \/ SaveReport(c) \/ PublishReport(c)
          \/ Complete(c) \/ RetryOrDeadLetter(c)
      BY <2>1, <2>4 DEF Proceed, SaveActive, SaveFinished, PublishFinished,
         QueueClose, QueueReport, SaveRoomAsRead, ListActive, EndSession
    <3>2. CASE ReportStats(c)
      BY <1>1, <3>2 DEF ReportStats, CallTypes
    <3>3. CASE SaveReport(c)
      BY <1>1, <1>2, <3>3 DEF SaveReport, Then, CallTypes
    <3>4. CASE PublishReport(c) \/ Complete(c) \/ RetryOrDeadLetter(c)
      BY <1>2, <3>4 DEF PublishReport, Complete, RetryOrDeadLetter
    <3> QED
      BY <3>1, <3>2, <3>3, <3>4
  <2> QED
    BY <1>3, <2>2, <2>3, <2>4
<1> QED
  BY <1>3, <1>4, <1>5

-----------------------------------------------------------------------------
(* Each kind of step keeps the account.                                     *)

LEMMA Amounts ==
    ASSUME TypeOK
    PROVE  /\ attempts["report"] \in Nat /\ faults \in Nat /\ MaxAttempts \in Nat
           /\ \A c \in Calls : tried[c] \in Nat
           /\ Owed \in {0, 1}
BY ShutdownAssumption DEF TypeOK, Jobs, Owed

LEMMA StrangerPays ==
    ASSUME TypeOK, PaidInv, AttemptsPaid, NEW c \in Calls, OnlySteps(c), Stranger(c)
    PROVE  AttemptsPaid'
<1>1. Cardinality(Failed') = Cardinality(Failed) /\ Cardinality(Failed) \in Nat
  BY FailedGrows DEF PaidInv, Failed, Stranger
<1>2. Handled("report")' <=> Handled("report")
  BY DEF Handled, OnlySteps, Stranger
<1>3. Owed' = Owed
  BY <1>2 DEF Owed, Stranger
<1>4. /\ attempts'["report"] = attempts["report"] /\ attempts["report"] \in Nat
      /\ faults \in Nat /\ faults' \in {faults, faults + 1}
      /\ Owed \in {0, 1} /\ MaxAttempts \in Nat
  BY Amounts DEF Stranger
<1>5. attempts'["report"] + Cardinality(Failed') <= faults' + Owed'
  BY <1>1, <1>3, <1>4 DEF AttemptsPaid
<1>6. ASSUME NEW d \in Calls, serves'[d] = "report"
      PROVE  tried'[d] <= IF at'[d] = "failed" THEN faults' ELSE faults' + 1
  <2>1. /\ serves[d] = "report" /\ tried'[d] = tried[d] /\ at'[d] = at[d]
        /\ tried[d] \in Nat
    BY <1>6, Amounts DEF OnlySteps, Stranger
  <2>2. tried[d] <= IF at[d] = "failed" THEN faults ELSE faults + 1
    BY <2>1 DEF AttemptsPaid
  <2> QED
    BY <1>4, <2>1, <2>2
<1>7. job'["report"] = "dead_letter" => faults' >= MaxAttempts
  BY <1>4 DEF AttemptsPaid, Stranger
<1> QED
  BY <1>5, <1>6, <1>7 DEF AttemptsPaid

LEMMA HandlerPays ==
    ASSUME TypeOK, PaidInv, AttemptsPaid, NEW c \in Calls, OnlySteps(c), GoesOn(c)
    PROVE  AttemptsPaid'
<1>1. /\ Cardinality(Failed) \in Nat
      /\ IF at'[c] = "failed" THEN Cardinality(Failed') = Cardinality(Failed) + 1
         ELSE Cardinality(Failed') = Cardinality(Failed)
  BY FailedGrows DEF PaidInv, Failed, GoesOn
<1>2. Handled("report") /\ Handled("report")'
  BY DEF Handled, GoesOn
<1>3. Owed' = Owed
  BY <1>2 DEF Owed, GoesOn, jobVars
<1>4. /\ attempts'["report"] = attempts["report"] /\ attempts["report"] \in Nat
      /\ faults \in Nat /\ faults' \in {faults, faults + 1}
      /\ at'[c] = "failed" => faults' = faults + 1
      /\ Owed \in {0, 1} /\ MaxAttempts \in Nat
  BY Amounts DEF GoesOn, jobVars
<1>5. attempts'["report"] + Cardinality(Failed') <= faults' + Owed'
  BY <1>1, <1>3, <1>4 DEF AttemptsPaid
<1>6. ASSUME NEW d \in Calls, serves'[d] = "report"
      PROVE  tried'[d] <= IF at'[d] = "failed" THEN faults' ELSE faults' + 1
  <2>1. serves[d] = "report" /\ tried'[d] = tried[d] /\ tried[d] \in Nat
    BY <1>6, Amounts DEF OnlySteps, GoesOn
  <2>2. tried[d] <= IF at[d] = "failed" THEN faults ELSE faults + 1
    BY <2>1 DEF AttemptsPaid
  <2>3. CASE d = c
    <3>1. at[d] # "failed"
      BY <2>3 DEF GoesOn
    <3> QED
      BY <1>4, <2>1, <2>2, <2>3, <3>1
  <2>4. CASE d # c
    <3>1. at'[d] = at[d]
      BY <2>4 DEF OnlySteps
    <3> QED
      BY <1>4, <2>1, <2>2, <3>1
  <2> QED
    BY <2>3, <2>4
<1>7. job'["report"] = "dead_letter" => faults' >= MaxAttempts
  BY <1>4 DEF AttemptsPaid, GoesOn, jobVars
<1> QED
  BY <1>5, <1>6, <1>7 DEF AttemptsPaid

(* A claim finds no handler at work, or it costs a fault itself.            *)
LEMMA ClaimPays ==
    ASSUME TypeOK, PaidInv, AttemptsPaid, NEW c \in Calls, OnlySteps(c),
           Claim(c, "report")
    PROVE  AttemptsPaid'
<1>1. /\ at[c] = "idle" /\ at'[c] = "readStats" /\ serves'[c] = "report"
      /\ tried'[c] = attempts["report"] + 1
      /\ attempts'["report"] = attempts["report"] + 1
      /\ job["report"] \in {"queued", "running"} /\ job'["report"] = "running"
  BY DEF Claim, Begin, FirstStep, TypeOK, Jobs
<1>2. Cardinality(Failed') = Cardinality(Failed) /\ Cardinality(Failed) \in Nat
  BY <1>1, FailedGrows DEF PaidInv, Failed
<1>3. Handled("report")'
  BY <1>1 DEF Handled
<1>4. Owed' = 1
  BY <1>1, <1>3 DEF Owed
<1>5. faults' = IF Owed = 1 THEN faults + 1 ELSE faults
  BY <1>1 DEF Claim, Owed, Fault
<1>6. /\ attempts["report"] \in Nat /\ faults \in Nat
      /\ Owed \in {0, 1} /\ MaxAttempts \in Nat
  BY Amounts
<1>7. attempts["report"] + Cardinality(Failed) <= faults'
  BY <1>2, <1>5, <1>6 DEF AttemptsPaid
<1>8. faults' \in Nat /\ faults' >= faults
  BY <1>5, <1>6
<1>9. attempts'["report"] + Cardinality(Failed') <= faults' + Owed'
  BY <1>1, <1>2, <1>4, <1>6, <1>7, <1>8
<1>10. ASSUME NEW d \in Calls, serves'[d] = "report"
       PROVE  tried'[d] <= IF at'[d] = "failed" THEN faults' ELSE faults' + 1
  <2>1. CASE d = c
    BY <1>1, <1>2, <1>6, <1>7, <1>8, <2>1
  <2>2. CASE d # c
    <3>1. /\ serves[d] = "report" /\ tried'[d] = tried[d] /\ at'[d] = at[d]
          /\ tried[d] \in Nat
      BY <1>10, <2>2, Amounts DEF OnlySteps
    <3>2. tried[d] <= IF at[d] = "failed" THEN faults ELSE faults + 1
      BY <3>1 DEF AttemptsPaid
    <3> QED
      BY <1>6, <1>8, <3>1, <3>2
  <2> QED
    BY <2>1, <2>2
<1> QED
  BY <1>1, <1>9, <1>10 DEF AttemptsPaid

(* A handler that stops has had its fault; one that settles its failed job  *)
(* hands its fault over to the next attempt, or has used up the attempts.   *)
LEMMA LeavingPays ==
    ASSUME TypeOK, PaidInv, AttemptsPaid, NEW c \in Calls, OnlySteps(c),
           serves[c] = "report", Stop(c) \/ RetryOrDeadLetter(c)
    PROVE  AttemptsPaid'
<1>1. at'[c] = "idle" /\ serves'[c] = "user"
  BY DEF Stop, RetryOrDeadLetter, Return, TypeOK
<1>2. /\ Cardinality(Failed) \in Nat
      /\ IF at[c] = "failed" THEN Cardinality(Failed') = Cardinality(Failed) - 1
         ELSE Cardinality(Failed') = Cardinality(Failed)
  BY <1>1, FailedGrows DEF PaidInv, Failed
<1>3. /\ attempts' = attempts /\ attempts["report"] \in Nat
      /\ faults \in Nat /\ faults' \in {faults, faults + 1}
      /\ Owed \in {0, 1} /\ MaxAttempts \in Nat
  BY Amounts DEF Stop, RetryOrDeadLetter, Fault, jobVars
<1>4. ASSUME NEW d \in Calls, serves'[d] = "report"
      PROVE  tried'[d] <= IF at'[d] = "failed" THEN faults' ELSE faults' + 1
  <2>1. /\ serves[d] = "report" /\ tried'[d] = tried[d] /\ at'[d] = at[d]
        /\ tried[d] \in Nat
    BY <1>1, <1>4, Amounts DEF OnlySteps
  <2>2. tried[d] <= IF at[d] = "failed" THEN faults ELSE faults + 1
    BY <2>1 DEF AttemptsPaid
  <2> QED
    BY <1>3, <2>1, <2>2
<1>5. CASE Stop(c)
  <2>1. faults' = faults + 1 /\ job' = job /\ Owed' \in {0, 1}
    BY <1>5 DEF Stop, Fault, jobVars, Owed
  <2>2. attempts'["report"] + Cardinality(Failed') <= faults' + Owed'
    BY <1>2, <1>3, <2>1 DEF AttemptsPaid
  <2>3. job'["report"] = "dead_letter" => faults' >= MaxAttempts
    BY <1>3, <2>1 DEF AttemptsPaid
  <2> QED
    BY <1>4, <2>2, <2>3 DEF AttemptsPaid
<1>6. CASE RetryOrDeadLetter(c)
  <2>1. /\ at[c] = "failed" /\ faults' = faults
        /\ job'["report"] = IF Exhausted(c) THEN "dead_letter" ELSE "queued"
    BY <1>6 DEF RetryOrDeadLetter, TypeOK, Jobs
  <2>2. Owed' = 0
    BY <2>1 DEF Owed
  <2>3. attempts'["report"] + Cardinality(Failed') <= faults' + Owed'
    BY <1>2, <1>3, <2>1, <2>2 DEF AttemptsPaid
  <2>4. tried[c] <= faults /\ tried[c] \in Nat
    BY <2>1, Amounts DEF AttemptsPaid
  <2>5. job'["report"] = "dead_letter" => faults' >= MaxAttempts
    BY <1>3, <2>1, <2>4 DEF Exhausted
  <2> QED
    BY <1>4, <2>3, <2>5 DEF AttemptsPaid
<1> QED
  BY <1>5, <1>6

LEMMA PaidStep == ShutdownInv /\ PaidInv /\ [Next]_vars => PaidInv'
<1> SUFFICES ASSUME ShutdownInv, PaidInv, [Next]_vars PROVE PaidInv'
  OBVIOUS
<1>1. TypeOK /\ CallTypes
  BY Types DEF ShutdownInv
<1>2. CASE UNCHANGED vars
  BY <1>2 DEF vars, documents, jobVars, callVars, history, PaidInv, ReportHandlers,
              Failed, AttemptsPaid, Owed, Handled
<1>3. ASSUME NEW c \in Calls,
             \/ Ask(c) \/ Proceed(c)
             \/ \E j \in Jobs : Claim(c, j)
             \/ CallFails(c) \/ Stop(c)
      PROVE  PaidInv'
  <2>1. OnlySteps(c)
    BY <1>1, <1>3, StepOfOne
  <2>2. ReportHandlers'
    BY <1>1, <1>3, <2>1, HandlersKeep DEF PaidInv
  <2>3. IsFiniteSet(Failed)'
    BY <2>1, FailedGrows DEF PaidInv
  <2>4. ASSUME report' = NoReport PROVE AttemptsPaid'
    <3>1. Good(c)
      BY <1>3, AskIsGood, ClaimIsGood, FailureIsGood, SaveActiveIsGood, SaveFinishedIsGood,
         PublishFinishedIsGood, QueueCloseIsGood, QueueReportIsGood, SaveRoomAsReadIsGood,
         ReportStatsIsGood, SaveReportIsGood, PublishReportIsGood, ListActiveIsGood,
         EndSessionIsGood, SettleIsGood DEF Proceed
    <3>2. report = NoReport /\ AttemptsPaid
      BY <2>4, <3>1 DEF Good, Stable, PaidInv
    <3>3. CASE Claim(c, "report")
      BY <1>1, <2>1, <3>2, <3>3, ClaimPays
    <3>4. CASE ~Claim(c, "report") /\ serves[c] # "report"
      <4>1. Ask(c) \/ Proceed(c) \/ CallFails(c) \/ Stop(c) \/ Claim(c, "close")
        BY <1>3, <3>4 DEF Jobs
      <4>2. Stranger(c)
        BY <1>1, <3>4, <4>1, StrangerSteps DEF PaidInv
      <4> QED
        BY <1>1, <2>1, <3>2, <4>2, StrangerPays
    <3>5. CASE serves[c] = "report"
      <4>1. GoesOn(c) \/ Stop(c) \/ RetryOrDeadLetter(c)
        BY <1>3, <2>4, <3>2, <3>5, HandlerSteps DEF PaidInv
      <4> QED
        BY <1>1, <2>1, <3>2, <3>5, <4>1, HandlerPays, LeavingPays
    <3> QED
      BY <3>3, <3>4, <3>5
  <2> QED
    BY <2>2, <2>3, <2>4 DEF PaidInv
<1> QED
  BY <1>2, <1>3 DEF Next

LEMMA PaidInit == Init => PaidInv
<1> SUFFICES ASSUME Init PROVE PaidInv
  OBVIOUS
<1>1. Failed = {}
  BY DEF Init, Failed
<1>2. IsFiniteSet(Failed) /\ Cardinality(Failed) = 0
  BY <1>1, FS_EmptySet
<1>3. ReportHandlers /\ attempts["report"] = 0 /\ faults = 0 /\ Owed = 0
  BY DEF Init, ReportHandlers, Jobs, Owed
<1>4. AttemptsPaid
  BY <1>2, <1>3 DEF AttemptsPaid, Init, Jobs
<1> QED
  BY <1>2, <1>3, <1>4 DEF PaidInv

(* Runner.fail and GenerateReport, for any number of attempts, calls and    *)
(* faults: a report job that was given up while the room has no report has  *)
(* met as many faults as it has attempts; a lock that ends too early and a  *)
(* handler that stops cost the job no more than the attempt they waste.     *)
THEOREM DeadReportsExplained == Spec => []DeadReportExplained
<1>1. TypeOK /\ PaidInv => DeadReportExplained
  BY DEF PaidInv, AttemptsPaid, DeadReportExplained
<1>2. ShutdownInv => TypeOK
  BY DEF ShutdownInv
<1> QED
  BY <1>1, <1>2, InvHolds, PaidInit, PaidStep, PTL DEF Spec
=============================================================================
