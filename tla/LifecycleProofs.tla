-------------------------- MODULE LifecycleProofs --------------------------
(***************************************************************************)
(* The room goes from draft to live to finished, names the recording that  *)
(* runs and has its jobs queued, for any numbers of requests and           *)
(* recordings.  LifecycleInv is inductive: it says where a request is in   *)
(* its plan, and what that means for the documents it has read and saved.  *)
(***************************************************************************)
EXTENDS RoomLifecycle, TLAPS

\* What is left of a plan; the requests that stop a recording begin at
\* ToRead, those that start one at ToSaveRecording.
ToRead          == <<"getRecording", "saveRecording", "saveRoom", "publish">>
ToSaveRecording == <<"saveRecording", "saveRoom", "publish">>
ToSaveRoom      == <<"saveRoom", "publish">>
ToPublish       == <<"publish">>

\* What is left of FinishRoom's plan.
ToFinish      == <<"saveRoom", "publish", "queueClose", "queueReport">>
ToAnnounce    == <<"publish", "queueClose", "queueReport">>
ToQueueBoth   == <<"queueClose", "queueReport">>
ToQueueReport == <<"queueReport">>

LeftOf(o) ==
    CASE o = "finish"         -> {ToFinish, ToAnnounce, ToQueueBoth, ToQueueReport}
      [] o = "startRecording" -> {ToSaveRecording, ToSaveRoom, ToPublish}
      [] o = "stopRecording"  -> {ToRead, ToSaveRecording, ToSaveRoom, ToPublish}
      [] OTHER                -> {ToSaveRoom, ToPublish}

PlansOK == \A q \in Requests : op[q] # "idle" => plan[q] \in LeftOf(op[q])

\* What a request has read of the room.
CopiesOK ==
    \A q \in Requests :
        /\ op[q] = "create" => copy[q].status = "none"
        /\ op[q] = "start" => copy[q].status = "draft"
        /\ op[q] = "finish" => copy[q].status = "live"
        /\ op[q] = "startRecording" /\ ~nested => copy[q].active = NoRecording
        /\ op[q] = "stopRecording" /\ ~nested => copy[q].active = rec[q]

\* A recording is started by one request, and exists from its save on.
RecordingsOnce ==
    \A q \in Requests :
        /\ op[q] = "startRecording" =>
              /\ rec[q] \in Recordings
              /\ plan[q] = ToSaveRecording <=> recording[rec[q]] = "none"
              /\ \A p \in Requests : op[p] = "startRecording" /\ rec[p] = rec[q] => p = q
        /\ op[q] = "stopRecording" =>
              /\ rec[q] \in Recordings
              /\ recording[rec[q]] # "none"
              /\ plan[q] \in {ToSaveRoom, ToPublish} => recording[rec[q]] = "completed"

\* The requests that have saved recording r and not yet the room.
Awaiting(o, r) ==
    \E q \in Requests : op[q] = o /\ rec[q] = r /\ plan[q] = ToSaveRoom

\* A recording the room or a copy of it names as active was saved by its
\* start, room and all.
Named(r) == recording[r] # "none" /\ ~Awaiting("startRecording", r)

Smooth == Tidy({"startRecording", "stopRecording"}) /\ ~nested

TrackedInHand ==
    Smooth => \A r \in Recordings :
        /\ room.active = r => Named(r)
        /\ \A q \in Requests : copy[q].active = r => Named(r)
        /\ recording[r] = "started" <=>
              \/ room.active = r /\ ~Awaiting("stopRecording", r)
              \/ Awaiting("startRecording", r)

\* A request that finished the room is on its way to the queue, or has been.
FinishUnderWay ==
    \/ queued = {"close", "report"}
    \/ \E q \in Requests : op[q] = "finish" /\ plan[q] # ToFinish

FinishInHand ==
    "finish" \notin cut =>
        /\ room.status = "finished" => FinishUnderWay
        /\ \A q \in Requests :
              /\ copy[q].status = "finished" => FinishUnderWay
              /\ op[q] = "finish" /\ plan[q] = ToQueueReport => "close" \in queued

LifecycleInv ==
    /\ TypeOK /\ PlansOK /\ CopiesOK
    /\ RecordingsOnce /\ TrackedInHand /\ FinishInHand

-----------------------------------------------------------------------------

Calls == {"getRecording", "saveRecording", "saveRoom", "publish", "queueClose", "queueReport"}

\* The rests of the plans: what they begin with, what follows it, and that no
\* two are equal.
LEMMA Rests ==
    /\ ToRead # << >> /\ Head(ToRead) = "getRecording" /\ Tail(ToRead) = ToSaveRecording
    /\ ToSaveRecording # << >> /\ Head(ToSaveRecording) = "saveRecording"
    /\ Tail(ToSaveRecording) = ToSaveRoom
    /\ ToSaveRoom # << >> /\ Head(ToSaveRoom) = "saveRoom" /\ Tail(ToSaveRoom) = ToPublish
    /\ ToPublish # << >> /\ Head(ToPublish) = "publish" /\ Tail(ToPublish) = << >>
  BY DEF ToRead, ToSaveRecording, ToSaveRoom, ToPublish

LEMMA FinishRests ==
    /\ ToFinish # << >> /\ Head(ToFinish) = "saveRoom" /\ Tail(ToFinish) = ToAnnounce
    /\ ToAnnounce # << >> /\ Head(ToAnnounce) = "publish" /\ Tail(ToAnnounce) = ToQueueBoth
    /\ ToQueueBoth # << >> /\ Head(ToQueueBoth) = "queueClose"
    /\ Tail(ToQueueBoth) = ToQueueReport
    /\ ToQueueReport # << >> /\ Head(ToQueueReport) = "queueReport"
    /\ Tail(ToQueueReport) = << >>
  BY DEF ToFinish, ToAnnounce, ToQueueBoth, ToQueueReport

LEMMA RestLengths ==
    /\ Len(ToRead) = 4 /\ Len(ToSaveRecording) = 3 /\ Len(ToSaveRoom) = 2 /\ Len(ToPublish) = 1
    /\ Len(ToFinish) = 4 /\ Len(ToAnnounce) = 3 /\ Len(ToQueueBoth) = 2
    /\ Len(ToQueueReport) = 1
  BY DEF ToRead, ToSaveRecording, ToSaveRoom, ToPublish,
         ToFinish, ToAnnounce, ToQueueBoth, ToQueueReport

LEMMA RestsDiffer ==
    /\ ToSaveRoom \notin {ToRead, ToSaveRecording, ToPublish, ToAnnounce, ToQueueBoth,
                          ToQueueReport}
    /\ ToPublish \notin {ToRead, ToSaveRecording, ToAnnounce, ToQueueBoth, ToQueueReport}
    /\ ToSaveRecording # ToRead
    /\ ToFinish \notin {ToSaveRoom, ToPublish, ToAnnounce, ToQueueBoth, ToQueueReport}
    /\ ToQueueReport \notin {ToRead, ToSaveRecording, ToAnnounce, ToQueueBoth}
  BY RestLengths, Rests, FinishRests

LEMMA RestsAreCalls ==
    /\ ToRead \in Seq(Calls) /\ ToSaveRecording \in Seq(Calls)
    /\ ToSaveRoom \in Seq(Calls) /\ ToPublish \in Seq(Calls)
    /\ ToFinish \in Seq(Calls) /\ ToAnnounce \in Seq(Calls)
    /\ ToQueueBoth \in Seq(Calls) /\ ToQueueReport \in Seq(Calls) /\ << >> \in Seq(Calls)
  BY DEF Calls, ToRead, ToSaveRecording, ToSaveRoom, ToPublish,
         ToFinish, ToAnnounce, ToQueueBoth, ToQueueReport

LEMMA PlansBegin ==
    /\ Ops = {"create", "start", "finish", "startRecording", "stopRecording"}
    /\ Plan.create = ToSaveRoom /\ Plan.start = ToSaveRoom /\ Plan.finish = ToFinish
    /\ Plan.startRecording = ToSaveRecording /\ Plan.stopRecording = ToRead
    /\ \A o \in Ops : Plan[o] \in LeftOf(o) /\ "idle" \notin Ops
  BY DEF Ops, Plan, LeftOf, ToRead, ToSaveRecording, ToSaveRoom, ToPublish, ToFinish

\* The rest of a rest: a sequence of calls, empty after the last.
LEMMA RestsOfRests ==
    \A p \in {ToRead, ToSaveRecording, ToSaveRoom, ToPublish,
              ToFinish, ToAnnounce, ToQueueBoth, ToQueueReport} :
        /\ Tail(p) \in Seq(Calls)
        /\ Tail(p) = << >> <=> p \in {ToPublish, ToQueueReport}
<1> DEFINE all == {ToRead, ToSaveRecording, ToSaveRoom, ToPublish,
                   ToFinish, ToAnnounce, ToQueueBoth, ToQueueReport}
<1>1. \A p \in all : Tail(p) \in Seq(Calls)
  BY Rests, FinishRests, RestsAreCalls
<1>2. \A p \in all : Tail(p) = << >> <=> p \in {ToPublish, ToQueueReport}
  BY Rests, FinishRests
<1> QED BY <1>1, <1>2

\* What is left of a plan, one by one.
LEMMA LeftCases ==
    ASSUME NEW q \in Requests, TypeOK, PlansOK, op[q] # "idle"
    PROVE  /\ op[q] \in {"create", "start"} => plan[q] \in {ToSaveRoom, ToPublish}
           /\ op[q] = "finish" =>
                 plan[q] \in {ToFinish, ToAnnounce, ToQueueBoth, ToQueueReport}
           /\ op[q] = "startRecording" => plan[q] \in {ToSaveRecording, ToSaveRoom, ToPublish}
           /\ op[q] = "stopRecording" =>
                 plan[q] \in {ToRead, ToSaveRecording, ToSaveRoom, ToPublish}
           /\ op[q] \in {"create", "start", "finish", "startRecording", "stopRecording"}
  BY PlansBegin DEF TypeOK, PlansOK, LeftOf

LEMMA LifecycleStarts == Init => LifecycleInv
<1> SUFFICES ASSUME Init PROVE LifecycleInv
  OBVIOUS
<1>1. TypeOK
  BY RestsAreCalls DEF Init, TypeOK, RoomDocs, NoRoom, Calls
<1>2. PlansOK /\ CopiesOK /\ RecordingsOnce
  BY DEF Init, PlansOK, CopiesOK, RecordingsOnce
<1>3. TrackedInHand
  BY RoomAssumption DEF Init, TrackedInHand, Awaiting, NoRoom
<1>4. FinishInHand
  BY DEF Init, FinishInHand, NoRoom
<1> QED BY <1>1, <1>2, <1>3, <1>4 DEF LifecycleInv

\* A request that begins, under the guards of its operation.
LEMMA BeginKeepsInv ==
    ASSUME NEW q \in Requests, NEW o \in Ops, NEW r \in Recordings \cup {NoRecording},
           LifecycleInv, Begin(q, o, r),
           o = "create" => room.status = "none",
           o = "start" => room.status = "draft",
           o = "finish" => room.status = "live",
           o = "startRecording" =>
              /\ r \in Recordings /\ recording[r] = "none"
              /\ \A p \in Requests : op[p] = "startRecording" => rec[p] # r
              /\ nested' = (nested \/ room.active # NoRecording),
           o = "stopRecording" =>
              /\ r \in Recordings /\ recording[r] # "none"
              /\ nested' = (nested \/ room.active # r),
           nested' \in BOOLEAN /\ (nested => nested')
    PROVE  LifecycleInv'
<1> USE DEF LifecycleInv, Begin, docVars
<1>a. /\ \A p \in Requests : p # q => /\ op'[p] = op[p] /\ plan'[p] = plan[p]
                                      /\ copy'[p] = copy[p] /\ rec'[p] = rec[p]
      /\ op'[q] = o /\ plan'[q] = Plan[o] /\ copy'[q] = room /\ rec'[q] = r
      /\ op[q] = "idle" /\ o # "idle"
      /\ UNCHANGED <<room, recording, queued, overwrote, cut>>
  BY PlansBegin DEF TypeOK
<1>b. /\ o \in {"create", "start", "finish", "startRecording", "stopRecording"}
      /\ o = "finish" => Plan[o] = ToFinish
      /\ o = "startRecording" => Plan[o] = ToSaveRecording
      /\ o = "stopRecording" => Plan[o] = ToRead
      /\ Plan[o] # << >> /\ Plan[o] \in Seq(Calls) /\ Plan[o] \in LeftOf(o)
  BY PlansBegin, Rests, FinishRests, RestsAreCalls
<1>1. TypeOK'
  <2>1. plan' \in [Requests -> Seq(Calls)]
    BY <1>b DEF TypeOK, Calls
  <2>2. \A p \in Requests : op'[p] = "idle" <=> plan'[p] = << >>
    BY <1>a, <1>b DEF TypeOK
  <2> QED BY <2>1, <2>2 DEF TypeOK, Calls
<1>2. PlansOK'
  BY <1>a, <1>b DEF PlansOK
<1>3. CopiesOK'
  BY <1>a, <1>b DEF CopiesOK
<1>4. RecordingsOnce'
  BY <1>a, <1>b, RestsDiffer DEF RecordingsOnce
<1>5. TrackedInHand'
  <2> SUFFICES ASSUME Smooth', NEW s \in Recordings
               PROVE  /\ room.active = s => Named(s)'
                      /\ \A p \in Requests : copy'[p].active = s => Named(s)'
                      /\ recording[s] = "started" <=>
                            \/ room.active = s /\ ~Awaiting("stopRecording", s)'
                            \/ Awaiting("startRecording", s)'
    BY DEF TrackedInHand
  <2>1. Smooth
    BY DEF Smooth, Tidy
  <2>2. \A x \in {"startRecording", "stopRecording"} : Awaiting(x, s)' <=> Awaiting(x, s)
    <3>1. op'[q] = "startRecording" \/ op'[q] = "stopRecording" => plan'[q] # ToSaveRoom
      BY <1>a, <1>b, RestsDiffer
    <3> QED BY <1>a, <3>1 DEF Awaiting
  <2>3. Named(s)' <=> Named(s)
    BY <1>a, <2>2 DEF Named
  <2> QED BY <1>a, <2>1, <2>2, <2>3 DEF TrackedInHand
<1>6. FinishInHand'
  <2>1. FinishUnderWay => FinishUnderWay'
    BY <1>a DEF FinishUnderWay
  <2> QED BY <1>a, <1>b, <2>1, RestsDiffer DEF FinishInHand
<1> QED BY <1>1, <1>2, <1>3, <1>4, <1>5, <1>6

\* Where in its plan a request is when it takes a call.
LEMMA Taking ==
    ASSUME NEW q \in Requests, NEW step, TypeOK, PlansOK, Takes(q, step)
    PROVE  /\ op[q] # "idle"
           /\ step = "getRecording" => op[q] = "stopRecording" /\ plan[q] = ToRead
           /\ step = "saveRecording" =>
                 op[q] \in {"startRecording", "stopRecording"} /\ plan[q] = ToSaveRecording
           /\ step = "saveRoom" =>
                 plan[q] = IF op[q] = "finish" THEN ToFinish ELSE ToSaveRoom
           /\ step = "publish" =>
                 plan[q] = IF op[q] = "finish" THEN ToAnnounce ELSE ToPublish
           /\ step = "queueClose" => op[q] = "finish" /\ plan[q] = ToQueueBoth
           /\ step = "queueReport" => op[q] = "finish" /\ plan[q] = ToQueueReport
<1>1. op[q] # "idle" /\ Head(plan[q]) = step
  BY DEF TypeOK, Takes
<1> QED BY <1>1, LeftCases, Rests, FinishRests

\* A request that goes on: its plan is one call shorter, and the request idle
\* if that was the last.
LEMMA Advancing ==
    ASSUME NEW q \in Requests, NEW step, LifecycleInv, Takes(q, step), Advance(q)
    PROVE  /\ \A p \in Requests : p # q => /\ op'[p] = op[p] /\ plan'[p] = plan[p]
                                           /\ copy'[p] = copy[p] /\ rec'[p] = rec[p]
           /\ plan'[q] = Tail(plan[q])
           /\ IF plan[q] \in {ToPublish, ToQueueReport}
              THEN /\ op'[q] = "idle" /\ copy'[q] = NoRoom /\ rec'[q] = NoRecording
              ELSE UNCHANGED <<op, copy, rec>>
           /\ op' \in [Requests -> Ops \cup {"idle"}] /\ copy' \in [Requests -> RoomDocs]
           /\ rec' \in [Requests -> Recordings \cup {NoRecording}]
           /\ plan' \in [Requests -> Seq(Calls)]
           /\ \A p \in Requests : op'[p] = "idle" <=> plan'[p] = << >>
           /\ PlansOK'
<1> USE DEF LifecycleInv
<1> DEFINE last == plan[q] \in {ToPublish, ToQueueReport}
<1>1. plan[q] \in {ToRead, ToSaveRecording, ToSaveRoom, ToPublish,
                   ToFinish, ToAnnounce, ToQueueBoth, ToQueueReport}
  BY LeftCases DEF TypeOK, Takes
<1>2. Len(plan[q]) = 1 <=> last
  BY <1>1, RestLengths
<1>3. op[q] # "idle" /\ (Tail(plan[q]) = << >> <=> last) /\ Tail(plan[q]) \in Seq(Calls)
  <2>1. op[q] # "idle"
    BY DEF TypeOK, Takes
  <2> QED BY <1>1, <2>1, RestsOfRests
<1>4. ~last => Tail(plan[q]) \in LeftOf(op[q])
  BY <1>3, LeftCases, Rests, FinishRests DEF LeftOf
<1>5. /\ \A p \in Requests : p # q => /\ op'[p] = op[p] /\ plan'[p] = plan[p]
                                      /\ copy'[p] = copy[p] /\ rec'[p] = rec[p]
      /\ plan'[q] = Tail(plan[q])
      /\ IF last
         THEN /\ op'[q] = "idle" /\ copy'[q] = NoRoom /\ rec'[q] = NoRecording
         ELSE UNCHANGED <<op, copy, rec>>
  BY <1>2 DEF Advance, Idle, TypeOK
<1>6. NoRoom \in RoomDocs
  BY DEF NoRoom, RoomDocs
<1>7. /\ op' \in [Requests -> Ops \cup {"idle"}] /\ copy' \in [Requests -> RoomDocs]
      /\ rec' \in [Requests -> Recordings \cup {NoRecording}]
      /\ plan' \in [Requests -> Seq(Calls)]
  <2>1. plan' = [plan EXCEPT ![q] = Tail(plan[q])]
    BY DEF Advance
  <2>2. plan' \in [Requests -> Seq(Calls)]
    BY <1>3, <2>1 DEF TypeOK, Calls
  <2> QED BY <1>6, <2>2 DEF Advance, Idle, TypeOK
<1>8. \A p \in Requests : op'[p] = "idle" <=> plan'[p] = << >>
  BY <1>3, <1>5 DEF TypeOK
<1>9. PlansOK'
  BY <1>4, <1>5 DEF PlansOK
<1> QED BY <1>5, <1>7, <1>8, <1>9

\* A step that keeps the documents, as far as recordings are concerned: it
\* keeps the copies or drops them, and moves no request to or from ToSaveRoom.
LEMMA TrackedStays ==
    ASSUME TrackedInHand, UNCHANGED <<room, recording>>, Smooth' => Smooth,
           \A p \in Requests : copy'[p] = copy[p] \/ copy'[p] = NoRoom,
           Smooth' => \A p \in Requests :
              op[p] \in {"startRecording", "stopRecording"} /\ plan[p] = ToSaveRoom =>
                 op'[p] = op[p] /\ rec'[p] = rec[p] /\ plan'[p] = ToSaveRoom,
           \A p \in Requests :
              op'[p] \in {"startRecording", "stopRecording"} /\ plan'[p] = ToSaveRoom =>
                 op[p] = op'[p] /\ rec[p] = rec'[p] /\ plan[p] = ToSaveRoom
    PROVE  TrackedInHand'
<1> SUFFICES ASSUME Smooth', NEW r \in Recordings
             PROVE  /\ room.active = r => Named(r)'
                    /\ \A p \in Requests : copy'[p].active = r => Named(r)'
                    /\ recording[r] = "started" <=>
                          \/ room.active = r /\ ~Awaiting("stopRecording", r)'
                          \/ Awaiting("startRecording", r)'
  BY DEF TrackedInHand
<1>1. Awaiting("startRecording", r)' <=> Awaiting("startRecording", r)
  BY DEF Awaiting
<1>2. Awaiting("stopRecording", r)' <=> Awaiting("stopRecording", r)
  BY DEF Awaiting
<1>3. Named(r)' <=> Named(r)
  BY <1>1 DEF Named
<1>4. \A p \in Requests : copy'[p].active = r => copy[p].active = r
  BY RoomAssumption DEF NoRoom
<1> QED BY <1>1, <1>2, <1>3, <1>4 DEF TrackedInHand

\* Reading the recording, publishing: the documents stay.
LEMMA CallsKeepInv ==
    ASSUME NEW q \in Requests, LifecycleInv, ReadRecording(q) \/ Publish(q)
    PROVE  LifecycleInv'
<1> USE DEF LifecycleInv, docVars, history
<1>0. PICK step \in {"getRecording", "publish"} : Takes(q, step)
  BY DEF ReadRecording, Publish
<1>1. Advance(q) /\ UNCHANGED <<room, recording, queued, overwrote, cut, nested>>
  BY DEF ReadRecording, Publish
<1>2. \/ op[q] = "stopRecording" /\ plan[q] = ToRead /\ plan'[q] = ToSaveRecording
      \/ op[q] = "finish" /\ plan[q] = ToAnnounce /\ plan'[q] = ToQueueBoth
      \/ op[q] # "finish" /\ plan[q] = ToPublish /\ plan'[q] = << >> /\ op'[q] = "idle"
  BY <1>0, <1>1, Taking, Advancing, Rests, FinishRests
<1>a. /\ \A p \in Requests : p # q => /\ op'[p] = op[p] /\ plan'[p] = plan[p]
                                      /\ copy'[p] = copy[p] /\ rec'[p] = rec[p]
      /\ IF plan[q] = ToPublish THEN op'[q] = "idle" /\ copy'[q] = NoRoom
         ELSE UNCHANGED <<op, copy, rec>>
  <2>1. plan[q] # ToQueueReport
    BY <1>2, RestsDiffer
  <2>2. IF plan[q] \in {ToPublish, ToQueueReport}
        THEN op'[q] = "idle" /\ copy'[q] = NoRoom
        ELSE UNCHANGED <<op, copy, rec>>
    BY <1>0, <1>1, Advancing
  <2>3. \A p \in Requests : p # q => /\ op'[p] = op[p] /\ plan'[p] = plan[p]
                                     /\ copy'[p] = copy[p] /\ rec'[p] = rec[p]
    BY <1>0, <1>1, Advancing
  <2> QED BY <2>1, <2>2, <2>3
<1>3. TypeOK' /\ PlansOK'
  BY <1>0, <1>1, Advancing DEF TypeOK, Calls
<1>4. CopiesOK'
  BY <1>1, <1>a DEF CopiesOK
<1>5. RecordingsOnce'
  BY <1>1, <1>2, <1>a, RestsDiffer DEF RecordingsOnce
<1>6. TrackedInHand'
  <2>1. plan[q] # ToSaveRoom /\ (plan'[q] # ToSaveRoom \/ op'[q] = "idle")
    BY <1>2, RestsDiffer, RestLengths
  <2>2. Smooth' => Smooth
    BY <1>1 DEF Smooth, Tidy
  <2> QED BY <1>1, <1>a, <2>1, <2>2, TrackedStays
<1>7. FinishInHand'
  <2>1. FinishUnderWay => FinishUnderWay'
    BY <1>1, <1>2, <1>a, RestsDiffer, FinishRests DEF FinishUnderWay
  <2>2. plan'[q] # ToQueueReport \/ op'[q] # "finish"
    BY <1>2, RestsDiffer, RestLengths
  <2>3. \A p \in Requests : copy'[p].status = "finished" => copy[p].status = "finished"
    BY <1>a DEF NoRoom
  <2> QED BY <1>1, <1>a, <2>1, <2>2, <2>3 DEF FinishInHand
<1> QED BY <1>3, <1>4, <1>5, <1>6, <1>7

\* SaveRecording creates the document of a started recording, or completes it.
LEMMA SaveRecordingKeepsInv ==
    ASSUME NEW q \in Requests, LifecycleInv, SaveRecording(q) PROVE LifecycleInv'
<1> USE DEF LifecycleInv, history
<1>0. /\ Takes(q, "saveRecording") /\ Advance(q)
      /\ UNCHANGED <<room, queued, overwrote, cut, nested>>
      /\ recording' = [recording EXCEPT ![rec[q]] =
                          IF op[q] = "startRecording" THEN "started" ELSE "completed"]
  BY DEF SaveRecording
<1>1. /\ op[q] \in {"startRecording", "stopRecording"} /\ plan[q] = ToSaveRecording
      /\ plan'[q] = ToSaveRoom /\ plan[q] \notin {ToPublish, ToQueueReport}
      /\ UNCHANGED <<op, copy, rec>>
      /\ \A p \in Requests : p # q => plan'[p] = plan[p]
  <2>1. op[q] \in {"startRecording", "stopRecording"} /\ plan[q] = ToSaveRecording
    BY <1>0, Taking
  <2>2. plan[q] \notin {ToPublish, ToQueueReport}
    BY <2>1, RestsDiffer
  <2>3. /\ plan'[q] = Tail(plan[q]) /\ UNCHANGED <<op, copy, rec>>
        /\ \A p \in Requests : p # q => plan'[p] = plan[p]
    BY <1>0, <2>2, Advancing
  <2> QED BY <2>1, <2>2, <2>3, Rests
<1> DEFINE r == rec[q]
<1>2. /\ r \in Recordings
      /\ op[q] = "startRecording" => recording[r] = "none"
      /\ op[q] = "stopRecording" => recording[r] # "none"
      /\ \A p \in Requests : op[p] = "startRecording" /\ rec[p] = r /\ p # q =>
            plan[p] # ToSaveRecording /\ op[q] # "startRecording"
      /\ \A p \in Requests : op[p] = "stopRecording" /\ rec[p] = r =>
            op[q] = "stopRecording"
  BY <1>1 DEF RecordingsOnce
<1>3. /\ recording'[r] = IF op[q] = "startRecording" THEN "started" ELSE "completed"
      /\ \A s \in Recordings : s # r => recording'[s] = recording[s]
      /\ recording' \in [Recordings -> {"none", "started", "completed"}]
  BY <1>0, <1>2 DEF TypeOK
<1> HIDE DEF r
<1>4. TypeOK' /\ PlansOK'
  BY <1>0, <1>3, Advancing DEF TypeOK, Calls
<1>5. CopiesOK'
  BY <1>0, <1>1 DEF CopiesOK
<1>6. RecordingsOnce'
  <2> SUFFICES ASSUME NEW p \in Requests
               PROVE  /\ op[p] = "startRecording" =>
                            /\ rec[p] \in Recordings
                            /\ plan'[p] = ToSaveRecording <=> recording'[rec[p]] = "none"
                            /\ \A x \in Requests : op[x] = "startRecording"
                                                     /\ rec[x] = rec[p] => x = p
                      /\ op[p] = "stopRecording" =>
                            /\ rec[p] \in Recordings
                            /\ recording'[rec[p]] # "none"
                            /\ plan'[p] \in {ToSaveRoom, ToPublish}
                                  => recording'[rec[p]] = "completed"
    BY <1>1 DEF RecordingsOnce
  <2>1. CASE p = q
    BY <1>1, <1>2, <1>3, <2>1, RestsDiffer DEF RecordingsOnce, r
  <2>2. CASE p # q /\ rec[p] # r
    BY <1>1, <1>3, <2>2 DEF RecordingsOnce
  <2>3. CASE p # q /\ rec[p] = r
    BY <1>1, <1>2, <1>3, <2>3 DEF RecordingsOnce
  <2> QED BY <2>1, <2>2, <2>3
<1>7. TrackedInHand'
  <2> SUFFICES ASSUME Smooth', NEW s \in Recordings
               PROVE  /\ room.active = s => Named(s)'
                      /\ \A p \in Requests : copy[p].active = s => Named(s)'
                      /\ recording'[s] = "started" <=>
                            \/ room.active = s /\ ~Awaiting("stopRecording", s)'
                            \/ Awaiting("startRecording", s)'
    BY <1>0, <1>1 DEF TrackedInHand
  <2>1. /\ room.active = s => Named(s)
        /\ \A p \in Requests : copy[p].active = s => Named(s)
        /\ recording[s] = "started" <=>
              \/ room.active = s /\ ~Awaiting("stopRecording", s)
              \/ Awaiting("startRecording", s)
    BY <1>0 DEF TrackedInHand, Smooth, Tidy
  <2>2. /\ Awaiting("startRecording", s)'
              <=> Awaiting("startRecording", s) \/ (s = r /\ op[q] = "startRecording")
        /\ Awaiting("stopRecording", s)'
              <=> Awaiting("stopRecording", s) \/ (s = r /\ op[q] = "stopRecording")
    BY <1>1, RestsDiffer DEF Awaiting, r
  <2>3. CASE s # r
    BY <1>3, <2>1, <2>2, <2>3 DEF Named
  <2>4. CASE s = r /\ op[q] = "startRecording"
    BY <1>2, <1>3, <2>1, <2>2, <2>4 DEF Named
  <2>5. CASE s = r /\ op[q] = "stopRecording"
    <3>1. Named(s)
      BY <1>0, <2>1, <2>5 DEF CopiesOK, Smooth, r
    <3> QED BY <1>1, <1>3, <2>1, <2>2, <2>5, <3>1 DEF Named
  <2> QED BY <1>1, <2>3, <2>4, <2>5
<1>8. FinishInHand'
  <2>1. FinishUnderWay => FinishUnderWay'
    BY <1>0, <1>1 DEF FinishUnderWay
  <2> QED BY <1>0, <1>1, <2>1 DEF FinishInHand
<1> QED BY <1>4, <1>5, <1>6, <1>7, <1>8

\* SaveRoom replaces the document by the request's copy with one field changed.
LEMMA SaveRoomKeepsInv ==
    ASSUME NEW q \in Requests, LifecycleInv, SaveRoom(q) PROVE LifecycleInv'
<1> USE DEF LifecycleInv
<1>0. /\ Takes(q, "saveRoom") /\ Advance(q)
      /\ UNCHANGED <<recording, queued, cut, nested>>
      /\ room' = NewDocument(q) /\ overwrote' = (overwrote \/ copy[q] # room)
  BY DEF SaveRoom
<1>1. /\ op[q] \in {"create", "start", "finish", "startRecording", "stopRecording"}
      /\ plan[q] = IF op[q] = "finish" THEN ToFinish ELSE ToSaveRoom
      /\ plan'[q] = IF op[q] = "finish" THEN ToAnnounce ELSE ToPublish
      /\ UNCHANGED <<op, copy, rec>>
      /\ \A p \in Requests : p # q => plan'[p] = plan[p]
  <2>1. op[q] # "idle" /\ plan[q] = IF op[q] = "finish" THEN ToFinish ELSE ToSaveRoom
    BY <1>0, Taking
  <2>2. plan[q] \notin {ToPublish, ToQueueReport}
    BY <2>1, RestsDiffer
  <2>3. /\ plan'[q] = Tail(plan[q]) /\ UNCHANGED <<op, copy, rec>>
        /\ \A p \in Requests : p # q => plan'[p] = plan[p]
    BY <1>0, <2>2, Advancing
  <2>4. op[q] \in {"create", "start", "finish", "startRecording", "stopRecording"}
    BY <2>1, LeftCases
  <2> QED BY <2>1, <2>3, <2>4, Rests, FinishRests
<1>2. /\ copy[q] \in RoomDocs
      /\ op[q] = "startRecording" => rec[q] \in Recordings
  BY DEF TypeOK, RecordingsOnce
<1>3. /\ room' \in RoomDocs
      /\ room'.status = CASE op[q] = "create" -> "draft" [] op[q] = "start" -> "live"
                          [] op[q] = "finish" -> "finished" [] OTHER -> copy[q].status
      /\ room'.active = CASE op[q] = "startRecording" -> rec[q]
                          [] op[q] = "stopRecording" -> NoRecording
                          [] OTHER -> copy[q].active
  BY <1>0, <1>1, <1>2 DEF NewDocument, RoomDocs
<1>4. TypeOK' /\ PlansOK'
  BY <1>0, <1>3, Advancing DEF TypeOK, Calls
<1>5. CopiesOK'
  BY <1>0, <1>1 DEF CopiesOK
<1>6. RecordingsOnce'
  BY <1>0, <1>1, RestsDiffer DEF RecordingsOnce
<1>7. TrackedInHand'
  <2> SUFFICES ASSUME Smooth', NEW s \in Recordings
               PROVE  /\ room'.active = s => Named(s)'
                      /\ \A p \in Requests : copy[p].active = s => Named(s)'
                      /\ recording[s] = "started" <=>
                            \/ room'.active = s /\ ~Awaiting("stopRecording", s)'
                            \/ Awaiting("startRecording", s)'
    BY <1>0, <1>1 DEF TrackedInHand
  <2>1. /\ Smooth /\ copy[q] = room
    BY <1>0 DEF Smooth, Tidy
  <2>2. /\ room.active = s => Named(s)
        /\ \A p \in Requests : copy[p].active = s => Named(s)
        /\ recording[s] = "started" <=>
              \/ room.active = s /\ ~Awaiting("stopRecording", s)
              \/ Awaiting("startRecording", s)
    BY <2>1 DEF TrackedInHand
  <2>3. \A x \in {"startRecording", "stopRecording"} :
          (op[q] # x \/ rec[q] # s) => (Awaiting(x, s)' <=> Awaiting(x, s))
    BY <1>1, RestsDiffer DEF Awaiting
  <2>4. Named(s) => Named(s)'
    BY <1>0, <1>1, RestsDiffer DEF Named, Awaiting
  <2>5. CASE op[q] \in {"create", "start", "finish"}
    BY <1>3, <2>1, <2>2, <2>3, <2>4, <2>5
  <2>6. CASE op[q] \in {"startRecording", "stopRecording"} /\ rec[q] # s
    <3>1. room'.active = s <=> room.active = s
      BY <1>2, <1>3, <2>1, <2>6, RoomAssumption DEF CopiesOK, Smooth
    <3> QED BY <2>2, <2>3, <2>4, <2>6, <3>1
  <2>7. CASE op[q] = "startRecording" /\ rec[q] = s
    <3>1. Awaiting("startRecording", s) /\ ~Awaiting("startRecording", s)'
      BY <1>1, <2>7, RestsDiffer DEF Awaiting, RecordingsOnce
    <3>2. recording[s] = "started" /\ room'.active = s
      BY <1>3, <2>2, <2>7, <3>1
    <3>3. \A p \in Requests : op[p] = "stopRecording" => rec[p] # s
      BY <2>1, <2>2, <3>1 DEF CopiesOK, Smooth, Named
    <3>4. ~Awaiting("stopRecording", s)'
      BY <1>1, <3>3 DEF Awaiting
    <3> QED BY <1>0, <3>1, <3>2, <3>4 DEF Named
  <2>8. CASE op[q] = "stopRecording" /\ rec[q] = s
    <3>1. Named(s) /\ recording[s] = "completed" /\ room'.active # s
      BY <1>1, <1>3, <2>1, <2>2, <2>8, RoomAssumption DEF CopiesOK, RecordingsOnce, Smooth
    <3>2. Awaiting("startRecording", s)' <=> Awaiting("startRecording", s)
      BY <2>3, <2>8
    <3> QED BY <2>4, <3>1, <3>2 DEF Named
  <2> QED BY <1>1, <2>5, <2>6, <2>7, <2>8
<1>8. FinishInHand'
  <2> SUFFICES ASSUME "finish" \notin cut
               PROVE  /\ room'.status = "finished" => FinishUnderWay'
                      /\ \A p \in Requests :
                            /\ copy[p].status = "finished" => FinishUnderWay'
                            /\ op[p] = "finish" /\ plan'[p] = ToQueueReport
                                  => "close" \in queued
    BY <1>0, <1>1 DEF FinishInHand
  <2>1. FinishUnderWay => FinishUnderWay'
    BY <1>0, <1>1, RestsDiffer DEF FinishUnderWay
  <2>2. op[q] = "finish" => FinishUnderWay'
    BY <1>1, RestsDiffer DEF FinishUnderWay
  <2>3. room'.status = "finished" => op[q] = "finish" \/ copy[q].status = "finished"
    BY <1>3
  <2>4. plan'[q] # ToQueueReport
    BY <1>1, RestsDiffer
  <2> QED BY <1>1, <2>1, <2>2, <2>3, <2>4 DEF FinishInHand
<1> QED BY <1>4, <1>5, <1>6, <1>7, <1>8

\* enqueueBestEffort, for one of FinishRoom's two jobs.
LEMMA QueueingKeepsInv ==
    ASSUME NEW q \in Requests, LifecycleInv,
           NEW step, NEW job,
           \/ step = "queueClose" /\ job = "close"
           \/ step = "queueReport" /\ job = "report",
           QueueJob(q, step, job)
    PROVE  LifecycleInv'
<1> USE DEF LifecycleInv
<1>0. /\ Takes(q, step) /\ Advance(q)
      /\ \/ queued' = queued \cup {job} /\ cut' = cut
         \/ cut' = cut \cup {op[q]} /\ queued' = queued
      /\ UNCHANGED <<room, recording, overwrote, nested>>
  BY DEF QueueJob
<1>1. /\ op[q] = "finish" /\ op[q] \in Ops
      /\ \/ step = "queueClose" /\ plan[q] = ToQueueBoth
         \/ step = "queueReport" /\ plan[q] = ToQueueReport
  BY <1>0, Taking, PlansBegin
<1>2. /\ plan'[q] = Tail(plan[q])
      /\ \A p \in Requests : p # q => /\ op'[p] = op[p] /\ plan'[p] = plan[p]
                                      /\ copy'[p] = copy[p] /\ rec'[p] = rec[p]
      /\ IF plan[q] \in {ToPublish, ToQueueReport}
         THEN op'[q] = "idle" /\ copy'[q] = NoRoom
         ELSE UNCHANGED <<op, copy, rec>>
  BY <1>0, Advancing
<1>3. \/ /\ step = "queueClose" /\ plan[q] = ToQueueBoth /\ plan'[q] = ToQueueReport
         /\ UNCHANGED <<op, copy, rec>>
      \/ step = "queueReport" /\ plan[q] = ToQueueReport /\ op'[q] = "idle" /\ copy'[q] = NoRoom
  BY <1>1, <1>2, FinishRests, RestsDiffer
<1>4. TypeOK' /\ PlansOK'
  BY <1>0, <1>1, Advancing DEF TypeOK, Calls
<1>5. CopiesOK'
  BY <1>0, <1>2, <1>3 DEF CopiesOK
<1>6. RecordingsOnce'
  BY <1>0, <1>1, <1>2, <1>3 DEF RecordingsOnce
<1>7. TrackedInHand'
  <2>1. plan[q] # ToSaveRoom /\ (op'[q] = "finish" \/ op'[q] = "idle")
    BY <1>1, <1>3, RestsDiffer
  <2>2. Smooth' => Smooth
    BY <1>0 DEF Smooth, Tidy
  <2>3. \A p \in Requests : copy'[p] = copy[p] \/ copy'[p] = NoRoom
    BY <1>2, <1>3
  <2> QED BY <1>0, <1>1, <1>2, <2>1, <2>2, <2>3, TrackedStays
<1>8. FinishInHand'
  <2> SUFFICES ASSUME "finish" \notin cut' PROVE FinishInHand'
    BY DEF FinishInHand
  <2>1. cut' = cut /\ queued' = queued \cup {job}
    BY <1>0, <1>1
  <2>2. CASE step = "queueClose"
    <3>1. FinishUnderWay'
      BY <1>1, <1>3, <2>2, RestsDiffer DEF FinishUnderWay
    <3>2. "close" \in queued'
      BY <2>1, <2>2
    <3> QED BY <3>1, <3>2 DEF FinishInHand
  <2>3. CASE step = "queueReport"
    <3>1. "close" \in queued
      BY <1>1, <2>1, <2>3 DEF FinishInHand
    <3>2. queued' = {"close", "report"}
      BY <2>1, <2>3, <3>1 DEF TypeOK
    <3> QED BY <3>2 DEF FinishInHand, FinishUnderWay
  <2> QED BY <2>2, <2>3
<1> QED BY <1>4, <1>5, <1>6, <1>7, <1>8

\* A request that ends early is recorded, unless it had saved nothing.
LEMMA CutShortKeepsInv ==
    ASSUME NEW q \in Requests, LifecycleInv, CutShort(q) PROVE LifecycleInv'
<1> USE DEF LifecycleInv, docVars
<1>0. /\ \A p \in Requests : p # q => /\ op'[p] = op[p] /\ plan'[p] = plan[p]
                                      /\ copy'[p] = copy[p] /\ rec'[p] = rec[p]
      /\ op'[q] = "idle" /\ plan'[q] = << >> /\ copy'[q] = NoRoom
      /\ UNCHANGED <<room, recording, queued, overwrote, nested>>
      /\ op[q] # "idle" /\ op[q] \in Ops
      /\ cut' = IF plan[q] = Plan[op[q]] THEN cut ELSE cut \cup {op[q]}
  BY DEF CutShort, Idle, TypeOK
<1>1. TypeOK'
  <2>1. plan' \in [Requests -> Seq(Calls)]
    BY RestsAreCalls DEF CutShort, TypeOK, Calls
  <2>2. NoRoom \in RoomDocs
    BY DEF NoRoom, RoomDocs
  <2>3. /\ op' \in [Requests -> Ops \cup {"idle"}] /\ copy' \in [Requests -> RoomDocs]
        /\ rec' \in [Requests -> Recordings \cup {NoRecording}]
    BY <2>2 DEF CutShort, Idle, TypeOK
  <2>4. \A p \in Requests : op'[p] = "idle" <=> plan'[p] = << >>
    BY <1>0 DEF TypeOK
  <2>5. cut' \subseteq Ops
    BY <1>0 DEF TypeOK
  <2> QED BY <1>0, <2>1, <2>3, <2>4, <2>5 DEF TypeOK, Calls
<1>2. PlansOK'
  BY <1>0 DEF PlansOK
<1>3. CopiesOK'
  BY <1>0 DEF CopiesOK
<1>4. RecordingsOnce'
  BY <1>0 DEF RecordingsOnce
<1>5. TrackedInHand'
  <2>1. Smooth' => Smooth
    BY <1>0 DEF Smooth, Tidy
  <2>2. Smooth' /\ op[q] \in {"startRecording", "stopRecording"} => plan[q] # ToSaveRoom
    <3>1. op[q] \in {"startRecording", "stopRecording"} => Plan[op[q]] # ToSaveRoom
      BY PlansBegin, RestsDiffer
    <3> QED BY <1>0, <3>1 DEF Smooth, Tidy
  <2>3. \A p \in Requests : copy'[p] = copy[p] \/ copy'[p] = NoRoom
    BY <1>0
  <2> QED BY <1>0, <2>1, <2>2, <2>3, TrackedStays
<1>6. FinishInHand'
  <2>1. "finish" \notin cut' => "finish" \notin cut /\ (op[q] = "finish" => plan[q] = ToFinish)
    BY <1>0, PlansBegin
  <2>2. "finish" \notin cut' /\ FinishUnderWay => FinishUnderWay'
    BY <1>0, <2>1 DEF FinishUnderWay
  <2> QED BY <1>0, <2>1, <2>2 DEF FinishInHand, NoRoom
<1> QED BY <1>1, <1>2, <1>3, <1>4, <1>5, <1>6

LEMMA LifecycleInductive == LifecycleInv /\ [Next]_vars => LifecycleInv'
<1> SUFFICES ASSUME LifecycleInv, [Next]_vars PROVE LifecycleInv'
  OBVIOUS
<1>a. /\ nested \in BOOLEAN
      /\ "create" \in Ops /\ "start" \in Ops /\ "finish" \in Ops
      /\ "startRecording" \in Ops /\ "stopRecording" \in Ops
  BY PlansBegin DEF LifecycleInv, TypeOK
<1>1. ASSUME NEW q \in Requests, CreateRoom(q) \/ StartRoom(q) \/ FinishRoom(q)
      PROVE  LifecycleInv'
  BY <1>a, <1>1, BeginKeepsInv DEF CreateRoom, StartRoom, FinishRoom
<1>2. ASSUME NEW q \in Requests, NEW r \in Recordings,
             StartRecording(q, r) \/ StopRecording(q, r)
      PROVE  LifecycleInv'
  <2>1. CASE StartRecording(q, r)
    BY <1>a, <2>1, BeginKeepsInv DEF StartRecording
  <2>2. CASE StopRecording(q, r)
    BY <1>a, <2>2, BeginKeepsInv DEF StopRecording
  <2> QED BY <1>2, <2>1, <2>2
<1>3. ASSUME NEW q \in Requests, Proceed(q) PROVE LifecycleInv'
  <2>1. CASE ReadRecording(q) \/ Publish(q)
    BY <2>1, CallsKeepInv
  <2>2. CASE SaveRecording(q) \/ SaveRoom(q)
    BY <2>2, SaveRecordingKeepsInv, SaveRoomKeepsInv
  <2>3. CASE QueueJob(q, "queueClose", "close")
    BY <2>3, QueueingKeepsInv
  <2>4. CASE QueueJob(q, "queueReport", "report")
    BY <2>4, QueueingKeepsInv
  <2> QED BY <1>3, <2>1, <2>2, <2>3, <2>4 DEF Proceed
<1>4. ASSUME NEW q \in Requests, CutShort(q) PROVE LifecycleInv'
  BY <1>4, CutShortKeepsInv
<1>5. CASE UNCHANGED vars
  BY <1>5 DEF LifecycleInv, TypeOK, PlansOK, CopiesOK, RecordingsOnce, TrackedInHand,
              FinishInHand, FinishUnderWay, Named, Awaiting, Smooth, Tidy,
              vars, docVars, requestVars, history
<1> QED BY <1>1, <1>2, <1>3, <1>4, <1>5 DEF Next

LEMMA LifecycleInvariant == Spec => []LifecycleInv
  BY LifecycleStarts, LifecycleInductive, PTL DEF Spec

\* With no request at work the active recording is the one that runs, unless
\* saves were overwritten, operations cut short or recordings nested
\* (StartRecording, StopRecording).
THEOREM RecordingsAreTracked == Spec => []RecordingsTracked
<1>1. LifecycleInv => RecordingsTracked
  <2> SUFFICES ASSUME LifecycleInv, Quiet, Smooth
               PROVE  {r \in Recordings : recording[r] = "started"}
                         = {room.active} \ {NoRecording}
    BY DEF LifecycleInv, RecordingsTracked, Smooth
  <2>1. \A r \in Recordings, o \in {"startRecording", "stopRecording"} : ~Awaiting(o, r)
    BY DEF Quiet, Awaiting
  <2>2. \A r \in Recordings : recording[r] = "started" <=> room.active = r
    BY <2>1 DEF LifecycleInv, TrackedInHand
  <2>3. room.active \in Recordings \cup {NoRecording}
    BY DEF LifecycleInv, TypeOK, RoomDocs
  <2> QED BY <2>2, <2>3, RoomAssumption
<1> QED BY <1>1, LifecycleInvariant, PTL

\* A finished room has both jobs queued, unless the request that finished it
\* was cut short (FinishRoom).
THEOREM JobsAreQueued == Spec => []FinishQueuesJobs
<1>1. LifecycleInv => FinishQueuesJobs
  <2> SUFFICES ASSUME LifecycleInv, Quiet, room.status = "finished", "finish" \notin cut
               PROVE  queued = {"close", "report"}
    BY DEF FinishQueuesJobs
  <2> QED BY DEF LifecycleInv, FinishInHand, FinishUnderWay, Quiet
<1> QED BY <1>1, LifecycleInvariant, PTL

\* The status goes forward, but for a save of a copy that was read before
\* another request changed it (SaveRoom).
THEOREM StatusGoesForward == Spec => LifecycleOrder
<1> DEFINE Forward ==
             \/ <<room.status, room'.status>> \in
                   {<<"none", "draft">>, <<"draft", "live">>, <<"live", "finished">>}
             \/ room'.status = room.status
             \/ SavesOldStatus
<1>1. LifecycleInv /\ [Next]_vars => [Forward]_vars
  <2> SUFFICES ASSUME LifecycleInv, [Next]_vars PROVE Forward \/ UNCHANGED vars
    OBVIOUS
  <2>1. CASE \E q \in Requests : SaveRoom(q)
    <3>1. PICK q \in Requests : SaveRoom(q)
      BY <2>1
    <3>2. /\ Takes(q, "saveRoom") /\ room' = NewDocument(q) /\ plan' = [plan EXCEPT ![q] = Tail(@)]
      BY <3>1 DEF SaveRoom, Advance
    <3>3. CASE copy[q].status # room.status
      BY <3>2, <3>3 DEF SavesOldStatus, LifecycleInv, TypeOK
    <3>4. CASE copy[q].status = room.status
      <4>1. op[q] \in {"create", "start", "finish", "startRecording", "stopRecording"}
        BY <3>2, Taking, LeftCases DEF LifecycleInv
      <4>2. copy[q] \in RoomDocs
        BY DEF LifecycleInv, TypeOK
      <4>3. room'.status = CASE op[q] = "create" -> "draft" [] op[q] = "start" -> "live"
                             [] op[q] = "finish" -> "finished" [] OTHER -> copy[q].status
        BY <3>2, <4>1, <4>2 DEF NewDocument, RoomDocs
      <4> QED BY <3>4, <4>1, <4>3 DEF LifecycleInv, CopiesOK
    <3> QED BY <3>3, <3>4
  <2>2. CASE ~\E q \in Requests : SaveRoom(q)
    BY <2>2 DEF Next, Proceed, CreateRoom, StartRoom, FinishRoom, StartRecording, StopRecording,
                Begin, ReadRecording, SaveRecording, Publish, QueueJob, CutShort, docVars
  <2> QED BY <2>1, <2>2
<1> QED BY <1>1, LifecycleInvariant, PTL DEF Spec, LifecycleOrder

=============================================================================
