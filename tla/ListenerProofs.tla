--------------------------- MODULE ListenerProofs ---------------------------
(***************************************************************************)
(* The sessions and the presence set agree at rest, a session that ended   *)
(* stays ended, sweeps end only stale sessions and a finished room drains, *)
(* for any numbers of sessions, users and calls.  SessionInv is inductive: *)
(* it says what a call that is under way knows of the sessions it has read *)
(* or saved, unless it overlapped with a call of the other kind.           *)
(***************************************************************************)
EXTENDS ListenerSessions, TLAPS

\* A call that is not under way has nothing in hand; no session is overdue
\* twice.
AtRest ==
    /\ \A c \in Calls : op[c] = "idle" => todo[c] = {} /\ saved[c] = NoSession
    /\ \A i, j \in DOMAIN overdue : overdue[i] = overdue[j] => i = j

\* What a call is about to save: a keeper's session has not ended, only a join
\* saves one that does not exist, a sweep's session is still overdue.
BeforeSave ==
    \A c \in Calls : \A s \in todo[c] :
        /\ op[c] # "join" => status[s] # "none"
        /\ op[c] \in Keepers /\ s \notin mixed => status[s] # "ended"
        /\ op[c] = "expire" /\ status[s] = "active" /\ s \notin mixed => Overdue(s)

\* Calls of both kinds on one session are recorded.
OverlapsRecorded ==
    \A s \in Sessions, c, d \in Calls : KeptBy(c, s) /\ EndedBy(d, s) => s \in mixed

\* What a call has saved stands until it marks it.
AfterSave ==
    \A s \in Sessions \ mixed, c \in Calls : saved[c] = s =>
        /\ op[c] \in Keepers => status[s] = "active"
        /\ op[c] \in Enders => status[s] = "ended"

\* The presence set is right, but for what is saved and not yet marked.
PresenceInHand ==
    \A s \in Sessions \ (mixed \cup unmarked) :
        /\ status[s] = "active" =>
              s \in present \/ \E c \in Calls : saved[c] = s /\ op[c] \in Keepers
        /\ status[s] # "active" =>
              s \notin present \/ \E c \in Calls : saved[c] = s /\ op[c] \in Enders

\* The close job, and what the call that performs it has still to end.
ClosingDrains ==
    /\ closeJob = "none" <=> roomStatus = "live"
    /\ \A c, d \in Calls : op[c] = "close" /\ op[d] = "close" => c = d
    /\ \A c \in Calls : op[c] = "close" =>
          /\ closeJob = "queued"
          /\ \A s \in ActiveSessions : s \in todo[c] \cup stragglers \cup mixed
    /\ FinishedRoomDrains

SessionInv ==
    /\ TypeOK /\ AtRest /\ BeforeSave /\ OverlapsRecorded
    /\ AfterSave /\ PresenceInHand /\ ClosingDrains

-----------------------------------------------------------------------------

\* Taking a session out of a sequence that holds it at most once.
LEMMA WithoutOne ==
    ASSUME NEW q \in Seq(Sessions), NEW s,
           \A i, j \in DOMAIN q : q[i] = q[j] => i = j
    PROVE  /\ Without(q, s) \in Seq(Sessions)
           /\ \A i, j \in DOMAIN Without(q, s) : Without(q, s)[i] = Without(q, s)[j] => i = j
           /\ \A t : (\E i \in DOMAIN Without(q, s) : Without(q, s)[i] = t)
                     <=> t # s /\ \E i \in DOMAIN q : q[i] = t
<1> DEFINE k == CHOOSE i \in DOMAIN q : q[i] = s
           w == [i \in 1..(Len(q) - 1) |-> IF i < k THEN q[i] ELSE q[i + 1]]
<1>1. CASE ~\E i \in DOMAIN q : q[i] = s
  BY <1>1 DEF Without
<1>2. CASE \E i \in DOMAIN q : q[i] = s
  <2>1. k \in 1..Len(q) /\ q[k] = s
    BY <1>2
  <2>2. Without(q, s) = w
    BY <1>2 DEF Without
  <2> HIDE DEF k
  <2>3. w \in Seq(Sessions) /\ Len(w) = Len(q) - 1
    BY <2>1
  <2>4. \A i, j \in 1..(Len(q) - 1) : w[i] = w[j] => i = j
    BY <2>1
  <2>5. ASSUME NEW t, NEW i \in 1..Len(q), q[i] = t, t # s
        PROVE  \E j \in 1..(Len(q) - 1) : w[j] = t
    <3>1. CASE i < k
      BY <2>1, <2>5, <3>1
    <3>2. CASE i > k
      <4>1. i - 1 \in 1..(Len(q) - 1) /\ w[i - 1] = t
        BY <2>1, <2>5, <3>2
      <4> QED BY <4>1
    <3> QED BY <2>1, <2>5, <3>1, <3>2
  <2>6. ASSUME NEW i \in 1..(Len(q) - 1)
        PROVE  w[i] # s /\ \E j \in 1..Len(q) : q[j] = w[i]
    <3>1. CASE i < k
      BY <2>1, <3>1
    <3>2. CASE ~(i < k)
      BY <2>1, <3>2
    <3> QED BY <3>1, <3>2
  <2>7. DOMAIN q = 1..Len(q) /\ DOMAIN w = 1..(Len(q) - 1)
    OBVIOUS
  <2> HIDE DEF w
  <2>8. \A t : (\E i \in DOMAIN w : w[i] = t) <=> t # s /\ \E i \in DOMAIN q : q[i] = t
    BY <2>5, <2>6, <2>7
  <2> QED BY <2>2, <2>3, <2>4, <2>7, <2>8
<1> QED BY <1>1, <1>2

LEMMA SessionStarts == Init => SessionInv
<1> SUFFICES ASSUME Init PROVE SessionInv
  OBVIOUS
<1>1. TypeOK
  BY DEF Init, TypeOK, Overdue
<1>2. AtRest /\ BeforeSave /\ OverlapsRecorded
  BY DEF Init, AtRest, BeforeSave, OverlapsRecorded, KeptBy, EndedBy, On
<1>3. AfterSave /\ PresenceInHand
  BY ListenerAssumption DEF Init, AfterSave, PresenceInHand
<1>4. ClosingDrains
  BY DEF Init, ClosingDrains, FinishedRoomDrains
<1> QED BY <1>1, <1>2, <1>3, <1>4 DEF SessionInv

\* A call that begins: what it reads must have been read rightly (JoinRoom,
\* ListenerHeartbeat, LeaveListener, RemoveParticipant, the two jobs).
LEMMA BeginKeepsInv ==
    ASSUME NEW c \in Calls, NEW o \in Keepers \cup Enders, NEW S \in SUBSET Sessions,
           SessionInv, Begin(c, o, S),
           \A s \in S : o # "join" => status[s] # "none",
           \A s \in S : o \in Keepers => status[s] # "ended",
           \A s \in S : o = "expire" => Overdue(s),
           o = "close" => /\ closeJob = "queued" /\ ActiveSessions \subseteq S
                          /\ \A d \in Calls : op[d] # "close"
    PROVE  SessionInv'
<1> USE DEF SessionInv, Begin, roomVars, sessionVars
<1>1. TypeOK'
  BY DEF TypeOK, Overdue
<1>2. AtRest'
  BY DEF TypeOK, AtRest, Keepers, Enders
<1>3. BeforeSave'
  BY DEF TypeOK, BeforeSave, Overdue
<1>4. OverlapsRecorded'
  <2> SUFFICES ASSUME NEW s \in Sessions, NEW d \in Calls, NEW e \in Calls,
                      KeptBy(d, s)', EndedBy(e, s)'
               PROVE  s \in mixed'
    BY DEF OverlapsRecorded
  <2>1. ASSUME NEW f \in Calls, f # c, On(f, s)' PROVE On(f, s) /\ op'[f] = op[f]
    BY <2>1 DEF TypeOK, On
  <2>2. On(c, s)' => s \in S /\ op'[c] = o
    BY ListenerAssumption DEF TypeOK, AtRest, On
  <2>3. d # e
    BY DEF KeptBy, EndedBy, Keepers, Enders
  <2>4. CASE d # c /\ e # c
    BY <2>1, <2>4 DEF OverlapsRecorded, KeptBy, EndedBy
  <2>5. CASE d = c
    <3>1. s \in S /\ o \in Keepers /\ EndedBy(e, s)
      BY <2>1, <2>2, <2>3, <2>5 DEF KeptBy, EndedBy
    <3> QED BY <3>1 DEF Keepers, Enders
  <2>6. CASE e = c
    <3>1. s \in S /\ o \in Enders /\ KeptBy(d, s)
      BY <2>1, <2>2, <2>3, <2>6 DEF KeptBy, EndedBy
    <3> QED BY <3>1 DEF Keepers, Enders
  <2> QED BY <2>4, <2>5, <2>6
<1>5. AfterSave' /\ PresenceInHand'
  <2>1. \A d \in Calls, s \in Sessions : saved[d] = s => op'[d] = op[d]
    BY ListenerAssumption DEF TypeOK, AtRest
  <2>2. AfterSave'
    BY <2>1 DEF AfterSave
  <2>3. PresenceInHand'
    BY <2>1 DEF PresenceInHand
  <2> QED BY <2>2, <2>3
<1>6. ClosingDrains'
  BY DEF TypeOK, ClosingDrains, FinishedRoomDrains, ActiveSessions
<1> QED BY <1>1, <1>2, <1>3, <1>4, <1>5, <1>6

\* The session of a call of either kind, after the call's own steps.
LEMMA SaveKeepsInv ==
    ASSUME NEW c \in Calls, NEW s \in Sessions, SessionInv, Save(c, s)
    PROVE  SessionInv'
<1> USE DEF SessionInv, roomVars
<1> DEFINE new == IF op[c] \in Keepers THEN "active" ELSE "ended"
<1>0. /\ op[c] \in Keepers \/ op[c] \in Enders
      /\ status' = [status EXCEPT ![s] = new]
      /\ stragglers' = IF op[c] = "join" /\ roomStatus = "finished"
                       THEN stragglers \cup {s} ELSE stragglers
      /\ s \in todo[c] /\ saved[c] = NoSession
      /\ todo' = [todo EXCEPT ![c] = @ \ {s}] /\ saved' = [saved EXCEPT ![c] = s]
      /\ UNCHANGED <<roomStatus, closeJob, present, op, mixed, unmarked>>
  BY DEF Save, SaveKept, SaveEnded, Keepers, Enders
<1>a. /\ overdue' \in Seq(Sessions)
      /\ \A i, j \in DOMAIN overdue' : overdue'[i] = overdue'[j] => i = j
      /\ \A t : Overdue(t)' <=> t # s /\ Overdue(t)
  <2> DEFINE w == Without(overdue, s)
  <2>1. /\ overdue \in Seq(Sessions) /\ overdue' = w
        /\ \A i, j \in DOMAIN overdue : overdue[i] = overdue[j] => i = j
    BY DEF Save, TypeOK, AtRest
  <2>2. /\ w \in Seq(Sessions)
        /\ \A i, j \in DOMAIN w : w[i] = w[j] => i = j
        /\ \A t : (\E i \in DOMAIN w : w[i] = t)
                  <=> t # s /\ \E i \in DOMAIN overdue : overdue[i] = t
    BY <2>1, WithoutOne
  <2> HIDE DEF w
  <2> QED BY <2>1, <2>2 DEF Overdue
<1>b. On(c, s) /\ \A t \in Sessions, d \in Calls : On(d, t)' <=> On(d, t)
  BY <1>0, ListenerAssumption DEF TypeOK, AtRest, On, Keepers, Enders
<1>c. \A d \in Calls : KeptBy(d, s) /\ op[c] \in Enders => s \in mixed
  BY <1>0, <1>b DEF OverlapsRecorded, EndedBy
<1>d. \A d \in Calls : EndedBy(d, s) /\ op[c] \in Keepers => s \in mixed
  BY <1>0, <1>b DEF OverlapsRecorded, KeptBy
<1> HIDE DEF new
<1>1. TypeOK'
  <2>1. \A t \in Sessions : Overdue(t)' => status'[t] = "active"
    BY <1>0, <1>a DEF TypeOK
  <2> QED BY <1>0, <1>a, <2>1 DEF TypeOK, new
<1>2. AtRest'
  BY <1>0, <1>a DEF TypeOK, AtRest, Keepers, Enders
<1>3. BeforeSave'
  <2> SUFFICES ASSUME NEW d \in Calls, NEW t \in todo[d]
               PROVE  /\ op[d] # "join" => status'[t] # "none"
                      /\ op[d] \in Keepers /\ t \notin mixed => status'[t] # "ended"
                      /\ op[d] = "expire" /\ status'[t] = "active" /\ t \notin mixed
                            => Overdue(t)'
    BY <1>0 DEF TypeOK, BeforeSave
  <2>1. op[d] # "idle"
    BY DEF AtRest
  <2>2. On(d, t) /\ t \in Sessions
    BY <2>1 DEF TypeOK, On
  <2>3. CASE t # s
    BY <1>0, <1>a, <2>2, <2>3 DEF TypeOK, BeforeSave
  <2>4. CASE t = s /\ op[c] \in Keepers
    BY <1>0, <1>d, <2>2, <2>4 DEF TypeOK, new, EndedBy, Enders
  <2>5. CASE t = s /\ op[c] \in Enders
    BY <1>0, <1>c, <2>2, <2>5 DEF TypeOK, new, KeptBy, Keepers, Enders
  <2> QED BY <1>0, <2>3, <2>4, <2>5
<1>4. OverlapsRecorded'
  BY <1>0, <1>b DEF OverlapsRecorded, KeptBy, EndedBy
<1>5. AfterSave'
  <2> SUFFICES ASSUME NEW t \in Sessions \ mixed, NEW d \in Calls, saved'[d] = t
               PROVE  /\ op[d] \in Keepers => status'[t] = "active"
                      /\ op[d] \in Enders => status'[t] = "ended"
    BY <1>0 DEF AfterSave
  <2>1. CASE d = c
    BY <1>0, <2>1 DEF TypeOK, new, Keepers, Enders
  <2>2. CASE d # c /\ t # s
    BY <1>0, <2>2 DEF TypeOK, AfterSave
  <2>3. CASE d # c /\ t = s
    <3>1. saved[d] = s
      BY <1>0, <2>3 DEF TypeOK
    <3>2. op[d] \in Keepers => KeptBy(d, s)
      BY <3>1 DEF KeptBy, On, Keepers
    <3>3. op[d] \in Enders => EndedBy(d, s)
      BY <3>1 DEF EndedBy, On, Enders
    <3> QED BY <1>0, <1>c, <1>d, <2>3, <3>2, <3>3 DEF TypeOK, new, Keepers, Enders
  <2> QED BY <2>1, <2>2, <2>3
<1>6. PresenceInHand'
  <2> SUFFICES ASSUME NEW t \in Sessions \ (mixed \cup unmarked)
               PROVE  /\ status'[t] = "active" => t \in present
                            \/ \E d \in Calls : saved'[d] = t /\ op[d] \in Keepers
                      /\ status'[t] # "active" => t \notin present
                            \/ \E d \in Calls : saved'[d] = t /\ op[d] \in Enders
    BY <1>0 DEF PresenceInHand
  <2>1. CASE t = s
    BY <1>0, <2>1 DEF TypeOK, new
  <2>2. CASE t # s
    <3>1. status'[t] = status[t] /\ \A d \in Calls : saved[d] = t => saved'[d] = t
      BY <1>0, <2>2, ListenerAssumption DEF TypeOK
    <3> QED BY <3>1 DEF PresenceInHand
  <2> QED BY <2>1, <2>2
<1>7. ClosingDrains'
  <2>1. ASSUME closeJob # "none", NEW t \in ActiveSessions'
        PROVE  \/ t \in stragglers' \cup mixed
               \/ t \in ActiveSessions /\ \A d \in Calls : t \in todo[d] => t \in todo'[d] \/ op[d] # "close"
    <3>1. CASE t # s
      BY <1>0, <2>1, <3>1 DEF TypeOK, ActiveSessions
    <3>2. CASE t = s
      <4>1. op[c] \in Keepers
        BY <1>0, <2>1, <3>2 DEF TypeOK, ActiveSessions, new
      <4>2. CASE op[c] = "join"
        BY <1>0, <2>1, <3>2, <4>2 DEF TypeOK, ClosingDrains
      <4>3. CASE op[c] = "heartbeat"
        <5>1. status[s] # "none" /\ (s \in mixed \/ status[s] # "ended")
          BY <1>0, <4>1, <4>3 DEF BeforeSave
        <5> QED BY <1>0, <3>2, <4>3, <5>1 DEF TypeOK, ActiveSessions
      <4> QED BY <4>1, <4>2, <4>3 DEF Keepers
    <3> QED BY <3>1, <3>2
  <2>2. FinishedRoomDrains'
    BY <1>0, <2>1 DEF ClosingDrains, FinishedRoomDrains, ActiveSessions
  <2>3. ASSUME NEW d \in Calls, op[d] = "close", NEW t \in ActiveSessions'
        PROVE  t \in todo'[d] \cup stragglers' \cup mixed
    BY <1>0, <2>1, <2>3 DEF ClosingDrains
  <2> QED BY <1>0, <2>2, <2>3 DEF ClosingDrains
<1> QED BY <1>1, <1>2, <1>3, <1>4, <1>5, <1>6, <1>7

LEMMA MarkKeepsInv ==
    ASSUME NEW c \in Calls, SessionInv, Mark(c) PROVE SessionInv'
<1> USE DEF SessionInv, history
<1> DEFINE s == saved[c]
<1>0. /\ s \in Sessions
      /\ op[c] \in Keepers \/ op[c] \in Enders
      /\ op[c] \in Keepers => op[c] \notin Enders
      /\ present' = IF op[c] \in Keepers THEN present \cup {s} ELSE present \ {s}
      /\ saved' = [saved EXCEPT ![c] = NoSession]
      /\ op' = IF todo[c] = {} THEN [op EXCEPT ![c] = "idle"] ELSE op
      /\ closeJob' = IF op[c] = "close" /\ todo[c] = {} THEN "completed" ELSE closeJob
      /\ UNCHANGED <<roomStatus, status, overdue, todo, mixed, unmarked, stragglers>>
  BY DEF Mark, MarkWith, TypeOK, AtRest, Keepers, Enders
<1>a. \A d \in Calls : op'[d] = op[d] \/ (d = c /\ op'[d] = "idle" /\ todo[d] = {})
  BY <1>0 DEF TypeOK
<1>b. \A t \in Sessions, d \in Calls : On(d, t)' => On(d, t) /\ op'[d] = op[d]
  BY <1>0, <1>a, ListenerAssumption DEF TypeOK, On
<1> HIDE DEF s
<1>1. TypeOK'
  BY <1>0 DEF TypeOK, Overdue
<1>2. AtRest'
  BY <1>0, <1>a DEF TypeOK, AtRest
<1>3. BeforeSave'
  BY <1>0, <1>a DEF BeforeSave, Overdue
<1>4. OverlapsRecorded'
  BY <1>0, <1>b DEF OverlapsRecorded, KeptBy, EndedBy
<1>5. AfterSave'
  BY <1>0, <1>a, ListenerAssumption DEF TypeOK, AfterSave
<1>6. PresenceInHand'
  <2> SUFFICES ASSUME NEW t \in Sessions \ (mixed \cup unmarked)
               PROVE  /\ status[t] = "active" => t \in present'
                            \/ \E d \in Calls : saved'[d] = t /\ op'[d] \in Keepers
                      /\ status[t] # "active" => t \notin present'
                            \/ \E d \in Calls : saved'[d] = t /\ op'[d] \in Enders
    BY <1>0 DEF PresenceInHand
  <2>1. CASE t = s
    <3>1. /\ op[c] \in Keepers => status[t] = "active"
          /\ op[c] \in Enders => status[t] = "ended"
      BY <2>1 DEF AfterSave, s
    <3> QED BY <1>0, <2>1, <3>1
  <2>2. CASE t # s
    <3>1. \A d \in Calls : saved[d] = t => saved'[d] = t /\ op'[d] = op[d]
      BY <1>0, <1>a, <2>2 DEF TypeOK, s
    <3>2. t \in present' <=> t \in present
      BY <1>0, <2>2
    <3> QED BY <3>1, <3>2 DEF PresenceInHand
  <2> QED BY <2>1, <2>2
<1>7. ClosingDrains'
  <2>1. CASE op[c] = "close" /\ todo[c] = {}
    <3>1. /\ closeJob = "queued" /\ closeJob' = "completed"
          /\ \A t \in ActiveSessions : t \in stragglers \cup mixed
          /\ \A d \in Calls : op'[d] # "close"
      BY <1>0, <2>1 DEF TypeOK, ClosingDrains
    <3> QED BY <1>0, <3>1 DEF ClosingDrains, FinishedRoomDrains, ActiveSessions
  <2>2. CASE ~(op[c] = "close" /\ todo[c] = {})
    <3>1. closeJob' = closeJob /\ \A d \in Calls : op'[d] = "close" => op[d] = "close"
      BY <1>0, <1>a, <2>2
    <3> QED BY <1>0, <3>1 DEF ClosingDrains, FinishedRoomDrains, ActiveSessions
  <2> QED BY <2>1, <2>2
<1> QED BY <1>1, <1>2, <1>3, <1>4, <1>5, <1>6, <1>7

LEMMA CutShortKeepsInv ==
    ASSUME NEW c \in Calls, SessionInv, CutShort(c) PROVE SessionInv'
<1> USE DEF SessionInv, CutShort, roomVars, sessionVars
<1>a. \A d \in Calls : d # c => op'[d] = op[d] /\ todo'[d] = todo[d] /\ saved'[d] = saved[d]
  BY DEF TypeOK
<1>b. op'[c] = "idle" /\ todo'[c] = {} /\ saved'[c] = NoSession
  BY DEF TypeOK
<1>c. \A d \in Calls, t \in Sessions : On(d, t)' => On(d, t) /\ op'[d] = op[d]
  BY <1>a, <1>b DEF On
<1>1. TypeOK'
  BY DEF TypeOK, Overdue
<1>2. AtRest' /\ BeforeSave'
  BY <1>a, <1>b DEF AtRest, BeforeSave, Overdue
<1>3. OverlapsRecorded'
  BY <1>c DEF OverlapsRecorded, KeptBy, EndedBy
<1>4. AfterSave' /\ PresenceInHand'
  <2>1. AfterSave'
    BY <1>a, <1>b, ListenerAssumption DEF AfterSave
  <2>2. PresenceInHand'
    BY <1>a, <1>b DEF PresenceInHand
  <2> QED BY <2>1, <2>2
<1>5. ClosingDrains'
  BY <1>a, <1>b DEF ClosingDrains, FinishedRoomDrains, ActiveSessions
<1> QED BY <1>1, <1>2, <1>3, <1>4, <1>5

LEMMA RoomKeepsInv ==
    SessionInv /\ (FinishRoom \/ CloseFindsNone) => SessionInv'
<1> SUFFICES ASSUME SessionInv, FinishRoom \/ CloseFindsNone PROVE SessionInv'
  OBVIOUS
<1> USE DEF SessionInv, FinishRoom, CloseFindsNone, sessionVars, callVars, history
<1>1. TypeOK'
  BY DEF TypeOK, Overdue
<1>2. AtRest' /\ BeforeSave' /\ AfterSave' /\ PresenceInHand'
  BY DEF AtRest, BeforeSave, AfterSave, PresenceInHand, Overdue
<1>3. OverlapsRecorded'
  BY DEF OverlapsRecorded, KeptBy, EndedBy, On
<1>4. ClosingDrains'
  BY DEF ClosingDrains, FinishedRoomDrains, ActiveSessions
<1> QED BY <1>1, <1>2, <1>3, <1>4

LEMMA TimeOutKeepsInv ==
    ASSUME NEW s \in Sessions, SessionInv, TimeOut(s) PROVE SessionInv'
<1> USE DEF SessionInv, TimeOut, roomVars, callVars, history
<1>a. \A t : Overdue(t)' <=> Overdue(t) \/ t = s
  <2>1. overdue \in Seq(Sessions) /\ overdue' = Append(overdue, s)
    BY DEF TypeOK
  <2>2. Len(overdue') = Len(overdue) + 1 /\ overdue'[Len(overdue) + 1] = s
        /\ \A i \in 1..Len(overdue) : overdue'[i] = overdue[i]
    BY <2>1
  <2>3. DOMAIN overdue = 1..Len(overdue) /\ DOMAIN overdue' = 1..(Len(overdue) + 1)
    BY <2>1
  <2> QED BY <2>1, <2>2, <2>3 DEF Overdue
<1>1. TypeOK'
  BY <1>a DEF TypeOK
<1>2. AtRest'
  <2>1. overdue \in Seq(Sessions) /\ \A i \in DOMAIN overdue : overdue[i] # s
    BY DEF TypeOK, Overdue
  <2> QED BY <2>1 DEF AtRest
<1>3. BeforeSave'
  BY <1>a DEF BeforeSave
<1>4. OverlapsRecorded' /\ AfterSave' /\ PresenceInHand' /\ ClosingDrains'
  BY DEF OverlapsRecorded, AfterSave, PresenceInHand, ClosingDrains, FinishedRoomDrains,
         ActiveSessions, KeptBy, EndedBy, On
<1> QED BY <1>1, <1>2, <1>3, <1>4

LEMMA RequestKeepsInv ==
    ASSUME NEW c \in Calls, SessionInv, Request(c) PROVE SessionInv'
<1>1. ASSUME NEW s \in Sessions, Join(c, s) PROVE SessionInv'
  BY <1>1, BeginKeepsInv DEF Join, Keepers, Enders
<1>2. ASSUME NEW s \in Sessions, Heartbeat(c, s) PROVE SessionInv'
  BY <1>2, BeginKeepsInv DEF Heartbeat, Keepers, Enders
<1>3. ASSUME NEW s \in Sessions, Leave(c, s) PROVE SessionInv'
  BY <1>3, BeginKeepsInv DEF Leave, Keepers, Enders
<1>4. ASSUME NEW u \in Users, RemoveParticipant(c, u) PROVE SessionInv'
  BY <1>4, BeginKeepsInv DEF RemoveParticipant, ActiveSessions, Keepers, Enders
<1> QED BY <1>1, <1>2, <1>3, <1>4 DEF Request

LEMMA ExpireKeepsInv ==
    ASSUME NEW c \in Calls, SessionInv, Expire(c) PROVE SessionInv'
<1> DEFINE n == IF Len(overdue) < ExpireLimit THEN Len(overdue) ELSE ExpireLimit
           S == OldestFirst(n)
<1>1. n \in 0..Len(overdue)
  BY ListenerAssumption DEF SessionInv, TypeOK
<1> HIDE DEF n
<1>2. S \subseteq Sessions /\ \A s \in S : Overdue(s)
  BY <1>1 DEF OldestFirst, Overdue, SessionInv, TypeOK
<1>3. \A s \in S : status[s] # "none"
  BY <1>2 DEF SessionInv, TypeOK
<1>4. Begin(c, "expire", S)
  BY DEF Expire, n
<1> HIDE DEF S
<1> QED BY <1>2, <1>3, <1>4, BeginKeepsInv DEF Keepers, Enders

LEMMA CloseKeepsInv ==
    ASSUME NEW c \in Calls, SessionInv, Close(c) PROVE SessionInv'
<1>1. /\ ActiveSessions \subseteq Sessions
      /\ \A s \in ActiveSessions : status[s] # "none"
  BY DEF ActiveSessions
<1>2. closeJob = "queued" /\ \A d \in Calls : op[d] # "close"
  BY DEF Close
<1> QED BY <1>1, <1>2, BeginKeepsInv DEF Close, Keepers, Enders

LEMMA SessionInductive == SessionInv /\ [Next]_vars => SessionInv'
<1> SUFFICES ASSUME SessionInv, [Next]_vars PROVE SessionInv'
  OBVIOUS
<1>1. CASE \E c \in Calls : Request(c)
  BY <1>1, RequestKeepsInv
<1>2. CASE \E c \in Calls : Expire(c) \/ Close(c)
  BY <1>2, ExpireKeepsInv, CloseKeepsInv
<1>3. CASE \E c \in Calls : Proceed(c) \/ CutShort(c)
  BY <1>3, SaveKeepsInv, MarkKeepsInv, CutShortKeepsInv DEF Proceed
<1>4. CASE FinishRoom \/ CloseFindsNone
  BY <1>4, RoomKeepsInv
<1>5. CASE \E s \in Sessions : TimeOut(s)
  BY <1>5, TimeOutKeepsInv
<1>6. CASE UNCHANGED vars
  BY <1>6 DEF SessionInv, TypeOK, AtRest, BeforeSave, OverlapsRecorded, AfterSave,
              PresenceInHand, ClosingDrains, FinishedRoomDrains, ActiveSessions,
              KeptBy, EndedBy, On, Overdue,
              vars, roomVars, sessionVars, callVars, history
<1> QED BY <1>1, <1>2, <1>3, <1>4, <1>5, <1>6 DEF Next

LEMMA SessionInvariant == Spec => []SessionInv
  BY SessionStarts, SessionInductive, PTL DEF Spec

\* Redis and the store agree on every session no call is at work on, unless
\* calls of both kinds overlapped on it or one died between its save and its
\* mark (presence_store.go, service.go).
THEOREM PresenceAgrees == Spec => []PresenceMatchesStore
<1>1. SessionInv => PresenceMatchesStore
  <2> SUFFICES ASSUME SessionInv, NEW s \in Sessions \ (mixed \cup unmarked),
                      \A c \in Calls : ~On(c, s)
               PROVE  s \in present <=> status[s] = "active"
    BY DEF SessionInv, PresenceMatchesStore
  <2>1. \A c \in Calls : saved[c] # s \/ op[c] = "idle"
    BY DEF On
  <2>2. \A c \in Calls : op[c] = "idle" => op[c] \notin Keepers /\ op[c] \notin Enders
    BY DEF Keepers, Enders
  <2> QED BY <2>1, <2>2 DEF SessionInv, PresenceInHand
<1> QED BY <1>1, SessionInvariant, PTL

\* Once the close job is completed only late joins and interrupted endings
\* have left a session active (CloseRoomSessions).
THEOREM FinishedRoomsDrain == Spec => []FinishedRoomDrains
<1>1. SessionInv => FinishedRoomDrains
  BY DEF SessionInv, ClosingDrains
<1> QED BY <1>1, SessionInvariant, PTL

\* The steps that change a session's status are saves.
LEMMA OnlySavesMove ==
    ASSUME SessionInv, [Next]_vars, NEW s \in Sessions, status'[s] # status[s]
    PROVE  \E c \in Calls :
              /\ s \in todo[c] /\ op[c] # "idle"
              /\ saved' = [saved EXCEPT ![c] = s]
              /\ op[c] \in Keepers => status'[s] = "active"
              /\ op[c] \in Enders => status'[s] = "ended"
<1>1. \E c \in Calls, t \in Sessions : Save(c, t)
  BY DEF Next, Request, Join, Heartbeat, Leave, RemoveParticipant, Expire, Close, Begin,
         Proceed, Mark, MarkWith, CutShort, CloseFindsNone, FinishRoom, TimeOut,
         vars, roomVars, sessionVars, callVars, history
<1>2. PICK c \in Calls, t \in Sessions : Save(c, t)
  BY <1>1
<1>3. status' = [status EXCEPT ![t] = IF op[c] \in Keepers THEN "active" ELSE "ended"]
      /\ (op[c] \in Keepers \/ op[c] \in Enders)
  BY <1>2 DEF Save, SaveKept, SaveEnded, Keepers, Enders
<1>4. t = s
  BY <1>3 DEF SessionInv, TypeOK
<1> QED BY <1>2, <1>3, <1>4 DEF Save, SessionInv, TypeOK, Keepers, Enders

\* An ended session stays ended, but for a keeper's overlap (ListenerHeartbeat).
THEOREM EndedSessionsStay == Spec => EndedStaysEnded
<1>1. SessionInv /\ [Next]_vars =>
        [\A s \in Sessions : status[s] = "ended" /\ s \notin mixed
                               => status'[s] = "ended"]_vars
  <2> SUFFICES ASSUME SessionInv, [Next]_vars, NEW s \in Sessions \ mixed,
                      status[s] = "ended", status'[s] # status[s]
               PROVE  FALSE
    OBVIOUS
  <2>1. PICK c \in Calls : /\ s \in todo[c] /\ op[c] # "idle"
                           /\ op[c] \in Keepers => status'[s] = "active"
                           /\ op[c] \in Enders => status'[s] = "ended"
    BY OnlySavesMove
  <2>2. op[c] \notin Keepers
    BY <2>1 DEF SessionInv, BeforeSave
  <2> QED BY <2>1, <2>2 DEF SessionInv, TypeOK
<1> QED BY <1>1, SessionInvariant, PTL DEF Spec, EndedStaysEnded

\* A sweep ends only overdue sessions, but for a heartbeat that came in during
\* the sweep (ExpireStaleListenerSessions).
THEOREM SweepsEndStale == Spec => OnlyStaleExpire
<1>1. SessionInv /\ [Next]_vars =>
        [\A s \in Sessions, c \in Calls :
            op[c] = "expire" /\ saved'[c] = s
              /\ status[s] = "active" /\ status'[s] = "ended"
                => Overdue(s) \/ s \in mixed]_vars
  <2> SUFFICES ASSUME SessionInv, [Next]_vars, NEW s \in Sessions \ mixed, NEW c \in Calls,
                      op[c] = "expire", saved'[c] = s,
                      status[s] = "active", status'[s] = "ended"
               PROVE  Overdue(s)
    OBVIOUS
  <2>1. PICK d \in Calls : s \in todo[d] /\ saved' = [saved EXCEPT ![d] = s]
    BY OnlySavesMove
  <2>2. d = c
    <3> SUFFICES ASSUME d # c PROVE FALSE
      OBVIOUS
    <3>1. saved[c] = s
      BY <2>1 DEF SessionInv, TypeOK
    <3> QED BY <3>1 DEF SessionInv, AfterSave, Enders
  <2> QED BY <2>1, <2>2 DEF SessionInv, BeforeSave
<1> QED BY <1>1, SessionInvariant, PTL DEF Spec, OnlyStaleExpire

=============================================================================
