---------------------------- MODULE SpeakerProofs ----------------------------
(***************************************************************************)
(* What speaker requests and blocks keep, for every set of users,          *)
(* requests, blocks and calls: a LiveKit token follows an approval,        *)
(* whatever calls overlap or break; requests are single, decisions final,  *)
(* users told what is stored and blocks obeyed, where they do not.         *)
(*                                                                         *)
(* TokensFollowApproval says nothing of a call that has been let through   *)
(* and has not been issued its token yet, nor of where an approval comes   *)
(* from; TokenInv adds both: an approved request stands behind its user,   *)
(* and a call past ResolveRole is about a user that was approved.          *)
(***************************************************************************)
EXTENDS SpeakerRequests, TLAPS

(* Documents and calls are records; whose the documents are is of no        *)
(* interest here.                                                           *)
RequestDocs == [user : Users \cup Requests \cup {Nobody},
                status : {"none", "pending", "approved", "declined"}]

Shapes ==
    /\ request \in [Requests -> RequestDocs]
    /\ call \in [Calls -> Work \cup {Idle}]

Admitted(c) == call[c].at \in {"participant", "token"}

TokenInv ==
    /\ Shapes
    /\ \A r \in Requests : request[r].status = "approved"
                              => request[r].user \in approved
    /\ \A c \in Calls : Admitted(c) => About(c) \in approved
    /\ TokensFollowApproval

-----------------------------------------------------------------------------
(* How the steps of a call change the table of calls.                       *)

LEMMA CallsThatWork ==
    ASSUME Shapes, NEW c \in Calls, ~At(c, "idle")
    PROVE  call[c] \in Work
BY DEF Shapes, At, Idle

LEMMA ReturnEffect ==
    ASSUME Shapes, NEW c \in Calls, Return(c)
    PROVE  /\ call' \in [Calls -> Work \cup {Idle}]
           /\ ~Admitted(c)'
           /\ \A d \in Calls \ {c} : call'[d] = call[d]
BY DEF Shapes, Return, Admitted, Idle

LEMMA GotoEffect ==
    ASSUME Shapes, NEW c \in Calls, NEW step \in Steps, ~At(c, "idle"),
           Goto(c, step)
    PROVE  /\ call' \in [Calls -> Work \cup {Idle}]
           /\ call'[c].at = step
           /\ call'[c].topic = call[c].topic
           /\ \A d \in Calls \ {c} : call'[d] = call[d]
<1>1. call[c] \in Work
  BY CallsThatWork
<1>2. call' = [call EXCEPT ![c] = [call[c] EXCEPT !.at = step]]
  BY DEF Goto
<1>3. [call[c] EXCEPT !.at = step] \in Work
  BY <1>1 DEF Work
<1>4. call'[c] = [call[c] EXCEPT !.at = step]
  BY <1>2 DEF Shapes
<1>5. call'[c].at = step /\ call'[c].topic = call[c].topic
  BY <1>1, <1>4 DEF Work
<1> QED
  BY <1>2, <1>3, <1>5 DEF Shapes

LEMMA BeginEffect ==
    ASSUME Shapes, NEW c \in Calls, NEW t \in Topics, NEW step \in Steps,
           NEW word \in Words, NEW doc \in Blocks \cup {NoDoc},
           Begin(c, t, step, word, doc)
    PROVE  /\ call' \in [Calls -> Work \cup {Idle}]
           /\ call'[c].at = step
           /\ \A d \in Calls \ {c} : call'[d] = call[d]
           /\ UNCHANGED <<docVars, approved>>
BY DEF Shapes, Begin, Work

-----------------------------------------------------------------------------
LEMMA TokenStep == TokenInv /\ [Next]_vars => TokenInv'
<1> SUFFICES ASSUME TokenInv, [Next]_vars PROVE TokenInv'
  OBVIOUS
<1> USE DEF TokenInv
<1>1. ASSUME NEW c \in Calls, NEW t \in Topics,
             NEW step \in {"blocked?", "save", "approved?"},
             NEW word \in Words, NEW doc \in Blocks \cup {NoDoc},
             Begin(c, t, step, word, doc)
      PROVE  TokenInv'
  <2>1. step \in Steps
    BY DEF Steps
  <2>2. /\ call' \in [Calls -> Work \cup {Idle}]
        /\ call'[c].at = step
        /\ \A d \in Calls \ {c} : call'[d] = call[d]
        /\ UNCHANGED <<docVars, approved>>
    BY <1>1, <2>1, BeginEffect
  <2>3. \A d \in Calls : Admitted(d)' => About(d)' \in approved'
    BY <2>2 DEF Admitted, About
  <2> QED
    BY <2>2, <2>3 DEF docVars, Shapes, TokensFollowApproval
<1>2. ASSUME NEW c \in Calls, Start(c) PROVE TokenInv'
  <2>1. \A u \in Users : \A k \in {"ask", "block", "session"} : <<k, u>> \in Topics
    BY DEF Topics
  <2>2. \A r \in Requests : <<"decide", r>> \in Topics
    BY DEF Topics
  <2> QED
    BY <1>1, <1>2, <2>1, <2>2
       DEF Start, Ask, OpenSession, Block, Decide, Unblock, Words
<1>3. ASSUME NEW c \in Calls, Return(c), UNCHANGED <<request, approved>>,
             tokens' = tokens
      PROVE  TokenInv'
  BY <1>3, ReturnEffect DEF Shapes, Admitted, About, TokensFollowApproval
<1>4. ASSUME NEW c \in Calls, NEW step \in Steps \ {"participant", "token"},
             ~At(c, "idle"), Goto(c, step), UNCHANGED <<request, approved, tokens>>
      PROVE  TokenInv'
  <2>1. /\ call' \in [Calls -> Work \cup {Idle}]
        /\ call'[c].at = step
        /\ \A d \in Calls \ {c} : call'[d] = call[d]
    BY <1>4, GotoEffect
  <2>2. \A d \in Calls : Admitted(d)' => About(d)' \in approved'
    BY <1>4, <2>1 DEF Admitted, About
  <2> QED
    BY <1>4, <2>1, <2>2 DEF Shapes, TokensFollowApproval
<1>5. ASSUME NEW c \in Calls, AskIfBlocked(c) \/ AskIfPending(c) PROVE TokenInv'
  BY <1>3, <1>4, <1>5
     DEF AskIfBlocked, AskIfPending, At, Steps, docVars, history
<1>6. ASSUME NEW c \in Calls, NEW r \in Requests, SaveRequest(c, r)
      PROVE  TokenInv'
  <2>1. call[c] \in Work
    BY <1>6, CallsThatWork DEF SaveRequest, At
  <2>2. About(c) \in Users \cup Requests
    BY <2>1 DEF Work, Topics, About
  <2>3. [user |-> About(c), status |-> "pending"] \in RequestDocs
    BY <2>2 DEF RequestDocs
  <2>4. /\ request' \in [Requests -> RequestDocs]
        /\ \A q \in Requests : request'[q].status = "approved"
                                  => request'[q] = request[q]
    BY <1>6, <2>3 DEF SaveRequest, Shapes
  <2>5. /\ call' \in [Calls -> Work \cup {Idle}]
        /\ call'[c].at = "tell"
        /\ \A d \in Calls \ {c} : call'[d] = call[d]
    BY <1>6, GotoEffect DEF SaveRequest, At, Steps
  <2>6. \A d \in Calls : Admitted(d)' => About(d)' \in approved'
    BY <1>6, <2>5 DEF SaveRequest, history, Admitted, About
  <2> QED
    BY <1>6, <2>4, <2>5, <2>6 DEF SaveRequest, history, Shapes, TokensFollowApproval
<1>7. ASSUME NEW c \in Calls, SaveDecision(c) PROVE TokenInv'
  <2>1. /\ call' \in [Calls -> Work \cup {Idle}]
        /\ call'[c].at = "tell"
        /\ \A d \in Calls \ {c} : call'[d] = call[d]
    BY <1>7, GotoEffect DEF SaveDecision, At, Steps
  <2>2. \A d \in Calls : Admitted(d)' => About(d)' \in approved'
    BY <1>7, <2>1 DEF SaveDecision, Admitted, About
  <2>3. request' \in [Requests -> RequestDocs]
    BY <1>7 DEF SaveDecision, Shapes, RequestDocs
  <2>4. \A r \in Requests : request'[r].status = "approved"
                               => request'[r].user \in approved'
    BY <1>7 DEF SaveDecision, Shapes
  <2> QED
    BY <1>7, <2>1, <2>2, <2>3, <2>4 DEF SaveDecision, Shapes, TokensFollowApproval
<1>8. ASSUME NEW c \in Calls,
             SaveLift(c) \/ \E b \in Blocks : SaveBlock(c, b)
      PROVE  TokenInv'
  BY <1>4, <1>8 DEF SaveLift, SaveBlock, At, Steps, history
<1>9. ASSUME NEW c \in Calls, ResolveRole(c) PROVE TokenInv'
  <2>1. CASE Return(c)
    BY <1>3, <1>9, <2>1 DEF ResolveRole, docVars, history
  <2>2. CASE ResolvesToSpeaker(About(c)) /\ Goto(c, "participant")
    <3>1. About(c) \in approved
      BY <2>2 DEF ResolvesToSpeaker, Has
    <3>2. /\ call' \in [Calls -> Work \cup {Idle}]
          /\ call'[c].topic = call[c].topic
          /\ \A d \in Calls \ {c} : call'[d] = call[d]
      BY <1>9, <2>2, GotoEffect DEF ResolveRole, At, Steps
    <3> QED
      BY <1>9, <3>1, <3>2
         DEF ResolveRole, docVars, history, Shapes, Admitted, About,
             TokensFollowApproval
  <2> QED
    BY <1>9, <2>1, <2>2 DEF ResolveRole
<1>10. ASSUME NEW c \in Calls, SaveParticipant(c) PROVE TokenInv'
  <2>1. /\ call' \in [Calls -> Work \cup {Idle}]
        /\ call'[c].topic = call[c].topic
        /\ \A d \in Calls \ {c} : call'[d] = call[d]
    BY <1>10, GotoEffect DEF SaveParticipant, At, Steps
  <2>2. About(c) \in approved
    BY <1>10 DEF SaveParticipant, At, Admitted
  <2> QED
    BY <1>10, <2>1, <2>2
       DEF SaveParticipant, history, Shapes, Admitted, About, TokensFollowApproval
<1>11. ASSUME NEW c \in Calls, IssueSpeakerToken(c) PROVE TokenInv'
  <2>1. About(c) \in approved
    BY <1>11 DEF IssueSpeakerToken, At, Admitted
  <2> QED
    BY <1>11, <2>1, ReturnEffect
       DEF IssueSpeakerToken, history, Shapes, Admitted, About, TokensFollowApproval
<1>12. ASSUME NEW c \in Calls, Tell(c) \/ CutShort(c) PROVE TokenInv'
  BY <1>3, <1>12 DEF Tell, CutShort, docVars, history
<1>13. CASE FinishRoom
  BY <1>13 DEF FinishRoom, docVars, history, Shapes, Admitted, About,
               TokensFollowApproval
<1>14. CASE UNCHANGED vars
  BY <1>14 DEF vars, docVars, history, Shapes, Admitted, About,
               TokensFollowApproval
<1> QED
  BY <1>2, <1>5, <1>6, <1>7, <1>8, <1>9, <1>10, <1>11, <1>12, <1>13, <1>14
     DEF Next, Proceed

(* docs/architecture.md:24, for any number of users and calls: whoever was  *)
(* issued a LiveKit token as a listener had a request approved before.      *)
THEOREM TokensAreEarned == Spec => []TokensFollowApproval
<1>1. Init => TokenInv
  BY DEF Init, TokenInv, Shapes, RequestDocs, Admitted, TokensFollowApproval, Idle
<1>2. TokenInv => TokensFollowApproval
  BY DEF TokenInv
<1> QED
  BY <1>1, <1>2, TokenStep, PTL DEF Spec

-----------------------------------------------------------------------------
(* What is promised where calls do not overlap.  SpeakerInv says what a     *)
(* call knows of the documents it is about, as long as no other call is at  *)
(* work on the same topic.                                                  *)

Asks(w) ==
    /\ w.word = "requested" /\ w.at \in {"blocked?", "pending?", "save", "tell"}
    /\ \E u \in Users : w.topic = <<"ask", u>>

Decides(w) ==
    /\ w.word \in {"approved", "declined"} /\ w.at \in {"save", "tell"}
    /\ \E r \in Requests : w.topic = <<"decide", r>> /\ request[r].status # "none"

Moderates(w) ==
    /\ w.word \in {"blocked", "unblocked"} /\ w.at \in {"save", "tell"}
    /\ \E u \in Users :
          /\ w.topic = <<"block", u>>
          /\ w.word = "unblocked" => /\ w.doc \in Blocks /\ block[w.doc].user = u
                                     /\ block[w.doc].status # "none"

Opens(w) ==
    /\ w.word = "approved" /\ w.at \in {"approved?", "participant", "token"}
    /\ \E u \in Users : /\ w.topic = <<"session", u>>
                        /\ w.at = "token" => u \in participants

WorkFits ==
    \A c \in Calls : ~At(c, "idle") =>
        Asks(call[c]) \/ Decides(call[c]) \/ Moderates(call[c]) \/ Opens(call[c])

OneCallEach ==
    \A t \in Topics \ contested : t[1] # "session" =>
        \A c, d \in OnTopic(t) : c = d

OneOpenRequest(u) ==
    \A r, q \in Requests :
        /\ request[r] = [user |-> u, status |-> "pending"]
        /\ request[q] = [user |-> u, status |-> "pending"]
        => q = r

AskerKnows(c, u) ==
    /\ At(c, "save") => ~Has(u, "pending")
    /\ At(c, "pending?") \/ At(c, "save") => ~Blocked(u)

AsksInHand ==
    \A u \in Users : <<"ask", u>> \notin contested =>
        /\ OneOpenRequest(u)
        /\ \A c \in OnTopic(<<"ask", u>>) : AskerKnows(c, u)

DeciderKnows(c, r) ==
    /\ At(c, "save") => request[r].status = "pending"
    /\ At(c, "tell") => request[r].status = call[c].word

BeingTold(t) == \E c \in OnTopic(t) : At(c, "tell")

DecisionsInHand ==
    \A r \in Requests : <<"decide", r>> \notin contested =>
        /\ \A c \in OnTopic(<<"decide", r>>) : DeciderKnows(c, r)
        /\ <<"decide", r>> \notin cut /\ Decided(r) =>
              told[r] = request[r].status \/ BeingTold(<<"decide", r>>)

ActiveFor(b, u) == block[b] = [user |-> u, status |-> "active"]

OneActiveBlock(u) ==
    \A a, b \in Blocks : ActiveFor(a, u) /\ ActiveFor(b, u) => a = b

BlockerKnows(c, u) ==
    /\ At(c, "save") =>
          IF call[c].word = "blocked" THEN ~Blocked(u) ELSE ActiveFor(call[c].doc, u)
    /\ At(c, "tell") => (call[c].word = "blocked" <=> Blocked(u))

BlocksInHand ==
    \A u \in Users : <<"block", u>> \notin contested =>
        /\ OneActiveBlock(u)
        /\ \A c \in OnTopic(<<"block", u>>) : BlockerKnows(c, u)
        /\ <<"block", u>> \notin cut =>
              (told[u] = "blocked" <=> Blocked(u)) \/ BeingTold(<<"block", u>>)

AskedByUsers == \A r \in Requests : request[r].status # "none" => request[r].user \in Users

SpeakerInv ==
    /\ TypeOK /\ WorkFits /\ OneCallEach
    /\ AsksInHand /\ DecisionsInHand /\ BlocksInHand

-----------------------------------------------------------------------------
(* What a step of call c leaves alone: the other calls, the history, and    *)
(* what the calls rely on of the documents.                                 *)

Fits(w) == Asks(w) \/ Decides(w) \/ Moderates(w) \/ Opens(w)

OnKind(c, k) == ~At(c, "idle") /\ call[c].topic[1] = k

OnlyMoves(c) == \A d \in Calls \ {c} : call'[d] = call[d]

HistoryGrows == contested \subseteq contested' /\ cut \subseteq cut'

DocsStay ==
    /\ \A r \in Requests : request[r].status # "none" => request'[r].status # "none"
    /\ \A b \in Blocks : block[b].status # "none" =>
          block'[b].user = block[b].user /\ block'[b].status # "none"
    /\ participants \subseteq participants'

LEMMA TypesGiveShapes == TypeOK => Shapes
BY DEF TypeOK, Shapes, RequestDocs

LEMMA SameWorkFits ==
    ASSUME DocsStay, NEW w \in Work, Fits(w)
    PROVE  Fits(w)'
<1>1. Asks(w) => Asks(w)'
  BY DEF Asks
<1>2. Decides(w) => Decides(w)'
  BY DEF Decides, DocsStay
<1>3. Moderates(w) => Moderates(w)'
  BY DEF Moderates, DocsStay
<1>4. Opens(w) => Opens(w)'
  BY DEF Opens, DocsStay
<1> QED
  BY <1>1, <1>2, <1>3, <1>4 DEF Fits

LEMMA WorkFrame ==
    ASSUME Shapes, WorkFits, DocsStay, NEW c \in Calls, OnlyMoves(c),
           NEW w, w = call'[c], w.at = "idle" \/ Fits(w)'
    PROVE  WorkFits'
<1> SUFFICES ASSUME NEW d \in Calls, ~At(d, "idle")' PROVE Fits(call[d])'
  BY DEF WorkFits, Fits
<1>1. CASE d = c
  BY <1>1 DEF At
<1>2. CASE d # c
  <2>1. call'[d] = call[d]
    BY <1>2 DEF OnlyMoves
  <2>2. ~At(d, "idle")
    BY <2>1 DEF At
  <2>3. Fits(call[d])
    BY <2>2 DEF WorkFits, Fits
  <2> DEFINE v == call[d]
  <2>4. v \in Work /\ Fits(v)
    BY <2>2, <2>3, CallsThatWork
  <2> HIDE DEF v
  <2>5. \A x \in Work : Fits(x) => Fits(x)'
    BY SameWorkFits
  <2> QED
    BY <2>1, <2>4, <2>5 DEF v
<1> QED
  BY <1>1, <1>2

(* A call that goes on or returns is never a second call on its topic.      *)
LEMMA MovesStayAlone ==
    ASSUME OneCallEach, HistoryGrows, NEW c \in Calls, OnlyMoves(c),
           ~At(c, "idle"),
           call'[c].at = "idle" \/ call'[c].topic = call[c].topic
    PROVE  OneCallEach'
<1> SUFFICES ASSUME NEW t \in Topics \ contested', t[1] # "session",
                    NEW x \in OnTopic(t)', NEW y \in OnTopic(t)'
             PROVE  x = y
  BY DEF OneCallEach, Topics
<1>1. \A d \in OnTopic(t)' : d \in OnTopic(t)
  BY DEF OnTopic, OnlyMoves, At
<1> QED
  BY <1>1 DEF OneCallEach, HistoryGrows

LEMMA BeginStaysAlone ==
    ASSUME Shapes, OneCallEach, NEW c \in Calls, NEW t \in Topics,
           NEW step \in Steps, NEW word \in Words, NEW doc \in Blocks \cup {NoDoc},
           Begin(c, t, step, word, doc)
    PROVE  OneCallEach'
<1> SUFFICES ASSUME NEW s \in Topics \ contested', s[1] # "session",
                    NEW x \in OnTopic(s)', NEW y \in OnTopic(s)'
             PROVE  x = y
  BY DEF OneCallEach, Topics
<1>1. OnlyMoves(c) /\ call'[c].topic = t
  BY DEF Begin, Shapes, OnlyMoves
<1>2. s \notin contested
  BY DEF Begin
<1>3. CASE s = t
  <2>1. OnTopic(t) = {}
    BY <1>3 DEF Begin
  <2>2. \A d \in OnTopic(s)' : d = c
    BY <1>1, <1>3, <2>1 DEF OnTopic, OnlyMoves, At
  <2> QED
    BY <2>2
<1>4. CASE s # t
  <2>1. \A d \in OnTopic(s)' : d \in OnTopic(s)
    BY <1>1, <1>4 DEF OnTopic, OnlyMoves, At
  <2> QED
    BY <1>2, <2>1 DEF OneCallEach
<1> QED
  BY <1>3, <1>4

(* AsksInHand holds on when no request becomes pending, no user becomes     *)
(* blocked and no call comes to look for pending requests or to save one.   *)
LEMMA AsksFrame ==
    ASSUME AsksInHand, HistoryGrows,
           \A r \in Requests : request'[r].status = "pending" => request'[r] = request[r],
           \A u \in Users : Blocked(u)' => Blocked(u),
           \A d \in Calls : OnKind(d, "ask")' /\ call'[d].at \in {"pending?", "save"}
                               => call'[d] = call[d]
    PROVE  AsksInHand'
<1> SUFFICES ASSUME NEW u \in Users, <<"ask", u>> \notin contested'
             PROVE  /\ OneOpenRequest(u)'
                    /\ \A c \in OnTopic(<<"ask", u>>)' : AskerKnows(c, u)'
  BY DEF AsksInHand
<1>1. <<"ask", u>> \notin contested
  BY DEF HistoryGrows
<1>2. Has(u, "pending")' => Has(u, "pending")
  BY DEF Has
<1>3. OneOpenRequest(u)'
  BY <1>1 DEF AsksInHand, OneOpenRequest
<1>4. ASSUME NEW c \in OnTopic(<<"ask", u>>)' PROVE AskerKnows(c, u)'
  <2>1. CASE call'[c].at \in {"pending?", "save"}
    <3>1. c \in OnTopic(<<"ask", u>>) /\ call'[c] = call[c]
      BY <2>1 DEF OnTopic, OnKind, At
    <3> QED
      BY <1>1, <1>2, <3>1 DEF AsksInHand, AskerKnows, At
  <2>2. CASE call'[c].at \notin {"pending?", "save"}
    BY <2>2 DEF AskerKnows, At
  <2> QED
    BY <2>1, <2>2
<1> QED
  BY <1>3, <1>4

(* A topic is what it was when none of the calls on it moved.               *)
LEMMA TopicFrame ==
    ASSUME NEW k, NEW x,
           \A d \in Calls : OnKind(d, k) \/ OnKind(d, k)' => call'[d] = call[d]
    PROVE  /\ OnTopic(<<k, x>>)' = OnTopic(<<k, x>>)
           /\ \A d \in OnTopic(<<k, x>>) : call'[d] = call[d]
           /\ BeingTold(<<k, x>>)' <=> BeingTold(<<k, x>>)
<1>1. OnTopic(<<k, x>>)' = OnTopic(<<k, x>>)
  BY DEF OnTopic, OnKind, At
<1>2. \A d \in OnTopic(<<k, x>>) : call'[d] = call[d]
  BY DEF OnTopic, OnKind, At
<1> QED
  BY <1>1, <1>2 DEF BeingTold, At

(* DecisionsInHand holds on when each request either keeps its status and   *)
(* what was told of it, or is undecided and no call decides on it, and no   *)
(* decision moves.                                                          *)
LEMMA DecisionsFrame ==
    ASSUME DecisionsInHand, HistoryGrows,
           \A r \in Requests :
              \/ request'[r].status = request[r].status /\ told'[r] = told[r]
              \/ request'[r].status = "pending" /\ OnTopic(<<"decide", r>>) = {},
           \A d \in Calls : OnKind(d, "decide") \/ OnKind(d, "decide")'
                               => call'[d] = call[d]
    PROVE  DecisionsInHand'
<1> SUFFICES ASSUME NEW r \in Requests, <<"decide", r>> \notin contested'
             PROVE  /\ \A c \in OnTopic(<<"decide", r>>)' : DeciderKnows(c, r)'
                    /\ (<<"decide", r>> \notin cut /\ Decided(r))' =>
                          told'[r] = request'[r].status \/ BeingTold(<<"decide", r>>)'
  BY DEF DecisionsInHand
<1>1. <<"decide", r>> \notin contested
  BY DEF HistoryGrows
<1>2. /\ OnTopic(<<"decide", r>>)' = OnTopic(<<"decide", r>>)
      /\ \A d \in OnTopic(<<"decide", r>>) : call'[d] = call[d]
      /\ BeingTold(<<"decide", r>>)' <=> BeingTold(<<"decide", r>>)
  BY TopicFrame
<1>3. CASE request'[r].status = request[r].status /\ told'[r] = told[r]
  <2>1. \A c \in OnTopic(<<"decide", r>>)' : DeciderKnows(c, r)'
    BY <1>1, <1>2, <1>3 DEF DecisionsInHand, DeciderKnows, At
  <2> QED
    BY <1>1, <1>2, <1>3, <2>1 DEF DecisionsInHand, HistoryGrows, Decided
<1>4. CASE request'[r].status = "pending" /\ OnTopic(<<"decide", r>>) = {}
  BY <1>2, <1>4 DEF Decided
<1> QED
  BY <1>3, <1>4

LEMMA BlocksFrame ==
    ASSUME BlocksInHand, HistoryGrows, block' = block,
           \A u \in Users : told'[u] = told[u],
           \A d \in Calls : OnKind(d, "block") \/ OnKind(d, "block")'
                               => call'[d] = call[d]
    PROVE  BlocksInHand'
<1> SUFFICES ASSUME NEW u \in Users, <<"block", u>> \notin contested'
             PROVE  /\ OneActiveBlock(u)'
                    /\ \A c \in OnTopic(<<"block", u>>)' : BlockerKnows(c, u)'
                    /\ <<"block", u>> \notin cut' =>
                          (told[u] = "blocked" <=> Blocked(u))' \/ BeingTold(<<"block", u>>)'
  BY DEF BlocksInHand
<1>1. <<"block", u>> \notin contested
  BY DEF HistoryGrows
<1>2. /\ OnTopic(<<"block", u>>)' = OnTopic(<<"block", u>>)
      /\ \A d \in OnTopic(<<"block", u>>) : call'[d] = call[d]
      /\ BeingTold(<<"block", u>>)' <=> BeingTold(<<"block", u>>)
  BY TopicFrame
<1>3. Blocked(u)' <=> Blocked(u)
  BY DEF Blocked
<1>4. OneActiveBlock(u)'
  BY <1>1 DEF BlocksInHand, OneActiveBlock, ActiveFor
<1>5. \A c \in OnTopic(<<"block", u>>)' : BlockerKnows(c, u)'
  BY <1>1, <1>2, <1>3 DEF BlocksInHand, BlockerKnows, ActiveFor, At
<1>6. (told[u] = "blocked")' <=> told[u] = "blocked"
  OBVIOUS
<1>7. <<"block", u>> \notin cut' => <<"block", u>> \notin cut
  BY DEF HistoryGrows
<1> QED
  BY <1>1, <1>2, <1>3, <1>4, <1>5, <1>6, <1>7 DEF BlocksInHand

-----------------------------------------------------------------------------
(* The steps of a call, and what is known of a call from where it is.       *)

LEMMA Goes ==
    ASSUME TypeOK, NEW c \in Calls, NEW step \in Steps, ~At(c, "idle"), Goto(c, step)
    PROVE  /\ call' \in [Calls -> Work \cup {Idle}]
           /\ OnlyMoves(c)
           /\ call'[c].at = step
           /\ call'[c].topic = call[c].topic
           /\ call'[c].word = call[c].word
           /\ call'[c].doc = call[c].doc
<1>1. Shapes
  BY TypesGiveShapes
<1>2. call[c] \in Work
  BY <1>1, CallsThatWork
<1>3. call' = [call EXCEPT ![c] = [call[c] EXCEPT !.at = step]]
  BY DEF Goto
<1>4. [call[c] EXCEPT !.at = step] \in Work
  BY <1>2 DEF Work
<1>5. call'[c] = [call[c] EXCEPT !.at = step]
  BY <1>3 DEF TypeOK
<1>6. /\ call'[c].at = step /\ call'[c].topic = call[c].topic
      /\ call'[c].word = call[c].word /\ call'[c].doc = call[c].doc
  BY <1>2, <1>5 DEF Work
<1> QED
  BY <1>3, <1>4, <1>6 DEF TypeOK, OnlyMoves

LEMMA Returns ==
    ASSUME TypeOK, NEW c \in Calls, Return(c)
    PROVE  /\ call' \in [Calls -> Work \cup {Idle}]
           /\ OnlyMoves(c)
           /\ call'[c].at = "idle"
BY DEF TypeOK, Return, OnlyMoves, Idle

LEMMA Begins ==
    ASSUME TypeOK, NEW c \in Calls, NEW t \in Topics, NEW step \in Steps,
           NEW word \in Words, NEW doc \in Blocks \cup {NoDoc},
           Begin(c, t, step, word, doc)
    PROVE  /\ call' \in [Calls -> Work \cup {Idle}]
           /\ OnlyMoves(c)
           /\ call[c].at = "idle"
           /\ call'[c] = [at |-> step, topic |-> t, word |-> word, doc |-> doc]
           /\ HistoryGrows /\ DocsStay
           /\ contested' \subseteq Topics
           /\ UNCHANGED <<live, request, block, participants, tokens, told, approved, cut>>
<1>1. /\ call' = [call EXCEPT ![c] = [at |-> step, topic |-> t, word |-> word, doc |-> doc]]
      /\ call[c].at = "idle"
      /\ contested' \subseteq contested \cup {t} /\ contested \subseteq contested'
      /\ UNCHANGED <<live, request, block, participants, tokens, told, approved, cut>>
  BY DEF Begin, At, docVars
<1>2. [at |-> step, topic |-> t, word |-> word, doc |-> doc] \in Work
  BY DEF Work
<1>3. call' \in [Calls -> Work \cup {Idle}]
  BY <1>1, <1>2 DEF TypeOK
<1>4. OnlyMoves(c)
  BY <1>1 DEF TypeOK, OnlyMoves
<1>5. call'[c] = [at |-> step, topic |-> t, word |-> word, doc |-> doc]
  BY <1>1 DEF TypeOK
<1>6. DocsStay
  BY <1>1 DEF DocsStay
<1>7. HistoryGrows /\ contested' \subseteq Topics
  BY <1>1 DEF HistoryGrows, TypeOK
<1> QED
  BY <1>1, <1>3, <1>4, <1>5, <1>6, <1>7

LEMMA KindOfCall ==
    ASSUME WorkFits, NEW c \in Calls, ~At(c, "idle")
    PROVE  /\ \/ call[c].word = "requested"
              \/ At(c, "blocked?") \/ At(c, "pending?")
              => Asks(call[c])
           /\ /\ At(c, "save") \/ At(c, "tell")
              /\ call[c].word \in {"approved", "declined"}
              => Decides(call[c])
           /\ call[c].word \in {"blocked", "unblocked"} => Moderates(call[c])
           /\ At(c, "approved?") \/ At(c, "participant") \/ At(c, "token")
              => Opens(call[c])
BY DEF WorkFits, Asks, Decides, Moderates, Opens, At

LEMMA OtherKinds ==
    ASSUME NEW c \in Calls, OnlyMoves(c), NEW k, ~OnKind(c, k), ~OnKind(c, k)'
    PROVE  \A d \in Calls : OnKind(d, k) \/ OnKind(d, k)' => call'[d] = call[d]
BY DEF OnlyMoves

(* Blocks are as they were, and so is who is blocked.                       *)
LEMMA SameBlocked ==
    ASSUME block' = block
    PROVE  \A u : Blocked(u)' <=> Blocked(u)
BY DEF Blocked

-----------------------------------------------------------------------------
(* Every step keeps SpeakerInv: first those that start a call.              *)

LEMMA BeginBasics ==
    ASSUME TypeOK, WorkFits, OneCallEach, NEW c \in Calls, NEW t \in Topics,
           NEW step \in Steps, NEW word \in Words, NEW doc \in Blocks \cup {NoDoc},
           Begin(c, t, step, word, doc),
           NEW w, w = [at |-> step, topic |-> t, word |-> word, doc |-> doc], Fits(w)
    PROVE  TypeOK' /\ WorkFits' /\ OneCallEach'
<1>1. /\ call' \in [Calls -> Work \cup {Idle}]
      /\ OnlyMoves(c) /\ call'[c] = w /\ HistoryGrows /\ DocsStay
      /\ contested' \subseteq Topics
      /\ UNCHANGED <<live, request, block, participants, tokens, told, approved, cut>>
  BY Begins
<1>2. TypeOK'
  BY <1>1 DEF TypeOK
<1>3. w \in Work
  BY DEF Work
<1>4. Fits(w)'
  BY <1>1, <1>3, SameWorkFits
<1>5. WorkFits'
  BY <1>1, <1>4, TypesGiveShapes, WorkFrame
<1>6. OneCallEach'
  BY TypesGiveShapes, BeginStaysAlone
<1> QED
  BY <1>2, <1>5, <1>6

LEMMA AskStep ==
    ASSUME SpeakerInv, NEW c \in Calls, NEW u \in Users, Ask(c, u)
    PROVE  SpeakerInv'
<1> DEFINE t == <<"ask", u>>
           w == [at |-> "blocked?", topic |-> t, word |-> "requested", doc |-> NoDoc]
<1>1. /\ t \in Topics /\ "blocked?" \in Steps /\ "requested" \in Words
      /\ NoDoc \in Blocks \cup {NoDoc}
      /\ Begin(c, t, "blocked?", "requested", NoDoc)
  BY DEF Topics, Steps, Words, Ask
<1>2. Fits(w)
  BY DEF Fits, Asks
<1>3. /\ OnlyMoves(c) /\ call[c].at = "idle" /\ call'[c] = w /\ HistoryGrows
      /\ UNCHANGED <<request, block, told, cut>>
  BY <1>1, Begins DEF SpeakerInv
<1>4. TypeOK' /\ WorkFits' /\ OneCallEach'
  BY <1>1, <1>2, BeginBasics DEF SpeakerInv
<1>5. \A k \in {"decide", "block"} : ~OnKind(c, k) /\ ~OnKind(c, k)'
  BY <1>3 DEF OnKind, At
<1>6. AsksInHand'
  <2>1. \A d \in Calls : OnKind(d, "ask")' /\ call'[d].at \in {"pending?", "save"}
                              => call'[d] = call[d]
    BY <1>3 DEF OnlyMoves
  <2> QED
    BY <1>3, <2>1, SameBlocked, AsksFrame DEF SpeakerInv
<1>7. DecisionsInHand'
  BY <1>3, <1>5, OtherKinds, DecisionsFrame DEF SpeakerInv
<1>8. BlocksInHand'
  BY <1>3, <1>5, OtherKinds, BlocksFrame DEF SpeakerInv
<1> QED
  BY <1>4, <1>6, <1>7, <1>8 DEF SpeakerInv

LEMMA OpenSessionStep ==
    ASSUME SpeakerInv, NEW c \in Calls, NEW u \in Users, OpenSession(c, u)
    PROVE  SpeakerInv'
<1> DEFINE t == <<"session", u>>
           w == [at |-> "approved?", topic |-> t, word |-> "approved", doc |-> NoDoc]
<1>1. /\ t \in Topics /\ "approved?" \in Steps /\ "approved" \in Words
      /\ NoDoc \in Blocks \cup {NoDoc}
      /\ Begin(c, t, "approved?", "approved", NoDoc)
  BY DEF Topics, Steps, Words, OpenSession
<1>2. Fits(w)
  BY DEF Fits, Opens
<1>3. /\ OnlyMoves(c) /\ call[c].at = "idle" /\ call'[c] = w /\ HistoryGrows
      /\ UNCHANGED <<request, block, told, cut>>
  BY <1>1, Begins DEF SpeakerInv
<1>4. TypeOK' /\ WorkFits' /\ OneCallEach'
  BY <1>1, <1>2, BeginBasics DEF SpeakerInv
<1>5. \A k \in {"ask", "decide", "block"} : ~OnKind(c, k) /\ ~OnKind(c, k)'
  BY <1>3 DEF OnKind, At
<1>6. AsksInHand'
  BY <1>3, <1>5, SameBlocked, OtherKinds, AsksFrame DEF SpeakerInv
<1>7. DecisionsInHand'
  BY <1>3, <1>5, OtherKinds, DecisionsFrame DEF SpeakerInv
<1>8. BlocksInHand'
  BY <1>3, <1>5, OtherKinds, BlocksFrame DEF SpeakerInv
<1> QED
  BY <1>4, <1>6, <1>7, <1>8 DEF SpeakerInv

(* A decision that starts alone finds its request pending.                  *)
LEMMA DecideStep ==
    ASSUME SpeakerInv, NEW c \in Calls, NEW r \in Requests,
           NEW v \in {"approved", "declined"}, Decide(c, r, v)
    PROVE  SpeakerInv'
<1> DEFINE t == <<"decide", r>>
           w == [at |-> "save", topic |-> t, word |-> v, doc |-> NoDoc]
<1>1. /\ t \in Topics /\ "save" \in Steps /\ v \in Words
      /\ NoDoc \in Blocks \cup {NoDoc}
      /\ Begin(c, t, "save", v, NoDoc)
  BY DEF Topics, Steps, Words, Decide
<1>2. Fits(w)
  BY DEF Fits, Decides, Decide
<1>3. /\ OnlyMoves(c) /\ call[c].at = "idle" /\ call'[c] = w /\ HistoryGrows
      /\ UNCHANGED <<request, block, told, cut>>
  BY <1>1, Begins DEF SpeakerInv
<1>4. TypeOK' /\ WorkFits' /\ OneCallEach'
  BY <1>1, <1>2, BeginBasics DEF SpeakerInv
<1>5. \A k \in {"ask", "block"} : ~OnKind(c, k) /\ ~OnKind(c, k)'
  BY <1>3 DEF OnKind, At
<1>6. AsksInHand'
  BY <1>3, <1>5, SameBlocked, OtherKinds, AsksFrame DEF SpeakerInv
<1>7. BlocksInHand'
  BY <1>3, <1>5, OtherKinds, BlocksFrame DEF SpeakerInv
<1>8. DecisionsInHand'
  <2> SUFFICES ASSUME NEW q \in Requests, <<"decide", q>> \notin contested'
               PROVE  /\ \A d \in OnTopic(<<"decide", q>>)' : DeciderKnows(d, q)'
                      /\ (<<"decide", q>> \notin cut /\ Decided(q))' =>
                            told'[q] = request'[q].status \/ BeingTold(<<"decide", q>>)'
    BY DEF DecisionsInHand
  <2>1. <<"decide", q>> \notin contested
    BY <1>3 DEF HistoryGrows
  <2>2. ASSUME NEW d \in OnTopic(<<"decide", q>>)' PROVE DeciderKnows(d, q)'
    <3>1. CASE d = c
      BY <1>3, <2>2, <3>1 DEF DeciderKnows, OnTopic, At, Decide
    <3>2. CASE d # c
      <4>1. call'[d] = call[d] /\ d \in OnTopic(<<"decide", q>>)
        BY <1>3, <2>2, <3>2 DEF OnTopic, OnlyMoves, At
      <4> QED
        BY <1>3, <2>1, <4>1 DEF SpeakerInv, DecisionsInHand, DeciderKnows, At
    <3> QED
      BY <3>1, <3>2
  <2>3. BeingTold(<<"decide", q>>) => BeingTold(<<"decide", q>>)'
    BY <1>3 DEF BeingTold, OnTopic, OnlyMoves, At
  <2> QED
    BY <1>3, <2>1, <2>2, <2>3 DEF SpeakerInv, DecisionsInHand, Decided
<1> QED
  BY <1>4, <1>6, <1>7, <1>8 DEF SpeakerInv

(* A block that starts alone finds its user unblocked, and the lifting of a *)
(* block finds that block active; what the user was told agrees with it.    *)
LEMMA ModerateStep ==
    ASSUME SpeakerInv, NEW c \in Calls, NEW u \in Users,
           NEW word \in {"blocked", "unblocked"}, NEW doc \in Blocks \cup {NoDoc},
           IF word = "blocked" THEN ~Blocked(u) ELSE doc \in Blocks /\ ActiveFor(doc, u),
           Begin(c, <<"block", u>>, "save", word, doc)
    PROVE  SpeakerInv'
<1> DEFINE t == <<"block", u>>
           w == [at |-> "save", topic |-> t, word |-> word, doc |-> doc]
<1>1. t \in Topics /\ "save" \in Steps /\ word \in Words
  BY DEF Topics, Steps, Words
<1>2. Fits(w)
  BY DEF Fits, Moderates, ActiveFor
<1>3. /\ OnlyMoves(c) /\ call[c].at = "idle" /\ call'[c] = w /\ HistoryGrows
      /\ UNCHANGED <<request, block, told, cut>>
  BY <1>1, Begins DEF SpeakerInv
<1>4. TypeOK' /\ WorkFits' /\ OneCallEach'
  BY <1>1, <1>2, BeginBasics DEF SpeakerInv
<1>5. \A k \in {"ask", "decide"} : ~OnKind(c, k) /\ ~OnKind(c, k)'
  BY <1>3 DEF OnKind, At
<1>6. AsksInHand'
  BY <1>3, <1>5, SameBlocked, OtherKinds, AsksFrame DEF SpeakerInv
<1>7. DecisionsInHand'
  BY <1>3, <1>5, OtherKinds, DecisionsFrame DEF SpeakerInv
<1>8. BlocksInHand'
  <2> SUFFICES ASSUME NEW x \in Users, <<"block", x>> \notin contested'
               PROVE  /\ OneActiveBlock(x)'
                      /\ \A d \in OnTopic(<<"block", x>>)' : BlockerKnows(d, x)'
                      /\ <<"block", x>> \notin cut' =>
                            \/ (told[x] = "blocked" <=> Blocked(x))'
                            \/ BeingTold(<<"block", x>>)'
    BY DEF BlocksInHand
  <2>1. <<"block", x>> \notin contested
    BY <1>3 DEF HistoryGrows
  <2>2. Blocked(x)' <=> Blocked(x)
    BY <1>3, SameBlocked
  <2>3. OneActiveBlock(x)'
    BY <1>3, <2>1 DEF SpeakerInv, BlocksInHand, OneActiveBlock, ActiveFor
  <2>4. ASSUME NEW d \in OnTopic(<<"block", x>>)' PROVE BlockerKnows(d, x)'
    <3>1. CASE d = c
      <4>1. x = u
        BY <1>3, <2>4, <3>1 DEF OnTopic
      <4>2. call'[d].at = "save" /\ call'[d].word = word /\ call'[d].doc = doc
        BY <1>3, <3>1
      <4> QED
        BY <1>3, <2>2, <4>1, <4>2 DEF BlockerKnows, ActiveFor, At
    <3>2. CASE d # c
      <4>1. call'[d] = call[d] /\ d \in OnTopic(<<"block", x>>)
        BY <1>3, <2>4, <3>2 DEF OnTopic, OnlyMoves, At
      <4> QED
        BY <1>3, <2>1, <2>2, <4>1
           DEF SpeakerInv, BlocksInHand, BlockerKnows, ActiveFor, At
    <3> QED
      BY <3>1, <3>2
  <2>5. BeingTold(<<"block", x>>) => BeingTold(<<"block", x>>)'
    BY <1>3 DEF BeingTold, OnTopic, OnlyMoves, At
  <2>6. (told[x] = "blocked")' <=> told[x] = "blocked"
    BY <1>3
  <2> QED
    BY <1>3, <2>1, <2>2, <2>3, <2>4, <2>5, <2>6 DEF SpeakerInv, BlocksInHand
<1> QED
  BY <1>4, <1>6, <1>7, <1>8 DEF SpeakerInv

LEMMA StartStep ==
    ASSUME SpeakerInv, NEW c \in Calls, Start(c)
    PROVE  SpeakerInv'
<1>1. ASSUME NEW u \in Users, Block(c, u) PROVE SpeakerInv'
  BY <1>1, ModerateStep, NoDoc \in Blocks \cup {NoDoc} DEF Block
<1>2. ASSUME NEW u \in Users, NEW b \in Blocks, Unblock(c, u, b) PROVE SpeakerInv'
  <2>1. ActiveFor(b, u) /\ b \in Blocks \cup {NoDoc}
    BY <1>2 DEF Unblock, ActiveFor
  <2>2. Begin(c, <<"block", u>>, "save", "unblocked", b)
    BY <1>2 DEF Unblock
  <2>3. /\ "unblocked" \in {"blocked", "unblocked"}
        /\ IF "unblocked" = "blocked" THEN ~Blocked(u)
           ELSE b \in Blocks /\ ActiveFor(b, u)
    BY <2>1
  <2> QED
    BY <2>1, <2>2, <2>3, ModerateStep
<1> QED
  BY <1>1, <1>2, AskStep, OpenSessionStep, DecideStep DEF Start

-----------------------------------------------------------------------------
(* A call that goes on, or returns, with no document saved.                 *)

LEMMA GoBasics ==
    ASSUME TypeOK, WorkFits, OneCallEach, NEW c \in Calls, OnlyMoves(c),
           ~At(c, "idle"), HistoryGrows, DocsStay, NEW w, w = call'[c],
           w.topic = call[c].topic, Fits(w)'
    PROVE  WorkFits' /\ OneCallEach'
<1>1. WorkFits'
  BY TypesGiveShapes, WorkFrame
<1> QED
  BY <1>1, MovesStayAlone

LEMMA ReturnBasics ==
    ASSUME TypeOK, WorkFits, OneCallEach, NEW c \in Calls, Return(c),
           ~At(c, "idle"), HistoryGrows, DocsStay
    PROVE  WorkFits' /\ OneCallEach'
<1>1. OnlyMoves(c) /\ call'[c].at = "idle"
  BY Returns
<1>2. PICK w : w = call'[c]
  OBVIOUS
<1>3. WorkFits'
  BY <1>1, <1>2, TypesGiveShapes, WorkFrame
<1> QED
  BY <1>1, <1>3, MovesStayAlone

LEMMA ReturnStep ==
    ASSUME SpeakerInv, NEW c \in Calls, ~At(c, "idle"), Return(c),
           UNCHANGED <<live, request, block, participants, told, history>>,
           tokens \subseteq tokens', tokens' \subseteq participants,
           Asks(call[c]) \/ Opens(call[c])
    PROVE  SpeakerInv'
<1>1. /\ call' \in [Calls -> Work \cup {Idle}]
      /\ OnlyMoves(c) /\ call'[c].at = "idle"
  BY Returns DEF SpeakerInv
<1>2. HistoryGrows /\ DocsStay
  BY DEF history, HistoryGrows, DocsStay
<1>3. TypeOK'
  BY <1>1 DEF SpeakerInv, TypeOK, history
<1>4. WorkFits' /\ OneCallEach'
  BY <1>2, ReturnBasics DEF SpeakerInv
<1>5. \A k \in {"decide", "block"} : ~OnKind(c, k) /\ ~OnKind(c, k)'
  BY <1>1 DEF OnKind, At, Asks, Opens
<1>6. AsksInHand'
  <2>1. \A d \in Calls : OnKind(d, "ask")' => call'[d] = call[d]
    BY <1>1 DEF OnlyMoves, OnKind, At
  <2> QED
    BY <1>2, <2>1, SameBlocked, AsksFrame DEF SpeakerInv
<1>7. DecisionsInHand'
  BY <1>1, <1>2, <1>5, OtherKinds, DecisionsFrame DEF SpeakerInv
<1>8. BlocksInHand'
  BY <1>1, <1>2, <1>5, OtherKinds, BlocksFrame DEF SpeakerInv
<1> QED
  BY <1>3, <1>4, <1>6, <1>7, <1>8 DEF SpeakerInv

(* RequestToSpeak goes on: after the look for a block its user is not       *)
(* blocked, after the look for a pending request its user has none.         *)
LEMMA AskGoesOn ==
    ASSUME SpeakerInv, NEW c \in Calls, NEW step \in {"pending?", "save"},
           Asks(call[c]), Goto(c, step), UNCHANGED <<live, docVars, told, history>>,
           IF step = "pending?" THEN ~Blocked(About(c))
           ELSE At(c, "pending?") /\ ~Has(About(c), "pending")
    PROVE  SpeakerInv'
<1>1. PICK u \in Users : call[c].topic = <<"ask", u>>
  BY DEF Asks
<1>2. ~At(c, "idle") /\ About(c) = u /\ call[c].word = "requested"
  BY <1>1 DEF Asks, At, About
<1>3. /\ call' \in [Calls -> Work \cup {Idle}]
      /\ OnlyMoves(c) /\ call'[c].at = step
      /\ call'[c].topic = call[c].topic /\ call'[c].word = call[c].word
  BY <1>2, Goes DEF SpeakerInv, Steps
<1>4. HistoryGrows /\ DocsStay
  BY DEF history, docVars, HistoryGrows, DocsStay
<1>5. TypeOK'
  BY <1>3 DEF SpeakerInv, TypeOK, history, docVars
<1>6. PICK w : w = call'[c]
  OBVIOUS
<1>7. Asks(w)'
  BY <1>1, <1>2, <1>3, <1>6 DEF Asks
<1>8. WorkFits' /\ OneCallEach'
  BY <1>2, <1>3, <1>4, <1>6, <1>7, GoBasics DEF SpeakerInv, Fits
<1>9. \A k \in {"decide", "block"} : ~OnKind(c, k) /\ ~OnKind(c, k)'
  BY <1>1, <1>3 DEF OnKind
<1>10. DecisionsInHand'
  BY <1>3, <1>4, <1>9, OtherKinds, DecisionsFrame DEF SpeakerInv, docVars
<1>11. BlocksInHand'
  BY <1>3, <1>4, <1>9, OtherKinds, BlocksFrame DEF SpeakerInv, docVars
<1>12. AsksInHand'
  <2> SUFFICES ASSUME NEW x \in Users, <<"ask", x>> \notin contested'
               PROVE  /\ OneOpenRequest(x)'
                      /\ \A d \in OnTopic(<<"ask", x>>)' : AskerKnows(d, x)'
    BY DEF AsksInHand
  <2>1. <<"ask", x>> \notin contested
    BY <1>4 DEF HistoryGrows
  <2>2. (Blocked(x)' <=> Blocked(x)) /\ (Has(x, "pending")' <=> Has(x, "pending"))
    BY SameBlocked DEF docVars, Has
  <2>3. OneOpenRequest(x)'
    BY <2>1 DEF SpeakerInv, AsksInHand, OneOpenRequest, docVars
  <2>4. ASSUME NEW d \in OnTopic(<<"ask", x>>)' PROVE AskerKnows(d, x)'
    <3>1. CASE d = c
      <4>1. x = u /\ c \in OnTopic(<<"ask", x>>)
        BY <1>1, <1>2, <1>3, <2>4, <3>1 DEF OnTopic
      <4>2. CASE step = "pending?"
        BY <1>2, <1>3, <2>2, <3>1, <4>1, <4>2 DEF AskerKnows, At
      <4>3. CASE step = "save"
        <5>1. ~Blocked(x)
          BY <2>1, <4>1, <4>3 DEF SpeakerInv, AsksInHand, AskerKnows
        <5> QED
          BY <1>2, <1>3, <2>2, <3>1, <4>1, <4>3, <5>1 DEF AskerKnows, At
      <4> QED
        BY <4>2, <4>3
    <3>2. CASE d # c
      <4>1. call'[d] = call[d] /\ d \in OnTopic(<<"ask", x>>)
        BY <1>3, <2>4, <3>2 DEF OnTopic, OnlyMoves, At
      <4> QED
        BY <2>1, <2>2, <4>1 DEF SpeakerInv, AsksInHand, AskerKnows, At
    <3> QED
      BY <3>1, <3>2
  <2> QED
    BY <2>3, <2>4
<1> QED
  BY <1>5, <1>8, <1>10, <1>11, <1>12 DEF SpeakerInv

LEMMA AskChecksStep ==
    ASSUME SpeakerInv, NEW c \in Calls, AskIfBlocked(c) \/ AskIfPending(c)
    PROVE  SpeakerInv'
<1>1. ~At(c, "idle") /\ Asks(call[c])
  BY KindOfCall DEF SpeakerInv, AskIfBlocked, AskIfPending, At
<1>2. CASE Return(c)
  <2>1. /\ UNCHANGED <<live, request, block, participants, told, history>>
        /\ tokens \subseteq tokens' /\ tokens' \subseteq participants
    BY DEF AskIfBlocked, AskIfPending, docVars, SpeakerInv, TypeOK
  <2> QED
    BY <1>1, <1>2, <2>1, ReturnStep
<1>3. CASE AskIfBlocked(c) /\ ~Return(c)
  BY <1>1, <1>3, AskGoesOn DEF AskIfBlocked
<1>4. CASE AskIfPending(c) /\ ~Return(c)
  <2>1. /\ "save" \in {"pending?", "save"} /\ "save" # "pending?"
        /\ At(c, "pending?") /\ ~Has(About(c), "pending") /\ Goto(c, "save")
        /\ UNCHANGED <<live, docVars, told, history>>
    BY <1>4 DEF AskIfPending
  <2> QED
    BY <1>1, <2>1, AskGoesOn
<1> QED
  BY <1>2, <1>3, <1>4

(* resolveRole and the participant that is saved for a speaker's session.   *)
LEMMA SessionGoesOn ==
    ASSUME SpeakerInv, NEW c \in Calls, NEW step \in {"participant", "token"},
           Opens(call[c]), Goto(c, step),
           UNCHANGED <<live, request, block, tokens, told, history>>,
           participants \subseteq participants', participants' \subseteq Users,
           step = "token" => About(c) \in participants'
    PROVE  SpeakerInv'
<1>1. PICK u \in Users : call[c].topic = <<"session", u>>
  BY DEF Opens
<1>2. ~At(c, "idle") /\ About(c) = u /\ call[c].word = "approved"
  BY <1>1 DEF Opens, At, About
<1>3. /\ call' \in [Calls -> Work \cup {Idle}]
      /\ OnlyMoves(c) /\ call'[c].at = step
      /\ call'[c].topic = call[c].topic /\ call'[c].word = call[c].word
  BY <1>2, Goes DEF SpeakerInv, Steps
<1>4. HistoryGrows /\ DocsStay
  BY DEF history, HistoryGrows, DocsStay
<1>5. TypeOK'
  BY <1>3 DEF SpeakerInv, TypeOK, history
<1>6. PICK w : w = call'[c]
  OBVIOUS
<1>7. Opens(w)'
  BY <1>1, <1>2, <1>3, <1>6 DEF Opens
<1>8. WorkFits' /\ OneCallEach'
  BY <1>2, <1>3, <1>4, <1>6, <1>7, GoBasics DEF SpeakerInv, Fits
<1>9. \A k \in {"ask", "decide", "block"} : ~OnKind(c, k) /\ ~OnKind(c, k)'
  BY <1>1, <1>3 DEF OnKind
<1>10. AsksInHand'
  BY <1>3, <1>4, <1>9, SameBlocked, OtherKinds, AsksFrame DEF SpeakerInv
<1>11. DecisionsInHand'
  BY <1>3, <1>4, <1>9, OtherKinds, DecisionsFrame DEF SpeakerInv
<1>12. BlocksInHand'
  BY <1>3, <1>4, <1>9, OtherKinds, BlocksFrame DEF SpeakerInv
<1> QED
  BY <1>5, <1>8, <1>10, <1>11, <1>12 DEF SpeakerInv

LEMMA SessionStep ==
    ASSUME SpeakerInv, NEW c \in Calls,
           ResolveRole(c) \/ SaveParticipant(c) \/ IssueSpeakerToken(c)
    PROVE  SpeakerInv'
<1>1. ~At(c, "idle") /\ Opens(call[c])
  BY KindOfCall DEF SpeakerInv, ResolveRole, SaveParticipant, IssueSpeakerToken, At
<1>2. /\ About(c) \in Users
      /\ At(c, "token") => About(c) \in participants
  BY <1>1 DEF Opens, About, At
<1>3. tokens \subseteq participants /\ participants \subseteq Users
  BY DEF SpeakerInv, TypeOK
<1>4. CASE ResolveRole(c) /\ Return(c)
  <2>1. /\ UNCHANGED <<live, request, block, participants, told, history>>
        /\ tokens \subseteq tokens' /\ tokens' \subseteq participants
    BY <1>3, <1>4 DEF ResolveRole, docVars
  <2> QED
    BY <1>1, <1>4, <2>1, ReturnStep
<1>5. CASE ResolveRole(c) /\ ~Return(c)
  <2>1. /\ Goto(c, "participant")
        /\ UNCHANGED <<live, request, block, tokens, told, history>>
        /\ participants' = participants
    BY <1>5 DEF ResolveRole, docVars
  <2> QED
    BY <1>1, <1>3, <2>1, SessionGoesOn
<1>6. CASE SaveParticipant(c)
  <2>1. /\ Goto(c, "token") /\ "token" \in {"participant", "token"}
        /\ UNCHANGED <<live, request, block, tokens, told, history>>
        /\ participants' = participants \cup {About(c)}
    BY <1>6 DEF SaveParticipant
  <2> QED
    BY <1>1, <1>2, <1>3, <2>1, SessionGoesOn
<1>7. CASE IssueSpeakerToken(c)
  <2>1. /\ UNCHANGED <<live, request, block, participants, told, history>>
        /\ tokens \subseteq tokens' /\ tokens' \subseteq participants
        /\ Return(c)
    BY <1>2, <1>3, <1>7 DEF IssueSpeakerToken
  <2> QED
    BY <1>1, <2>1, ReturnStep
<1> QED
  BY <1>4, <1>5, <1>6, <1>7

-----------------------------------------------------------------------------
(* A document is saved.                                                     *)

(* The request that is saved is the only pending one of its user, since no  *)
(* other call asks for that user.                                           *)
LEMMA SaveRequestStep ==
    ASSUME SpeakerInv, NEW c \in Calls, NEW r \in Requests, SaveRequest(c, r)
    PROVE  SpeakerInv'
<1>1. ~At(c, "idle") /\ Asks(call[c]) /\ Goto(c, "tell")
  BY KindOfCall DEF SpeakerInv, SaveRequest, At
<1>2. PICK u \in Users : call[c].topic = <<"ask", u>> /\ About(c) = u
  BY <1>1 DEF Asks, About
<1>3. /\ call' \in [Calls -> Work \cup {Idle}]
      /\ OnlyMoves(c) /\ call'[c].at = "tell"
      /\ call'[c].topic = call[c].topic /\ call'[c].word = call[c].word
  BY <1>1, Goes DEF SpeakerInv, Steps
<1>4. /\ request[r].status = "none"
      /\ request' = [request EXCEPT ![r] = [user |-> u, status |-> "pending"]]
      /\ UNCHANGED <<live, block, participants, tokens, told, contested, cut, approved>>
  BY <1>2 DEF SaveRequest, history
<1>5. /\ request'[r] = [user |-> u, status |-> "pending"]
      /\ \A q \in Requests \ {r} : request'[q] = request[q]
  BY <1>4 DEF SpeakerInv, TypeOK
<1>6. HistoryGrows /\ DocsStay
  BY <1>4, <1>5 DEF HistoryGrows, DocsStay
<1>7. TypeOK'
  BY <1>3, <1>4 DEF SpeakerInv, TypeOK
<1>8. PICK w : w = call'[c]
  OBVIOUS
<1>9. Asks(w)'
  BY <1>1, <1>2, <1>3, <1>8 DEF Asks
<1>10. WorkFits' /\ OneCallEach'
  BY <1>1, <1>3, <1>6, <1>8, <1>9, GoBasics DEF SpeakerInv, Fits
<1>11. \A k \in {"decide", "block"} : ~OnKind(c, k) /\ ~OnKind(c, k)'
  BY <1>2, <1>3 DEF OnKind
<1>12. BlocksInHand'
  BY <1>3, <1>4, <1>6, <1>11, OtherKinds, BlocksFrame DEF SpeakerInv
<1>13. DecisionsInHand'
  <2>1. OnTopic(<<"decide", r>>) = {}
    <3> SUFFICES ASSUME NEW d \in OnTopic(<<"decide", r>>) PROVE FALSE
      OBVIOUS
    <3>1. d \in Calls /\ ~At(d, "idle") /\ call[d].topic = <<"decide", r>>
      BY DEF OnTopic
    <3>2. Decides(call[d])
      BY <3>1 DEF SpeakerInv, WorkFits, Asks, Moderates, Opens
    <3> QED
      BY <1>4, <3>1, <3>2 DEF Decides
  <2>2. \A q \in Requests :
           \/ request'[q].status = request[q].status /\ told'[q] = told[q]
           \/ request'[q].status = "pending" /\ OnTopic(<<"decide", q>>) = {}
    BY <1>4, <1>5, <2>1
  <2> QED
    BY <1>3, <1>6, <1>11, <2>2, OtherKinds, DecisionsFrame DEF SpeakerInv
<1>14. AsksInHand'
  <2> SUFFICES ASSUME NEW x \in Users, <<"ask", x>> \notin contested'
               PROVE  /\ OneOpenRequest(x)'
                      /\ \A d \in OnTopic(<<"ask", x>>)' : AskerKnows(d, x)'
    BY DEF AsksInHand
  <2>1. <<"ask", x>> \notin contested
    BY <1>6 DEF HistoryGrows
  <2>2. Blocked(x)' <=> Blocked(x)
    BY <1>4, SameBlocked
  <2>3. CASE x = u
    <3>1. c \in OnTopic(<<"ask", x>>) /\ At(c, "save")
      BY <1>1, <1>2, <2>3 DEF OnTopic, SaveRequest
    <3>2. ~Has(x, "pending")
      BY <2>1, <3>1 DEF SpeakerInv, AsksInHand, AskerKnows
    <3>3. \A q \in Requests :
             request'[q] = [user |-> x, status |-> "pending"] => q = r
      BY <1>5, <3>2 DEF Has
    <3>4. OneOpenRequest(x)'
      BY <3>3 DEF OneOpenRequest
    <3>5. <<"ask", x>> \in Topics /\ <<"ask", x>>[1] # "session"
      BY DEF Topics
    <3>6. \A d \in OnTopic(<<"ask", x>>)' : d = c
      <4>1. \A d \in OnTopic(<<"ask", x>>)' : d = c \/ d \in OnTopic(<<"ask", x>>)
        BY <1>3 DEF OnTopic, OnlyMoves, At
      <4>2. \A d \in OnTopic(<<"ask", x>>) : d = c
        BY <2>1, <3>1, <3>5 DEF SpeakerInv, OneCallEach
      <4> QED
        BY <4>1, <4>2
    <3>7. AskerKnows(c, x)'
      BY <1>3 DEF AskerKnows, At
    <3> QED
      BY <3>4, <3>6, <3>7
  <2>4. CASE x # u
    <3>1. Has(x, "pending")' => Has(x, "pending")
      BY <1>5, <2>4 DEF Has
    <3>2. OneOpenRequest(x)'
      BY <1>5, <2>1, <2>4 DEF SpeakerInv, AsksInHand, OneOpenRequest
    <3>3. ASSUME NEW d \in OnTopic(<<"ask", x>>)'
          PROVE  call'[d] = call[d] /\ d \in OnTopic(<<"ask", x>>)
      <4>1. d # c
        BY <1>2, <1>3, <2>4, <3>3 DEF OnTopic
      <4> QED
        BY <1>3, <3>3, <4>1 DEF OnTopic, OnlyMoves, At
    <3>4. \A d \in OnTopic(<<"ask", x>>)' : AskerKnows(d, x)'
      BY <2>1, <2>2, <3>1, <3>3 DEF SpeakerInv, AsksInHand, AskerKnows, At
    <3> QED
      BY <3>2, <3>4
  <2> QED
    BY <2>3, <2>4
<1> QED
  BY <1>7, <1>10, <1>12, <1>13, <1>14 DEF SpeakerInv

(* A verdict is saved; the call that saved it tells of it next.             *)
LEMMA SaveDecisionStep ==
    ASSUME SpeakerInv, AskedByUsers, NEW c \in Calls, SaveDecision(c)
    PROVE  SpeakerInv'
<1>1. ~At(c, "idle") /\ Decides(call[c]) /\ Goto(c, "tell")
  BY KindOfCall DEF SpeakerInv, SaveDecision, At
<1>2. PICK r \in Requests : /\ call[c].topic = <<"decide", r>> /\ About(c) = r
                            /\ request[r].status # "none"
  BY <1>1 DEF Decides, About
<1> DEFINE v == call[c].word
<1>3. /\ call' \in [Calls -> Work \cup {Idle}]
      /\ OnlyMoves(c) /\ call'[c].at = "tell"
      /\ call'[c].topic = call[c].topic /\ call'[c].word = v
  BY <1>1, Goes DEF SpeakerInv, Steps
<1>4. /\ v \in {"approved", "declined"}
      /\ request' = [request EXCEPT ![r].status = v]
      /\ approved' \subseteq approved \cup {request[r].user}
      /\ v = "approved" \/ approved' = approved
      /\ UNCHANGED <<live, block, participants, tokens, told, contested, cut>>
  BY <1>2 DEF SaveDecision
<1>5. /\ request'[r] = [request[r] EXCEPT !.status = v] /\ request'[r].status = v
      /\ \A q \in Requests \ {r} : request'[q] = request[q]
  BY <1>4 DEF SpeakerInv, TypeOK
<1>6. HistoryGrows /\ DocsStay
  BY <1>4, <1>5 DEF HistoryGrows, DocsStay
<1>7. request[r].user \in Users
  BY <1>2 DEF AskedByUsers
<1>8. request' \in [Requests -> [user : Users \cup {Nobody},
                     status : {"none", "pending", "approved", "declined"}]]
  BY <1>4 DEF SpeakerInv, TypeOK
<1>9. TypeOK'
  BY <1>3, <1>4, <1>7, <1>8 DEF SpeakerInv, TypeOK
<1>10. PICK w : w = call'[c]
  OBVIOUS
<1>11. Decides(w)'
  BY <1>2, <1>3, <1>4, <1>5, <1>10 DEF Decides
<1>12. WorkFits' /\ OneCallEach'
  BY <1>1, <1>3, <1>6, <1>10, <1>11, GoBasics DEF SpeakerInv, Fits
<1>13. \A k \in {"ask", "block"} : ~OnKind(c, k) /\ ~OnKind(c, k)'
  BY <1>2, <1>3 DEF OnKind
<1>14. BlocksInHand'
  BY <1>3, <1>4, <1>6, <1>13, OtherKinds, BlocksFrame DEF SpeakerInv
<1>15. AsksInHand'
  <2>1. \A q \in Requests : request'[q].status = "pending" => request'[q] = request[q]
    BY <1>4, <1>5
  <2> QED
    BY <1>3, <1>4, <1>6, <1>13, <2>1, SameBlocked, OtherKinds, AsksFrame DEF SpeakerInv
<1>16. DecisionsInHand'
  <2> SUFFICES ASSUME NEW q \in Requests, <<"decide", q>> \notin contested'
               PROVE  /\ \A d \in OnTopic(<<"decide", q>>)' : DeciderKnows(d, q)'
                      /\ (<<"decide", q>> \notin cut /\ Decided(q))' =>
                            told'[q] = request'[q].status \/ BeingTold(<<"decide", q>>)'
    BY DEF DecisionsInHand
  <2>1. <<"decide", q>> \notin contested
    BY <1>6 DEF HistoryGrows
  <2>2. CASE q = r
    <3>1. c \in OnTopic(<<"decide", q>>) /\ c \in OnTopic(<<"decide", q>>)'
      BY <1>1, <1>2, <1>3, <2>2 DEF OnTopic, At
    <3>2. BeingTold(<<"decide", q>>)'
      BY <1>3, <3>1 DEF BeingTold, At
    <3>3. <<"decide", q>> \in Topics /\ <<"decide", q>>[1] # "session"
      BY DEF Topics
    <3>4. \A d \in OnTopic(<<"decide", q>>)' : d = c
      <4>1. \A d \in OnTopic(<<"decide", q>>)' : d = c \/ d \in OnTopic(<<"decide", q>>)
        BY <1>3 DEF OnTopic, OnlyMoves, At
      <4>2. \A d \in OnTopic(<<"decide", q>>) : d = c
        BY <2>1, <3>1, <3>3 DEF SpeakerInv, OneCallEach
      <4> QED
        BY <4>1, <4>2
    <3>5. DeciderKnows(c, q)'
      BY <1>3, <1>5, <2>2 DEF DeciderKnows, At
    <3> QED
      BY <3>2, <3>4, <3>5
  <2>3. CASE q # r
    <3>1. ASSUME NEW d \in OnTopic(<<"decide", q>>)'
          PROVE  call'[d] = call[d] /\ d \in OnTopic(<<"decide", q>>)
      <4>1. d # c
        BY <1>2, <1>3, <2>3, <3>1 DEF OnTopic
      <4> QED
        BY <1>3, <3>1, <4>1 DEF OnTopic, OnlyMoves, At
    <3>2. \A d \in OnTopic(<<"decide", q>>)' : DeciderKnows(d, q)'
      BY <1>5, <2>1, <2>3, <3>1 DEF SpeakerInv, DecisionsInHand, DeciderKnows, At
    <3>3. BeingTold(<<"decide", q>>) => BeingTold(<<"decide", q>>)'
      <4>1. c \notin OnTopic(<<"decide", q>>)
        BY <1>2, <2>3 DEF OnTopic
      <4> QED
        BY <1>3, <4>1 DEF BeingTold, OnTopic, OnlyMoves, At
    <3> QED
      BY <1>4, <1>5, <2>1, <2>3, <3>2, <3>3 DEF SpeakerInv, DecisionsInHand, Decided
  <2> QED
    BY <2>2, <2>3
<1> QED
  BY <1>9, <1>12, <1>14, <1>15, <1>16 DEF SpeakerInv

(* What SaveBlock and SaveLift do to calls on other topics and to users     *)
(* other than the one they are about.                                       *)
LEMMA OtherBlocksStay ==
    ASSUME SpeakerInv, HistoryGrows, NEW c \in Calls, NEW u \in Users, NEW x \in Users,
           x # u, OnlyMoves(c), call[c].topic = <<"block", u>>,
           call'[c].topic = call[c].topic,
           UNCHANGED <<told, cut>>,
           \A b \in Blocks : ActiveFor(b, x)' <=> ActiveFor(b, x),
           <<"block", x>> \notin contested'
    PROVE  /\ OneActiveBlock(x)'
           /\ \A d \in OnTopic(<<"block", x>>)' : BlockerKnows(d, x)'
           /\ <<"block", x>> \notin cut' =>
                 (told[x] = "blocked" <=> Blocked(x))' \/ BeingTold(<<"block", x>>)'
<1>1. <<"block", x>> \notin contested
  BY DEF HistoryGrows
<1>2. Blocked(x)' <=> Blocked(x)
  BY DEF Blocked, ActiveFor
<1>3. OneActiveBlock(x)'
  BY <1>1 DEF SpeakerInv, BlocksInHand, OneActiveBlock
<1>4. ASSUME NEW d \in OnTopic(<<"block", x>>)' PROVE BlockerKnows(d, x)'
  <2>1. d # c
    BY <1>4 DEF OnTopic
  <2>2. call'[d] = call[d] /\ d \in OnTopic(<<"block", x>>)
    BY <1>4, <2>1 DEF OnTopic, OnlyMoves, At
  <2>3. BlockerKnows(d, x)
    BY <1>1, <2>2 DEF SpeakerInv, BlocksInHand
  <2>4. d \in Calls /\ ~At(d, "idle") /\ call[d].topic = <<"block", x>>
    BY <2>2 DEF OnTopic
  <2>5. Moderates(call[d])
    BY <2>4 DEF SpeakerInv, WorkFits, Asks, Decides, Opens
  <2>6. call[d].word = "blocked" \/ call[d].doc \in Blocks
    BY <2>5 DEF Moderates
  <2> QED
    BY <1>2, <2>2, <2>3, <2>6 DEF BlockerKnows, At
<1>5. c \notin OnTopic(<<"block", x>>)
  BY DEF OnTopic
<1>6. BeingTold(<<"block", x>>) => BeingTold(<<"block", x>>)'
  BY <1>5 DEF BeingTold, OnTopic, OnlyMoves, At
<1>7. (told[x] = "blocked")' <=> told[x] = "blocked"
  OBVIOUS
<1> QED
  BY <1>1, <1>2, <1>3, <1>4, <1>6, <1>7 DEF SpeakerInv, BlocksInHand

(* The block that is saved is its user's only active one, and a call that   *)
(* asks for that user meanwhile makes the topic contested.                  *)
LEMMA SaveBlockStep ==
    ASSUME SpeakerInv, NEW c \in Calls, NEW b \in Blocks, SaveBlock(c, b)
    PROVE  SpeakerInv'
<1>1. ~At(c, "idle") /\ Moderates(call[c]) /\ Goto(c, "tell") /\ At(c, "save")
      /\ call[c].word = "blocked"
  BY KindOfCall DEF SpeakerInv, SaveBlock, At
<1>2. PICK u \in Users : call[c].topic = <<"block", u>> /\ About(c) = u
  BY <1>1 DEF Moderates, About
<1>3. /\ call' \in [Calls -> Work \cup {Idle}]
      /\ OnlyMoves(c) /\ call'[c].at = "tell"
      /\ call'[c].topic = call[c].topic /\ call'[c].word = call[c].word
  BY <1>1, Goes DEF SpeakerInv, Steps
<1>4. /\ block[b].status = "none"
      /\ block' = [block EXCEPT ![b] = [user |-> u, status |-> "active"]]
      /\ contested' = IF OnTopic(<<"ask", u>>) = {} THEN contested
                      ELSE contested \cup {<<"ask", u>>}
      /\ UNCHANGED <<live, request, participants, tokens, told, approved, cut>>
  BY <1>2 DEF SaveBlock
<1>5. /\ block'[b] = [user |-> u, status |-> "active"]
      /\ \A a \in Blocks \ {b} : block'[a] = block[a]
  BY <1>4 DEF SpeakerInv, TypeOK
<1>6. HistoryGrows /\ DocsStay
  BY <1>4, <1>5 DEF HistoryGrows, DocsStay
<1>7. TypeOK'
  <2>1. <<"ask", u>> \in Topics
    BY DEF Topics
  <2> QED
    BY <1>3, <1>4, <2>1 DEF SpeakerInv, TypeOK
<1>8. PICK w : w = call'[c]
  OBVIOUS
<1>9. Moderates(w)'
  BY <1>1, <1>2, <1>3, <1>8 DEF Moderates
<1>10. WorkFits' /\ OneCallEach'
  BY <1>1, <1>3, <1>6, <1>8, <1>9, GoBasics DEF SpeakerInv, Fits
<1>11. \A k \in {"decide", "ask"} : ~OnKind(c, k) /\ ~OnKind(c, k)'
  BY <1>2, <1>3 DEF OnKind
<1>12. DecisionsInHand'
  BY <1>3, <1>4, <1>6, <1>11, OtherKinds, DecisionsFrame DEF SpeakerInv
<1>13. AsksInHand'
  <2> SUFFICES ASSUME NEW x \in Users, <<"ask", x>> \notin contested'
               PROVE  /\ OneOpenRequest(x)'
                      /\ \A d \in OnTopic(<<"ask", x>>)' : AskerKnows(d, x)'
    BY DEF AsksInHand
  <2>1. <<"ask", x>> \notin contested
    BY <1>6 DEF HistoryGrows
  <2>2. OneOpenRequest(x)' /\ (Has(x, "pending")' <=> Has(x, "pending"))
    BY <1>4, <2>1 DEF SpeakerInv, AsksInHand, OneOpenRequest, Has
  <2>3. /\ OnTopic(<<"ask", x>>)' = OnTopic(<<"ask", x>>)
        /\ \A d \in OnTopic(<<"ask", x>>) : call'[d] = call[d]
    BY <1>3, <1>11, OtherKinds, TopicFrame
  <2>4. CASE x = u
    <3>1. OnTopic(<<"ask", x>>) = {}
      BY <1>4, <2>4
    <3> QED
      BY <2>2, <2>3, <3>1
  <2>5. CASE x # u
    <3>1. Blocked(x)' => Blocked(x)
      BY <1>5, <2>5 DEF Blocked
    <3>2. \A d \in OnTopic(<<"ask", x>>) : AskerKnows(d, x)
      BY <2>1 DEF SpeakerInv, AsksInHand
    <3> QED
      BY <2>2, <2>3, <3>1, <3>2 DEF AskerKnows, At
  <2> QED
    BY <2>4, <2>5
<1>14. BlocksInHand'
  <2> SUFFICES ASSUME NEW x \in Users, <<"block", x>> \notin contested'
               PROVE  /\ OneActiveBlock(x)'
                      /\ \A d \in OnTopic(<<"block", x>>)' : BlockerKnows(d, x)'
                      /\ <<"block", x>> \notin cut' =>
                            \/ (told[x] = "blocked" <=> Blocked(x))'
                            \/ BeingTold(<<"block", x>>)'
    BY DEF BlocksInHand
  <2>1. <<"block", x>> \notin contested
    BY <1>6 DEF HistoryGrows
  <2>2. CASE x = u
    <3>1. c \in OnTopic(<<"block", x>>) /\ c \in OnTopic(<<"block", x>>)'
      BY <1>1, <1>2, <1>3, <2>2 DEF OnTopic, At
    <3>2. BeingTold(<<"block", x>>)'
      BY <1>3, <3>1 DEF BeingTold, At
    <3>3. <<"block", x>> \in Topics /\ <<"block", x>>[1] # "session"
      BY DEF Topics
    <3>4. \A d \in OnTopic(<<"block", x>>)' : d = c
      <4>1. \A d \in OnTopic(<<"block", x>>)' : d = c \/ d \in OnTopic(<<"block", x>>)
        BY <1>3 DEF OnTopic, OnlyMoves, At
      <4>2. \A d \in OnTopic(<<"block", x>>) : d = c
        BY <2>1, <3>1, <3>3 DEF SpeakerInv, OneCallEach
      <4> QED
        BY <4>1, <4>2
    <3>5. ~Blocked(x)
      BY <1>1, <2>1, <3>1 DEF SpeakerInv, BlocksInHand, BlockerKnows
    <3>6. Blocked(x)'
      BY <1>5, <2>2 DEF Blocked
    <3>7. OneActiveBlock(x)'
      BY <1>5, <2>2, <3>5 DEF OneActiveBlock, ActiveFor, Blocked
    <3>8. BlockerKnows(c, x)'
      BY <1>1, <1>3, <3>6 DEF BlockerKnows, At
    <3> QED
      BY <3>2, <3>4, <3>7, <3>8
  <2>3. CASE x # u
    <3>1. \A a \in Blocks : ActiveFor(a, x)' <=> ActiveFor(a, x)
      BY <1>4, <1>5, <2>3 DEF ActiveFor
    <3> QED
      BY <1>2, <1>3, <1>4, <1>6, <2>3, <3>1, OtherBlocksStay
  <2> QED
    BY <2>2, <2>3
<1> QED
  BY <1>7, <1>10, <1>12, <1>13, <1>14 DEF SpeakerInv

(* The block that is lifted was its user's only active one.                 *)
LEMMA SaveLiftStep ==
    ASSUME SpeakerInv, NEW c \in Calls, SaveLift(c)
    PROVE  SpeakerInv'
<1>1. ~At(c, "idle") /\ Moderates(call[c]) /\ Goto(c, "tell") /\ At(c, "save")
      /\ call[c].word = "unblocked"
  BY KindOfCall DEF SpeakerInv, SaveLift, At
<1>2. PICK u \in Users : /\ call[c].topic = <<"block", u>> /\ call[c].doc \in Blocks
                         /\ block[call[c].doc].user = u
                         /\ block[call[c].doc].status # "none"
  BY <1>1 DEF Moderates
<1>3. /\ call' \in [Calls -> Work \cup {Idle}]
      /\ OnlyMoves(c) /\ call'[c].at = "tell"
      /\ call'[c].topic = call[c].topic /\ call'[c].word = call[c].word
      /\ call'[c].doc = call[c].doc
  BY <1>1, Goes DEF SpeakerInv, Steps
<1> DEFINE b == call[c].doc
<1>4. /\ block' = [block EXCEPT ![b].status = "lifted"]
      /\ UNCHANGED <<live, request, participants, tokens, told, contested, approved, cut>>
  BY DEF SaveLift, history
<1>5. /\ block'[b].status = "lifted" /\ block'[b].user = block[b].user
      /\ \A a \in Blocks \ {b} : block'[a] = block[a]
  BY <1>2, <1>4 DEF SpeakerInv, TypeOK
<1>6. HistoryGrows /\ DocsStay
  BY <1>4, <1>5 DEF HistoryGrows, DocsStay
<1>7. TypeOK'
  <2>1. block' \in [Blocks -> [user : Users \cup {Nobody},
                               status : {"none", "active", "lifted"}]]
    BY <1>2, <1>4 DEF SpeakerInv, TypeOK
  <2> QED
    BY <1>3, <1>4, <2>1 DEF SpeakerInv, TypeOK
<1>8. PICK w : w = call'[c]
  OBVIOUS
<1>9. Moderates(w)'
  BY <1>1, <1>2, <1>3, <1>5, <1>8 DEF Moderates
<1>10. WorkFits' /\ OneCallEach'
  BY <1>1, <1>3, <1>6, <1>8, <1>9, GoBasics DEF SpeakerInv, Fits
<1>11. \A k \in {"decide", "ask"} : ~OnKind(c, k) /\ ~OnKind(c, k)'
  BY <1>2, <1>3 DEF OnKind
<1>12. DecisionsInHand'
  BY <1>3, <1>4, <1>6, <1>11, OtherKinds, DecisionsFrame DEF SpeakerInv
<1>13. \A x : \A a \in Blocks : ActiveFor(a, x)' <=> ActiveFor(a, x) /\ a # b
  BY <1>5 DEF ActiveFor
<1>14. AsksInHand'
  <2>1. \A x \in Users : Blocked(x)' => Blocked(x)
    BY <1>13 DEF Blocked, ActiveFor
  <2> QED
    BY <1>3, <1>4, <1>6, <1>11, <2>1, OtherKinds, AsksFrame DEF SpeakerInv
<1>15. BlocksInHand'
  <2> SUFFICES ASSUME NEW x \in Users, <<"block", x>> \notin contested'
               PROVE  /\ OneActiveBlock(x)'
                      /\ \A d \in OnTopic(<<"block", x>>)' : BlockerKnows(d, x)'
                      /\ <<"block", x>> \notin cut' =>
                            \/ (told[x] = "blocked" <=> Blocked(x))'
                            \/ BeingTold(<<"block", x>>)'
    BY DEF BlocksInHand
  <2>1. <<"block", x>> \notin contested
    BY <1>6 DEF HistoryGrows
  <2>2. CASE x = u
    <3>1. c \in OnTopic(<<"block", x>>) /\ c \in OnTopic(<<"block", x>>)'
      BY <1>1, <1>2, <1>3, <2>2 DEF OnTopic, At
    <3>2. BeingTold(<<"block", x>>)'
      BY <1>3, <3>1 DEF BeingTold, At
    <3>3. <<"block", x>> \in Topics /\ <<"block", x>>[1] # "session"
      BY DEF Topics
    <3>4. \A d \in OnTopic(<<"block", x>>)' : d = c
      <4>1. \A d \in OnTopic(<<"block", x>>)' : d = c \/ d \in OnTopic(<<"block", x>>)
        BY <1>3 DEF OnTopic, OnlyMoves, At
      <4>2. \A d \in OnTopic(<<"block", x>>) : d = c
        BY <2>1, <3>1, <3>3 DEF SpeakerInv, OneCallEach
      <4> QED
        BY <4>1, <4>2
    <3>5. ActiveFor(b, x) /\ OneActiveBlock(x)
      BY <1>1, <2>1, <3>1 DEF SpeakerInv, BlocksInHand, BlockerKnows
    <3>6. \A a \in Blocks : ~ActiveFor(a, x)'
      BY <1>2, <1>13, <3>5 DEF OneActiveBlock
    <3>7. ~Blocked(x)' /\ OneActiveBlock(x)'
      BY <3>6 DEF Blocked, OneActiveBlock, ActiveFor
    <3>8. BlockerKnows(c, x)'
      BY <1>1, <1>3, <3>7 DEF BlockerKnows, At
    <3> QED
      BY <3>2, <3>4, <3>7, <3>8
  <2>3. CASE x # u
    <3>1. \A a \in Blocks : ActiveFor(a, x)' <=> ActiveFor(a, x)
      BY <1>2, <1>13, <2>3 DEF ActiveFor
    <3> QED
      BY <1>2, <1>3, <1>4, <1>6, <2>3, <3>1, OtherBlocksStay
  <2> QED
    BY <2>2, <2>3
<1> QED
  BY <1>7, <1>10, <1>12, <1>14, <1>15 DEF SpeakerInv

-----------------------------------------------------------------------------
(* A decision or a moderation ends: its event is published, or its topic is *)
(* cut, or nothing was saved yet.                                           *)

LEMMA DecisionReturns ==
    ASSUME SpeakerInv, NEW c \in Calls, Decides(call[c]), Return(c),
           UNCHANGED <<live, docVars, approved, contested>>,
           told' = [told EXCEPT ![About(c)] = call[c].word] \/ told' = told,
           cut \subseteq cut', cut' \subseteq Topics,
           /\ At(c, "tell") /\ call[c].topic \notin cut'
           => told' = [told EXCEPT ![About(c)] = call[c].word],
           At(c, "save") => told' = told
    PROVE  SpeakerInv'
<1>1. PICK r \in Requests : /\ call[c].topic = <<"decide", r>> /\ About(c) = r
                            /\ call[c].word \in Words
                            /\ At(c, "save") \/ At(c, "tell")
  BY DEF Decides, About, At, Words
<1>2. ~At(c, "idle")
  BY DEF Decides, At
<1>3. /\ call' \in [Calls -> Work \cup {Idle}]
      /\ OnlyMoves(c) /\ call'[c].at = "idle"
  BY Returns DEF SpeakerInv
<1>4. /\ told' \in [Users \cup Requests -> Words \cup {"none"}]
      /\ \A x \in Users \cup Requests : x # r => told'[x] = told[x]
      /\ At(c, "tell") /\ <<"decide", r>> \notin cut' => told'[r] = call[c].word
  BY <1>1 DEF SpeakerInv, TypeOK
<1>5. HistoryGrows /\ DocsStay
  BY DEF HistoryGrows, DocsStay, docVars
<1>6. TypeOK'
  BY <1>3, <1>4 DEF SpeakerInv, TypeOK, docVars
<1>7. WorkFits' /\ OneCallEach'
  BY <1>2, <1>5, ReturnBasics DEF SpeakerInv
<1>8. \A k \in {"ask", "block"} : ~OnKind(c, k) /\ ~OnKind(c, k)'
  BY <1>1, <1>3 DEF OnKind, At
<1>9. AsksInHand'
  BY <1>3, <1>5, <1>8, SameBlocked, OtherKinds, AsksFrame DEF SpeakerInv, docVars
<1>10. BlocksInHand'
  <2>1. \A u \in Users : told'[u] = told[u]
    BY <1>4, SpeakerAssumption
  <2> QED
    BY <1>3, <1>5, <1>8, <2>1, OtherKinds, BlocksFrame DEF SpeakerInv, docVars
<1>11. DecisionsInHand'
  <2> SUFFICES ASSUME NEW q \in Requests, <<"decide", q>> \notin contested'
               PROVE  /\ \A d \in OnTopic(<<"decide", q>>)' : DeciderKnows(d, q)'
                      /\ (<<"decide", q>> \notin cut /\ Decided(q))' =>
                            told'[q] = request'[q].status \/ BeingTold(<<"decide", q>>)'
    BY DEF DecisionsInHand
  <2>1. <<"decide", q>> \notin contested
    BY <1>5 DEF HistoryGrows
  <2>2. \A d \in OnTopic(<<"decide", q>>)' :
           call'[d] = call[d] /\ d \in OnTopic(<<"decide", q>>)
    BY <1>3 DEF OnTopic, OnlyMoves, At
  <2>3. \A d \in OnTopic(<<"decide", q>>)' : DeciderKnows(d, q)'
    BY <2>1, <2>2 DEF SpeakerInv, DecisionsInHand, DeciderKnows, At, docVars
  <2>4. ASSUME <<"decide", q>> \notin cut', Decided(q)'
        PROVE  told'[q] = request'[q].status \/ BeingTold(<<"decide", q>>)'
    <3>1. CASE q = r
      <4>1. DeciderKnows(c, r)
        BY <1>1, <1>2, <2>1, <3>1 DEF SpeakerInv, DecisionsInHand, OnTopic
      <4>2. At(c, "tell")
        BY <1>1, <2>4, <3>1, <4>1 DEF DeciderKnows, Decided, docVars
      <4> QED
        BY <1>4, <2>4, <3>1, <4>1, <4>2 DEF DeciderKnows, docVars
    <3>2. CASE q # r
      <4>1. told[q] = request[q].status \/ BeingTold(<<"decide", q>>)
        BY <2>1, <2>4 DEF SpeakerInv, DecisionsInHand, HistoryGrows, Decided, docVars
      <4>2. BeingTold(<<"decide", q>>) => BeingTold(<<"decide", q>>)'
        <5>1. c \notin OnTopic(<<"decide", q>>)
          BY <1>1, <3>2 DEF OnTopic
        <5> QED
          BY <1>3, <5>1 DEF BeingTold, OnTopic, OnlyMoves, At
      <4> QED
        BY <1>4, <3>2, <4>1, <4>2 DEF docVars
    <3> QED
      BY <3>1, <3>2
  <2> QED
    BY <2>3, <2>4
<1> QED
  BY <1>6, <1>7, <1>9, <1>10, <1>11 DEF SpeakerInv

LEMMA ModerationReturns ==
    ASSUME SpeakerInv, NEW c \in Calls, Moderates(call[c]), Return(c),
           UNCHANGED <<live, docVars, approved, contested>>,
           told' = [told EXCEPT ![About(c)] = call[c].word] \/ told' = told,
           cut \subseteq cut', cut' \subseteq Topics,
           /\ At(c, "tell") /\ call[c].topic \notin cut'
           => told' = [told EXCEPT ![About(c)] = call[c].word],
           At(c, "save") => told' = told
    PROVE  SpeakerInv'
<1>1. PICK u \in Users : /\ call[c].topic = <<"block", u>> /\ About(c) = u
                         /\ call[c].word \in Words
                         /\ At(c, "save") \/ At(c, "tell")
  BY DEF Moderates, About, At, Words
<1>2. ~At(c, "idle")
  BY DEF Moderates, At
<1>3. /\ call' \in [Calls -> Work \cup {Idle}]
      /\ OnlyMoves(c) /\ call'[c].at = "idle"
  BY Returns DEF SpeakerInv
<1>4. /\ told' \in [Users \cup Requests -> Words \cup {"none"}]
      /\ \A x \in Users \cup Requests : x # u => told'[x] = told[x]
      /\ At(c, "tell") /\ <<"block", u>> \notin cut' => told'[u] = call[c].word
      /\ At(c, "save") => told'[u] = told[u]
  BY <1>1 DEF SpeakerInv, TypeOK
<1>5. HistoryGrows /\ DocsStay
  BY DEF HistoryGrows, DocsStay, docVars
<1>6. TypeOK'
  BY <1>3, <1>4 DEF SpeakerInv, TypeOK, docVars
<1>7. WorkFits' /\ OneCallEach'
  BY <1>2, <1>5, ReturnBasics DEF SpeakerInv
<1>8. \A k \in {"ask", "decide"} : ~OnKind(c, k) /\ ~OnKind(c, k)'
  BY <1>1, <1>3 DEF OnKind, At
<1>9. AsksInHand'
  BY <1>3, <1>5, <1>8, SameBlocked, OtherKinds, AsksFrame DEF SpeakerInv, docVars
<1>10. DecisionsInHand'
  <2>1. \A r \in Requests : told'[r] = told[r]
    BY <1>4, SpeakerAssumption
  <2> QED
    BY <1>3, <1>5, <1>8, <2>1, OtherKinds, DecisionsFrame DEF SpeakerInv, docVars
<1>11. BlocksInHand'
  <2> SUFFICES ASSUME NEW x \in Users, <<"block", x>> \notin contested'
               PROVE  /\ OneActiveBlock(x)'
                      /\ \A d \in OnTopic(<<"block", x>>)' : BlockerKnows(d, x)'
                      /\ <<"block", x>> \notin cut' =>
                            \/ (told[x] = "blocked" <=> Blocked(x))'
                            \/ BeingTold(<<"block", x>>)'
    BY DEF BlocksInHand
  <2>1. <<"block", x>> \notin contested
    BY <1>5 DEF HistoryGrows
  <2>2. Blocked(x)' <=> Blocked(x)
    BY SameBlocked DEF docVars
  <2>3. \A d \in OnTopic(<<"block", x>>)' :
           call'[d] = call[d] /\ d \in OnTopic(<<"block", x>>)
    BY <1>3 DEF OnTopic, OnlyMoves, At
  <2>4. \A d \in OnTopic(<<"block", x>>)' : BlockerKnows(d, x)'
    BY <2>1, <2>2, <2>3
       DEF SpeakerInv, BlocksInHand, BlockerKnows, ActiveFor, At, docVars
  <2>5. OneActiveBlock(x)'
    BY <2>1 DEF SpeakerInv, BlocksInHand, OneActiveBlock, ActiveFor, docVars
  <2>6. ASSUME <<"block", x>> \notin cut'
        PROVE  (told[x] = "blocked" <=> Blocked(x))' \/ BeingTold(<<"block", x>>)'
    <3>1. (told[x] = "blocked" <=> Blocked(x)) \/ BeingTold(<<"block", x>>)
      BY <2>1, <2>6 DEF SpeakerInv, BlocksInHand, HistoryGrows
    <3>2. c \notin OnTopic(<<"block", x>>)
            => (BeingTold(<<"block", x>>) => BeingTold(<<"block", x>>)')
      BY <1>3 DEF BeingTold, OnTopic, OnlyMoves, At
    <3>3. CASE x = u /\ At(c, "tell")
      <4>1. BlockerKnows(c, x)
        BY <1>1, <1>2, <2>1, <3>3 DEF SpeakerInv, BlocksInHand, OnTopic
      <4>2. told'[x] = call[c].word
        BY <1>4, <2>6, <3>3
      <4>3. (told[x] = "blocked")' <=> call[c].word = "blocked"
        BY <4>2
      <4> QED
        BY <2>2, <3>3, <4>1, <4>3 DEF BlockerKnows
    <3>4. CASE x = u /\ At(c, "save")
      <4>1. c \in OnTopic(<<"block", x>>)
        BY <1>1, <1>2, <3>4 DEF OnTopic
      <4>2. <<"block", x>> \in Topics /\ <<"block", x>>[1] # "session"
        BY DEF Topics
      <4>3. \A d \in OnTopic(<<"block", x>>) : d = c
        BY <2>1, <4>1, <4>2 DEF SpeakerInv, OneCallEach
      <4>4. ~BeingTold(<<"block", x>>)
        BY <3>4, <4>3 DEF BeingTold, At
      <4>5. (told[x] = "blocked")' <=> told[x] = "blocked"
        BY <1>4, <3>4
      <4> QED
        BY <2>2, <3>1, <4>4, <4>5
    <3>5. CASE x # u
      <4>1. (told[x] = "blocked")' <=> told[x] = "blocked"
        BY <1>4, <3>5
      <4>2. c \notin OnTopic(<<"block", x>>)
        BY <1>1, <3>5 DEF OnTopic
      <4> QED
        BY <2>2, <3>1, <3>2, <4>1, <4>2
    <3> QED
      BY <1>1, <3>3, <3>4, <3>5
  <2> QED
    BY <2>4, <2>5, <2>6
<1> QED
  BY <1>6, <1>7, <1>9, <1>10, <1>11 DEF SpeakerInv

LEMMA EndStep ==
    ASSUME SpeakerInv, NEW c \in Calls, Tell(c) \/ CutShort(c)
    PROVE  SpeakerInv'
<1>1. ~At(c, "idle") /\ Return(c) /\ UNCHANGED <<live, docVars, approved, contested>>
  BY DEF Tell, CutShort, At, history
<1>2. Fits(call[c]) /\ call[c] \in Work
  BY <1>1, TypesGiveShapes, CallsThatWork DEF SpeakerInv, WorkFits, Fits
<1>3. cut \subseteq cut' /\ cut' \subseteq Topics
  BY <1>2 DEF Tell, CutShort, history, SpeakerInv, TypeOK, Work
<1>4. CASE Asks(call[c]) \/ Opens(call[c])
  <2>1. call[c].topic[1] = "ask" \/ ~At(c, "tell")
    BY <1>4 DEF Asks, Opens, At
  <2>2. UNCHANGED <<told, history>>
    BY <1>1, <2>1 DEF Tell, CutShort, history
  <2>3. /\ UNCHANGED <<live, request, block, participants, told, history>>
        /\ tokens \subseteq tokens' /\ tokens' \subseteq participants
    BY <1>1, <2>2 DEF docVars, SpeakerInv, TypeOK
  <2> QED
    BY <1>1, <1>4, <2>3, ReturnStep
<1>5. CASE Decides(call[c]) \/ Moderates(call[c])
  <2>1. call[c].topic[1] # "ask"
    BY <1>5 DEF Decides, Moderates
  <2>2. /\ told' = [told EXCEPT ![About(c)] = call[c].word] \/ told' = told
        /\ At(c, "tell") /\ call[c].topic \notin cut'
              => told' = [told EXCEPT ![About(c)] = call[c].word]
        /\ At(c, "save") => told' = told
    BY <2>1 DEF Tell, CutShort, At
  <2>3. CASE Decides(call[c])
    BY <1>1, <1>3, <2>2, <2>3, DecisionReturns
  <2>4. CASE Moderates(call[c])
    BY <1>1, <1>3, <2>2, <2>4, ModerationReturns
  <2> QED
    BY <1>5, <2>3, <2>4
<1> QED
  BY <1>2, <1>4, <1>5 DEF Fits

(* FinishRoom ends the room and nothing else.                               *)
LEMMA RestStep ==
    ASSUME SpeakerInv, UNCHANGED <<docVars, told, call, history>>, live' \in BOOLEAN
    PROVE  SpeakerInv'
<1>1. HistoryGrows /\ \A d \in Calls : call'[d] = call[d]
  BY DEF HistoryGrows, history
<1>2. TypeOK'
  BY DEF SpeakerInv, TypeOK, docVars, history
<1>3. WorkFits'
  BY DEF SpeakerInv, WorkFits, Asks, Decides, Moderates, Opens, At, docVars
<1>4. OneCallEach'
  BY DEF SpeakerInv, OneCallEach, OnTopic, At, history
<1>5. AsksInHand'
  BY <1>1, SameBlocked, AsksFrame DEF SpeakerInv, docVars
<1>6. DecisionsInHand'
  BY <1>1, DecisionsFrame DEF SpeakerInv, docVars
<1>7. BlocksInHand'
  BY <1>1, BlocksFrame DEF SpeakerInv, docVars
<1> QED
  BY <1>2, <1>3, <1>4, <1>5, <1>6, <1>7 DEF SpeakerInv

(* A saved request changes by SaveRequest and by SaveDecision only.         *)
LEMMA RequestChanges ==
    ASSUME [Next]_vars
    PROVE  \/ request' = request
           \/ \E c \in Calls : SaveDecision(c)
           \/ \E c \in Calls, r \in Requests : SaveRequest(c, r)
<1>1. ASSUME NEW c \in Calls, Start(c) PROVE request' = request
  BY <1>1 DEF Start, Ask, OpenSession, Block, Decide, Unblock, Begin, docVars
<1>2. ASSUME NEW c \in Calls, Proceed(c), ~SaveDecision(c),
             ~\E r \in Requests : SaveRequest(c, r)
      PROVE  request' = request
  BY <1>2 DEF Proceed, AskIfBlocked, AskIfPending, SaveBlock, SaveLift, ResolveRole,
              SaveParticipant, IssueSpeakerToken, Tell, docVars
<1>3. ASSUME NEW c \in Calls, CutShort(c) PROVE request' = request
  BY <1>3 DEF CutShort, docVars
<1>4. FinishRoom \/ UNCHANGED vars => request' = request
  BY DEF FinishRoom, vars, docVars
<1> QED
  BY <1>1, <1>2, <1>3, <1>4 DEF Next

(* What the two of them do to the requests.                                 *)
LEMMA RequestSaved ==
    ASSUME SpeakerInv, NEW c \in Calls, NEW r \in Requests, SaveRequest(c, r)
    PROVE  /\ About(c) \in Users /\ c \in OnTopic(<<"ask", About(c)>>)
           /\ request[r].status = "none" /\ At(c, "save")
           /\ request'[r].user = About(c) /\ request'[r].status = "pending"
           /\ \A q \in Requests \ {r} : request'[q] = request[q]
<1>1. Asks(call[c]) /\ ~At(c, "idle")
  BY KindOfCall DEF SpeakerInv, SaveRequest, At
<1>2. About(c) \in Users /\ c \in OnTopic(<<"ask", About(c)>>)
  BY <1>1 DEF Asks, About, OnTopic
<1> QED
  BY <1>2 DEF SaveRequest, SpeakerInv, TypeOK

LEMMA DecisionSaved ==
    ASSUME SpeakerInv, NEW c \in Calls, SaveDecision(c)
    PROVE  /\ About(c) \in Requests /\ c \in OnTopic(<<"decide", About(c)>>)
           /\ request[About(c)].status # "none" /\ At(c, "save")
           /\ request'[About(c)].user = request[About(c)].user
           /\ \A q \in Requests \ {About(c)} : request'[q] = request[q]
<1>1. Decides(call[c]) /\ ~At(c, "idle")
  BY KindOfCall DEF SpeakerInv, SaveDecision, At
<1>2. /\ About(c) \in Requests /\ c \in OnTopic(<<"decide", About(c)>>)
      /\ request[About(c)].status # "none"
  BY <1>1 DEF Decides, About, OnTopic
<1> QED
  BY <1>2 DEF SaveDecision, SpeakerInv, TypeOK

(* Whatever the store holds of a request, a user asked for it.              *)
LEMMA AskedStep ==
    ASSUME SpeakerInv, AskedByUsers, [Next]_vars
    PROVE  AskedByUsers'
<1>1. ASSUME NEW c \in Calls, NEW r \in Requests, SaveRequest(c, r)
      PROVE  AskedByUsers'
  BY <1>1, RequestSaved DEF AskedByUsers
<1>2. ASSUME NEW c \in Calls, SaveDecision(c) PROVE AskedByUsers'
  BY <1>2, DecisionSaved DEF AskedByUsers
<1>3. CASE request' = request
  BY <1>3 DEF AskedByUsers
<1> QED
  BY <1>1, <1>2, <1>3, RequestChanges

LEMMA SpeakerStep == SpeakerInv /\ AskedByUsers /\ [Next]_vars
                        => (SpeakerInv /\ AskedByUsers)'
<1> SUFFICES ASSUME SpeakerInv, AskedByUsers, [Next]_vars PROVE SpeakerInv'
  BY AskedStep
<1>1. ASSUME NEW c \in Calls, Proceed(c) PROVE SpeakerInv'
  BY <1>1, AskChecksStep, SaveRequestStep, SaveDecisionStep, SaveBlockStep,
     SaveLiftStep, SessionStep, EndStep DEF Proceed
<1>2. CASE FinishRoom
  BY <1>2, RestStep DEF FinishRoom
<1>3. CASE UNCHANGED vars
  <2>1. live' \in BOOLEAN /\ UNCHANGED <<docVars, told, call, history>>
    BY <1>3 DEF vars, SpeakerInv, TypeOK
  <2> QED
    BY <2>1, RestStep
<1> QED
  BY <1>1, <1>2, <1>3, StartStep, EndStep DEF Next

LEMMA SpeakerInit == Init => SpeakerInv /\ AskedByUsers
<1> SUFFICES ASSUME Init PROVE SpeakerInv /\ AskedByUsers
  OBVIOUS
<1> USE DEF Init
<1>1. TypeOK
  BY DEF TypeOK, Idle
<1>2. \A c \in Calls : At(c, "idle")
  BY DEF At, Idle
<1>3. \A t : OnTopic(t) = {}
  BY <1>2 DEF OnTopic
<1>4. WorkFits /\ OneCallEach
  BY <1>2, <1>3 DEF WorkFits, OneCallEach
<1>5. AsksInHand
  BY <1>3 DEF AsksInHand, OneOpenRequest
<1>6. DecisionsInHand
  BY <1>3 DEF DecisionsInHand, Decided
<1>7. BlocksInHand
  <2>1. \A u \in Users : ~Blocked(u) /\ told[u] # "blocked"
    BY DEF Blocked
  <2>2. \A u \in Users : OneActiveBlock(u)
    BY DEF OneActiveBlock, ActiveFor
  <2> QED
    BY <1>3, <2>1, <2>2 DEF BlocksInHand
<1> QED
  BY <1>1, <1>4, <1>5, <1>6, <1>7 DEF SpeakerInv, AskedByUsers

LEMMA SpeakerInvariant == Spec => [](SpeakerInv /\ AskedByUsers)
BY SpeakerInit, SpeakerStep, PTL DEF Spec

-----------------------------------------------------------------------------
(* RequestToSpeak, for any number of users and of calls at work: a user     *)
(* whose calls did not overlap, with each other or with a block, has at     *)
(* most one pending request.                                                *)
THEOREM RequestsAreSingle == Spec => []OnePendingRequest
<1>1. SpeakerInv => OnePendingRequest
  BY DEF SpeakerInv, AsksInHand, OneOpenRequest, OnePendingRequest
<1> QED
  BY <1>1, SpeakerInvariant, PTL

(* The events of decideSpeakerRequest, BlockSpeaking and UnblockSpeaking:   *)
(* once no call on it is at work, the last event about a request or a user  *)
(* says what the store holds, unless calls overlapped or one was cut.       *)
THEOREM EventsMatchStore == Spec => []ToldAsStored
<1>1. SpeakerInv => ToldAsStored
  BY DEF SpeakerInv, DecisionsInHand, BlocksInHand, BeingTold, ToldAsStored
<1> QED
  BY <1>1, SpeakerInvariant, PTL

(* decideSpeakerRequest, for any number of calls: a request that was        *)
(* approved or declined keeps that status unless two decisions overlapped.  *)
THEOREM DecisionsAreFinal == Spec => DecisionStands
<1>1. ASSUME SpeakerInv, [Next]_vars,
             NEW r \in Requests, Decided(r), <<"decide", r>> \notin contested
      PROVE  request'[r] = request[r]
  <2>1. ASSUME NEW c \in Calls, NEW q \in Requests, SaveRequest(c, q)
        PROVE  request'[r] = request[r]
    BY <1>1, <2>1, RequestSaved DEF Decided
  <2>2. ASSUME NEW c \in Calls, SaveDecision(c) PROVE request'[r] = request[r]
    <3>1. CASE r = About(c)
      <4>1. DeciderKnows(c, r) /\ At(c, "save")
        BY <1>1, <2>2, <3>1, DecisionSaved DEF SpeakerInv, DecisionsInHand
      <4> QED
        BY <1>1, <4>1 DEF DeciderKnows, Decided
    <3>2. CASE r # About(c)
      BY <1>1, <2>2, <3>2, DecisionSaved
    <3> QED
      BY <3>1, <3>2
  <2> QED
    BY <1>1, <2>1, <2>2, RequestChanges
<1>2. SpeakerInv /\ [Next]_vars
        => \A r \in Requests : Decided(r) /\ <<"decide", r>> \notin contested
                                 => request'[r] = request[r]
  BY <1>1
<1> QED
  BY <1>2, SpeakerInvariant, PTL DEF Spec, DecisionStands

(* RequestToSpeak, for any number of calls: nothing is saved for a user who *)
(* is blocked, unless the block landed while that user was asking.          *)
THEOREM BlocksHoldBack == Spec => BlockedUsersWait
<1>1. ASSUME SpeakerInv, [Next]_vars,
             NEW u \in Users, Blocked(u), <<"ask", u>> \notin contested,
             NEW r \in Requests, request'[r].user = u
      PROVE  request[r].user = u
  <2>1. ASSUME NEW c \in Calls, NEW q \in Requests, SaveRequest(c, q)
        PROVE  request[r].user = u
    <3>1. CASE r = q
      <4>1. About(c) = u
        BY <1>1, <2>1, <3>1, RequestSaved
      <4>2. AskerKnows(c, u) /\ At(c, "save")
        BY <1>1, <2>1, <4>1, RequestSaved DEF SpeakerInv, AsksInHand
      <4> QED
        BY <1>1, <4>2 DEF AskerKnows
    <3>2. CASE r # q
      BY <1>1, <2>1, <3>2, RequestSaved
    <3> QED
      BY <3>1, <3>2
  <2>2. ASSUME NEW c \in Calls, SaveDecision(c) PROVE request[r].user = u
    BY <1>1, <2>2, DecisionSaved
  <2> QED
    BY <1>1, <2>1, <2>2, RequestChanges
<1>2. SpeakerInv /\ [Next]_vars
        => \A u \in Users : Blocked(u) /\ <<"ask", u>> \notin contested
              => \A r \in Requests : request'[r].user = u => request[r].user = u
  BY <1>1
<1> QED
  BY <1>2, SpeakerInvariant, PTL DEF Spec, BlockedUsersWait
=============================================================================
