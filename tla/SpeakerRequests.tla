--------------------------- MODULE SpeakerRequests ---------------------------
(***************************************************************************)
(* How a listener of one room becomes a speaker: RequestToSpeak, the       *)
(* decision of a moderator, BlockSpeaking and UnblockSpeaking, and the     *)
(* LiveKit token of JoinRoom and CreateSpeakerSession                      *)
(* (internal/app/voiceapp/service.go).                                     *)
(*                                                                         *)
(* Each operation asks the store one thing after the other, then saves a   *)
(* document, then publishes an event; other operations come in between,    *)
(* and no index of the store rules out what they do together.              *)
(*                                                                         *)
(* Users are those without a role of their own in the room (ResolveRole:   *)
(* listener); roles never change.  Operations of users that may not        *)
(* moderate are refused at once and left out, and so is RevokeSpeaker,     *)
(* which saves nothing: it publishes an event, and the approval stands.    *)
(***************************************************************************)
EXTENDS Integers, FiniteSets

CONSTANTS
    Users,               \* users that are listeners by their role
    Requests, Blocks,    \* ids of speaker requests and of speaking blocks
    Calls,               \* operations at work at a time
    Nobody, NoDoc,
    MaxSpoiled           \* bound: topics that are contested or cut

ASSUME SpeakerAssumption ==
    /\ MaxSpoiled \in Nat
    /\ Nobody \notin Users /\ NoDoc \notin Blocks
    /\ Users \cap Requests = {}

VARIABLES
    live,          \* whether the room is live
    request,       \* request id -> its user and status
    block,         \* block id -> its user and status
    participants,  \* users for whom a participant session was saved
    tokens,        \* users that were issued a LiveKit token
    told,          \* request or user -> the last event about the decision or
                   \*   the block that was published
    call,          \* call -> what it is about and where it is
    approved,      \* history: users a request of whom was saved as approved
    contested,     \* history: topics two calls were at work on at once
    cut            \* history: topics for which no event followed a save

docVars  == <<request, block, participants, tokens>>
history  == <<approved, contested, cut>>
vars     == <<live, docVars, told, call, history>>

Topics == ({"ask", "block", "session"} \X Users) \cup ({"decide"} \X Requests)
Steps == {"blocked?", "pending?", "save", "tell", "approved?", "participant",
          "token"}
Words == {"requested", "approved", "declined", "blocked", "unblocked"}

Idle == [at |-> "idle"]
Work == [at : Steps, topic : Topics, word : Words, doc : Blocks \cup {NoDoc}]
At(c, step) == call[c].at = step
About(c) == call[c].topic[2]

Has(u, s) == \E r \in Requests : request[r] = [user |-> u, status |-> s]
Blocked(u) == \E b \in Blocks : block[b] = [user |-> u, status |-> "active"]
Decided(r) == request[r].status \in {"approved", "declined"}

TypeOK ==
    /\ live \in BOOLEAN
    /\ request \in [Requests -> [user : Users \cup {Nobody},
                     status : {"none", "pending", "approved", "declined"}]]
    /\ block \in [Blocks -> [user : Users \cup {Nobody},
                             status : {"none", "active", "lifted"}]]
    /\ participants \subseteq Users
    /\ tokens \subseteq participants
    /\ told \in [Users \cup Requests -> Words \cup {"none"}]
    /\ call \in [Calls -> Work \cup {Idle}]
    /\ approved \subseteq Users
    /\ contested \subseteq Topics
    /\ cut \subseteq Topics

Init ==
    /\ live = TRUE
    /\ request = [r \in Requests |-> [user |-> Nobody, status |-> "none"]]
    /\ block = [b \in Blocks |-> [user |-> Nobody, status |-> "none"]]
    /\ participants = {} /\ tokens = {}
    /\ told = [x \in Users \cup Requests |-> "none"]
    /\ call = [c \in Calls |-> Idle]
    /\ approved = {} /\ contested = {} /\ cut = {}

-----------------------------------------------------------------------------
OnTopic(t) == {c \in Calls : ~At(c, "idle") /\ call[c].topic = t}

(* Call c starts work on topic t; word names the event it would publish.    *)
Begin(c, t, step, word, doc) ==
    /\ At(c, "idle")
    /\ call' = [call EXCEPT ![c] = [at |-> step, topic |-> t, word |-> word,
                                    doc |-> doc]]
    /\ contested' = IF OnTopic(t) = {} \/ t[1] = "session" THEN contested
                    ELSE contested \cup {t}
    /\ UNCHANGED <<live, docVars, told, approved, cut>>

Goto(c, step) == call' = [call EXCEPT ![c].at = step]
Return(c) == call' = [call EXCEPT ![c] = Idle]

-----------------------------------------------------------------------------
(* RequestToSpeak.                                                          *)

Ask(c, u) == live /\ Begin(c, <<"ask", u>>, "blocked?", "requested", NoDoc)

(* Mutant: a block does not keep its user from asking.                      *)
AskThoughBlocked(c) ==
    /\ At(c, "blocked?")
    /\ Goto(c, "pending?")
    /\ UNCHANGED <<live, docVars, told, history>>

AskIfBlocked(c) ==
    /\ At(c, "blocked?")
    /\ IF Blocked(About(c)) THEN Return(c) ELSE Goto(c, "pending?")
    /\ UNCHANGED <<live, docVars, told, history>>

(* Mutant: a pending request is not looked for.                             *)
AskAnyway(c) ==
    /\ At(c, "pending?")
    /\ Goto(c, "save")
    /\ UNCHANGED <<live, docVars, told, history>>

AskIfPending(c) ==
    /\ At(c, "pending?")
    /\ IF Has(About(c), "pending") THEN Return(c) ELSE Goto(c, "save")
    /\ UNCHANGED <<live, docVars, told, history>>

SaveRequest(c, r) ==
    /\ At(c, "save") /\ call[c].word = "requested"
    /\ request[r].status = "none"
    /\ request' = [request EXCEPT ![r] = [user |-> About(c), status |-> "pending"]]
    /\ Goto(c, "tell")
    /\ UNCHANGED <<live, block, participants, tokens, told, history>>

-----------------------------------------------------------------------------
(* decideSpeakerRequest, which ApproveSpeakerRequest and                    *)
(* DeclineSpeakerRequest call.                                              *)

(* Mutant: the status of the request is not looked at.                      *)
DecideAny(c, r, verdict) ==
    /\ request[r].status # "none"
    /\ Begin(c, <<"decide", r>>, "save", verdict, NoDoc)

Decide(c, r, verdict) ==
    /\ request[r].status = "pending"
    /\ Begin(c, <<"decide", r>>, "save", verdict, NoDoc)

(* The request as it was read is saved with the verdict, whatever happened  *)
(* to it since.                                                             *)
SaveDecision(c) ==
    /\ At(c, "save") /\ call[c].word \in {"approved", "declined"}
    /\ request' = [request EXCEPT ![About(c)].status = call[c].word]
    /\ approved' = IF call[c].word = "approved"
                   THEN approved \cup {request[About(c)].user} ELSE approved
    /\ Goto(c, "tell")
    /\ UNCHANGED <<live, block, participants, tokens, told, contested, cut>>

-----------------------------------------------------------------------------
(* BlockSpeaking and UnblockSpeaking.                                       *)

(* A user that is blocked already stays so, with nothing saved or published.*)
Block(c, u) ==
    /\ ~Blocked(u)
    /\ Begin(c, <<"block", u>>, "save", "blocked", NoDoc)

(* A block that lands while its user asks is not seen by the asking call.   *)
SaveBlock(c, b) ==
    /\ At(c, "save") /\ call[c].word = "blocked"
    /\ block[b].status = "none"
    /\ block' = [block EXCEPT ![b] = [user |-> About(c), status |-> "active"]]
    /\ contested' = IF OnTopic(<<"ask", About(c)>>) = {} THEN contested
                    ELSE contested \cup {<<"ask", About(c)>>}
    /\ Goto(c, "tell")
    /\ UNCHANGED <<live, request, participants, tokens, told, approved, cut>>

(* The store hands out one of the user's active blocks, if there are more.  *)
Unblock(c, u, b) ==
    /\ block[b] = [user |-> u, status |-> "active"]
    /\ Begin(c, <<"block", u>>, "save", "unblocked", b)

SaveLift(c) ==
    /\ At(c, "save") /\ call[c].word = "unblocked"
    /\ block' = [block EXCEPT ![call[c].doc].status = "lifted"]
    /\ Goto(c, "tell")
    /\ UNCHANGED <<live, request, participants, tokens, told, history>>

-----------------------------------------------------------------------------
(* CreateSpeakerSession, and JoinRoom for a user that turns out a speaker.  *)

OpenSession(c, u) ==
    live /\ Begin(c, <<"session", u>>, "approved?", "approved", NoDoc)

(* Mutant of ResolvesToSpeaker: any request of the user will do.            *)
AnyRequest(u) == \E r \in Requests : request[r].user = u
ResolvesToSpeaker(u) == Has(u, "approved")

(* resolveRole; a listener is refused, or goes on as a listener.            *)
ResolveRole(c) ==
    /\ At(c, "approved?")
    /\ IF ResolvesToSpeaker(About(c)) THEN Goto(c, "participant") ELSE Return(c)
    /\ UNCHANGED <<live, docVars, told, history>>

(* SaveParticipantSession and MarkParticipantActive.                        *)
SaveParticipant(c) ==
    /\ At(c, "participant")
    /\ participants' = participants \cup {About(c)}
    /\ Goto(c, "token")
    /\ UNCHANGED <<live, request, block, tokens, told, history>>

IssueSpeakerToken(c) ==
    /\ At(c, "token")
    /\ tokens' = tokens \cup {About(c)}
    /\ Return(c)
    /\ UNCHANGED <<live, request, block, participants, told, history>>

-----------------------------------------------------------------------------
(* Mutant of Tell: whatever was decided, an approval is published.          *)
TellApproval(c) ==
    /\ At(c, "tell")
    /\ told' = IF call[c].topic[1] = "ask" THEN told
               ELSE [told EXCEPT ![About(c)] =
                        IF call[c].topic[1] = "decide" THEN "approved"
                        ELSE call[c].word]
    /\ Return(c)
    /\ UNCHANGED <<live, docVars, history>>

(* publish; the event of a request goes to the moderators.                  *)
Tell(c) ==
    /\ At(c, "tell")
    /\ told' = IF call[c].topic[1] = "ask" THEN told
               ELSE [told EXCEPT ![About(c)] = call[c].word]
    /\ Return(c)
    /\ UNCHANGED <<live, docVars, history>>

(* A call to the store or the bus fails, or the process stops.              *)
CutShort(c) ==
    /\ ~At(c, "idle")
    /\ cut' = IF At(c, "tell") /\ call[c].topic[1] # "ask"
              THEN cut \cup {call[c].topic} ELSE cut
    /\ Return(c)
    /\ UNCHANGED <<live, docVars, told, approved, contested>>

FinishRoom ==
    /\ live
    /\ live' = FALSE
    /\ UNCHANGED <<docVars, told, call, history>>

Start(c) ==
    \/ \E u \in Users : Ask(c, u) \/ OpenSession(c, u) \/ Block(c, u)
    \/ \E r \in Requests : \E v \in {"approved", "declined"} : Decide(c, r, v)
    \/ \E u \in Users, b \in Blocks : Unblock(c, u, b)

Proceed(c) ==
    \/ AskIfBlocked(c) \/ AskIfPending(c)
    \/ \E r \in Requests : SaveRequest(c, r)
    \/ SaveDecision(c)
    \/ \E b \in Blocks : SaveBlock(c, b)
    \/ SaveLift(c)
    \/ ResolveRole(c) \/ SaveParticipant(c) \/ IssueSpeakerToken(c)
    \/ Tell(c)

Next ==
    /\ FinishRoom \/ \E c \in Calls : Start(c) \/ Proceed(c) \/ CutShort(c)
    /\ Cardinality(contested' \cup cut') <= MaxSpoiled

Spec == Init /\ [][Next]_vars

-----------------------------------------------------------------------------
(* docs/architecture.md:24: a listener is issued a LiveKit token only after *)
(* a request of that user was approved, whatever calls overlapped.          *)
TokensFollowApproval == tokens \subseteq approved

(* A user never has two pending requests, unless two RequestToSpeak calls   *)
(* of that user overlapped: the check and the save are two store calls      *)
(* (first of all, every variable has its type).                             *)
OnePendingRequest ==
    /\ TypeOK
    /\ \A u \in Users : <<"ask", u>> \notin contested =>
          \A r, q \in Requests :
              /\ request[r] = [user |-> u, status |-> "pending"]
              /\ request[q] = request[r]
              => q = r

(* A decision stands: a request once approved or declined keeps that status *)
(* unless two decisions on it overlapped, when the later save wins.         *)
DecisionStands ==
    [][\A r \in Requests : Decided(r) /\ <<"decide", r>> \notin contested
          => request'[r] = request[r]]_vars

(* No request is saved for a blocked user, unless the block landed while    *)
(* the user was asking.                                                     *)
BlockedUsersWait ==
    [][\A u \in Users : Blocked(u) /\ <<"ask", u>> \notin contested
          => \A r \in Requests : request'[r].user = u => request[r].user = u]_vars

(* What a user was told last is what the store says: of a request, the      *)
(* decision; of a block, whether it is in force.  The exceptions are calls  *)
(* that overlapped and calls that ended between the save and the event.     *)
ToldAsStored ==
    /\ \A r \in Requests :
          <<"decide", r>> \notin contested \cup cut
            /\ OnTopic(<<"decide", r>>) = {} /\ Decided(r)
               => told[r] = request[r].status
    /\ \A u \in Users :
          <<"block", u>> \notin contested \cup cut /\ OnTopic(<<"block", u>>) = {}
            => (told[u] = "blocked" <=> Blocked(u))
=============================================================================
