# WaveCast in TLA+

Models of WaveCast: live audio rooms in which most users listen to an HLS
stream and a few speak over LiveKit. One family of modules models the Go backend
under `internal/`, another the web client under `client/src`; the two do not
talk to each other in this repository (the client runs on mock data), so no
module composes them. The runs check the models with TLC on small instances, and
the proof modules prove their safety properties, refinements included, for every
value of the constants with TLAPS; liveness is checked by TLC alone. Definitions keep the names of the functions they stand
for; comments name the calls.

## The system

| part | state it keeps | operations | talks to |
|---|---|---|---|
| application service (`internal/app/voiceapp/service.go`) | none of its own: documents in the store | rooms, listener sessions, speaker requests and blocks, recordings, reports | store, Redis presence, event log and bus, job queue, token issuers |
| store (`internal/infra/mongo`, `internal/infra/memory`) | one document per room, session, request, block, recording, report, job | replace a whole document, find one, find some | - |
| presence (`internal/infra/redis/presence_store.go`) | a set of listener sessions and one of participants per room; keys per session that expire | mark active, touch, mark inactive, count | - |
| job queue and runner (`internal/core/async`) | job documents with status, attempts, lock and due time | enqueue, claim, complete, retry, dead-letter | handlers in `internal/worker/asyncjobs`, which call the service |
| scheduler (`internal/worker/scheduler`) | a ticker | enqueue an expiry sweep | job queue |
| event bus, dispatcher (`internal/infra/kafka`, `internal/worker/dispatcher`) | the topic, the group's committed offset, the fetch at work | produce; poll, publish, commit | Kafka, Centrifugo |
| HTTP API (`internal/transport/http`) | user profiles in memory | decode, call the service, map errors | service |
| client: private chats (`listener-panel.tsx`) | conversations, composer, drawer, dialog, object URLs; in the ui store the open friend and the unread badge | open, read, answer, attach, react, search | side panel and top bar (through the ui store) |
| client: side panel (`room-side-panel.tsx`) | room messages, people, friend requests, tab | say, reply, react, befriend, kick | private chats |
| client: stage (`stage-panel.tsx`, `listener-panel.tsx`, `speaker-store.ts`) | who is on stage, announced hand and its timer; in the store requests, flag, microphone | raise a hand, invite, mute | - |
| client: lists of rooms (`live-sidebar.tsx`, `my-room/page.tsx`, `room-reminder-store.ts`) | bookmarks, filters, tab, selection, removed and finished rooms; in the store reminders | remind, bookmark, filter, select, remove, finish | - |
| client: profile page (`profile/page.tsx`) | refs to stream, context and frame; devices, photo | test the microphone, choose a device or a photo | browser |
| client: frame (`live-room-page.tsx`, `top-bar.tsx`) | menus, dialogs, clock, network status | open, invite, leave, end | browser |

No lock, transaction or version number spans two calls to the store. An
operation reads documents, decides, saves whole documents, updates Redis,
publishes an event and perhaps enqueues jobs, and anything else may happen
between two of these calls, in the same process or in another. That, together
with errors between the calls, is what is hard about this code:

* a document is saved that was read before another call changed it;
* a check and the save that relies on it are two calls (pending requests,
  blocks, the status of the room a listener joins);
* a call fails half-way: saved but not marked present, saved but not published,
  published but no job queued;
* a job handler outlives the lock of its job and another worker takes over;
* two dispatchers are at work on one partition; a publish or a commit fails.

In the client every handler runs alone, but a handler, the effects that React
runs after it, timers and awaited answers of the browser come in every order;
stores outlive the components that mirror them, components start anew at every
visit of their page; and one fact is often kept twice (a flag and a list, a
selection and what it selects from, a count and what it counts).

What makes each part correct is stated as the properties of its module, and
`PROJECT.json` lists each hazard with the line where it bites.

## Modules

### AsyncJobs, JobContract, AsyncJobsProofs

`AsyncJobs` is the queue, with both stores (`driver` is chosen once, in `Init`).
A worker goroutine claims a job in one atomic store call (`ClaimNext`, guard
`ReadyToClaim`), its handler succeeds or fails, and a second store call settles
the job: `Complete`, `Retry` after `RetryDelay`, or `DeadLetter` if the worker's
copy of the attempts is `Exhausted`. `SettleFails` is a settling write that
returns an error, which the runner logs; `Crash` is a worker that stops. `Tick`
lets time pass: due times and locks are kept relative to the present, so time
needs no bound. The settling writes name the job by its id alone, as in the
code, so a worker that outlived its lock can overwrite what another did; the
properties say precisely that this is the only exception.

`JobContract` is what the queue promises without locks, workers or delays: a job
is tried until it has run or was tried `MaxAttempts` times, is done only if its
handler ran, and a verdict is final except for a job with a late handler.
`MCAsyncJobs` maps job documents to verdicts, and `KeepsContract` is the
contract's specification under that mapping; the run checks it and
`QueueKeepsContract` proves it.

### ListenerSessions, ListenerProofs

The sessions of one room. A call reads (`Join`, `Heartbeat`, `Leave`,
`RemoveParticipant`, `Expire`, `Close`), then takes its sessions one at a time:
`Save` replaces the document, `Mark` updates the Redis set. `TimeOut` is the
moment a session's last heartbeat becomes older than the timeout; `overdue`
keeps these sessions oldest first, because the sweep is sorted by heartbeat and
limited. `CutShort` is an error or a stop between save and mark. Histories say
which sessions were worked on by a keeping and an ending call at once (`mixed`),
which were never marked (`unmarked`), and which were joined into a finished room
(`stragglers`).

### RoomLifecycle, LifecycleProofs

The room document and its recordings. Each request takes its own copy of the
document and a `Plan`, the calls that operation makes in order; `SaveRoom`
replaces the document by the changed copy, whatever was saved meanwhile.
`QueueJob` is `enqueueBestEffort`, which swallows errors. `CutShort` ends a
request at any call.

### SpeakerRequests, SpeakerProofs

From listener to speaker. `RequestToSpeak` is `Ask`, `AskIfBlocked`,
`AskIfPending`, `SaveRequest`, `Tell`; a decision is `Decide`, `SaveDecision`,
`Tell`; blocking and unblocking likewise; `OpenSession`, `ResolveRole`,
`SaveParticipant`, `IssueSpeakerToken` are CreateSpeakerSession and the
speaker's half of JoinRoom. `told` is the last event published about a decision
or a block. A topic is `contested` when two calls were at work on it at once and
`cut` when its event never followed its save.

### RoomShutdown, ShutdownProofs

What `FinishRoom` sets off, over MongoDB: here the job queue, the sessions and
the room meet. A call (an API request or a job's handler) goes from one store or
bus call to the next; `at` is the call it makes next and `serves` the job it
handles. `FinishRoom` is `SaveFinished`, `PublishFinished`, `QueueClose`,
`QueueReport`; a worker's `Claim` starts `ListActive` and `EndSession` (the close
job, `CloseRoomSessions`) or `ReportStats`, `SaveReport`, `PublishReport` (the
report job, `GenerateReport`, which a moderator may call too: `AskForReport`).
The runner's `Complete` and `RetryOrDeadLetter` settle the job by its id, so an
overtaken handler may settle it as well. `SaveReport` carries a fresh `_id`,
which MongoDB refuses for the replacement of an existing document: the first
report stays. Listeners join and send heartbeats meanwhile, and the stale save
of a recording request (`SaveRoomAsRead`) may bring the room back to life. Every
store or bus call may fail with or without effect, and a process may stop, each
at the cost of one of `MaxFaults`.

The queue is that of AsyncJobs with its time left out: a job is due at once, and
a lock that ends before its handler is a fault. Leave, removal and sweep are left
out, for they only end more sessions; Redis and the events of the sessions are in
ListenerSessions and EventDelivery. So is the memory driver: its stores live in
the process that made them (`cmd/api/main.go:134`, `cmd/worker/main.go:102`), and
the worker never sees a job of the API.

### UserProfiles, ProfileProofs

One user's profile in the API's memory. `ReadAndChange` is a handler's read and
the change of its copy, `Save` stores the copy; each is one critical section.
`raced` names the fields that were saved while another handler held its copy,
and `UpdatesKept` says that only those can be lost. `displayName` and
`username` are one field, since one handler treats them alike.

### RealtimeChannels, EventProofs

Who hears what. `RealtimeDescriptor` is what a client is handed at JoinRoom,
`AuthorizeChannel` decides on a token, `Resolve` chooses an event's channel, and
`Receivers` is Centrifugo's fan-out (external). Every operation that publishes an
event is one step with the guards that decide whether it does; its races are in
the modules above. `sent` holds the events the dispatcher has not taken, so that
tokens, roles and rooms change between publish and dispatch.
`HeardByThoseConcerned` says that the three agree: who takes the channels he was
handed misses nothing that concerns him, and nobody hears what does not.
Channel names are records (`"deeper"` is a name with more parts than the API
gives meaning to); tokens do not expire, which could only take hearing away from
those who do not ask again.

### EventDelivery, EventProofs

One partition of the topic, the one that holds a room's events. `AppendEvent`
and `ProduceSync` are the two halves of `Service.publish`. Dispatchers `Poll` a
fetch and handle it record by record: `PublishSucceeds` or `PublishFails`, then
`Commit`. `AutoCommit` is the client library's own commit of the records of
earlier fetches, on by default and not turned off by `NewKafkaDispatcher`. It is
modelled from how franz-go is configured and marked external. A partition moves
(`Assign`) or its owner stops (`Stop`). `NewKafkaDispatcher` does not block
rebalances while records are handled, so a dispatcher that lost the partition
goes on with its fetch, and its commits count: Kafka checks that they come from a
member of the group in its present generation, not that the member owns the
partition. They move the group's offset, forth or back, under the new owner,
whose client does not learn of it (`known`) and may set it back with its next
automatic commit; the partition may also come back to a dispatcher that is still
at its old fetch. That an event once published or refused stays so is what saves
`NoSilentLoss`: whoever commits, only records he is done with are passed.

### WaveCastPage, ClientPages, ClientProofs

`WaveCastPage` is the page on screen and the router's `ChangePage`. Every client
module has its own `Step`, its `GoTo` (what mounting and unmounting do to it) and
its `Spec`, and can be read alone. `ClientPages` puts them together: a `Turn` is
a component's step while nothing modal of another component is open (a drawer,
dialog or menu of Radix or vaul takes the focus and the pointer), or a timer,
frame, event or browser answer, which nothing holds back; `Navigate` is a change
of page, which may come at any time (the browser's back button) and touches all.
`PartsImplemented` says that each component's specification holds in the whole:
the refinement that lets the components be checked, and proved about, one at a
time. `ClientProofs` holds the proofs of the whole and of every part.

One step of a client module is one handler with the state updates it batches and
the effects React then runs. React 18 and later flush the effects of a discrete
event (a click, a key) before the next event, so no other handler sees the state
between. Where that is not so (timers, `await`s, the cleanup of an effect), the
model has separate steps. A state updater that React may run late is a choice
(`TopicRoomBookmark`).

### PrivateChats, MessageReactions

The listener panel's chats. `OpenChat` is the store's friend being set from
elsewhere together with the panel's effect; `ChooseThread`, `CloseDrawer`,
`ToggleThreads`, `Search` are the drawer; `Draft`, `Reply`, `Send`, `Attach` the
composer; `TypingTimeout` the 900 ms timer; `ChatsGoTo` seeds the chats again
and revokes the object URLs. `MarkAsRead` is markConversationThreadAsRead with
its early return for a thread that still has an unread message, which makes the
badge count unanswered seeds and not unread ones (`BadgeCountsUnanswered`).
`MessageReactions` holds `Toggle` and `React`, used by both chats. A draft is
empty, blank or text; a message is known by its place in its chat.

### RoomPanel

The room's side panel: `SendRoomChat`, replies and reactions, the people list
with `RequestFriend` and `KickPerson`, and the chat button, which hands a friend
to the private chats (`OffersChat`).

### RoomStage

`speakerRequests`, `requestPending` and `micEnabled` are the store;
`RequestsBecome` is the effect that announces a new hand, with the cleanup that
clears the timer of the previous one; `ApproveRequest` and `InviteListener` are
addSpeakerToStage from the menu's two lists, with and without a request id.
`Cards` are the four layouts. The announcement that loses its timer to a change
of the requests stays until another hand or a change of page:
`AnnouncedUntilTimeout` says that nothing else can do that to it.

### RoomBoard

The sidebar and the agenda of my-room over the reminder store. `Agenda` joins
seeds, reminders and status changes as agendaRooms does; `TopicMatches` is
topicMatchesRoom with titles reduced to tags; `RemoveRoom` and `FinishRoom`
repair the selection as their handlers do. `Filtered` is JavaScript's `filter`,
written as a recursive function whose equation a proof can use (`SelectSeq` has
none the prover knows).

### MicrophoneTest

A test awaits `getUserMedia`, `resume` and `enumerateDevices`
(`StreamComes`, `ContextResumes`, `LoopStarts`, or `Refused`); between them the
user may press again, stop or leave. A stream is held until its tracks are
stopped, and `Stray` are those that no ref names any more. `plugged` is the
hardware, external to the page, and so is what the browser lists of it
(`Listings`): the devices with their ids while a stream is held or a permission
lasts, else one device without an id (`Unnamed`), which the select shows while no
microphone is chosen. `loops` are the frame loops of this visit, of which a stop
ends only the one that asked for the last frame; one that outlives its page works
on the refs of that page and touches nothing here. The photo's object URL is in
`PhotoLive`.

### PageFrame

Top bar and header: `NetworkEvent` is updateNetwork, run by the browser's events
some time after `NetworkChanges`; `SecondPasses` is the clock; menus and dialogs
exclude one another. `LeaveRoom` and `EndRoom` show a notice and close the
dialog: that is all the code does.

## Runs

| run | instance | question |
|---|---|---|
| `async_jobs` | 2 workers, 2 jobs, 2 keys, 2 attempts, 2 faults | leases, attempts, keys, verdicts and progress under crashes, failed writes and overruns |
| `listener_sessions` | 2 users with a session each, 3 calls, sweeps of 1, 1 cut call, symmetry | do documents and Redis agree, do ended sessions stay ended, does a finished room drain |
| `listener_liveness` | the same with 2 calls, none cut, no symmetry | do silent listeners end |
| `speaker_requests` | 1 user, 2 requests, 2 blocks, 3 calls, 1 spoiled topic, symmetry | do tokens follow approvals, are requests single and decisions final, does a block hold, is what users are told what is stored |
| `room_lifecycle` | 2 requests at work, 2 recordings | lifecycle order, the active recording, the jobs of a finished room |
| `room_shutdown` | 2 sessions, 2 calls, 2 attempts, 2 faults, symmetry | what do a completed or given up close and report job guarantee |
| `shutdown_liveness` | 1 session, 2 calls, 2 attempts, 1 fault | are sessions closed and is a report stored in the end |
| `event_delivery` | 3 events, 2 dispatchers, 2 faults (stop, move, failed publish call) | is anything lost silently or out of order, does what was acknowledged arrive |
| `event_delivery_doc` | the same without faults | the documented commit rule, which the code breaks |
| `api_parts` | one of: 2 handlers, 1 value besides default and blank; 2 rooms each moderated by a guest of the other, 3 tokens, 1 document, 1 event under way; symmetry | which updates of a profile can be lost; does an event reach those it concerns and nobody else |
| `client_parts` | 3 participants, 4 people, 2 hands, 5 rooms, 2 tests, 2 microphones, 3 s of clock, all pages; one part used per behaviour | are the chats, the panel, the stage, the lists, the profile page and the frame coherent in every order of their steps |
| `client_pages` | the smallest of everything, every part used, 5 turns | does every component keep its specification among the others |

Why the bounds are enough, backend: every race here is between two calls (two handlers of
one job, a keeper and an ender of one session, a save and a stale save), and a
third actor or document only repeats them; two of each kind let every pair meet,
in every order, and the run of sessions has a third call to meet a pair. One
limit per sweep and two sessions make the limit bite. Two attempts make the
first failure a retry and the second a dead letter. Faults are bounded by
`MaxFaults` and, in SpeakerRequests, spoiled topics by `MaxSpoiled`: the
properties excuse each fault or topic on its own, so one at a time shows what
they excuse, and the proofs hold for any number. Two faults let a partition move
away and back. Ids are used once (`ids.New`), so their number bounds how many
documents there are; the system stops when they are used up, and those runs turn
the deadlock check off. `speaker_requests` has one user: every document its calls
read or write is that user's own, so users never meet (and `TokensFollowApproval`
is proved for any number). Three tokens are those of a moderator's whole
descriptor, or of two users for one channel each; one document is enough to make
a user a listener with a session, a speaker, or blocked, and what is handed,
granted or heard looks at no two of them. The two rooms let a moderator be a
guest elsewhere. `UnusedAlone` leaves out mixes of tokens for channels nobody
publishes to.

Client: `part` in MCClientParts chooses the component that is used; the others
are mounted and unmounted with their pages. That this loses nothing is
`PartsImplemented`, proved in ClientProofs. The participants are one with an
unread seed, one with a read one and one without messages; `MaxMine` and
`MaxSaid` let two messages be sent per visit, so that a reply can follow a change
of chat; `MaxReacted` and `MaxMarked` let one message carry the user's reactions,
which no other message's touch. The private chats are used twice, once without
reactions and once with them but `Plain` (no replies, attachments or search):
a reaction changes nothing but the reactions of its message. One test of the
microphone is like another, hence `TestSymmetry`. Friends outside the room and the search terms are
instance data (`Matching`, `Found`). The rooms are one of each kind the agenda
tells apart. Two tests overlap in every order; a third only repeats the pair.
`MaxTurns` in MCClientPages bounds the behaviours, hence its deadlock check is
off; five turns let a change of page come between any two steps of any two
components and their consequences.

Types: each module's `TypeOK` (or `ChatTypeOK`, ...) is a conjunct of one of its
properties that the runs check, or is proved.

What the properties say is in the comment above each. In short: most promises
of the code hold unless two particular kinds of calls overlap or one is cut
short, and the properties name these exceptions as narrowly as TLC allows. A
room that finished can come back to life only by the save of a stale copy
(`LifecycleOrder`); an ended session only by a heartbeat or join that overlapped
(`EndedStaysEnded`); a room can have two pending requests of a user only if two
calls overlapped (`OnePendingRequest`).

## The finding

`docs/events.md:40` says that the dispatcher "commits Kafka offsets only after
publish succeeds". `event_delivery_doc` shows otherwise without any fault but a
refused publish: `handleRecord` returns without a commit, the loop goes on with
the next record, and its commit (or the client's autocommit) moves the group's
offset past the refused one, which is then never published again. What does hold
is `NoSilentLoss`: an offset is passed only once a publish has returned.

## Fairness

* AsyncJobs: a worker's ticker keeps firing, so a claimable job is claimed;
  handlers return (they run under the process's context); time passes. Nothing
  is assumed of what handlers return, nor that failing writes stop except by
  the bound on faults.
* ListenerSessions: a call that started goes on; a session without heartbeats
  times out; sweeps are enqueued at every interval under a new key and a worker
  claims them, again and again though other calls come in between, hence strong
  fairness. Nothing is assumed of clients.
* EventDelivery: a partition without owner is assigned; dispatchers poll and
  work off their fetches. Nothing is assumed of Centrifugo's answers.
* RoomShutdown: a call that began goes on, and a job that is queued, or whose
  handler is gone, is claimed, again and again though requests occupy the
  model's calls in between, hence strong fairness. No fault is obliged to
  happen. `JobsGetDone` asks for fewer faults than attempts: with as many, the
  job is a dead letter.

RoomLifecycle, SpeakerRequests, UserProfiles, RealtimeChannels and the client have no liveness
property: whatever a user does not ask for never happens there, and a browser
need not answer. What a timer must do in the end is stated of steps instead
(`AnnouncedUntilTimeout`).

## Proofs

Every safety property of a passing run, invariant or action property, and both
refinements are proved, each for every value of the constants its module's
assumption allows. The properties whose exceptions name overlapping or broken
calls are proved with those exceptions. The proofs found two assumptions that
the runs' instances had met silently: a finite set of participants (the badge is
a sum over them) and an agenda with at least one seed (`agendaSeed[0]` is the
first selection); both are what the client's constants are.

Almost none of the properties is inductive: it says what is true when calls are
at rest, and the invariant has to say what each call knows while it is under
way. That is how the invariants below are built. A step of one call changes the
documents, and the calls that are not stepping keep what they know, because
documents change in one direction or because a change under their hands is what
the history variable records.

**Job queue** (`AsyncJobsProofs`; types, lease, finality, keys, attempts, contract).
`ExclusiveLease` says nothing of the lock for which a second claim is refused.
`LeaseInv` adds that a worker whose job never outlived its lock still has that
lock, and the job is "running"; time cannot then end the lock without marking the
job as overrun. Finality follows, since only a worker that holds a job writes its
status. `BudgetInv` counts, per job, the workers whose copy may still lead to a
retry (a finite set, hence `FiniteSetTheorems`). `QueueKeepsContract` is the
refinement of `JobContract`, action by action (`ContractStep`): under `CopyInv` (a
worker's copy of the attempts is never ahead of the store's, and a handler has
succeeded only once it ran) each step of the queue is a step of the contract or
leaves its variables alone; a settling write on a settled job is one of the
contract only because the job has a late handler (`HeldJobs`).

**Listener sessions** (`ListenerProofs`). `SessionInv` says what a call is about to
save (`BeforeSave`: a keeper's session has not ended, a sweep's is still overdue),
what it has saved (`AfterSave`), who has the difference between documents and
Redis in hand (`PresenceInHand`), what the call that closes the room has yet to
end (`ClosingDrains`), and that a keeping and an ending call on one session are
recorded in `mixed`. The action properties follow from it at the step in question.

**Room lifecycle** (`LifecycleProofs`). `LifecycleInv` says where in its plan a
request can be (`PlansOK`), what its copy of the room says there (`CopiesOK`), and,
as long as nothing was cut short, overlapped or nested, that a started recording
is named by the room or by a request on its way to save it (`TrackedInHand`), and
that a finished room has its jobs or a request on its way to queue them
(`FinishInHand`). A copy that says "finished" counts as well: its stale save must
not bring about a finished room whose jobs nobody queues.

**Shutdown** (`ShutdownProofs`). `ShutdownInv` adds to the types `DocumentsOK` (what
the documents say once a job is completed or a report is stored) and, per call,
`CallOK`: a close handler past its list has every session in hand that existed at
the finish, is not ended and was not kept; a draft counts the sessions of its
time; what is about to be published is what is stored. That the other calls keep
their `CallOK` needs only that documents change in one direction (`Stable`), so
each action is proved `Good` for its call alone. `DeadReportExplained` is an
account of faults (`AttemptsPaid`): the attempts of the report job and the
handlers that have failed and not yet settled it are never more than the faults
so far, and the attempt that is being made.

**Speaker requests** (`SpeakerProofs`). `TokenInv` carries `TokensFollowApproval`, the
sentence of `docs/architecture.md:24` on who gets LiveKit tokens, whatever
overlaps: an approved request stands behind its user's approval, and a call past
`ResolveRole` is about an approved user. The other properties except contested
topics, and `SpeakerInv` says why an uncontested one is safe: one call at most is
at work on it (`OneCallEach`), so what that call has read is still so (`AskerKnows`,
`DeciderKnows`, `BlockerKnows`), and what is stored was told or is being told by a
call whose topic will be `cut` if it ends.

**Events** (`EventProofs`). `DeliveryInv`: a dispatcher's fetch is a run of offsets
before which every record has had its outcome, also when the dispatcher has lost
the partition; what is before the owner's position is done or in its fetch, and a
dispatcher commits only a record that is done, so the offset is right whoever
moves it. `AccessInv`: no user has
a token for another's channel or for the moderators' channel of a room not his
own, and an event for one user names one; tokens issued before a role changed are
harmless by that, and `HeardByThoseConcerned` follows event by event.

**Profiles** (`ProfileProofs`). `CopiesCurrent`: a handler's copy agrees with the store
in every field that it does not set and that is not raced, so its save brings
nothing old back.

**Client** (`ClientProofs`). Each part from its own specification; then
`ClientImplementsParts`, by which a turn is a step of its component and leaves the
page and everything else alone, and a navigation is everybody's; then what holds
of the parts holds of the client (`ClientStaysCoherent`, `ReactionsStayTrue`,
`PageStaysCoherent`).

* Chats: `ChatCoherent` is inductive but for the finiteness of the live URLs, from
  which a fresh one is counted. Steps keep every message's quote and URL
  (`SameMessages`) or append a message (`AppendedTo`). `TalkInv` adds that the seed
  counted as unread stays marked, so `markConversationThreadAsRead` never changes
  anything, and only an answer takes a chat's count down; the badge is the sum of
  counts that are 0 or 1 (`SumOfUnits`).
* Reactions: toggling one keeps what the others reacted (`TogglingKeepsOthers`), so
  counts add up after any number of toggles (`TalkInv`, `PanelInv`).
* Stage: `StageInv` (types, nobody twice, flag, seen requests and timer in step with
  the store); the cards follow state by state.
* Lists of rooms: `BoardInv` adds what ties the two pages together, that nothing is
  removed or finished while the board is not shown, and no notice is left of a
  sidebar that is not; the lemma `FilteredWell` says which elements a filter keeps
  and that it repeats none.
* Profile page: `CallsInHand`, what the refs mean while a test awaits an answer.
* Frame: `FrameInv`; `ClockReadsBack` says that the clock's text is read back as the
  seconds it was written from.

Induction over data. The library's induction theorems cannot be instantiated
here, but the two recursive definitions that matter (the sum of the unread
counts, the filter of a list) are functions on a set or an interval, and what they
compute is proved by a least counterexample: `LeastOf` gives the smallest number
for which the claim fails, and the equation of the function refutes it.

Only model-checked: liveness (`EveryJobSettles`, `SilentListenersEnd`,
`AcknowledgedArrives`, `JobsGetDone`), which is out of the prover's reach, and the
documented commit rule, which is false.

## Not modelled, and the plan

In this order:

1. Proofs: that the jobs of RoomShutdown keep `JobContract` too, with a lock that
   ends early as its late handler, which would tie its queue to that of AsyncJobs
   by a theorem and not by this text.
2. `ActiveCounts` and the participants of a room, whose sessions no operation
   ends: counts only grow.

Left out for good: configuration, logging, ids, error mapping, token and URL
construction (pure functions around libraries), and the Redis keys that expire by
themselves, which no code reads. Of the client: the forms of the profile and
room-settings pages, whose values go nowhere; the notification menu, which lists
constants; the playback store, which nothing uses; the mock services, which
return constants; the theme, the UI kit, charts and everything else that only
draws.
