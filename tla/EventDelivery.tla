---------------------------- MODULE EventDelivery ----------------------------
(***************************************************************************)
(* The way of a domain event to the clients: Service.publish stores it and *)
(* hands it to the Kafka bus, a dispatcher of the consumer group takes it  *)
(* from the topic and publishes it to Centrifugo.                          *)
(*                                                                         *)
(* The events are those of one room: the bus keys records by room, so they *)
(* share a partition, which one dispatcher of the group owns at a time.  A *)
(* dispatcher that loses the partition while it handles a fetch goes on    *)
(* with the fetch, and its commits move the offset of the new owner: the   *)
(* broker checks that a commit comes from a member of the group in its     *)
(* present generation, not that the member owns the partition.             *)
(*                                                                         *)
(* Apart from the dispatcher's own CommitRecords, the client library       *)
(* commits the records of earlier fetches.                                 *)
(***************************************************************************)
EXTENDS Integers, Sequences

CONSTANTS
    Events,        \* event ids handed out by ids.New
    Routed,        \* those Resolve finds a channel for
    Dispatchers,   \* processes of the consumer group
    NoDispatcher,
    MaxFaults      \* bound: stopped dispatchers, partition moves, failed publish calls

ASSUME EventAssumption ==
    /\ Routed \subseteq Events
    /\ NoDispatcher \notin Dispatchers
    /\ MaxFaults \in Nat

VARIABLES
    stored,     \* events in the event collection
    publisher,  \* event -> how far publish has come with it
    log,        \* the partition: a sequence of events
    owner,      \* the dispatcher that owns the partition
    committed,  \* the group's committed offset: records before it are done with
    position,   \* where the owner's next fetch starts
    handled,    \* end of the fetches the owner is done with
    known,      \* the committed offset as far as the owner knows
    batch,      \* dispatcher -> offsets of its fetch still to be handled
    stage,      \* dispatcher -> "publish" or "commit" the head of its batch
    delivered,  \* history: offsets Centrifugo has accepted
    refused,    \* history: offsets for which a publish returned an error
    faults      \* faults so far, for the bound

producerVars   == <<stored, publisher>>
brokerVars     == <<log, owner, committed>>
dispatcherVars == <<position, handled, known, batch, stage>>
history        == <<delivered, refused, faults>>
vars           == <<producerVars, brokerVars, dispatcherVars, history>>

Offsets == 1..Len(log)
Outcome(i) == i \in delivered \cup refused \/ log[i] \notin Routed

TypeOK ==
    /\ stored \subseteq Events
    /\ publisher \in [Events -> {"new", "stored", "returned", "failed"}]
    /\ log \in Seq(Events)
    /\ owner \in Dispatchers \cup {NoDispatcher}
    /\ committed \in 0..Len(log)
    /\ position \in 0..Len(log)
    /\ handled \in 0..position
    /\ known \in 0..Len(log)
    /\ batch \in [Dispatchers -> Seq(Offsets)]
    /\ stage \in [Dispatchers -> {"publish", "commit"}]
    /\ delivered \subseteq Offsets
    /\ refused \subseteq Offsets
    /\ faults \in Nat

Init ==
    /\ stored = {}
    /\ publisher = [e \in Events |-> "new"]
    /\ log = << >> /\ owner = NoDispatcher /\ committed = 0
    /\ position = 0 /\ handled = 0 /\ known = 0
    /\ batch = [d \in Dispatchers |-> << >>]
    /\ stage = [d \in Dispatchers |-> "publish"]
    /\ delivered = {} /\ refused = {} /\ faults = 0

-----------------------------------------------------------------------------
(* Service.publish: AppendEvent, then the bus.                              *)

Fault == faults < MaxFaults /\ faults' = faults + 1

AppendEvent(e) ==
    /\ publisher[e] = "new"
    /\ \/ /\ stored' = stored \cup {e}
          /\ publisher' = [publisher EXCEPT ![e] = "stored"]
          /\ UNCHANGED faults
       \/ /\ publisher' = [publisher EXCEPT ![e] = "failed"]
          /\ Fault
          /\ UNCHANGED stored
    /\ UNCHANGED <<brokerVars, dispatcherVars, delivered, refused>>

(* Mutant of ProduceSync: an error of the bus is only logged.               *)
ProduceIgnoringErrors(e) ==
    /\ publisher[e] = "stored"
    /\ log' \in {log, Append(log, e)}
    /\ publisher' = [publisher EXCEPT ![e] = "returned"]
    /\ UNCHANGED <<stored, owner, committed, dispatcherVars, history>>

(* ProduceSync returns nil only for a record in the log; when it returns an *)
(* error, or the process stops, the record may be there nevertheless.       *)
ProduceSync(e) ==
    /\ publisher[e] = "stored"
    /\ \/ /\ log' = Append(log, e)
          /\ publisher' = [publisher EXCEPT ![e] = "returned"]
          /\ UNCHANGED faults
       \/ /\ log' \in {log, Append(log, e)}
          /\ publisher' = [publisher EXCEPT ![e] = "failed"]
          /\ Fault
    /\ UNCHANGED <<stored, owner, committed, dispatcherVars, delivered, refused>>

-----------------------------------------------------------------------------
(* The consumer group.                                                      *)

(* Mutant of Assign: the new owner starts at the end of the log.            *)
AssignAtEnd(d) ==
    /\ owner # d
    /\ IF owner = NoDispatcher THEN UNCHANGED faults ELSE Fault
    /\ owner' = d
    /\ position' = Len(log) /\ handled' = Len(log) /\ known' = committed
    /\ UNCHANGED <<producerVars, log, committed, batch, stage, delivered, refused>>

(* The partition goes to dispatcher d, which starts at the committed offset.*)
(* It may come back to a dispatcher that is still at work on a fetch it     *)
(* made when it owned the partition before.                                 *)
Assign(d) ==
    /\ owner # d
    /\ IF owner = NoDispatcher THEN UNCHANGED faults ELSE Fault
    /\ owner' = d
    /\ position' = committed /\ handled' = committed /\ known' = committed
    /\ UNCHANGED <<producerVars, log, committed, batch, stage, delivered, refused>>

Stop(d) ==
    /\ Fault
    /\ owner = d \/ batch[d] # << >>
    /\ IF owner = d
       THEN owner' = NoDispatcher /\ position' = 0 /\ handled' = 0 /\ known' = 0
       ELSE UNCHANGED <<owner, position, handled, known>>
    /\ batch' = [batch EXCEPT ![d] = << >>]
    /\ stage' = [stage EXCEPT ![d] = "publish"]
    /\ UNCHANGED <<producerVars, log, committed, delivered, refused>>

(* Mutant of Poll: the records of the new fetch count as handled at once.   *)
GreedyPoll(d) ==
    /\ owner = d /\ batch[d] = << >>
    /\ position < Len(log)
    /\ \E n \in (position + 1)..Len(log) :
          /\ batch' = [batch EXCEPT ![d] = [i \in 1..(n - position) |-> position + i]]
          /\ position' = n
          /\ handled' = n
    /\ UNCHANGED <<producerVars, brokerVars, known, stage, history>>

(* PollFetches, some of the records from position on; the call itself says  *)
(* that those of the fetches before are done with.                          *)
Poll(d) ==
    /\ owner = d /\ batch[d] = << >>
    /\ position < Len(log)
    /\ \E n \in (position + 1)..Len(log) :
          /\ batch' = [batch EXCEPT ![d] = [i \in 1..(n - position) |-> position + i]]
          /\ position' = n
          /\ handled' = position
    /\ UNCHANGED <<producerVars, brokerVars, known, stage, history>>

(* The library commits by itself, from time to time, the records of the     *)
(* fetches before (the dispatcher does not turn that off).  It knows of its *)
(* own commits only: the group's offset, moved on by a former owner, may go *)
(* back.                                                                    *)
AutoCommit(d) ==
    /\ owner = d
    /\ known < handled
    /\ committed' = handled /\ known' = handled
    /\ UNCHANGED <<producerVars, log, owner, position, handled, batch, stage, history>>

-----------------------------------------------------------------------------
(* handleRecord, for the first record of the batch.                         *)

NextRecord(d) ==
    /\ batch' = [batch EXCEPT ![d] = Tail(@)]
    /\ stage' = [stage EXCEPT ![d] = "publish"]

(* Resolve finds a channel and Centrifugo answers 2xx; or no channel.       *)
PublishSucceeds(d) ==
    /\ batch[d] # << >> /\ stage[d] = "publish"
    /\ delivered' = IF log[Head(batch[d])] \in Routed
                    THEN delivered \cup {Head(batch[d])} ELSE delivered
    /\ stage' = [stage EXCEPT ![d] = "commit"]
    /\ UNCHANGED <<producerVars, brokerVars, position, handled, known, batch,
                   refused, faults>>

(* Centrifugo refuses the event, or its answer is lost: the record is not   *)
(* committed, and the loop goes on with the next one.                       *)
PublishFails(d) ==
    /\ batch[d] # << >> /\ stage[d] = "publish"
    /\ log[Head(batch[d])] \in Routed
    /\ refused' = refused \cup {Head(batch[d])}
    /\ delivered' \in {delivered, delivered \cup {Head(batch[d])}}
    /\ NextRecord(d)
    /\ UNCHANGED <<producerVars, brokerVars, position, handled, known, faults>>

(* CommitRecords moves the group's offset past the record, forth or back,   *)
(* whoever owns the partition by now.  When the call fails, because the     *)
(* dispatcher is out of the group or there is no answer, it may have moved. *)
Commit(d) ==
    /\ batch[d] # << >> /\ stage[d] = "commit"
    /\ \/ /\ committed' = Head(batch[d])
          /\ known' = IF owner = d THEN Head(batch[d]) ELSE known
       \/ /\ committed' \in {committed, Head(batch[d])}
          /\ UNCHANGED known
    /\ NextRecord(d)
    /\ UNCHANGED <<producerVars, log, owner, position, handled, history>>

Handle(d) == PublishSucceeds(d) \/ PublishFails(d) \/ Commit(d)

Next ==
    \/ \E e \in Events : AppendEvent(e) \/ ProduceSync(e)
    \/ \E d \in Dispatchers : Assign(d) \/ Stop(d) \/ Poll(d) \/ AutoCommit(d)
                                \/ Handle(d)

Spec == Init /\ [][Next]_vars

(* A partition without an owner is assigned, dispatchers poll and work      *)
(* through what they fetched; nothing is assumed of Centrifugo's answers.   *)
Fairness ==
    /\ WF_vars(owner = NoDispatcher /\ \E d \in Dispatchers : Assign(d))
    /\ \A d \in Dispatchers : WF_vars(Poll(d)) /\ WF_vars(Handle(d))

FairSpec == Spec /\ Fairness

-----------------------------------------------------------------------------
(* However dispatchers stop, lose the partition or overlap, and whichever   *)
(* of them commits last, the group's offset never passes a record that has  *)
(* a channel and for which no publish has returned: only a refused publish  *)
(* can lose an event for the clients (first of all, every variable has its  *)
(* type).                                                                   *)
NoSilentLoss == TypeOK /\ \A i \in 1..committed : Outcome(i)

(* Clients see a room's events in the order of the log the first time they  *)
(* see them: an event overtakes an earlier one only if that one's publish   *)
(* was refused.  Redelivery may repeat older events afterwards.             *)
FirstSeenInOrder ==
    \A i \in delivered \cup refused : \A k \in 1..i : Outcome(k)

(* An event whose publish returned nil to the application is stored and     *)
(* reaches the end of its way, Centrifugo or a refusal by it: again and     *)
(* again no such event is still on its way (one that has returned, or has   *)
(* arrived, stays so: each arrives).                                        *)
AcknowledgedArrives ==
    []<>(\A e \in Events : publisher[e] = "returned" =>
            e \in stored /\ \E i \in Offsets : log[i] = e /\ Outcome(i))

(* docs/events.md:40: the dispatcher "commits Kafka offsets only after      *)
(* publish succeeds" - every record before the committed offset that has a  *)
(* channel was accepted by Centrifugo.                                      *)
CommitsOnlyAfterPublish ==
    \A i \in 1..committed : log[i] \in Routed => i \in delivered
=============================================================================
