---------------------------- MODULE EventProofs ----------------------------
(***************************************************************************)
(* The way of an event to the clients and the choice of its channel, for   *)
(* any numbers of events, dispatchers, users and rooms.  DeliveryInv is    *)
(* inductive: it says that a dispatcher's fetch is a run of offsets before *)
(* which every record has had its outcome, whoever owns the partition.     *)
(* Any record a dispatcher may commit is then done with, and so is what is *)
(* before the owner's position, save for the fetch it is working through   *)
(* (one that it made before it lost the partition may end elsewhere).      *)
(***************************************************************************)
EXTENDS EventDelivery, RealtimeChannels, TLAPS

\* Every record up to offset n has had its outcome.
DoneUpTo(n) == \A k \in 1..n : Outcome(k)

\* A fetch is a run of offsets; the records before it are done, and so is its
\* first when it is to be committed.
BatchesInOrder ==
    \A d \in Dispatchers :
        /\ \A i \in 1..Len(batch[d]) : batch[d][i] = batch[d][1] + i - 1
        /\ batch[d] # << >> => DoneUpTo(batch[d][1] - 1)
        /\ stage[d] = "commit" => batch[d] # << >> /\ Outcome(batch[d][1])

\* The records before the owner's position are done, or in the fetch it is at.
OwnerInStep ==
    owner \in Dispatchers =>
        \/ DoneUpTo(position)
        \/ /\ batch[owner] # << >>
           /\ batch[owner][1] + Len(batch[owner]) - 1 = position

DeliveryInv ==
    /\ TypeOK /\ BatchesInOrder /\ OwnerInStep
    /\ DoneUpTo(handled) /\ DoneUpTo(committed) /\ FirstSeenInOrder

-----------------------------------------------------------------------------

\* What a record's outcome is does not change any more.
LEMMA OutcomesStay ==
    ASSUME TypeOK, \/ log' = log
                   \/ \E e \in Events : log' = Append(log, e),
           delivered \subseteq delivered', refused \subseteq refused'
    PROVE  /\ log' \in Seq(Events) /\ Len(log) \in Nat /\ Len(log') \in Nat
           /\ Len(log) <= Len(log')
           /\ \A i \in Offsets : log'[i] = log[i] /\ (Outcome(i) => Outcome(i)')
           /\ \A n \in 0..Len(log) : DoneUpTo(n) => DoneUpTo(n)'
<1>1. /\ log' \in Seq(Events) /\ Len(log) \in Nat /\ Len(log') \in Nat
      /\ Len(log) <= Len(log')
      /\ \A i \in Offsets : log'[i] = log[i]
  <2>1. log \in Seq(Events) /\ Len(log) \in Nat
    BY DEF TypeOK
  <2>2. CASE log' = log
    BY <2>1, <2>2
  <2>3. ASSUME NEW e \in Events, log' = Append(log, e)
        PROVE  /\ log' \in Seq(Events) /\ Len(log') = Len(log) + 1
               /\ \A i \in 1..Len(log) : log'[i] = log[i]
    BY <2>1, <2>3
  <2> QED BY <2>1, <2>2, <2>3 DEF Offsets
<1>2. \A i \in Offsets : Outcome(i) => Outcome(i)'
  BY <1>1 DEF Outcome
<1>3. \A n \in 0..Len(log) : \A k \in 1..n : k \in Offsets
  BY <1>1 DEF Offsets
<1> QED BY <1>1, <1>2, <1>3 DEF DoneUpTo

LEMMA DeliveryStarts == Init => DeliveryInv
<1> SUFFICES ASSUME Init PROVE DeliveryInv
  OBVIOUS
<1>1. TypeOK
  BY DEF Init, TypeOK, Offsets
<1>2. BatchesInOrder /\ OwnerInStep
  BY EventAssumption DEF Init, BatchesInOrder, OwnerInStep
<1>3. DoneUpTo(handled) /\ DoneUpTo(committed) /\ FirstSeenInOrder
  BY DEF Init, DoneUpTo, FirstSeenInOrder
<1> QED BY <1>1, <1>2, <1>3 DEF DeliveryInv

\* The producer only adds to the log (Service.publish).
LEMMA ProducerKeepsInv ==
    ASSUME NEW e \in Events, DeliveryInv, AppendEvent(e) \/ ProduceSync(e)
    PROVE  DeliveryInv'
<1> USE DEF DeliveryInv, brokerVars, dispatcherVars, history
<1>1. /\ log' = log \/ log' = Append(log, e)
      /\ stored' \subseteq Events
      /\ publisher' \in [Events -> {"new", "stored", "returned", "failed"}]
      /\ UNCHANGED <<owner, committed, dispatcherVars, delivered, refused>>
      /\ faults' \in Nat
  BY DEF TypeOK, AppendEvent, ProduceSync, Fault
<1>2. /\ log' \in Seq(Events) /\ Len(log) \in Nat /\ Len(log') \in Nat
      /\ Len(log) <= Len(log')
      /\ \A i \in Offsets : Outcome(i) => Outcome(i)'
      /\ \A n \in 0..Len(log) : DoneUpTo(n) => DoneUpTo(n)'
  BY <1>1, OutcomesStay
<1>3. TypeOK'
  <2>1. Offsets \subseteq Offsets'
    BY <1>2 DEF Offsets
  <2>2. batch' \in [Dispatchers -> Seq(Offsets')]
    BY <1>1, <2>1 DEF TypeOK
  <2>3. /\ committed' \in 0..Len(log') /\ position' \in 0..Len(log')
        /\ handled' \in 0..position' /\ known' \in 0..Len(log')
    BY <1>1, <1>2 DEF TypeOK
  <2> QED BY <1>1, <1>2, <2>1, <2>2, <2>3 DEF TypeOK
<1>4. BatchesInOrder'
  <2>1. \A d \in Dispatchers : batch[d] # << >> =>
           batch[d][1] \in Offsets /\ batch[d][1] - 1 \in 0..Len(log)
    BY DEF TypeOK, Offsets
  <2> QED BY <1>1, <1>2, <2>1 DEF BatchesInOrder
<1>5. OwnerInStep'
  BY <1>1, <1>2 DEF OwnerInStep, TypeOK
<1>6. DoneUpTo(handled)' /\ DoneUpTo(committed)'
  <2>1. handled \in 0..Len(log) /\ committed \in 0..Len(log)
    BY <1>2 DEF TypeOK
  <2> QED BY <1>1, <1>2, <2>1 DEF DoneUpTo
<1>7. FirstSeenInOrder'
  <2>1. \A i \in delivered \cup refused : \A k \in 1..i : k \in Offsets
    BY <1>2 DEF TypeOK, Offsets
  <2> QED BY <1>1, <1>2, <2>1 DEF FirstSeenInOrder
<1> QED BY <1>3, <1>4, <1>5, <1>6, <1>7

\* The steps that leave the log and the outcomes alone: what is done stays so.
LEMMA DoneStays ==
    ASSUME UNCHANGED <<log, delivered, refused>>
    PROVE  /\ \A i : Outcome(i)' <=> Outcome(i)
           /\ \A n : DoneUpTo(n)' <=> DoneUpTo(n)
           /\ FirstSeenInOrder' <=> FirstSeenInOrder
           /\ Offsets' = Offsets
  BY DEF Outcome, DoneUpTo, FirstSeenInOrder, Offsets

LEMMA GroupKeepsInv ==
    ASSUME NEW d \in Dispatchers, DeliveryInv, Assign(d) \/ Stop(d) \/ AutoCommit(d)
    PROVE  DeliveryInv'
<1> USE DEF DeliveryInv, producerVars, dispatcherVars, history
<1>1. /\ UNCHANGED <<stored, publisher, log, delivered, refused>>
      /\ \A x \in Dispatchers : /\ \/ batch'[x] = batch[x] /\ stage'[x] = stage[x]
                                   \/ batch'[x] = << >> /\ stage'[x] = "publish"
      /\ batch' \in [Dispatchers -> Seq(Offsets)]
      /\ stage' \in [Dispatchers -> {"publish", "commit"}]
  <2>1. CASE Assign(d) \/ AutoCommit(d)
    BY <2>1 DEF TypeOK, Assign, AutoCommit
  <2>2. CASE Stop(d)
    <3>1. << >> \in Seq(Offsets)
      OBVIOUS
    <3> QED BY <2>2, <3>1 DEF TypeOK, Stop
  <2> QED BY <2>1, <2>2
<1>2. TypeOK' /\ DoneUpTo(handled)' /\ DoneUpTo(committed)'
  <2>1. CASE Assign(d)
    <3>1. /\ committed' = committed /\ position' = committed /\ handled' = committed
          /\ known' = committed /\ owner' = d /\ faults' \in Nat
      BY <2>1 DEF Assign, TypeOK, Fault
    <3>2. handled' \in 0..position' /\ position' \in 0..Len(log) /\ known' \in 0..Len(log)
      BY <3>1 DEF TypeOK
    <3> QED BY <1>1, <3>1, <3>2, DoneStays DEF TypeOK, DoneUpTo
  <2>2. CASE Stop(d)
    <3>1. /\ committed' = committed /\ owner' \in Dispatchers \cup {NoDispatcher}
          /\ faults' \in Nat
          /\ \/ position' = 0 /\ handled' = 0 /\ known' = 0
             \/ UNCHANGED <<position, handled, known>>
      BY <2>2 DEF Stop, TypeOK, Fault
    <3>2. position' \in 0..Len(log) /\ handled' \in 0..position' /\ known' \in 0..Len(log)
      BY <3>1 DEF TypeOK
    <3> QED BY <1>1, <3>1, <3>2, DoneStays DEF TypeOK, DoneUpTo
  <2>3. CASE AutoCommit(d)
    <3>1. /\ committed' = handled /\ known' = handled
          /\ UNCHANGED <<owner, position, handled, faults>>
      BY <2>3 DEF AutoCommit
    <3>2. committed' \in 0..Len(log) /\ known' \in 0..Len(log)
      BY <3>1 DEF TypeOK
    <3> QED BY <1>1, <3>1, <3>2, DoneStays DEF TypeOK, DoneUpTo
  <2> QED BY <2>1, <2>2, <2>3
<1>3. BatchesInOrder'
  <2> SUFFICES ASSUME NEW x \in Dispatchers
               PROVE  (/\ \A i \in 1..Len(batch[x]) : batch[x][i] = batch[x][1] + i - 1
                       /\ batch[x] # << >> => DoneUpTo(batch[x][1] - 1)
                       /\ stage[x] = "commit" => batch[x] # << >> /\ Outcome(batch[x][1]))'
    BY DEF BatchesInOrder
  <2>1. CASE batch'[x] = batch[x] /\ stage'[x] = stage[x]
    BY <1>1, <2>1, DoneStays DEF BatchesInOrder, DoneUpTo, Outcome
  <2>2. CASE batch'[x] = << >> /\ stage'[x] = "publish"
    BY <2>2
  <2> QED BY <1>1, <2>1, <2>2
<1>4. OwnerInStep'
  <2>1. CASE Assign(d)
    <3>1. position' = committed
      BY <2>1 DEF Assign
    <3>2. DoneUpTo(committed)
      OBVIOUS
    <3>3. DoneUpTo(position)'
      BY <1>1, <3>1, <3>2 DEF DoneUpTo, Outcome
    <3> QED BY <3>3 DEF OwnerInStep
  <2>2. CASE Stop(d)
    <3>1. owner' \in Dispatchers => owner' # d
      BY <2>2, EventAssumption DEF Stop
    <3>2. owner' \in Dispatchers =>
             owner' = owner /\ position' = position /\ batch'[owner] = batch[owner]
      BY <2>2, <3>1, EventAssumption DEF Stop, TypeOK
    <3> QED BY <1>1, <3>2 DEF OwnerInStep, DoneUpTo, Outcome
  <2>3. CASE AutoCommit(d)
    BY <1>1, <2>3 DEF AutoCommit, OwnerInStep, DoneUpTo, Outcome
  <2> QED BY <2>1, <2>2, <2>3
<1>5. FirstSeenInOrder'
  BY <1>1, DoneStays
<1> QED BY <1>2, <1>3, <1>4, <1>5

\* A new fetch of the owner starts behind its position.
LEMMA PollKeepsInv ==
    ASSUME NEW d \in Dispatchers, DeliveryInv, Poll(d)
    PROVE  DeliveryInv'
<1> USE DEF DeliveryInv, producerVars, brokerVars, history
<1>1. PICK n \in (position + 1)..Len(log) :
         /\ batch' = [batch EXCEPT ![d] = [i \in 1..(n - position) |-> position + i]]
         /\ position' = n /\ handled' = position
  BY DEF Poll
<1>2. /\ owner = d /\ batch[d] = << >> /\ DoneUpTo(position)
      /\ UNCHANGED <<stored, publisher, log, owner, committed, known, stage, history>>
  BY DEF Poll, OwnerInStep
<1>3. position \in Nat /\ Len(log) \in Nat /\ n \in Nat /\ position < n /\ n <= Len(log)
  BY <1>1 DEF TypeOK
<1> DEFINE fetch == [i \in 1..(n - position) |-> position + i]
<1>4. /\ fetch \in Seq(Offsets) /\ Len(fetch) = n - position /\ fetch # << >>
      /\ fetch[1] = position + 1 /\ \A i \in 1..Len(fetch) : fetch[i] = fetch[1] + i - 1
  <2>1. \A i \in 1..(n - position) : position + i \in Offsets
    BY <1>3 DEF Offsets
  <2>2. fetch \in Seq(Offsets) /\ Len(fetch) = n - position
    BY <1>3, <2>1
  <2>3. 1 \in 1..(n - position)
    BY <1>3
  <2>4. fetch # << >>
    BY <1>3, <2>2
  <2> QED BY <1>3, <2>2, <2>3, <2>4
<1> HIDE DEF fetch
<1>5. batch'[d] = fetch /\ \A x \in Dispatchers : x # d => batch'[x] = batch[x]
  BY <1>1 DEF TypeOK, fetch
<1>6. TypeOK'
  <2>1. batch' \in [Dispatchers -> Seq(Offsets)]
    BY <1>1, <1>4 DEF TypeOK, fetch
  <2>2. position' \in 0..Len(log) /\ handled' \in 0..position'
    BY <1>1, <1>3
  <2> QED BY <1>2, <2>1, <2>2, DoneStays DEF TypeOK
<1>7. BatchesInOrder'
  <2> SUFFICES ASSUME NEW x \in Dispatchers
               PROVE  (/\ \A i \in 1..Len(batch[x]) : batch[x][i] = batch[x][1] + i - 1
                       /\ batch[x] # << >> => DoneUpTo(batch[x][1] - 1)
                       /\ stage[x] = "commit" => batch[x] # << >> /\ Outcome(batch[x][1]))'
    BY DEF BatchesInOrder
  <2>1. CASE x = d
    <3>1. stage[d] # "commit"
      BY <1>2 DEF BatchesInOrder
    <3>2. batch'[x][1] - 1 = position
      BY <1>3, <1>4, <1>5, <2>1
    <3> QED BY <1>2, <1>4, <1>5, <2>1, <3>1, <3>2 DEF DoneUpTo, Outcome
  <2>2. CASE x # d
    BY <1>2, <1>5, <2>2 DEF BatchesInOrder, DoneUpTo, Outcome
  <2> QED BY <2>1, <2>2
<1>8. OwnerInStep'
  <2>1. owner' = d /\ batch'[d] = fetch /\ position' = n
    BY <1>1, <1>2, <1>5
  <2>2. fetch[1] + Len(fetch) - 1 = n
    BY <1>3, <1>4
  <2> QED BY <1>4, <2>1, <2>2 DEF OwnerInStep
<1>9. DoneUpTo(handled)' /\ DoneUpTo(committed)' /\ FirstSeenInOrder'
  BY <1>1, <1>2, DoneStays DEF DoneUpTo, Outcome
<1> QED BY <1>6, <1>7, <1>8, <1>9

LEMMA OffsetsAreNumbers ==
    ASSUME TypeOK
    PROVE  /\ Len(log) \in Nat
           /\ \A i \in Offsets : /\ i \in Nat \ {0} /\ i - 1 \in 0..Len(log)
                                 /\ \A k \in 1..i : k \in Offsets
  BY DEF TypeOK, Offsets

\* The first record of a fetch, and what is behind it.
LEMMA HeadAndTail ==
    ASSUME NEW d \in Dispatchers, DeliveryInv, batch[d] # << >>
    PROVE  /\ Head(batch[d]) = batch[d][1] /\ batch[d][1] \in Offsets
           /\ DoneUpTo(batch[d][1] - 1)
           /\ Tail(batch[d]) \in Seq(Offsets) /\ Len(Tail(batch[d])) = Len(batch[d]) - 1
           /\ Tail(batch[d]) = << >> <=> Len(batch[d]) = 1
           /\ \A i \in 1..Len(Tail(batch[d])) : Tail(batch[d])[i] = batch[d][1] + i
<1> DEFINE b == batch[d]
<1>1. b \in Seq(Offsets) /\ b # << >> /\ \A i \in 1..Len(b) : b[i] = b[1] + i - 1
  BY DEF DeliveryInv, TypeOK, BatchesInOrder
<1>2. DoneUpTo(b[1] - 1)
  BY DEF DeliveryInv, BatchesInOrder
<1> HIDE DEF b
<1>3. /\ Head(b) = b[1] /\ b[1] \in Offsets /\ Len(b) \in Nat \ {0}
      /\ Tail(b) \in Seq(Offsets) /\ Len(Tail(b)) = Len(b) - 1
      /\ \A i \in 1..Len(Tail(b)) : Tail(b)[i] = b[i + 1]
  BY <1>1
<1>4. Tail(b) = << >> <=> Len(b) = 1
  <2> DEFINE t == Tail(b)
  <2>1. t \in Seq(Offsets) /\ Len(t) = Len(b) - 1 /\ Len(b) \in Nat
    BY <1>3
  <2> HIDE DEF t
  <2>2. t = << >> <=> Len(t) = 0
    BY <2>1
  <2> QED BY <2>1, <2>2 DEF t
<1>5. \A i \in 1..Len(Tail(b)) : Tail(b)[i] = b[1] + i
  BY <1>1, <1>3 DEF Offsets
<1> QED BY <1>2, <1>3, <1>4, <1>5 DEF b

\* handleRecord, when it goes on to the next record with an outcome of the
\* first (Commit and PublishFails).
LEMMA NextRecordKeeps ==
    ASSUME NEW d \in Dispatchers, DeliveryInv, batch[d] # << >>, NextRecord(d),
           UNCHANGED <<log, owner, position>>,
           delivered \subseteq delivered', refused \subseteq refused',
           NEW first, first = batch[d][1], Outcome(first)'
    PROVE  /\ batch' \in [Dispatchers -> Seq(Offsets)]
           /\ stage' \in [Dispatchers -> {"publish", "commit"}]
           /\ BatchesInOrder' /\ OwnerInStep'
<1> USE DEF DeliveryInv
<1> DEFINE b == batch[d]
           rest == Tail(b)
<1>1. /\ Len(log) \in Nat
      /\ \A i \in Offsets : Outcome(i) => Outcome(i)'
      /\ \A n \in 0..Len(log) : DoneUpTo(n) => DoneUpTo(n)'
  BY OutcomesStay
<1>2. /\ first \in Offsets /\ DoneUpTo(first - 1)
      /\ rest \in Seq(Offsets) /\ Len(rest) = Len(b) - 1
      /\ rest = << >> <=> Len(b) = 1
      /\ \A i \in 1..Len(rest) : rest[i] = first + i
      /\ Len(b) \in Nat
  BY HeadAndTail DEF TypeOK
<1>n. first \in Nat \ {0} /\ position \in Nat /\ first - 1 \in 0..Len(log) /\ Len(b) \in Nat
  BY <1>2, OffsetsAreNumbers DEF TypeOK
<1>3. /\ batch'[d] = rest /\ stage'[d] = "publish"
      /\ \A x \in Dispatchers : x # d => batch'[x] = batch[x] /\ stage'[x] = stage[x]
      /\ batch' \in [Dispatchers -> Seq(Offsets)]
      /\ stage' \in [Dispatchers -> {"publish", "commit"}]
  BY <1>2 DEF NextRecord, TypeOK
<1>4. \A k \in 1..first : Outcome(k)'
  <2>1. \A k \in 1..first : k \in Offsets /\ (k = first \/ k \in 1..(first - 1))
    BY <1>2, <1>n, OffsetsAreNumbers
  <2> QED BY <1>1, <1>2, <2>1 DEF DoneUpTo
<1>5. rest # << >> => rest[1] = first + 1
  BY <1>2, <1>n
<1> HIDE DEF b, rest
<1>6. BatchesInOrder'
  <2> SUFFICES ASSUME NEW x \in Dispatchers
               PROVE  (/\ \A i \in 1..Len(batch[x]) : batch[x][i] = batch[x][1] + i - 1
                       /\ batch[x] # << >> => DoneUpTo(batch[x][1] - 1)
                       /\ stage[x] = "commit" => batch[x] # << >> /\ Outcome(batch[x][1]))'
    BY DEF BatchesInOrder
  <2>1. CASE x = d
    <3>1. first \in Nat
      BY <1>n
    <3>2. batch'[x] # << >> => batch'[x][1] - 1 = first
      <4>1. batch'[x] = rest /\ first + 1 - 1 = first
        BY <1>3, <2>1, <3>1
      <4>2. batch'[x] # << >> => batch'[x][1] = first + 1
        BY <1>5, <4>1
      <4> QED BY <3>1, <4>2
    <3>3. batch'[x] # << >> => DoneUpTo(batch[x][1] - 1)'
      BY <1>4, <3>2 DEF DoneUpTo
    <3>4. \A i \in 1..Len(batch'[x]) : batch'[x][i] = batch'[x][1] + i - 1
      <4>1. batch'[x] = rest
        BY <1>3, <2>1
      <4>2. ASSUME NEW i \in 1..Len(rest)
            PROVE  rest # << >> /\ rest[i] = first + i /\ first + i = first + 1 + i - 1
        <5>1. Len(rest) \in Nat /\ i \in Nat
          BY <1>2, <1>n
        <5> QED BY <1>2, <1>n, <5>1
      <4>3. ASSUME NEW i \in 1..Len(rest) PROVE rest[i] = rest[1] + i - 1
        BY <1>5, <4>2
      <4> QED BY <4>1, <4>3
    <3> QED BY <1>3, <2>1, <3>3, <3>4
  <2>2. CASE x # d
    <3>1. batch'[x] = batch[x] /\ stage'[x] = stage[x]
      BY <1>3, <2>2
    <3>2. batch[x] # << >> =>
             /\ batch[x][1] \in Offsets /\ batch[x][1] - 1 \in 0..Len(log)
             /\ DoneUpTo(batch[x][1] - 1)
      BY HeadAndTail, OffsetsAreNumbers
    <3> QED BY <1>1, <3>1, <3>2 DEF BatchesInOrder
  <2> QED BY <2>1, <2>2
<1>7. OwnerInStep'
  <2>0. CASE DoneUpTo(position)
    <3>1. position \in 0..Len(log)
      BY DEF TypeOK
    <3>2. DoneUpTo(position)'
      BY <1>1, <2>0, <3>1 DEF DoneUpTo
    <3> QED BY <3>2 DEF OwnerInStep
  <2>1. CASE owner = d /\ ~DoneUpTo(position)
    <3>1. first + Len(b) - 1 = position
      BY <2>1 DEF OwnerInStep, b
    <3>2. CASE rest = << >>
      <4>1. first = position
        <5>1. Len(b) = 1
          BY <1>2, <3>2
        <5> QED BY <1>n, <3>1, <5>1
      <4>2. DoneUpTo(position)'
        BY <1>4, <4>1 DEF DoneUpTo
      <4> QED BY <4>2 DEF OwnerInStep
    <3>3. CASE rest # << >>
      <4>1. first + 1 + (Len(b) - 1) - 1 = position
        <5>1. \A f, l, p \in Nat : f + l - 1 = p => f + 1 + (l - 1) - 1 = p
          OBVIOUS
        <5>2. first \in Nat /\ Len(b) \in Nat /\ position \in Nat
          BY <1>n
        <5>3. first + Len(b) - 1 = position => first + 1 + (Len(b) - 1) - 1 = position
          BY <5>1, <5>2
        <5> QED BY <3>1, <5>3
      <4> QED BY <1>2, <1>3, <1>5, <2>1, <3>3, <4>1 DEF OwnerInStep
    <3> QED BY <3>2, <3>3
  <2>2. CASE owner # d
    <3>1. position \in 0..Len(log)
      BY DEF TypeOK
    <3>2. owner \in Dispatchers => batch'[owner] = batch[owner]
      BY <1>3, <2>2
    <3>3. DoneUpTo(position) => DoneUpTo(position)'
      BY <1>1, <3>1 DEF DoneUpTo
    <3> QED BY <3>2, <3>3 DEF OwnerInStep
  <2> QED BY <2>0, <2>1, <2>2
<1> QED BY <1>3, <1>6, <1>7

LEMMA CommitKeepsInv ==
    ASSUME NEW d \in Dispatchers, DeliveryInv, Commit(d) PROVE DeliveryInv'
<1> USE DEF DeliveryInv, producerVars, history
<1>1. /\ batch[d] # << >> /\ Outcome(batch[d][1]) /\ NextRecord(d)
      /\ committed' = committed \/ committed' = batch[d][1]
      /\ known' = known \/ known' = batch[d][1]
      /\ UNCHANGED <<stored, publisher, log, owner, position, handled,
                     delivered, refused, faults>>
  BY HeadAndTail DEF Commit, BatchesInOrder
<1>2. /\ batch' \in [Dispatchers -> Seq(Offsets)]
      /\ stage' \in [Dispatchers -> {"publish", "commit"}]
      /\ BatchesInOrder' /\ OwnerInStep'
  <2>1. \A i : i = batch[d][1] => Outcome(i)'
    BY <1>1 DEF Outcome
  <2> QED BY <1>1, <2>1, NextRecordKeeps
<1>3. batch[d][1] \in Offsets /\ DoneUpTo(batch[d][1] - 1)
  BY <1>1, HeadAndTail
<1>4. DoneUpTo(committed)'
  BY <1>1, <1>3 DEF DoneUpTo, Outcome, Offsets
<1>5. committed' \in 0..Len(log) /\ known' \in 0..Len(log)
  BY <1>1, <1>3 DEF TypeOK, Offsets
<1>6. TypeOK' /\ DoneUpTo(handled)' /\ FirstSeenInOrder'
  BY <1>1, <1>2, <1>5, DoneStays DEF TypeOK, DoneUpTo, Outcome
<1> QED BY <1>2, <1>4, <1>6

LEMMA PublishKeepsInv ==
    ASSUME NEW d \in Dispatchers, DeliveryInv, PublishSucceeds(d) \/ PublishFails(d)
    PROVE  DeliveryInv'
<1> USE DEF DeliveryInv, producerVars, brokerVars
<1> DEFINE first == batch[d][1]
<1>1. /\ batch[d] # << >> /\ Head(batch[d]) = first /\ first \in Offsets
      /\ DoneUpTo(first - 1)
  BY HeadAndTail DEF PublishSucceeds, PublishFails
<1> HIDE DEF first
<1>2. /\ delivered' \in {delivered, delivered \cup {first}}
      /\ refused' \in {refused, refused \cup {first}}
      /\ UNCHANGED <<stored, publisher, log, owner, committed, position, handled, known, faults>>
      /\ first \in delivered' \cup refused' \/ log[first] \notin Routed
  BY <1>1 DEF PublishSucceeds, PublishFails
<1>3. /\ \A i \in Offsets : Outcome(i) => Outcome(i)'
      /\ \A n \in 0..Len(log) : DoneUpTo(n) => DoneUpTo(n)'
      /\ Len(log) \in Nat
  BY <1>2, OutcomesStay
<1>4. \A i : i = first => Outcome(i)'
  BY <1>2 DEF Outcome
<1>5. FirstSeenInOrder'
  <2> SUFFICES ASSUME NEW i \in delivered' \cup refused', NEW k \in 1..i PROVE Outcome(k)'
    BY DEF FirstSeenInOrder
  <2>1. i \in delivered \cup refused \/ i = first
    BY <1>2
  <2>2. i \in Offsets /\ k \in Offsets
    BY <1>1, <2>1, OffsetsAreNumbers DEF TypeOK
  <2>3. CASE i \in delivered \cup refused
    BY <1>3, <2>2, <2>3 DEF FirstSeenInOrder
  <2>4. CASE i = first
    <3>1. k = first \/ k \in 1..(first - 1)
      BY <2>2, <2>4 DEF Offsets
    <3> QED BY <1>1, <1>3, <1>4, <2>2, <3>1 DEF DoneUpTo
  <2> QED BY <2>1, <2>3, <2>4
<1>6. DoneUpTo(handled)' /\ DoneUpTo(committed)'
  <2>1. handled \in 0..Len(log) /\ committed \in 0..Len(log)
    BY <1>3 DEF TypeOK
  <2> QED BY <1>2, <1>3, <2>1 DEF DoneUpTo
<1>7. /\ batch' \in [Dispatchers -> Seq(Offsets)]
      /\ stage' \in [Dispatchers -> {"publish", "commit"}]
      /\ BatchesInOrder' /\ OwnerInStep'
  <2>1. CASE PublishSucceeds(d)
    <3>1. batch' = batch /\ stage' = [stage EXCEPT ![d] = "commit"]
      BY <2>1 DEF PublishSucceeds
    <3>2. \A x \in Dispatchers : batch[x] # << >> =>
             /\ batch[x][1] \in Offsets /\ batch[x][1] - 1 \in 0..Len(log)
      BY HeadAndTail, <1>3 DEF Offsets
    <3>3. BatchesInOrder'
      <4> SUFFICES ASSUME NEW x \in Dispatchers
                   PROVE  (/\ \A i \in 1..Len(batch[x]) : batch[x][i] = batch[x][1] + i - 1
                           /\ batch[x] # << >> => DoneUpTo(batch[x][1] - 1)
                           /\ stage[x] = "commit"
                                => batch[x] # << >> /\ Outcome(batch[x][1]))'
        BY DEF BatchesInOrder
      <4>1. /\ \A i \in 1..Len(batch[x]) : batch[x][i] = batch[x][1] + i - 1
            /\ batch[x] # << >> => DoneUpTo(batch[x][1] - 1)'
        BY <1>3, <3>1, <3>2 DEF BatchesInOrder
      <4>2. stage'[x] = "commit" => batch[x] # << >> /\ Outcome(batch[x][1])'
        BY <1>1, <1>3, <1>4, <3>1, <3>2 DEF BatchesInOrder, TypeOK, first
      <4> QED BY <3>1, <4>1, <4>2
    <3>4. OwnerInStep'
      <4>1. DoneUpTo(position) => DoneUpTo(position)'
        BY <1>2, <1>3 DEF DoneUpTo, TypeOK
      <4> QED BY <1>2, <3>1, <4>1 DEF OwnerInStep
    <3> QED BY <3>1, <3>3, <3>4 DEF TypeOK
  <2>2. CASE PublishFails(d)
    <3>1. NextRecord(d)
      BY <2>2 DEF PublishFails
    <3> QED BY <1>1, <1>2, <1>4, <3>1, NextRecordKeeps DEF first
  <2> QED BY <2>1, <2>2
<1>8. TypeOK'
  BY <1>1, <1>2, <1>7 DEF TypeOK, Offsets
<1> QED BY <1>5, <1>6, <1>7, <1>8

LEMMA DeliveryInductive == DeliveryInv /\ [Next]_vars => DeliveryInv'
<1> SUFFICES ASSUME DeliveryInv, [Next]_vars PROVE DeliveryInv'
  OBVIOUS
<1>1. CASE \E e \in Events : AppendEvent(e) \/ ProduceSync(e)
  BY <1>1, ProducerKeepsInv
<1>2. ASSUME NEW d \in Dispatchers, Assign(d) \/ Stop(d) \/ AutoCommit(d)
      PROVE  DeliveryInv'
  BY <1>2, GroupKeepsInv
<1>3. ASSUME NEW d \in Dispatchers, Poll(d) \/ Handle(d) PROVE DeliveryInv'
  BY <1>3, PollKeepsInv, PublishKeepsInv, CommitKeepsInv DEF Handle
<1>4. CASE UNCHANGED vars
  BY <1>4 DEF DeliveryInv, TypeOK, BatchesInOrder, OwnerInStep, DoneUpTo, FirstSeenInOrder,
              Outcome, Offsets, vars, producerVars, brokerVars, dispatcherVars, history
<1> QED BY <1>1, <1>2, <1>3, <1>4 DEF Next

LEMMA DeliveryInvariant == Spec => []DeliveryInv
  BY DeliveryStarts, DeliveryInductive, PTL DEF Spec

\* The group's offset passes no record whose publish has not returned, however
\* dispatchers stop and the partition moves (handleRecord, the auto commit).
THEOREM NothingLostSilently == Spec => []NoSilentLoss
<1>1. DeliveryInv => NoSilentLoss
  BY DEF DeliveryInv, NoSilentLoss, DoneUpTo
<1> QED BY <1>1, DeliveryInvariant, PTL

\* Clients see events in the order of the log the first time (the dispatcher's
\* loop over a fetch).
THEOREM SeenInOrder == Spec => []FirstSeenInOrder
<1>1. DeliveryInv => FirstSeenInOrder
  BY DEF DeliveryInv
<1> QED BY <1>1, DeliveryInvariant, PTL

-----------------------------------------------------------------------------

\* Nobody has a token for another user's channel, or for the admins' channel
\* of a room that is not its own.
LawfulTokens ==
    \A u \in Users : \A c \in tokens[u] :
        /\ c.kind = "user" => c = UserChannel(u)
        /\ c.kind = "admins" => u \in Moderators[c.of]

\* An event for one user names one.
TargetsNamed == \A e \in sent : e.type \in ToTarget => e.target \in Users

AccessInv == AccessTypeOK /\ LawfulTokens /\ TargetsNamed

EventRecords == [type : EventTypes, room : Rooms, target : Users \cup {Nobody}]

\* What an operation does to the tokens and the events sent: the event it
\* publishes is for nobody in particular, or names a user.
PublishesFor(types, r, target) ==
    \E type \in types : sent' = sent \cup {Event(type, r, target)} /\ tokens' = tokens

LEMMA Publishing ==
    ASSUME NEW types \in SUBSET EventTypes, NEW r \in Rooms, NEW target \in Users \cup {Nobody},
           types \cap ToTarget = {} \/ target \in Users,
           AccessInv, PublishesFor(types, r, target)
    PROVE  sent' \subseteq EventRecords /\ LawfulTokens' /\ TargetsNamed' /\ tokens' = tokens
<1>1. PICK type \in types : sent' = sent \cup {Event(type, r, target)} /\ tokens' = tokens
  BY DEF PublishesFor
<1>2. Event(type, r, target) \in EventRecords
  BY DEF Event, EventRecords
<1>3. LawfulTokens'
  BY <1>1 DEF AccessInv, LawfulTokens
<1>4. TargetsNamed'
  <2>1. type \in ToTarget => target \in Users
    OBVIOUS
  <2> QED BY <1>1, <2>1 DEF AccessInv, TargetsNamed, Event
<1> QED BY <1>1, <1>2, <1>3, <1>4 DEF AccessInv, AccessTypeOK, EventRecords

LEMMA AccessStarts == AccessInit => AccessInv
<1> SUFFICES ASSUME AccessInit PROVE AccessInv
  OBVIOUS
<1>1. AccessTypeOK
  BY DEF AccessInit, AccessTypeOK
<1>2. LawfulTokens /\ TargetsNamed
  BY DEF AccessInit, LawfulTokens, TargetsNamed
<1> QED BY <1>1, <1>2 DEF AccessInv

LEMMA TokensKeepInv ==
    ASSUME NEW u \in Users, NEW c \in Channels, AccessInv, RealtimeSubscriptionToken(u, c)
    PROVE  AccessInv'
<1> USE DEF AccessInv, RealtimeSubscriptionToken, speakingVars
<1>1. AccessTypeOK'
  BY DEF AccessTypeOK
<1>2. c.kind = "user" => c = UserChannel(u)
  BY DEF AuthorizeChannel
<1>3. c.kind = "admins" => u \in Moderators[c.of]
  BY DEF AuthorizeChannel, ResolveRole, CanModerate, UserChannel
<1>4. LawfulTokens'
  <2>1. \A v \in Users : \A x \in tokens'[v] : x \in tokens[v] \/ (v = u /\ x = c)
    BY DEF AccessTypeOK
  <2> QED BY <1>2, <1>3, <2>1 DEF LawfulTokens
<1>5. TargetsNamed'
  BY DEF TargetsNamed
<1> QED BY <1>1, <1>4, <1>5

\* The operations that one user performs on a room.
LEMMA RoomCallsKeepInv ==
    ASSUME NEW u \in Users, NEW r \in Rooms, AccessInv,
           \/ CreateRoom(u, r) \/ StartRoom(u, r) \/ FinishRoom(u, r)
           \/ StartRecording(u, r) \/ StopRecording(u, r) \/ GenerateReport(u, r)
           \/ JoinRoom(u, r) \/ ListenerSessionEvent(u, r) \/ RequestToSpeak(u, r)
    PROVE  AccessInv'
<1> DEFINE Untargeted == {"room.created", "room.started", "room.finished",
                          "recording.started", "recording.completed", "report.completed",
                          "listener.session.started", "listener.session.left",
                          "listener.session.heartbeat_received",
                          "listener.session.expired", "speaker.requested"}
<1>1. PublishesFor(Untargeted, r, Nobody) \/ PublishesFor(Untargeted, r, u)
  BY DEF PublishesFor, Publish, CreateRoom, StartRoom, FinishRoom, StartRecording,
         StopRecording, GenerateReport, JoinRoom, ListenerSessionEvent, RequestToSpeak
<1>2. sent' \subseteq EventRecords /\ LawfulTokens' /\ TargetsNamed' /\ tokens' = tokens
  <2>1. Untargeted \subseteq EventTypes /\ Untargeted \cap ToTarget = {}
    BY DEF ToTarget, ToAdmins, EventTypes
  <2> HIDE DEF Untargeted
  <2> QED BY <1>1, <2>1, Publishing
<1>3. /\ roomStatus' \in [Rooms -> {"absent", "draft", "live", "finished"}]
      /\ sessions' \subseteq Users \X Rooms /\ recorded' \subseteq Rooms
      /\ pending' \subseteq Users \X Rooms
      /\ UNCHANGED <<approved, blocked>>
  BY DEF AccessInv, AccessTypeOK, CreateRoom, StartRoom, FinishRoom, StartRecording,
         StopRecording, GenerateReport, JoinRoom, ListenerSessionEvent, RequestToSpeak,
         speakingVars
<1> QED BY <1>2, <1>3 DEF AccessInv, AccessTypeOK, EventRecords

\* The operations that name another user.
LEMMA ModerationKeepsInv ==
    ASSUME NEW a \in Users, NEW u \in Users, NEW r \in Rooms, AccessInv,
           \/ DecideSpeakerRequest(a, u, r) \/ RevokeOrRemove(a, u, r)
           \/ BlockSpeaking(a, u, r) \/ UnblockSpeaking(a, u, r)
    PROVE  AccessInv'
<1>1. PublishesFor(ToTarget, r, u)
  BY DEF ToTarget, PublishesFor, Publish,
         DecideSpeakerRequest, RevokeOrRemove, BlockSpeaking, UnblockSpeaking
<1>2. sent' \subseteq EventRecords /\ LawfulTokens' /\ TargetsNamed' /\ tokens' = tokens
  <2>1. ToTarget \subseteq EventTypes
    BY DEF EventTypes
  <2> QED BY <1>1, <2>1, Publishing
<1>3. /\ UNCHANGED <<roomStatus, sessions, recorded>>
      /\ pending' \subseteq pending
      /\ approved' \subseteq approved \cup {<<u, r>>}
      /\ blocked' \subseteq blocked \cup {<<u, r>>}
  BY DEF DecideSpeakerRequest, RevokeOrRemove, BlockSpeaking, UnblockSpeaking, speakingVars
<1> QED BY <1>2, <1>3 DEF AccessInv, AccessTypeOK, EventRecords

LEMMA AccessInductive == AccessInv /\ [AccessNext]_accessVars => AccessInv'
<1> SUFFICES ASSUME AccessInv, [AccessNext]_accessVars PROVE AccessInv'
  OBVIOUS
<1>1. CASE \E u \in Users, c \in Channels : RealtimeSubscriptionToken(u, c)
  BY <1>1, TokensKeepInv
<1>2. ASSUME NEW u \in Users, NEW r \in Rooms,
             \/ CreateRoom(u, r) \/ StartRoom(u, r) \/ FinishRoom(u, r)
             \/ StartRecording(u, r) \/ StopRecording(u, r) \/ GenerateReport(u, r)
             \/ JoinRoom(u, r) \/ ListenerSessionEvent(u, r) \/ RequestToSpeak(u, r)
      PROVE  AccessInv'
  BY <1>2, RoomCallsKeepInv
<1>3. ASSUME NEW u \in Users, NEW r \in Rooms, NEW v \in Users,
             \/ DecideSpeakerRequest(u, v, r) \/ RevokeOrRemove(u, v, r)
             \/ BlockSpeaking(u, v, r) \/ UnblockSpeaking(u, v, r)
      PROVE  AccessInv'
  BY <1>3, ModerationKeepsInv
<1>4. CASE \E e \in sent : Dispatch(e)
  BY <1>4 DEF Dispatch, AccessInv, AccessTypeOK, LawfulTokens, TargetsNamed, speakingVars
<1>5. CASE UNCHANGED accessVars
  BY <1>5 DEF accessVars, AccessInv, AccessTypeOK, LawfulTokens, TargetsNamed, speakingVars
<1> QED BY <1>1, <1>2, <1>3, <1>4, <1>5 DEF AccessNext

\* Whoever listens on the channels handed to him hears what concerns him and
\* nothing else, and is granted all of them (realtimeDescriptor,
\* authorizeChannel, Resolve).
THEOREM ConcernedHear == AccessSpec => []HeardByThoseConcerned
<1>1. AccessSpec => []AccessInv
  BY AccessStarts, AccessInductive, PTL DEF AccessSpec
<1>2. AccessInv => HeardByThoseConcerned
  <2> SUFFICES ASSUME AccessInv PROVE HeardByThoseConcerned
    OBVIOUS
  <2>1. ASSUME NEW u \in Users, NEW r \in Rooms, roomStatus[r] # "absent",
               NEW c \in RealtimeDescriptor(u, r)
        PROVE  AuthorizeChannel(u, c)
    BY <2>1 DEF RealtimeDescriptor, AuthorizeChannel, RoomChannel, AdminsChannel, UserChannel
  <2>2. ASSUME NEW e \in sent, NEW u \in Users, Resolve(e) \in tokens[u]
        PROVE  u \in Concerned(e)
    <3>1. CASE e.type \in ToTarget
      <4>1. UserChannel(e.target) = UserChannel(u)
        BY <2>2, <3>1 DEF Resolve, AccessInv, LawfulTokens, UserChannel
      <4> QED BY <3>1, <4>1 DEF Concerned, UserChannel
    <3>2. CASE e.type \notin ToTarget /\ e.type \in ToAdmins
      BY <2>2, <3>2 DEF Resolve, Concerned, AccessInv, LawfulTokens, AdminsChannel
    <3>3. CASE e.type \notin ToTarget /\ e.type \notin ToAdmins
      BY <3>3 DEF Concerned
    <3> QED BY <3>1, <3>2, <3>3
  <2>3. ASSUME NEW e \in sent, NEW u \in Concerned(e), Listens(u, e.room)
        PROVE  u \in Users /\ Resolve(e) \in tokens[u]
    <3>0. e.room \in Rooms
      BY DEF AccessInv, AccessTypeOK
    <3>1. CASE e.type \in ToTarget
      BY <2>3, <3>1 DEF Concerned, Listens, RealtimeDescriptor, Resolve, AccessInv, TargetsNamed
    <3>2. CASE e.type \notin ToTarget /\ e.type \in ToAdmins
      <4>1. u \in Moderators[e.room] /\ u \in Users
        BY <3>0, <3>2, ChannelAssumption DEF Concerned
      <4> QED BY <2>3, <3>2, <4>1
              DEF Listens, RealtimeDescriptor, Resolve, ResolveRole, CanModerate
    <3>3. CASE e.type \notin ToTarget /\ e.type \notin ToAdmins
      BY <2>3, <3>3 DEF Concerned, Listens, RealtimeDescriptor, Resolve
    <3> QED BY <3>1, <3>2, <3>3
  <2> QED BY <2>1, <2>2, <2>3 DEF HeardByThoseConcerned, Receivers, AccessInv
<1> QED BY <1>1, <1>2, PTL

=============================================================================
