--------------------------- MODULE AsyncJobsProofs ---------------------------
(***************************************************************************)
(* Theorems about AsyncJobs for every set of workers, jobs and keys, every *)
(* limit and delay, and any number of faults.                              *)
(*                                                                         *)
(* The invariant that carries the safety results is LeaseInv: a worker     *)
(* that handles a job which never outlived its lock is the one that made   *)
(* the job's latest claim, and the lock of that claim still stands.  The   *)
(* last section shows that the queue implements JobContract.               *)
(***************************************************************************)
EXTENDS MCAsyncJobs, FiniteSetTheorems, TLAPS

(* Every retry delay is a number of ticks, whatever the attempt.            *)
LEMMA RetryDelayIsNat ==
    ASSUME NEW n \in Nat
    PROVE  RetryDelay(n) \in Nat
<1>1. \A i \in 1..11 : PowersOfTwo[i] \in Nat
  BY DEF PowersOfTwo
<1>2. CASE n = 0
  BY <1>2, ConstantsAssumption DEF RetryDelay
<1>3. CASE n > 0
  <2>1. (IF n <= 10 THEN n - 1 ELSE 10) + 1 \in 1..11
    BY <1>3
  <2>2. PICK i \in 1..11 : i = (IF n <= 10 THEN n - 1 ELSE 10) + 1
    BY <2>1
  <2>3. RetryBaseDelay * PowersOfTwo[i] \in Nat
    BY <1>1, ConstantsAssumption
  <2> QED
    BY <1>3, <2>2, <2>3, ConstantsAssumption DEF RetryDelay
<1> QED
  BY <1>2, <1>3

-----------------------------------------------------------------------------
(* Type correctness.                                                        *)

LEMMA TypeStep == TypeOK /\ [Next]_vars => TypeOK'
<1> SUFFICES ASSUME TypeOK, [Next]_vars PROVE TypeOK'
  OBVIOUS
<1> USE DEF TypeOK, Statuses, Busy
<1>1. ASSUME NEW j \in JobIds, NEW k \in Keys, Enqueue(j, k) PROVE TypeOK'
  BY <1>1 DEF Enqueue, workerVars, history
<1>2. ASSUME NEW w \in Workers, NEW j \in JobIds, ClaimNext(w, j)
      PROVE  TypeOK'
  BY <1>2, ConstantsAssumption DEF ClaimNext
<1>3. ASSUME NEW w \in Workers, HandlerSucceeds(w) \/ HandlerFails(w)
      PROVE  TypeOK'
  BY <1>3 DEF HandlerSucceeds, HandlerFails, storeVars, history
<1>4. ASSUME NEW w \in Workers, Complete(w) \/ DeadLetter(w) PROVE TypeOK'
  <2>1. held[w] \in JobIds /\ runIn[held[w]] \in Nat
    BY <1>4 DEF Complete, DeadLetter
  <2> QED
    BY <1>4, <2>1 DEF Complete, DeadLetter, Settle, Release, history
<1>5. ASSUME NEW w \in Workers, Retry(w) PROVE TypeOK'
  <2>1. held[w] \in JobIds /\ RetryDelay(copied[w]) \in Nat
    BY <1>5, RetryDelayIsNat DEF Retry
  <2> QED
    BY <1>5, <2>1 DEF Retry, Settle, Release, history
<1>6. ASSUME NEW w \in Workers, SettleFails(w) \/ Crash(w) PROVE TypeOK'
  BY <1>6 DEF SettleFails, Crash, Release, storeVars
<1>7. CASE Tick
  <2>1. Overrunning \subseteq JobIds
    BY DEF Overrunning
  <2> QED
    BY <1>7, <2>1 DEF Tick, workerVars
<1>8. CASE UNCHANGED vars
  BY <1>8 DEF vars, storeVars, workerVars, history
<1> QED
  BY <1>1, <1>2, <1>3, <1>4, <1>5, <1>6, <1>7, <1>8
     DEF Next, Claim, Finish

(* Every variable of the job store and of the workers keeps its type in     *)
(* every behaviour of the queue.                                            *)
THEOREM TypeCorrect == Spec => []TypeOK
<1>1. Init => TypeOK
  BY DEF Init, TypeOK, Statuses, Busy
<1> QED
  BY <1>1, TypeStep, PTL DEF Spec


-----------------------------------------------------------------------------
(* The lease.                                                               *)

LeaseInv ==
    /\ \A w \in Workers :
          Busy(w) /\ held[w] \notin overran =>
              status[held[w]] = "running" /\ lockLeft[held[w]] >= 0
    /\ ExclusiveLease

LEMMA LeaseStep == TypeOK /\ LeaseInv /\ [Next]_vars => LeaseInv'
<1> SUFFICES ASSUME TypeOK, LeaseInv, [Next]_vars PROVE LeaseInv'
  OBVIOUS
<1> USE DEF LeaseInv, ExclusiveLease, Holds, Busy
<1>1. ASSUME NEW j \in JobIds, NEW k \in Keys, Enqueue(j, k) PROVE LeaseInv'
  BY <1>1 DEF TypeOK, Enqueue, workerVars, history
<1>2. ASSUME NEW w \in Workers, NEW j \in JobIds, ClaimNext(w, j)
      PROVE  LeaseInv'
  <2>1. \A v \in Workers : Holds(v, j) => j \in overran
    BY <1>2 DEF TypeOK, ClaimNext, ReadyToClaim
  <2> QED
    BY <1>2, <2>1, ConstantsAssumption DEF TypeOK, ClaimNext
<1>3. ASSUME NEW w \in Workers, HandlerSucceeds(w) \/ HandlerFails(w)
      PROVE  LeaseInv'
  BY <1>3 DEF TypeOK, HandlerSucceeds, HandlerFails, storeVars, history
<1>4. ASSUME NEW w \in Workers, NEW s, NEW d, phase[w] # "idle",
             Settle(w, s, d)
      PROVE  LeaseInv'
  <2>1. \A v \in Workers : Holds(v, held[w]) /\ held[w] \notin overran => v = w
    BY <1>4 DEF TypeOK
  <2> QED
    BY <1>4, <2>1 DEF TypeOK, Settle, Release, history
<1>5. ASSUME NEW w \in Workers, SettleFails(w) \/ Crash(w) PROVE LeaseInv'
  BY <1>5 DEF TypeOK, SettleFails, Crash, Release, storeVars
<1>6. CASE Tick
  <2>1. ASSUME NEW w \in Workers, Busy(w), held[w] \notin overran'
        PROVE  lockLeft[held[w]] # 0
    BY <1>6, <2>1 DEF TypeOK, Tick, Overrunning
  <2> QED
    BY <1>6, <2>1 DEF TypeOK, Tick, workerVars
<1>7. CASE UNCHANGED vars
  BY <1>7 DEF vars, storeVars, workerVars, history
<1> QED
  BY <1>1, <1>2, <1>3, <1>4, <1>5, <1>6, <1>7
     DEF Next, Claim, Finish, Complete, Retry, DeadLetter

LEMMA LeaseAlways == Spec => [](TypeOK /\ LeaseInv)
<1>1. Init => TypeOK /\ LeaseInv
  BY DEF Init, TypeOK, Statuses, LeaseInv, ExclusiveLease, Holds, Busy
<1> QED
  BY <1>1, TypeStep, LeaseStep, PTL DEF Spec

(* Two workers never handle one job at once unless a handler of it outlived *)
(* its lock: the claim's filter alone keeps the others away.                *)
THEOREM LeaseIsExclusive == Spec => []ExclusiveLease
BY LeaseAlways, PTL DEF LeaseInv

(* A verdict on a job is final unless a handler of the job outlived its     *)
(* lock: without such a handler nobody is left who could settle it again.   *)
THEOREM SettledIsFinal == Spec => SettledForGood
<1>1. TypeOK /\ LeaseInv /\ [Next]_vars =>
        [\A j \in JobIds : Settled(j) /\ j \notin overran'
                               => status'[j] = status[j]]_vars
  <2> SUFFICES ASSUME TypeOK, LeaseInv, [Next]_vars,
                      NEW j \in JobIds, Settled(j), j \notin overran'
               PROVE  status'[j] = status[j]
    OBVIOUS
  <2> USE DEF Settled
  <2>1. ASSUME NEW i \in JobIds, NEW k \in Keys, Enqueue(i, k)
        PROVE  status'[j] = status[j]
    BY <2>1 DEF TypeOK, Enqueue
  <2>2. ASSUME NEW w \in Workers, NEW i \in JobIds, ClaimNext(w, i)
        PROVE  status'[j] = status[j]
    BY <2>2 DEF TypeOK, ClaimNext, ReadyToClaim
  <2>3. ASSUME NEW w \in Workers, NEW s, NEW d, phase[w] # "idle",
               Settle(w, s, d)
        PROVE  status'[j] = status[j]
    <3>1. j \notin overran
      BY <2>3 DEF Settle, history
    <3>2. held[w] # j
      BY <2>3, <3>1 DEF TypeOK, LeaseInv, Busy
    <3> QED
      BY <2>3, <3>2 DEF TypeOK, Settle
  <2> QED
    BY <2>1, <2>2, <2>3
       DEF Next, Claim, Finish, Complete, Retry, DeadLetter, HandlerSucceeds,
           HandlerFails, SettleFails, Crash, Tick, storeVars, vars
<1> QED
  BY <1>1, LeaseAlways, PTL DEF Spec, SettledForGood


-----------------------------------------------------------------------------
(* Idempotency keys.                                                        *)

KeyInv ==
    /\ \A j \in JobIds : status[j] # "absent" =>
            key[j] \in Keys /\ byIDKey[key[j]] \in JobIds
    /\ \A k \in Keys : byIDKey[k] # NoJob =>
            status[byIDKey[k]] # "absent" /\ key[byIDKey[k]] = k
    /\ \A w \in Workers : Busy(w) => status[held[w]] # "absent"
    /\ OneJobPerKey

LEMMA KeyStep == TypeOK /\ LeaseInv /\ KeyInv /\ [Next]_vars => KeyInv'
<1> SUFFICES ASSUME TypeOK, LeaseInv, KeyInv, [Next]_vars PROVE KeyInv'
  OBVIOUS
<1> USE DEF KeyInv, OneJobPerKey, Busy
<1>1. ASSUME NEW j \in JobIds, NEW k \in Keys, Enqueue(j, k) PROVE KeyInv'
  BY <1>1, ConstantsAssumption
     DEF TypeOK, Enqueue, Accepts, workerVars, history
<1>2. ASSUME NEW w \in Workers, NEW j \in JobIds, ClaimNext(w, j)
      PROVE  KeyInv'
  BY <1>2 DEF TypeOK, ClaimNext, ReadyToClaim
<1>3. ASSUME NEW w \in Workers, HandlerSucceeds(w) \/ HandlerFails(w)
      PROVE  KeyInv'
  BY <1>3 DEF TypeOK, HandlerSucceeds, HandlerFails, storeVars, history
<1>4. ASSUME NEW w \in Workers, NEW s \in Statuses \ {"absent"}, NEW d,
             phase[w] # "idle", Settle(w, s, d)
      PROVE  KeyInv'
  <2>1. held[w] \in JobIds /\ status[held[w]] # "absent"
    BY <1>4 DEF TypeOK
  <2>2. byIDKey[key[held[w]]] = held[w] \/ held[w] \in overran
    BY <1>4, <2>1 DEF TypeOK, LeaseInv
  <2> QED
    BY <1>4, <2>1, <2>2 DEF TypeOK, Settle, Release, history
<1>5. ASSUME NEW w \in Workers, SettleFails(w) \/ Crash(w) PROVE KeyInv'
  BY <1>5 DEF TypeOK, SettleFails, Crash, Release, storeVars
<1>6. CASE Tick
  BY <1>6 DEF TypeOK, Tick, workerVars
<1>7. CASE UNCHANGED vars
  BY <1>7 DEF vars, storeVars, workerVars, history
<1> QED
  BY <1>1, <1>2, <1>3, <1>4, <1>5, <1>6, <1>7
     DEF Next, Claim, Finish, Complete, Retry, DeadLetter, Statuses

(* Enqueuing again under one idempotency key never leaves two jobs of that  *)
(* key in play: the memory store replaces a dead-lettered job only.         *)
THEOREM KeysAreIdempotent == Spec => []OneJobPerKey
<1>1. Init => KeyInv
  BY DEF Init, KeyInv, OneJobPerKey, Busy
<1>2. KeyInv => OneJobPerKey
  BY DEF KeyInv
<1> QED
  BY <1>1, <1>2, LeaseAlways, KeyStep, PTL DEF Spec

-----------------------------------------------------------------------------
(* How often a job is claimed.  A claim that does not take a running job    *)
(* over needs the job pending or retrying, and a job turns retrying only by *)
(* a handler whose own claim was not yet the MaxAttempts-th.  So the claims *)
(* made, the claim the present status allows, the handlers that may still   *)
(* call Retry and the claims below MaxAttempts still to come are together   *)
(* at most MaxAttempts; every step keeps the sum or lowers it.              *)

MayRetry(j) == {w \in Workers : Holds(w, j) /\ copied[w] < MaxAttempts}
MayClaim(j) == IF status[j] \in {"absent", "pending", "retrying"} THEN 1 ELSE 0
ToCome(j) == IF attempts[j] < MaxAttempts THEN MaxAttempts - 1 - attempts[j]
             ELSE 0

BudgetInv ==
    \A j \in JobIds :
        (attempts[j] - reclaimed[j]) + MayClaim(j) + Cardinality(MayRetry(j))
            + ToCome(j) <= MaxAttempts

LEMMA RetriersAreFinite ==
    ASSUME NEW j \in JobIds
    PROVE  IsFiniteSet(MayRetry(j)) /\ Cardinality(MayRetry(j)) \in Nat
BY ConstantsAssumption, FS_Subset, FS_CardinalityType DEF MayRetry

(* A worker that returns to its loop is no longer one that may retry.       *)
LEMMA ReleaseRetriers ==
    ASSUME TypeOK, NEW w \in Workers, Busy(w), Release(w), NEW j \in JobIds
    PROVE  /\ MayRetry(j)' = MayRetry(j) \ {w}
           /\ Cardinality(MayRetry(j)') =
                 IF w \in MayRetry(j) THEN Cardinality(MayRetry(j)) - 1
                 ELSE Cardinality(MayRetry(j))
<1>1. MayRetry(j)' = MayRetry(j) \ {w}
  BY DEF TypeOK, MayRetry, Holds, Busy, Release
<1> QED
  BY <1>1, RetriersAreFinite, FS_RemoveElement

LEMMA BudgetStep ==
    TypeOK /\ KeyInv /\ BudgetInv /\ [Next]_vars => BudgetInv'
<1> SUFFICES ASSUME TypeOK, KeyInv, BudgetInv, [Next]_vars, NEW i \in JobIds
             PROVE  ((attempts[i] - reclaimed[i]) + MayClaim(i)
                      + Cardinality(MayRetry(i)) + ToCome(i) <= MaxAttempts)'
  BY DEF BudgetInv
<1> DEFINE Sum == (attempts[i] - reclaimed[i]) + MayClaim(i)
                    + Cardinality(MayRetry(i)) + ToCome(i)
<1>0. Sum <= MaxAttempts /\ Cardinality(MayRetry(i)) \in Nat
  BY RetriersAreFinite DEF BudgetInv
<1>1. ASSUME NEW j \in JobIds, NEW k \in Keys, Enqueue(j, k)
      PROVE  (Sum <= MaxAttempts)'
  <2>1. MayRetry(i)' = MayRetry(i)
    BY <1>1 DEF Enqueue, MayRetry, Holds, Busy, workerVars, history
  <2> QED
    BY <1>0, <1>1, <2>1
       DEF TypeOK, Enqueue, MayClaim, ToCome, workerVars, history
<1>2. ASSUME NEW w \in Workers, NEW j \in JobIds, ClaimNext(w, j)
      PROVE  (Sum <= MaxAttempts)'
  <2>1. CASE i # j
    <3>1. MayRetry(i)' = MayRetry(i)
      BY <1>2, <2>1 DEF TypeOK, ClaimNext, MayRetry, Holds, Busy
    <3> QED
      BY <1>0, <1>2, <2>1, <3>1 DEF TypeOK, ClaimNext, MayClaim, ToCome
  <2>2. CASE i = j /\ attempts[i] + 1 < MaxAttempts
    <3>1. MayRetry(i)' = MayRetry(i) \cup {w} /\ w \notin MayRetry(i)
      BY <1>2, <2>2 DEF TypeOK, ClaimNext, MayRetry, Holds, Busy
    <3>2. Cardinality(MayRetry(i)') = Cardinality(MayRetry(i)) + 1
      BY <3>1, RetriersAreFinite, FS_AddElement
    <3> QED
      BY <1>0, <1>2, <2>2, <3>2, ConstantsAssumption
         DEF TypeOK, ClaimNext, ReadyToClaim, MayClaim, ToCome
  <2>3. CASE i = j /\ attempts[i] + 1 >= MaxAttempts
    <3>1. MayRetry(i)' = MayRetry(i)
      BY <1>2, <2>3, ConstantsAssumption
         DEF TypeOK, ClaimNext, MayRetry, Holds, Busy
    <3> QED
      BY <1>0, <1>2, <2>3, <3>1, ConstantsAssumption
         DEF TypeOK, ClaimNext, ReadyToClaim, MayClaim, ToCome
  <2> QED
    BY <2>1, <2>2, <2>3, ConstantsAssumption DEF TypeOK
<1>3. ASSUME NEW w \in Workers, HandlerSucceeds(w) \/ HandlerFails(w)
      PROVE  (Sum <= MaxAttempts)'
  <2>1. MayRetry(i)' = MayRetry(i)
    BY <1>3 DEF TypeOK, HandlerSucceeds, HandlerFails, MayRetry, Holds, Busy
  <2> QED
    BY <1>0, <1>3, <2>1 DEF HandlerSucceeds, HandlerFails, MayClaim, ToCome,
                            storeVars, history
<1>4. ASSUME NEW w \in Workers, Complete(w) \/ DeadLetter(w)
      PROVE  (Sum <= MaxAttempts)'
  <2>1. Busy(w) /\ Release(w) /\ held[w] \in JobIds
    BY <1>4 DEF TypeOK, Busy, Complete, DeadLetter, Settle
  <2>2. MayClaim(i)' <= MayClaim(i)
    BY <1>4, <2>1 DEF TypeOK, Complete, DeadLetter, Settle, MayClaim
  <2>3. UNCHANGED <<attempts, reclaimed>> /\ ToCome(i)' = ToCome(i)
    BY <1>4 DEF Complete, DeadLetter, Settle, history, ToCome
  <2>4. Cardinality(MayRetry(i))' <= Cardinality(MayRetry(i))
    BY <1>0, <2>1, ReleaseRetriers
  <2> QED
    BY <1>0, <2>1, <2>2, <2>3, <2>4, ReleaseRetriers, ConstantsAssumption
       DEF TypeOK, MayClaim, ToCome
<1>5. ASSUME NEW w \in Workers, Retry(w) PROVE (Sum <= MaxAttempts)'
  <2>1. Busy(w) /\ Release(w) /\ held[w] \in JobIds
    BY <1>5 DEF TypeOK, Busy, Retry, Settle
  <2>2. UNCHANGED <<attempts, reclaimed>> /\ ToCome(i)' = ToCome(i)
    BY <1>5 DEF Retry, Settle, history, ToCome
  <2>3. CASE held[w] = i
    <3>1. w \in MayRetry(i)
      BY <1>5, <2>1, <2>3, ConstantsAssumption
         DEF TypeOK, Retry, Exhausted, MayRetry, Holds
    <3>2. Cardinality(MayRetry(i)') = Cardinality(MayRetry(i)) - 1
      BY <2>1, <3>1, ReleaseRetriers
    <3>3. MayClaim(i)' <= MayClaim(i) + 1
      BY DEF MayClaim
    <3> QED
      BY <1>0, <2>2, <3>2, <3>3, ConstantsAssumption
         DEF TypeOK, MayClaim, ToCome
  <2>4. CASE held[w] # i
    <3>1. MayClaim(i)' = MayClaim(i)
      BY <1>5, <2>1, <2>4 DEF TypeOK, Retry, Settle, MayClaim
    <3> QED
      BY <1>0, <2>1, <2>2, <3>1, ReleaseRetriers, ConstantsAssumption
         DEF TypeOK, MayClaim, ToCome
  <2> QED
    BY <2>3, <2>4
<1>6. ASSUME NEW w \in Workers, SettleFails(w) \/ Crash(w)
      PROVE  (Sum <= MaxAttempts)'
  <2>1. Busy(w) /\ Release(w)
    BY <1>6 DEF SettleFails, Crash, Busy
  <2> QED
    BY <1>0, <1>6, <2>1, ReleaseRetriers, ConstantsAssumption
       DEF TypeOK, SettleFails, Crash, MayClaim, ToCome, storeVars
<1>7. CASE Tick
  <2>1. MayRetry(i)' = MayRetry(i)
    BY <1>7 DEF Tick, MayRetry, Holds, Busy, workerVars
  <2> QED
    BY <1>0, <1>7, <2>1 DEF Tick, MayClaim, ToCome, workerVars
<1>8. CASE UNCHANGED vars
  <2>1. MayRetry(i)' = MayRetry(i)
    BY <1>8 DEF vars, workerVars, MayRetry, Holds, Busy
  <2> QED
    BY <1>0, <1>8, <2>1
       DEF vars, storeVars, workerVars, history, MayClaim, ToCome
<1> QED
  BY <1>1, <1>2, <1>3, <1>4, <1>5, <1>6, <1>7, <1>8 DEF Next, Claim, Finish

(* However handlers end, crash or outlive their locks, a job is claimed at  *)
(* most MaxAttempts times plus once per claim that took it over.            *)
THEOREM AttemptsAreBounded == Spec => []AttemptsBudget
<1>1. Init => TypeOK /\ KeyInv /\ BudgetInv
  <2>1. Init => TypeOK /\ KeyInv
    BY DEF Init, TypeOK, Statuses, KeyInv, OneJobPerKey, Busy
  <2>2. ASSUME Init, NEW j \in JobIds PROVE Cardinality(MayRetry(j)) = 0
    <3>1. MayRetry(j) = {}
      BY <2>2 DEF Init, MayRetry, Holds, Busy
    <3> QED
      BY <3>1, FS_EmptySet
  <2> QED
    BY <2>1, <2>2, ConstantsAssumption DEF Init, BudgetInv, MayClaim, ToCome
<1>2. TypeOK /\ BudgetInv => AttemptsBudget
  <2> SUFFICES ASSUME TypeOK, BudgetInv, NEW j \in JobIds
               PROVE  attempts[j] <= MaxAttempts + reclaimed[j]
    BY DEF AttemptsBudget
  <2> QED
    BY RetriersAreFinite, ConstantsAssumption
       DEF TypeOK, BudgetInv, MayClaim, ToCome
<1> QED
  BY <1>1, <1>2, LeaseAlways, KeyStep, BudgetStep, PTL DEF Spec

-----------------------------------------------------------------------------
(* The refinement: the job documents, read as verdicts, keep JobContract.   *)
(* What a worker does with its copy of the document agrees with the store   *)
(* since the copy is never ahead of it, and a handler is "succeeded" only   *)
(* once it has run.                                                         *)

CopyInv ==
    \A w \in Workers : Busy(w) =>
        /\ attempts[held[w]] > 0 /\ copied[w] <= attempts[held[w]]
        /\ phase[w] = "succeeded" => held[w] \in ran

verdicts == [j \in JobIds |-> Verdict(j)]

LEMMA CopyStep == TypeOK /\ CopyInv /\ [Next]_vars => CopyInv'
<1> SUFFICES ASSUME TypeOK, CopyInv, [Next]_vars PROVE CopyInv'
  OBVIOUS
<1> USE DEF CopyInv, Busy
<1>1. ASSUME NEW j \in JobIds, NEW k \in Keys, Enqueue(j, k) PROVE CopyInv'
  BY <1>1 DEF Enqueue, workerVars, history
<1>2. ASSUME NEW w \in Workers, NEW j \in JobIds, ClaimNext(w, j) PROVE CopyInv'
  <2>1. /\ attempts'[held'[w]] > 0 /\ copied'[w] <= attempts'[held'[w]]
        /\ phase'[w] = "handling"
    BY <1>2 DEF TypeOK, ClaimNext
  <2>2. ASSUME NEW v \in Workers \ {w}, phase'[v] # "idle"
        PROVE  /\ attempts'[held'[v]] > 0 /\ copied'[v] <= attempts'[held'[v]]
               /\ phase'[v] = "succeeded" => held'[v] \in ran'
    <3>1. /\ phase'[v] = phase[v] /\ held'[v] = held[v] /\ copied'[v] = copied[v]
          /\ ran' = ran
      BY <1>2 DEF TypeOK, ClaimNext
    <3>2. PICK i \in JobIds : i = held[v]
      BY <2>2, <3>1 DEF TypeOK
    <3>3. attempts'[i] = attempts[i] \/ attempts'[i] = attempts[i] + 1
      BY <1>2 DEF TypeOK, ClaimNext
    <3>4. attempts[i] \in Nat /\ copied[v] \in Nat
      BY DEF TypeOK
    <3>5. attempts[i] > 0 /\ copied[v] <= attempts[i]
      BY <2>2, <3>1, <3>2
    <3>6. attempts'[i] > 0 /\ copied[v] <= attempts'[i]
      BY <3>3, <3>4, <3>5
    <3> QED
      BY <2>2, <3>1, <3>2, <3>6
  <2> QED
    BY <2>1, <2>2
<1>3. ASSUME NEW w \in Workers, HandlerSucceeds(w) \/ HandlerFails(w) PROVE CopyInv'
  BY <1>3 DEF TypeOK, HandlerSucceeds, HandlerFails, storeVars, history
<1>4. ASSUME NEW w \in Workers, Release(w), UNCHANGED <<attempts, ran>> PROVE CopyInv'
  BY <1>4 DEF TypeOK, Release
<1>5. CASE Tick
  BY <1>5 DEF Tick, workerVars
<1>6. CASE UNCHANGED vars
  BY <1>6 DEF vars, storeVars, workerVars, history
<1> QED
  BY <1>1, <1>2, <1>3, <1>4, <1>5, <1>6
     DEF Next, Claim, Finish, Complete, Retry, DeadLetter, SettleFails, Crash, Settle,
         storeVars, history

(* A write of one status is a write of one verdict.                         *)
LEMMA OneVerdict ==
    ASSUME TypeOK, NEW j \in JobIds, NEW s, NEW v,
           status' = [status EXCEPT ![j] = s],
           v = CASE s = "absent"      -> "none"
                 [] s = "completed"   -> "done"
                 [] s = "dead_letter" -> "dead"
                 [] OTHER             -> "open"
    PROVE  verdicts' = [verdicts EXCEPT ![j] = v]
<1>1. \A i \in JobIds : status'[i] = IF i = j THEN s ELSE status[i]
  BY DEF TypeOK
<1>2. verdicts'[j] = v
  BY <1>1 DEF verdicts, Verdict
<1>3. \A i \in JobIds \ {j} : verdicts'[i] = verdicts[i]
  BY <1>1 DEF verdicts, Verdict
<1> QED
  BY <1>2, <1>3 DEF verdicts

(* A job that a worker holds has no verdict yet, or is late.                *)
HeldIsOpen ==
    \A w \in Workers : Busy(w) =>
        verdicts[held[w]] = "open" \/ held[w] \in overran

LEMMA HeldJobs == TypeOK /\ LeaseInv => HeldIsOpen
<1> SUFFICES ASSUME TypeOK, LeaseInv, NEW w \in Workers, Busy(w),
                    held[w] \notin overran
             PROVE  verdicts[held[w]] = "open"
  BY DEF HeldIsOpen
<1>1. held[w] \in JobIds /\ status[held[w]] = "running"
  BY DEF TypeOK, LeaseInv
<1> QED
  BY <1>1 DEF verdicts, Verdict

LEMMA ContractStep ==
    TypeOK /\ LeaseInv /\ CopyInv /\ [Next]_vars
        => [Contract!Next]_(Contract!vars)
<1> SUFFICES ASSUME TypeOK, LeaseInv, CopyInv, [Next]_vars
             PROVE  [Contract!Next]_(Contract!vars)
  OBVIOUS
<1>h. HeldIsOpen
  BY HeldJobs
<1> USE DEF Contract!vars, verdicts
<1>1. ASSUME NEW j \in JobIds, NEW k \in Keys, Enqueue(j, k)
      PROVE  Contract!Submit(j)
  <2>1. verdicts' = [verdicts EXCEPT ![j] = "open"]
    BY <1>1, OneVerdict DEF Enqueue
  <2>2. verdicts[j] = "none"
    BY <1>1 DEF Enqueue, Verdict
  <2> QED
    BY <1>1, <2>1, <2>2 DEF Enqueue, history, Contract!Submit
<1>2. ASSUME NEW w \in Workers, NEW j \in JobIds, ClaimNext(w, j)
      PROVE  Contract!Try(j)
  <2>1. verdicts' = [verdicts EXCEPT ![j] = "open"]
    BY <1>2, OneVerdict DEF ClaimNext
  <2>2. verdicts[j] = "open"
    BY <1>2 DEF ClaimNext, ReadyToClaim, Verdict
  <2>3. verdicts' = verdicts
    BY <2>1, <2>2
  <2> QED
    BY <1>2, <2>2, <2>3 DEF ClaimNext, Contract!Try
<1>3. ASSUME NEW w \in Workers, HandlerSucceeds(w)
      PROVE  \E j \in JobIds : Contract!RunToEnd(j)
  <2>1. held[w] \in JobIds /\ attempts[held[w]] > 0
        /\ (verdicts[held[w]] = "open" \/ held[w] \in overran)
    BY <1>3, <1>h DEF HeldIsOpen, HandlerSucceeds, TypeOK, CopyInv, Busy
  <2>2. verdicts' = verdicts
    BY <1>3 DEF HandlerSucceeds, storeVars, Verdict
  <2> QED
    BY <1>3, <2>1, <2>2 DEF HandlerSucceeds, storeVars, Contract!RunToEnd
<1>4. ASSUME NEW w \in Workers, Complete(w)
      PROVE  \E j \in JobIds : Contract!Finish(j)
  <2>1. held[w] \in JobIds /\ held[w] \in ran
        /\ (verdicts[held[w]] = "open" \/ held[w] \in overran)
    BY <1>4, <1>h DEF HeldIsOpen, Complete, TypeOK, CopyInv, Busy
  <2>2. verdicts' = [verdicts EXCEPT ![held[w]] = "done"]
    BY <1>4, <2>1, OneVerdict DEF Complete, Settle
  <2> QED
    BY <1>4, <2>1, <2>2 DEF Complete, Settle, history, Contract!Finish
<1>5. ASSUME NEW w \in Workers, DeadLetter(w)
      PROVE  \E j \in JobIds : Contract!GiveUp(j)
  <2>1. /\ held[w] \in JobIds /\ copied[w] <= attempts[held[w]]
        /\ (verdicts[held[w]] = "open" \/ held[w] \in overran)
    BY <1>5, <1>h DEF HeldIsOpen, DeadLetter, TypeOK, CopyInv, Busy
  <2>2. attempts[held[w]] >= MaxAttempts
    BY <1>5, <2>1, ConstantsAssumption DEF DeadLetter, Exhausted, TypeOK
  <2>3. verdicts' = [verdicts EXCEPT ![held[w]] = "dead"]
    BY <1>5, <2>1, OneVerdict DEF DeadLetter, Settle
  <2> QED
    BY <1>5, <2>1, <2>2, <2>3 DEF DeadLetter, Settle, history, Contract!GiveUp
<1>6. ASSUME NEW w \in Workers, Retry(w)
      PROVE  \/ \E j \in JobIds : Contract!Reopen(j)
             \/ UNCHANGED Contract!vars
  <2>1. held[w] \in JobIds
        /\ (verdicts[held[w]] = "open" \/ held[w] \in overran)
    BY <1>6, <1>h DEF HeldIsOpen, Retry, TypeOK, Busy
  <2>2. verdicts' = [verdicts EXCEPT ![held[w]] = "open"]
    BY <1>6, <2>1, OneVerdict DEF Retry, Settle
  <2>3. UNCHANGED <<attempts, ran, overran>>
    BY <1>6 DEF Retry, Settle, history
  <2>4. CASE held[w] \in overran
    BY <2>1, <2>2, <2>3, <2>4 DEF Contract!Reopen
  <2>5. CASE verdicts[held[w]] = "open"
    <3>1. verdicts' = verdicts
      BY <2>2, <2>5
    <3> QED
      BY <2>3, <3>1
  <2> QED
    BY <2>1, <2>4, <2>5
<1>7. ASSUME NEW w \in Workers, HandlerFails(w) \/ SettleFails(w) \/ Crash(w)
      PROVE  UNCHANGED Contract!vars
  BY <1>7 DEF HandlerFails, SettleFails, Crash, storeVars, history, Verdict
<1>8. ASSUME Tick PROVE \E S \in SUBSET JobIds : Contract!BecomeLate(S)
  <2>1. Overrunning \in SUBSET JobIds
    BY DEF Overrunning
  <2>2. \A j \in Overrunning : attempts[j] > 0 /\ verdicts[j] = "open"
    BY DEF Overrunning, Holds, CopyInv, Verdict
  <2>3. verdicts' = verdicts
    BY <1>8 DEF Tick, Verdict
  <2> QED
    BY <1>8, <2>1, <2>2, <2>3 DEF Tick, Contract!BecomeLate
<1>9. CASE UNCHANGED vars
  BY <1>9 DEF vars, storeVars, history, Verdict
<1> QED
  BY <1>1, <1>2, <1>3, <1>4, <1>5, <1>6, <1>7, <1>8, <1>9
     DEF Next, Claim, Finish, Contract!Next

(* The queue implements the contract it offers whoever enqueues a job: each *)
(* write of the store and each step of a worker is a step JobContract       *)
(* allows or leaves its variables alone, so a job is done only once its     *)
(* handler has run, is given up only after MaxAttempts tries, and changes   *)
(* its verdict only when one of its handlers outlived its lock.             *)
THEOREM QueueKeepsContract == Spec => KeepsContract
<1>1. Init => Contract!Init /\ TypeOK /\ LeaseInv /\ CopyInv
  BY DEF Init, TypeOK, Statuses, LeaseInv, ExclusiveLease, Holds, CopyInv, Busy,
         Contract!Init, Verdict
<1> QED
  BY <1>1, TypeStep, LeaseStep, CopyStep, ContractStep, PTL
     DEF Spec, KeepsContract, Contract!Spec
=============================================================================
