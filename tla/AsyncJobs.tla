------------------------------ MODULE AsyncJobs ------------------------------
(***************************************************************************)
(* The background-job queue: the job store (internal/core/async/           *)
(* memory_store.go and internal/infra/mongo/async_job_store.go) and the    *)
(* runner's worker goroutines (internal/core/async/runner.go).             *)
(*                                                                         *)
(* A worker goroutine claims a job (one atomic store call), runs its       *)
(* handler, and settles the job with a second store call.  Between the two *)
(* calls other workers act, time passes, and the process may stop.         *)
(*                                                                         *)
(* Instants are kept relative to the present: runIn is runAfter - now,     *)
(* never below 0, and lockLeft is lockedUntil - now, never below -1; the   *)
(* code compares instants only with the present, so nothing else is        *)
(* observed.  A claim reads the clock and calls the store in one step.     *)
(***************************************************************************)
EXTENDS Integers, FiniteSets

CONSTANTS
    Workers,            \* worker goroutines, of one process or of several
    JobIds,             \* ids handed out by ids.New
    Keys,               \* idempotency keys
    NoJob,              \* "no job": an empty map entry, an idle worker
    MaxAttempts,        \* JobMaxAttempts
    VisibilityTimeout,  \* how long a claim locks a job
    RetryBaseDelay, RetryMaxDelay,
    MaxFaults           \* bound: crashes, failed store writes and overruns

ASSUME ConstantsAssumption ==
    /\ IsFiniteSet(Workers)
    /\ NoJob \notin JobIds
    /\ MaxAttempts \in Nat \ {0}
    /\ VisibilityTimeout \in Nat \ {0}
    /\ RetryBaseDelay \in Nat \ {0}
    /\ RetryMaxDelay \in Nat \ {0}
    /\ MaxFaults \in Nat

VARIABLES
    driver,     \* the storage driver the processes were configured with
    status,     \* job -> its status, "absent" while it is not in the store
    key,        \* job -> its idempotency key
    attempts,   \* job -> how often it was claimed
    runIn,      \* job -> runAfter, relative to the present
    lockLeft,   \* job -> lockedUntil, relative to the present
    byIDKey,    \* idempotency key -> the job its index entry names
    phase,      \* worker -> where it is in processOnce
    held,       \* worker -> the job it claimed
    copied,     \* worker -> the attempts in its copy of the job document
    ran,        \* history: jobs whose handler has returned nil
    overran,    \* history: jobs whose lock ended under a running handler
    reclaimed,  \* history: job -> claims that took it over while "running"
    faults      \* how many faults happened, for the bound

storeVars  == <<status, key, attempts, runIn, lockLeft, byIDKey>>
workerVars == <<phase, held, copied>>
history    == <<ran, overran, reclaimed, faults>>
vars       == <<driver, storeVars, workerVars, history>>

Statuses == {"absent", "pending", "running", "completed", "retrying",
             "dead_letter"}
Settled(j) == status[j] \in {"completed", "dead_letter"}
Busy(w) == phase[w] # "idle"
Holds(w, j) == Busy(w) /\ held[w] = j

TypeOK ==
    /\ driver \in {"mongo", "memory"}
    /\ status \in [JobIds -> Statuses]
    /\ key \in [JobIds -> Keys \cup {NoJob}]
    /\ attempts \in [JobIds -> Nat]
    /\ runIn \in [JobIds -> Nat]
    /\ lockLeft \in [JobIds -> Int]
    /\ byIDKey \in [Keys -> JobIds \cup {NoJob}]
    /\ phase \in [Workers -> {"idle", "handling", "succeeded", "failed"}]
    /\ held \in [Workers -> JobIds \cup {NoJob}]
    /\ copied \in [Workers -> Nat]
    /\ \A w \in Workers : Busy(w) => held[w] \in JobIds
    /\ ran \subseteq JobIds
    /\ overran \subseteq JobIds
    /\ reclaimed \in [JobIds -> Nat]
    /\ faults \in Nat

Init ==
    /\ driver \in {"mongo", "memory"}
    /\ status = [j \in JobIds |-> "absent"]
    /\ key = [j \in JobIds |-> NoJob]
    /\ attempts = [j \in JobIds |-> 0]
    /\ runIn = [j \in JobIds |-> 0]
    /\ lockLeft = [j \in JobIds |-> 0]
    /\ byIDKey = [k \in Keys |-> NoJob]
    /\ phase = [w \in Workers |-> "idle"]
    /\ held = [w \in Workers |-> NoJob]
    /\ copied = [w \in Workers |-> 0]
    /\ ran = {} /\ overran = {} /\ faults = 0
    /\ reclaimed = [j \in JobIds |-> 0]

-----------------------------------------------------------------------------
(* Enqueue.  A duplicate key returns nil and changes nothing: MongoDB's     *)
(* unique index refuses it always, the memory store unless the job it finds *)
(* is dead-lettered.                                                        *)

AcceptsAll(k) == k \in Keys            \* mutant: replaces whatever holds the key

Accepts(k) ==
    byIDKey[k] # NoJob =>
        driver = "memory" /\ status[byIDKey[k]] = "dead_letter"

Enqueue(j, k) ==
    /\ status[j] = "absent"
    /\ Accepts(k)
    /\ status' = [status EXCEPT ![j] = "pending"]
    /\ key' = [key EXCEPT ![j] = k]
    /\ byIDKey' = [byIDKey EXCEPT ![k] = j]
    /\ UNCHANGED <<driver, attempts, runIn, lockLeft, workerVars, history>>

-----------------------------------------------------------------------------
(* One pass of processOnce.                                                 *)

(* Mutants of ReadyToClaim: the lock is taken to end at lockedUntil, not    *)
(* after it; a job whose lock ended is never taken over; the filter forgets *)
(* the status of jobs that are not locked.                                  *)
EagerReclaim(j) ==
    runIn[j] = 0 /\ (\/ status[j] \in {"pending", "retrying"}
                     \/ status[j] = "running" /\ lockLeft[j] <= 0)
NoReclaim(j) == runIn[j] = 0 /\ status[j] \in {"pending", "retrying"}
StatusBlind(j) ==
    runIn[j] = 0 /\ (\/ status[j] \notin {"absent", "running"}
                     \/ status[j] = "running" /\ lockLeft[j] < 0)

ReadyToClaim(j) ==
    /\ runIn[j] = 0
    /\ \/ status[j] \in {"pending", "retrying"}
       \/ status[j] = "running" /\ lockLeft[j] < 0

ClaimNext(w, j) ==
    /\ phase[w] = "idle"
    /\ ReadyToClaim(j)
    /\ status' = [status EXCEPT ![j] = "running"]
    /\ attempts' = [attempts EXCEPT ![j] = @ + 1]
    /\ lockLeft' = [lockLeft EXCEPT ![j] = VisibilityTimeout]
    /\ phase' = [phase EXCEPT ![w] = "handling"]
    /\ held' = [held EXCEPT ![w] = j]
    /\ copied' = [copied EXCEPT ![w] = attempts[j] + 1]
    /\ reclaimed' = IF status[j] = "running"
                    THEN [reclaimed EXCEPT ![j] = @ + 1] ELSE reclaimed
    /\ UNCHANGED <<driver, key, runIn, byIDKey, ran, overran, faults>>

HandlerSucceeds(w) ==
    /\ phase[w] = "handling"
    /\ phase' = [phase EXCEPT ![w] = "succeeded"]
    /\ ran' = ran \cup {held[w]}
    /\ UNCHANGED <<driver, storeVars, held, copied, overran, reclaimed, faults>>

HandlerFails(w) ==
    /\ phase[w] = "handling"
    /\ phase' = [phase EXCEPT ![w] = "failed"]
    /\ UNCHANGED <<driver, storeVars, held, copied, history>>

(* Back to the loop of the goroutine.                                       *)
Release(w) ==
    /\ phase' = [phase EXCEPT ![w] = "idle"]
    /\ held' = [held EXCEPT ![w] = NoJob]
    /\ copied' = [copied EXCEPT ![w] = 0]

(* Every settling write names the job by its id alone: neither the status   *)
(* nor the lock of the document is compared with what the worker claimed.   *)
Settle(w, newStatus, delay) ==
    /\ status' = [status EXCEPT ![held[w]] = newStatus]
    /\ runIn' = [runIn EXCEPT ![held[w]] = delay]
    /\ lockLeft' = [lockLeft EXCEPT ![held[w]] = 0]
    /\ Release(w)
    /\ UNCHANGED <<driver, key, attempts, byIDKey, history>>

Complete(w) ==
    /\ phase[w] = "succeeded"
    /\ Settle(w, "completed", runIn[held[w]])

(* base << min(attempt - 1, 10), no more than RetryMaxDelay.                *)
PowersOfTwo == <<1, 2, 4, 8, 16, 32, 64, 128, 256, 512, 1024>>
RetryDelay(attempt) ==
    LET shift == IF attempt <= 10 THEN attempt - 1 ELSE 10
        delay == RetryBaseDelay * PowersOfTwo[shift + 1]
    IN  IF attempt <= 0 THEN RetryBaseDelay
        ELSE IF delay > RetryMaxDelay THEN RetryMaxDelay ELSE delay

OneTooMany(w) == copied[w] > MaxAttempts     \* mutant: off by one

Exhausted(w) == copied[w] >= MaxAttempts

Retry(w) ==
    /\ phase[w] = "failed"
    /\ ~Exhausted(w)
    /\ Settle(w, "retrying", RetryDelay(copied[w]))

(* Both values of DeadLetterEnabled make the same store call.               *)
DeadLetter(w) ==
    /\ phase[w] = "failed"
    /\ Exhausted(w)
    /\ Settle(w, "dead_letter", runIn[held[w]])

(* The settling write returns an error: it is logged and the worker goes on.*)
SettleFails(w) ==
    /\ phase[w] \in {"succeeded", "failed"}
    /\ faults < MaxFaults
    /\ faults' = faults + 1
    /\ Release(w)
    /\ UNCHANGED <<driver, storeVars, ran, overran, reclaimed>>

-----------------------------------------------------------------------------
(* The worker's process stops and is started again; the memory store is in  *)
(* that process and would be lost with it, so only MongoDB's jobs survive.  *)
Crash(w) ==
    /\ driver = "mongo"
    /\ Busy(w)
    /\ faults < MaxFaults
    /\ faults' = faults + 1
    /\ Release(w)
    /\ UNCHANGED <<driver, storeVars, ran, overran, reclaimed>>

(* The jobs whose lock ends now although a worker still handles them.       *)
Overrunning == {j \in JobIds : /\ status[j] = "running" /\ lockLeft[j] = 0
                               /\ \E w \in Workers : Holds(w, j)}

Tick ==
    /\ Overrunning # {} => faults < MaxFaults
    /\ faults' = IF Overrunning = {} THEN faults ELSE faults + 1
    /\ overran' = overran \cup Overrunning
    /\ runIn' = [j \in JobIds |-> IF runIn[j] = 0 THEN 0 ELSE runIn[j] - 1]
    /\ lockLeft' = [j \in JobIds |->
                      IF status[j] = "running" /\ lockLeft[j] >= 0
                      THEN lockLeft[j] - 1 ELSE lockLeft[j]]
    /\ UNCHANGED <<driver, status, key, attempts, byIDKey, workerVars, ran, reclaimed>>

-----------------------------------------------------------------------------
Claim == \E w \in Workers, j \in JobIds : ClaimNext(w, j)

Finish(w) == HandlerSucceeds(w) \/ HandlerFails(w)
                \/ Complete(w) \/ Retry(w) \/ DeadLetter(w)

Next ==
    \/ \E j \in JobIds, k \in Keys : Enqueue(j, k)
    \/ Claim
    \/ \E w \in Workers : Finish(w) \/ SettleFails(w) \/ Crash(w)
    \/ Tick

Spec == Init /\ [][Next]_vars

(* The poll ticker of every worker keeps firing, handlers return and time   *)
(* passes; nothing is assumed of what handlers return, nor that any job is  *)
(* ever enqueued.                                                           *)
Fairness ==
    /\ WF_vars(Claim)
    /\ \A w \in Workers : WF_vars(Finish(w))
    /\ WF_vars(Tick)

FairSpec == Spec /\ Fairness

-----------------------------------------------------------------------------
(* Two workers never handle the same job at once, unless a handler of that  *)
(* job was still running when its lock ended (ClaimNext, readyToClaim).     *)
ExclusiveLease ==
    \A w1, w2 \in Workers : \A j \in JobIds :
        Holds(w1, j) /\ Holds(w2, j) /\ w1 # w2 => j \in overran

(* A completed or dead-lettered job keeps that status for ever, unless a    *)
(* handler of it outlived its lock: only such a handler's Complete, Retry   *)
(* or DeadLetter, which carry no lock owner, can reopen or overwrite it.    *)
SettledForGood ==
    [][\A j \in JobIds : Settled(j) /\ j \notin overran'
                            => status'[j] = status[j]]_vars

(* A job is claimed at most MaxAttempts times, and once more for each claim *)
(* that was lost while "running": ClaimNext never looks at the attempts,    *)
(* only fail does, and it looks at the copy of one claim.                   *)
AttemptsBudget ==
    \A j \in JobIds : attempts[j] <= MaxAttempts + reclaimed[j]

(* Of the jobs with one idempotency key only the one the index names can be *)
(* live or completed; the others are dead-lettered, or a late write of a    *)
(* handler that outlived its lock revived them.                             *)
OneJobPerKey ==
    \A j \in JobIds :
        status[j] # "absent" /\ byIDKey[key[j]] # j
            => status[j] = "dead_letter" \/ j \in overran

(* Every job that was enqueued comes to rest: after the last fault it is    *)
(* completed or dead-lettered, and stays so.                                *)
EveryJobSettles ==
    \A j \in JobIds : status[j] = "pending" ~> [](Settled(j))
=============================================================================
