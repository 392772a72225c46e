----------------------------- MODULE JobContract -----------------------------
(***************************************************************************)
(* What the background-job queue promises whoever enqueues a job, without  *)
(* locks, workers or delays: a job is tried until it has run or has been   *)
(* tried MaxAttempts times; it is done only if its handler ran to the end; *)
(* and a verdict is final, except for a job that is "late", one of whose   *)
(* handlers was still running when its lock ended.                         *)
(***************************************************************************)
EXTENDS Integers

CONSTANTS JobIds, MaxAttempts

VARIABLES
    verdict,  \* job -> "none", "open", "done" or "dead"
    tries,    \* job -> how often it was tried
    ran,      \* jobs whose handler ran to the end at least once
    late      \* jobs whose verdict is not final

vars == <<verdict, tries, ran, late>>

Init ==
    /\ verdict = [j \in JobIds |-> "none"]
    /\ tries = [j \in JobIds |-> 0]
    /\ ran = {} /\ late = {}

Submit(j) ==
    /\ verdict[j] = "none"
    /\ verdict' = [verdict EXCEPT ![j] = "open"]
    /\ UNCHANGED <<tries, ran, late>>

Try(j) ==
    /\ verdict[j] = "open"
    /\ tries' = [tries EXCEPT ![j] = @ + 1]
    /\ UNCHANGED <<verdict, ran, late>>

(* A handler that is late may end after the verdict.                        *)
RunToEnd(j) ==
    /\ tries[j] > 0
    /\ verdict[j] = "open" \/ j \in late
    /\ ran' = ran \cup {j}
    /\ UNCHANGED <<verdict, tries, late>>

Finish(j) ==
    /\ verdict[j] = "open" \/ j \in late
    /\ j \in ran
    /\ verdict' = [verdict EXCEPT ![j] = "done"]
    /\ UNCHANGED <<tries, ran, late>>

GiveUp(j) ==
    /\ verdict[j] = "open" \/ j \in late
    /\ tries[j] >= MaxAttempts
    /\ verdict' = [verdict EXCEPT ![j] = "dead"]
    /\ UNCHANGED <<tries, ran, late>>

Reopen(j) ==
    /\ j \in late
    /\ verdict' = [verdict EXCEPT ![j] = "open"]
    /\ UNCHANGED <<tries, ran, late>>

(* Only a job that is being tried can become late.                          *)
BecomeLate(S) ==
    /\ \A j \in S : tries[j] > 0 /\ (verdict[j] = "open" \/ j \in late)
    /\ late' = late \cup S
    /\ UNCHANGED <<verdict, tries, ran>>

Next ==
    \/ \E j \in JobIds : \/ Submit(j) \/ Try(j) \/ RunToEnd(j) \/ Finish(j)
                         \/ GiveUp(j) \/ Reopen(j)
    \/ \E S \in SUBSET JobIds : BecomeLate(S)

Spec == Init /\ [][Next]_vars
=============================================================================
