---------------------------- MODULE MCAsyncJobs ----------------------------
(* AsyncJobs for TLC: its job documents seen as the verdicts of JobContract.*)
EXTENDS AsyncJobs

Verdict(j) == CASE status[j] = "absent"      -> "none"
                [] status[j] = "completed"   -> "done"
                [] status[j] = "dead_letter" -> "dead"
                [] OTHER                     -> "open"

Contract == INSTANCE JobContract WITH
                verdict <- [j \in JobIds |-> Verdict(j)],
                tries   <- attempts,
                ran     <- ran,
                late    <- overran

(* The store and the workers keep the contract: every step is a step of     *)
(* JobContract, under the reading of job documents given by Verdict.        *)
KeepsContract == Contract!Spec

=============================================================================
