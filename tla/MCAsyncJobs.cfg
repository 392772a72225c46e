\* Two workers, two jobs that may share an idempotency key, both storage
\* drivers, and up to two faults (crash, failed store write, overrun).
CONSTANTS
    Workers = {w1, w2}
    JobIds = {j1, j2}
    Keys = {k1, k2}
    NoJob = NoJob
    MaxAttempts = 2
    VisibilityTimeout = 1
    RetryBaseDelay = 1
    RetryMaxDelay = 2
    MaxFaults = 2
SPECIFICATION FairSpec
INVARIANTS
    ExclusiveLease
    AttemptsBudget
    OneJobPerKey
PROPERTIES
    SettledForGood
    KeepsContract
    EveryJobSettles
