\* Two requests at work at a time, two recordings.
CONSTANTS
    Requests = {q1, q2}
    Recordings = {r1, r2}
    NoRecording = NoRecording
SPECIFICATION Spec
SYMMETRY Symmetry
INVARIANTS
    RecordingsTracked
    FinishQueuesJobs
PROPERTIES
    LifecycleOrder
\* A finished room without recordings is at rest.
CHECK_DEADLOCK FALSE
