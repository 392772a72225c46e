\* The claim of docs/events.md on committed offsets.
CONSTANTS
    Events = {e1, e2, e3}
    e1 = e1  e2 = e2  e3 = e3
    Routed = {e1, e2}
    Dispatchers = {d1, d2}
    NoDispatcher = NoDispatcher
    MaxFaults = 0
SPECIFICATION Spec
INVARIANTS
    CommitsOnlyAfterPublish
CHECK_DEADLOCK FALSE
