\* Three events, one of them without a channel, two dispatchers, and two
\* faults: the partition may move twice, back to the dispatcher it came from.
CONSTANTS
    Events = {e1, e2, e3}
    e1 = e1  e2 = e2  e3 = e3
    Routed = {e1, e2}
    Dispatchers = {d1, d2}
    NoDispatcher = NoDispatcher
    MaxFaults = 2
SPECIFICATION FairSpec
INVARIANTS
    NoSilentLoss
    FirstSeenInOrder
PROPERTIES
    AcknowledgedArrives
\* When every event has been published and handled the system is at rest.
CHECK_DEADLOCK FALSE
