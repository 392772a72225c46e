\* Two sessions of two users, three calls (API requests or job handlers) at
\* work at a time, sweeps of one session each, and one call cut short.
CONSTANTS
    u1 = u1  u2 = u2  s1 = s1  s2 = s2
    Users = {u1, u2}
    Sessions = {s1, s2}
    OwnerOf <- MCOwnerOf
    Calls = {c1, c2, c3}
    NoSession = NoSession
    ExpireLimit = 1
    MaxFaults = 1
SPECIFICATION Spec
SYMMETRY Symmetry
INVARIANTS
    PresenceMatchesStore
    FinishedRoomDrains
PROPERTIES
    EndedStaysEnded
    OnlyStaleExpire
\* A finished room whose sessions have all ended is at rest.
CHECK_DEADLOCK FALSE
