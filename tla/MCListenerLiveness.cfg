\* Two sessions of two users, two calls at work at a time, sweeps of one
\* session each; no symmetry, since a liveness property is checked.
CONSTANTS
    u1 = u1  u2 = u2  s1 = s1  s2 = s2
    Users = {u1, u2}
    Sessions = {s1, s2}
    OwnerOf <- MCOwnerOf
    Calls = {c1, c2}
    NoSession = NoSession
    ExpireLimit = 1
    MaxFaults = 0
SPECIFICATION FairSpec
PROPERTIES
    SilentListenersEnd
\* A finished room whose sessions have all ended is at rest.
CHECK_DEADLOCK FALSE
