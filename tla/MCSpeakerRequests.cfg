\* One user, two requests and two blocks, three calls at work at a time, one
\* topic on which calls overlap or are cut short.  Every read and write of the
\* calls is of one user's documents: users do not meet.
CONSTANTS
    Users = {u1}
    Requests = {r1, r2}
    Blocks = {b1, b2}
    Calls = {c1, c2, c3}
    Nobody = Nobody
    NoDoc = NoDoc
    MaxSpoiled = 1
SPECIFICATION Spec
SYMMETRY Symmetry
INVARIANTS
    TokensFollowApproval
    OnePendingRequest
    ToldAsStored
PROPERTIES
    DecisionStands
    BlockedUsersWait
\* A finished room with nothing left to decide is at rest.
CHECK_DEADLOCK FALSE
