----------------------------- MODULE UserProfiles -----------------------------
(***************************************************************************)
(* The stored profile of one user, kept in the API's memory                *)
(* (internal/transport/http/router.go).  A handler copies the profile with *)
(* getStoredUserProfile, changes the fields of its request in the copy,    *)
(* and stores the whole copy with saveStoredUserProfile; each holds the    *)
(* mutex, but nothing does from the one to the other.                      *)
(*                                                                         *)
(* The default profile that the first read puts in place is there from the *)
(* start; what is stored besides the fields (the id, the time) follows     *)
(* from the call.                                                          *)
(***************************************************************************)
CONSTANTS
    Handlers,   \* handlers at work at a time
    Values,     \* what clients send
    Default, Blank

VARIABLES
    stored,     \* field -> its value in userProfiles
    op,         \* handler -> the update it performs, or "idle"
    copy,       \* handler -> its copy of the profile, changed as asked
    asked,      \* history: field -> the last value a save was asked to store
    raced       \* history: fields saved while another handler had its copy,
                \*   and not saved since with nobody else at work

vars == <<stored, op, copy, asked, raced>>

(* displayName and username are changed together here.                      *)
Fields == {"name", "bio", "avatar", "devices"}

(* The fields an update sets: a blank name leaves the stored one, a blank   *)
(* bio is stored.                                                           *)
Sets == [rename   |-> {"name", "bio"},
         describe |-> {"bio"},
         avatar   |-> {"avatar"},
         devices  |-> {"devices"}]

Updates == DOMAIN Sets
Profiles == [Fields -> Values \cup {Default, Blank}]
NoCopy == [f \in Fields |-> Default]

TypeOK ==
    /\ stored \in Profiles
    /\ op \in [Handlers -> Updates \cup {"idle"}]
    /\ copy \in [Handlers -> Profiles]
    /\ asked \in Profiles
    /\ raced \subseteq Fields
    /\ \A h \in Handlers : op[h] = "idle" => copy[h] = NoCopy

Init ==
    /\ stored = NoCopy
    /\ op = [h \in Handlers |-> "idle"]
    /\ copy = [h \in Handlers |-> NoCopy]
    /\ asked = NoCopy
    /\ raced = {}

(* Handler h performs update u with the values given by new.                *)
ReadAndChange(h, u, new) ==
    /\ op[h] = "idle"
    /\ op' = [op EXCEPT ![h] = u]
    /\ copy' = [copy EXCEPT ![h] =
                   [f \in Fields |-> IF f \in Sets[u] THEN new[f] ELSE stored[f]]]
    /\ UNCHANGED <<stored, asked, raced>>

(* Mutant of UpdateProfile: a name that is not sent is stored blank.        *)
BlankName(h, v) ==
    \E b \in Values \cup {Blank} :
        \/ ReadAndChange(h, "rename", [name |-> v, bio |-> b])
        \/ /\ op[h] = "idle"
           /\ op' = [op EXCEPT ![h] = "describe"]
           /\ copy' = [copy EXCEPT ![h] = [stored EXCEPT !.name = Blank, !.bio = b]]
           /\ UNCHANGED <<stored, asked, raced>>

UpdateProfile(h, v) ==
    \E b \in Values \cup {Blank} :
        \/ ReadAndChange(h, "rename", [name |-> v, bio |-> b])
        \/ ReadAndChange(h, "describe", [bio |-> b])

UpdateAvatar(h, v) == ReadAndChange(h, "avatar", [avatar |-> v])
RemoveAvatar(h) == ReadAndChange(h, "avatar", [avatar |-> Blank])
UpdateDeviceSettings(h, v) == ReadAndChange(h, "devices", [devices |-> v])

OthersAtWork(h) == \E g \in Handlers \ {h} : op[g] # "idle"

Return(h) ==
    /\ op' = [op EXCEPT ![h] = "idle"]
    /\ copy' = [copy EXCEPT ![h] = NoCopy]

Save(h) ==
    /\ op[h] # "idle"
    /\ stored' = copy[h]
    /\ asked' = [f \in Fields |-> IF f \in Sets[op[h]] THEN copy[h][f] ELSE asked[f]]
    /\ raced' = IF OthersAtWork(h) THEN raced \cup Sets[op[h]]
                ELSE raced \ Sets[op[h]]
    /\ Return(h)

Next ==
    \E h \in Handlers :
        \/ RemoveAvatar(h)
        \/ \E v \in Values : \/ UpdateProfile(h, v) \/ UpdateAvatar(h, v)
                             \/ UpdateDeviceSettings(h, v)
        \/ Save(h)

Spec == Init /\ [][Next]_vars

-----------------------------------------------------------------------------
(* The profile shows what was last asked for, field by field.  An answered  *)
(* update can be undone only in a field that was saved while another        *)
(* handler had already copied the profile, though that one was asked to     *)
(* change quite different fields.                                           *)
UpdatesKept == \A f \in Fields \ raced : stored[f] = asked[f]
=============================================================================
