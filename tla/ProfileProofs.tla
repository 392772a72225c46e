---------------------------- MODULE ProfileProofs ----------------------------
(* What UserProfiles keeps, proved for any number of handlers and values.   *)
EXTENDS UserProfiles, TLAPS

(* The copy of a handler at work agrees with the store in every field it    *)
(* does not set and that is not raced; so its save brings nothing old back. *)
CopiesCurrent ==
    \A h \in Handlers : op[h] # "idle" =>
        \A f \in Fields \ (raced \cup Sets[op[h]]) : copy[h][f] = stored[f]

ProfileInv == TypeOK /\ UpdatesKept /\ CopiesCurrent

LEMMA UpdateFields == \A u \in Updates : Sets[u] \subseteq Fields
BY DEF Updates, Sets, Fields

LEMMA InitInv == Init => ProfileInv
BY DEF Init, ProfileInv, TypeOK, UpdatesKept, CopiesCurrent, NoCopy, Profiles

(* Reading the profile changes neither the store nor the histories, and the *)
(* new copy is the store's but in the fields that the update sets.          *)
LEMMA ReadKeepsInv ==
    ASSUME ProfileInv, NEW h \in Handlers, NEW u \in Updates, NEW new,
           \A f \in Sets[u] : new[f] \in Values \cup {Default, Blank},
           ReadAndChange(h, u, new)
    PROVE  ProfileInv'
<1> DEFINE changed == [f \in Fields |-> IF f \in Sets[u] THEN new[f] ELSE stored[f]]
<1>1. changed \in Profiles
  BY DEF ProfileInv, TypeOK, Profiles
<1>2. op' = [op EXCEPT ![h] = u] /\ copy' = [copy EXCEPT ![h] = changed]
  BY DEF ReadAndChange
<1>3. u # "idle"
  BY DEF Updates, Sets
<1>4. TypeOK'
  <2> HIDE DEF changed
  <2> QED BY <1>1, <1>2, <1>3 DEF ProfileInv, TypeOK, ReadAndChange
<1>5. UpdatesKept'
  BY DEF ProfileInv, UpdatesKept, ReadAndChange
<1>6. CopiesCurrent'
  <2> SUFFICES ASSUME NEW g \in Handlers, op'[g] # "idle",
                      NEW f \in Fields, f \notin raced', f \notin Sets[op'[g]]
               PROVE  copy'[g][f] = stored'[f]
    BY DEF CopiesCurrent
  <2>1. CASE g = h
    BY <1>2, <2>1 DEF ProfileInv, TypeOK, ReadAndChange
  <2>2. CASE g # h
    BY <1>2, <2>2 DEF ProfileInv, TypeOK, CopiesCurrent, ReadAndChange
  <2> QED BY <2>1, <2>2
<1> QED BY <1>4, <1>5, <1>6 DEF ProfileInv

(* A save with nobody else at work stores a copy that is current; one that  *)
(* overlaps marks its fields as raced for those who hold an older copy.     *)
LEMMA SaveKeepsInv ==
    ASSUME ProfileInv, NEW h \in Handlers, Save(h)
    PROVE  ProfileInv'
<1>1. op[h] \in Updates /\ Sets[op[h]] \subseteq Fields
  BY UpdateFields DEF ProfileInv, TypeOK, Save
<1>2. copy[h] \in Profiles /\ stored' = copy[h]
  BY DEF ProfileInv, TypeOK, Save
<1>3. op' = [op EXCEPT ![h] = "idle"] /\ copy' = [copy EXCEPT ![h] = NoCopy]
  BY DEF Save, Return
<1>4. NoCopy \in Profiles
  BY DEF NoCopy, Profiles
<1>5. TypeOK'
  <2>1. asked' \in Profiles
    BY <1>1, <1>2 DEF ProfileInv, TypeOK, Profiles, Save
  <2>2. raced' \subseteq Fields
    BY <1>1 DEF ProfileInv, TypeOK, Save
  <2>3. \A g \in Handlers : op'[g] = "idle" => copy'[g] = NoCopy
    BY <1>3 DEF ProfileInv, TypeOK
  <2> QED BY <1>2, <1>3, <1>4, <2>1, <2>2, <2>3 DEF ProfileInv, TypeOK
<1>6. UpdatesKept'
  <2> SUFFICES ASSUME NEW f \in Fields, f \notin raced'
               PROVE  stored'[f] = asked'[f]
    BY DEF UpdatesKept
  <2>1. CASE f \in Sets[op[h]]
    BY <2>1 DEF Save
  <2>2. CASE f \notin Sets[op[h]]
    <3>1. f \notin raced
      BY <2>2 DEF Save
    <3>2. copy[h][f] = stored[f] /\ stored[f] = asked[f]
      BY <2>2, <3>1 DEF ProfileInv, CopiesCurrent, UpdatesKept, Save
    <3> QED BY <2>2, <3>2 DEF Save
  <2> QED BY <2>1, <2>2
<1>7. CopiesCurrent'
  <2> SUFFICES ASSUME NEW g \in Handlers, op'[g] # "idle",
                      NEW f \in Fields, f \notin raced', f \notin Sets[op'[g]]
               PROVE  copy'[g][f] = stored'[f]
    BY DEF CopiesCurrent
  <2>1. g # h /\ op[g] # "idle" /\ op'[g] = op[g] /\ copy'[g] = copy[g]
    BY <1>3 DEF ProfileInv, TypeOK
  <2>2. f \notin raced /\ f \notin Sets[op[h]]
    BY <2>1 DEF Save, OthersAtWork
  <2>3. copy[g][f] = stored[f] /\ copy[h][f] = stored[f]
    BY <2>1, <2>2 DEF ProfileInv, CopiesCurrent, Save
  <2> QED BY <1>2, <2>1, <2>3
<1> QED BY <1>5, <1>6, <1>7 DEF ProfileInv

LEMMA NextKeepsInv == ProfileInv /\ [Next]_vars => ProfileInv'
<1> SUFFICES ASSUME ProfileInv, [Next]_vars PROVE ProfileInv'
  OBVIOUS
<1>1. CASE UNCHANGED vars
  BY <1>1 DEF vars, ProfileInv, TypeOK, UpdatesKept, CopiesCurrent
<1>2. ASSUME NEW h \in Handlers, RemoveAvatar(h) PROVE ProfileInv'
  BY <1>2, ReadKeepsInv DEF RemoveAvatar, Updates, Sets
<1>3. ASSUME NEW h \in Handlers, NEW v \in Values, UpdateProfile(h, v) PROVE ProfileInv'
  <2> PICK b \in Values \cup {Blank} :
          \/ ReadAndChange(h, "rename", [name |-> v, bio |-> b])
          \/ ReadAndChange(h, "describe", [bio |-> b])
    BY <1>3 DEF UpdateProfile
  <2>1. CASE ReadAndChange(h, "rename", [name |-> v, bio |-> b])
    BY <2>1, ReadKeepsInv DEF Updates, Sets
  <2>2. CASE ReadAndChange(h, "describe", [bio |-> b])
    BY <2>2, ReadKeepsInv DEF Updates, Sets
  <2> QED BY <2>1, <2>2
<1>4. ASSUME NEW h \in Handlers, NEW v \in Values, UpdateAvatar(h, v) PROVE ProfileInv'
  BY <1>4, ReadKeepsInv DEF UpdateAvatar, Updates, Sets
<1>5. ASSUME NEW h \in Handlers, NEW v \in Values, UpdateDeviceSettings(h, v)
      PROVE  ProfileInv'
  BY <1>5, ReadKeepsInv DEF UpdateDeviceSettings, Updates, Sets
<1>6. ASSUME NEW h \in Handlers, Save(h) PROVE ProfileInv'
  BY <1>6, SaveKeepsInv
<1> QED BY <1>1, <1>2, <1>3, <1>4, <1>5, <1>6 DEF Next

(* No update of a profile is undone, for any number of handlers and values, *)
(* but in fields that were saved while another handler held its copy        *)
(* (updateUserProfile and the other profile handlers).                      *)
THEOREM UpdatesAreKept == Spec => []UpdatesKept
<1>1. ProfileInv => UpdatesKept
  BY DEF ProfileInv
<1> QED BY <1>1, InitInv, NextKeepsInv, PTL DEF Spec
=============================================================================
