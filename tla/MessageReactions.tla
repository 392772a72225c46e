------------------------- MODULE MessageReactions -------------------------
(***************************************************************************)
(* The reactions of the client's two chats: a thumb (like or dislike) and  *)
(* an emoji, at most one of each by the user, on counts that include what  *)
(* others reacted.  Both chats compute them with the same two helpers.     *)
(***************************************************************************)
EXTENDS Integers

CONSTANTS Emojis,     \* the quick reactions other than the two thumbs
          NoReaction  \* the user has not reacted

Thumbs == {"like", "dislike"}

ASSUME ReactionAssumption ==
    NoReaction \notin Emojis \cup Thumbs /\ Emojis \cap Thumbs = {}

QuickReactions == Thumbs \cup Emojis

\* The counts of one kind of reaction and the one the user gave.
Tallies(R) == [counts : [R -> Nat], own : R \cup {NoReaction}]

Reactions == [thumbs : Tallies(Thumbs), emoji : Tallies(Emojis)]

NoTally(R) == [counts |-> [r \in R |-> 0], own |-> NoReaction]

\* The reactions of a message that already has some likes.
Liked(likes) ==
    [thumbs |-> [counts |-> [r \in Thumbs |-> IF r = "like" THEN likes ELSE 0],
                 own    |-> NoReaction],
     emoji  |-> NoTally(Emojis)]

\* Math.max(0, count - 1)
OneLess(n) == IF n = 0 THEN 0 ELSE n - 1

\* The reaction that is replaced keeps its count.
ToggleKeepsOld(t, r) ==
    [counts |-> [t.counts EXCEPT ![r] = IF t.own = r THEN OneLess(@) ELSE @ + 1],
     own    |-> IF t.own = r THEN NoReaction ELSE r]

\* Taking r back, or replacing the user's reaction by r.
Toggle(t, r) ==
    [counts |-> [x \in DOMAIN t.counts |->
                    IF x = t.own THEN OneLess(t.counts[x])
                    ELSE IF x = r THEN t.counts[x] + 1
                    ELSE t.counts[x]],
     own    |-> IF t.own = r THEN NoReaction ELSE r]

React(m, r) ==
    IF r \in Thumbs THEN [m EXCEPT !.thumbs = Toggle(@, r)]
                    ELSE [m EXCEPT !.emoji = Toggle(@, r)]

\* The buttons under a bubble: the thumbs, and the emojis somebody used.
Tray(m) == Thumbs \cup {e \in Emojis : m.emoji.counts[e] > 0}

Reacted(m) == m.thumbs.own # NoReaction \/ m.emoji.own # NoReaction

\* What the others reacted.
Others(t) ==
    [x \in DOMAIN t.counts |-> t.counts[x] - (IF x = t.own THEN 1 ELSE 0)]

\* A message on which only the user can have reacted since it had its likes.
AddsUp(m, likes) ==
    /\ Others(m.thumbs) = [r \in Thumbs |-> IF r = "like" THEN likes ELSE 0]
    /\ Others(m.emoji) = [e \in Emojis |-> 0]

===========================================================================
