------------------------------ MODULE ReplayLife ------------------------------
(***************************************************************************)
(* What the review of replays promises to whoever reads the dead letter    *)
(* queue, without requests, consumers and events: a verdict stands once it *)
(* is given, and it takes effect once, at one moment, on its dead letter.  *)
(***************************************************************************)
EXTENDS Naturals

CONSTANTS Letter, NoLetter, Item

VARIABLES
  letter,    \* dead_letters.replay_state
  replays,   \* how often the delivery was reopened
  review,    \* whether a review is open, or how it ended
  of,        \* the dead letter of a review
  asked      \* dead letters under review whose submit is not through

vars == <<letter, replays, review, of, asked>>

Verdict == {"approved", "rejected", "cancelled"}

Init ==
  /\ letter = [l \in Letter |-> "pending"]
  /\ replays = [l \in Letter |-> 0]
  /\ review = [i \in Item |-> "none"]
  /\ of = [i \in Item |-> NoLetter]
  /\ asked = {}

Ask(l) ==
  /\ letter[l] = "pending"
  /\ letter' = [letter EXCEPT ![l] = "under_review"]
  /\ asked' = asked \cup {l}
  /\ UNCHANGED <<replays, review, of>>

\* The submit that asked fails, with or without taking that back.
GiveUp(l) ==
  /\ l \in asked
  /\ asked' = asked \ {l}
  /\ \/ UNCHANGED letter
     \/ letter[l] = "under_review" /\ letter' = [letter EXCEPT ![l] = "pending"]
  /\ UNCHANGED <<replays, review, of>>

\* By the submit that asked, or by somebody else.
Review(i, l) ==
  /\ review[i] = "none"
  /\ review' = [review EXCEPT ![i] = "open"]
  /\ of' = [of EXCEPT ![i] = l]
  /\ asked' \in {asked, asked \ {l}}
  /\ UNCHANGED <<letter, replays>>

Rule(i, v) ==
  /\ review[i] = "open"
  /\ review' = [review EXCEPT ![i] = v]
  /\ UNCHANGED <<letter, replays, of, asked>>

\* A review of l has ended with v.
Ruled(l, v) == \E i \in Item : of[i] = l /\ review[i] = v

Replay(l) ==
  /\ letter[l] = "under_review" /\ Ruled(l, "approved")
  /\ letter' = [letter EXCEPT ![l] = "replayed"]
  /\ replays' = [replays EXCEPT ![l] = @ + 1]
  /\ UNCHANGED <<review, of, asked>>

Close(l) ==
  /\ letter[l] = "under_review" /\ (Ruled(l, "rejected") \/ Ruled(l, "cancelled"))
  /\ letter' = [letter EXCEPT ![l] = "cancelled"]
  /\ UNCHANGED <<replays, review, of, asked>>

Next ==
  \/ \E l \in Letter :
       \/ Ask(l) \/ GiveUp(l) \/ Replay(l) \/ Close(l)
       \/ \E i \in Item : Review(i, l)
  \/ \E i \in Item, v \in Verdict \cup {"expired"} : Rule(i, v)

Spec == Init /\ [][Next]_vars

=============================================================================
