--------------------------- MODULE ReplayReviewProps ---------------------------
(***************************************************************************)
(* What the review of a replay promises, whatever the interleaving of      *)
(* requests, consumers and crashes.                                        *)
(***************************************************************************)
EXTENDS ReplayReview

\* The consumer is run while its event is open: Outbox settles every event.
FairSpec == Spec /\ \A i \in Item : WF_vars(Consume(i)) /\ WF_vars(Park(i))

\* Code behaviour: the status guards of db/review_items.py:167-207 and the
\* follow-ups of the API and the consumer (review_items.py:917-1108,
\* review_consumer.py:188-288).  A dead letter is replayed, or its replay
\* cancelled, only on the verdict of a review of that dead letter that still
\* stands.
ReplayNeedsApproval ==
  \A l \in Letter :
    /\ replayState[l] = "replayed" =>
         \E i \in Item : target[i] = l /\ status[i] = "approved"
    /\ replayState[l] = "cancelled" =>
         \E i \in Item : target[i] = l /\ status[i] \in {"rejected", "cancelled"}

\* Code behaviour: both the request and the consumer replay an approved dead
\* letter, and the consumer may run more than once (review_consumer.py:320-
\* 364).  The delivery is set back to pending exactly once.
ReplaysOnce ==
  \A l \in Letter : reopened[l] = IF replayState[l] = "replayed" THEN 1 ELSE 0

\* r has put l under review and has not created its item.
Holds(r, l) == at[r] \in {"create", "undo"} /\ about[r] = l

Life == INSTANCE ReplayLife
          WITH letter <- replayState, replays <- reopened, of <- target,
               review <- [i \in Item |-> IF status[i] \in {"pending", "in_review"}
                                         THEN "open" ELSE status[i]],
               asked <- {l \in Letter : \E r \in Request : Holds(r, l)}

\* Code behaviour: the guards of every update of review_items and dead_letters
\* (db/review_items.py:167-207, db/dead_letters.py:179-187,
\* review_consumer.py:188-364).  Requests of several transactions, batches,
\* crashes and a consumer that repeats them implement reviews whose verdicts
\* stand and take effect once, at one moment (ReplayLife).
VerdictsTakeEffectOnce == Life!Spec

\* db/dead_letters.py:224-225, "the same dead letter cannot get two parallel
\* replay reviews".
NoParallelReviews == \A l \in Letter : \A i, j \in Active(l) : i = j

\* Code behaviour: the check of submit_dead_letter_replay is made before the
\* state is changed, in another transaction (dead_letters.py:193-213).  As
\* long as reviews are created by it alone, there is one per dead letter.
SubmitsDoNotRace == ~DirectCreate => NoParallelReviews

\* Someone will settle l: a request at work on it, a review that does not
\* expire, or the consumer.
Attended(l) ==
  \/ \E r \in Request : Carries(r, l)
  \/ \E i \in Item :
       /\ target[i] = l
       /\ (status[i] \in {"pending", "in_review"} /\ ~expires[i]) \/ event[i] = "open"

\* Code behaviour: a submit and a verdict go through up to three transactions
\* (dead_letters.py:193-247, review_items.py:324-643, 693-909).  A dead letter
\* under review can still be settled unless it has been dropped: its submit
\* died after marking it (dead_letters.py:213), its single verdict died before
\* the event was published (review_items.py:357), its batch verdict died or
\* raised before it was carried out (review_items.py:704), or the event was
\* parked.  No other crash, failure or expiry leaves it with nobody, and an
\* event in the way of the missing column events.updated_at does so by being
\* parked.
Settleable ==
  \A l \in Letter : replayState[l] = "under_review" => l \in dropped \/ Attended(l)

\* The dead letter of i is still waiting for a verdict.
Waits(i) == status[i] # "none" /\ UnderReview(target[i])

\* review_consumer.py:20-22, "guarantees eventual execution even if the API
\* process crashes after writing the event but before completing the inline
\* action": what a published verdict calls for happens, or a human is told.
VerdictIsExecuted ==
  \A i \in Item :
    event[i] = "open" ~> ~Waits(i) \/ event[i] = "parked"

\* The same sentence, taken at its word.
VerdictIsCertain ==
  \A i \in Item : event[i] = "open" ~> ~Waits(i)

----------------------------------------------------------------------------
(* The inductive invariant (ReplayReviewProofs).                            *)

\* What a request remembers.
RequestsRemember ==
  \A r \in Request :
    /\ at[r] \in {"mark", "create", "undo", "open"} => about[r] \in Letter
    /\ at[r] \notin {"publish", "inline", "batch", "follow"} => decided[r] = {}
    /\ at[r] \in {"publish", "inline"} => \A i, j \in decided[r] : i = j
    /\ at[r] \in {"publish", "inline", "batch", "follow"} => verdict[r] \in Verdict
    /\ \A i \in decided[r] : status[i] = verdict[r]

\* An item that has an event is decided; one that does not exist has no expiry.
ItemsAgree ==
  \A i \in Item :
    /\ event[i] # "absent" => status[i] \in Verdict
    /\ status[i] = "none" => ~expires[i]

\* One submit at a time has a dead letter under review without an item.
OneHolder ==
  /\ \A r, s \in Request, l \in Letter : Holds(r, l) /\ Holds(s, l) => r = s
  /\ \A r \in Request, l \in Letter : Holds(r, l) => replayState[l] # "pending"

\* Only submits create reviews: none for a pending dead letter, none while the
\* submit that holds it is on its way, and one at most.
OneSubmit ==
  \A l \in Letter :
    /\ \A r \in Request : Holds(r, l) => replayState[l] = "under_review"
    /\ \A r \in Request, i \in Item : Holds(r, l) => target[i] # l
    /\ \A i \in Item : replayState[l] = "pending" => target[i] # l
    /\ \A i, j \in Item : target[i] = l /\ target[j] = l => i = j

\* A verdict is given, and published, by one request.
DecidedOnce ==
  /\ \A r, q \in Request : r # q => decided[r] \cap decided[q] = {}
  /\ \A r \in Request : at[r] = "publish" => \A i \in decided[r] : event[i] = "absent"

\* Code behaviour: as for the properties above.  The invariant they follow from.
IInv ==
  /\ TypeOK
  /\ RequestsRemember
  /\ ItemsAgree
  /\ ReplayNeedsApproval
  /\ ReplaysOnce
  /\ OneHolder
  /\ ~DirectCreate => OneSubmit
  /\ DecidedOnce
  /\ Settleable

=============================================================================
