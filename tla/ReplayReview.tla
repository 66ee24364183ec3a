----------------------------- MODULE ReplayReview -----------------------------
(***************************************************************************)
(* Replaying a dead letter of Mneme takes a human review: a request is     *)
(* submitted, the review item is approved, rejected or cancelled, and the  *)
(* verdict is carried out twice, by the API request itself and by the      *)
(* consumer of the outbox event it publishes (api/routes/system/           *)
(* dead_letters.py, api/routes/memory/review_items.py, db/review_items.py, *)
(* db/dead_letters.py, worker/consumers/review_consumer.py).               *)
(*                                                                         *)
(* Every step of a request is a transaction of its own, so requests        *)
(* interleave between them and a crash of the API process leaves the rest  *)
(* undone.  The event of a verdict lives as EventLifecycle says, which     *)
(* Outbox implements; events and audit rows that nothing reads are left    *)
(* out, and so is what the replay does to the rows of the outbox (Reopen   *)
(* in Outbox).                                                             *)
(***************************************************************************)
EXTENDS Integers, FiniteSets

CONSTANTS
  Letter,         \* dead letters
  NoLetter,       \* the target of an item that does not exist
  Item,           \* review items, named by their idempotency keys
  Request,        \* threads that serve API requests
  HasUpdatedAt,   \* the table events has a column updated_at
  DirectCreate,   \* dlq_replay items are created with POST /review/items too
  MaxFaults       \* bound on crashes, failed retries and repeated deliveries

ASSUME ReplayReviewAssumption ==
  /\ NoLetter \notin Letter
  /\ HasUpdatedAt \in BOOLEAN
  /\ DirectCreate \in BOOLEAN
  /\ MaxFaults \in Nat

VARIABLES
  replayState,    \* dead_letters.replay_state
  reopened,       \* history: how often the delivery was set to pending, up to 2
  status,         \* review_items.status
  target,         \* review_items.target_id
  expires,        \* review_items.expires_at is set
  event,          \* stage of the outbox event of the verdict
  at,             \* where each request is
  about,          \* the dead letter a submit is about
  verdict,        \* the status a decision gives
  items,          \* the items a request is still to create or to decide
  decided,        \* the items whose verdict a request is still to carry out
  dropped,        \* history: dead letters under review that were left undone
  faults          \* faults so far

requests == <<at, about, verdict, items, decided>>
vars == <<replayState, reopened, status, target, expires, event, at, about,
          verdict, items, decided, dropped, faults>>

Verdict == {"approved", "rejected", "cancelled"}
Status == {"none", "pending", "in_review", "expired"} \cup Verdict
At == {"idle", "mark", "create", "undo", "open", "publish", "inline", "batch",
       "follow"}

TypeOK ==
  /\ replayState \in [Letter -> {"pending", "under_review", "replayed", "cancelled"}]
  /\ reopened \in [Letter -> 0..2]
  /\ status \in [Item -> Status]
  /\ target \in [Item -> Letter \cup {NoLetter}]
  /\ \A i \in Item : target[i] = NoLetter <=> status[i] = "none"
  /\ expires \in [Item -> BOOLEAN]
  /\ event \in [Item -> {"absent", "open", "delivered", "parked"}]
  /\ at \in [Request -> At]
  /\ about \in [Request -> Letter \cup {NoLetter}]
  /\ verdict \in [Request -> Verdict \cup {"none"}]
  /\ items \in [Request -> SUBSET Item]
  /\ decided \in [Request -> SUBSET Item]
  /\ dropped \subseteq Letter
  /\ faults \in 0..MaxFaults

Init ==
  /\ replayState = [l \in Letter |-> "pending"]
  /\ reopened = [l \in Letter |-> 0]
  /\ status = [i \in Item |-> "none"]
  /\ target = [i \in Item |-> NoLetter]
  /\ expires = [i \in Item |-> FALSE]
  /\ event = [i \in Item |-> "absent"]
  /\ at = [r \in Request |-> "idle"]
  /\ about = [r \in Request |-> NoLetter]
  /\ verdict = [r \in Request |-> "none"]
  /\ items = [r \in Request |-> {}]
  /\ decided = [r \in Request |-> {}]
  /\ dropped = {}
  /\ faults = 0

Fault ==
  /\ faults < MaxFaults
  /\ faults' = faults + 1

Goto(r, to) == at' = [at EXCEPT ![r] = to]

\* The response is sent, or the request fails, and nothing is remembered.
Return(r) ==
  /\ Goto(r, "idle")
  /\ about' = [about EXCEPT ![r] = NoLetter]
  /\ verdict' = [verdict EXCEPT ![r] = "none"]
  /\ items' = [items EXCEPT ![r] = {}]
  /\ decided' = [decided EXCEPT ![r] = {}]

\* r is at work on l, and should it end here nothing else would carry on: l is
\* under review without an item, or its verdict has no event the consumer
\* handles (the one of a batch is a review.batch_* event).
Carries(r, l) ==
  \/ at[r] \in {"create", "undo"} /\ about[r] = l
  \/ at[r] \in {"publish", "batch", "follow"} /\ \E i \in decided[r] : target[i] = l

\* r ends early.  The dead letters under review are dropped, until a later
\* verdict, or the undo of a submit, ends their review all the same.
Drop(r) ==
  dropped' = dropped \cup
    {l \in Letter : replayState[l] = "under_review" /\ Carries(r, l)}

KeepDropped == dropped' = {l \in dropped : replayState'[l] = "under_review"}

----------------------------------------------------------------------------
(* POST /admin/dead-letters/{id}/replay: submit_dead_letter_replay.         *)

\* Reviews that count_active_reviews_for_dead_letter counts.
Active(l) ==
  {i \in Item : target[i] = l /\ status[i] \notin {"rejected", "cancelled", "expired"}}

Submit(r, l, i) ==
  /\ at[r] = "idle"
  /\ replayState[l] = "pending"
  /\ Active(l) = {}
  /\ Goto(r, "mark")
  /\ about' = [about EXCEPT ![r] = l]
  /\ items' = [items EXCEPT ![r] = {i}]
  /\ UNCHANGED <<replayState, reopened, status, target, expires, event, verdict,
                 decided, dropped, faults>>

\* update_replay_state(pending -> under_review); 409 when someone was faster.
FreeAny(l) == replayState[l] # "replayed"    \* mutant: no expected_state
Free(l) == replayState[l] = "pending"

Mark(r) ==
  /\ at[r] = "mark"
  /\ IF Free(about[r])
     THEN /\ replayState' = [replayState EXCEPT ![about[r]] = "under_review"]
          /\ Goto(r, "create")
          /\ UNCHANGED <<about, verdict, items, decided>>
     ELSE /\ Return(r)
          /\ UNCHANGED replayState
  /\ UNCHANGED <<reopened, status, target, expires, event, dropped, faults>>

\* create_review_item; the idempotency key of the request may be taken.
Create(r, i) ==
  /\ at[r] = "create"
  /\ i \in items[r]
  /\ IF status[i] = "none"
     THEN /\ status' = [status EXCEPT ![i] = "pending"]
          /\ target' = [target EXCEPT ![i] = about[r]]
          /\ Goto(r, "open")
     ELSE /\ Goto(r, "undo")
          /\ UNCHANGED <<status, target>>
  /\ UNCHANGED <<replayState, reopened, expires, event, about, verdict, items,
                 decided, dropped, faults>>

\* update_replay_state(under_review -> pending) after an IntegrityError; 409.
UndoForgotten(r) ==                          \* mutant: it stays under review
  /\ at[r] = "undo"
  /\ Return(r)
  /\ UNCHANGED <<replayState, reopened, status, target, expires, event, dropped, faults>>

Undo(r) ==
  /\ at[r] = "undo"
  /\ replayState' = [replayState EXCEPT ![about[r]] =
                       IF @ = "under_review" THEN "pending" ELSE @]
  /\ KeepDropped
  /\ Return(r)
  /\ UNCHANGED <<reopened, status, target, expires, event, faults>>

\* move_to_in_review, whose result is ignored.
Open(r, i) ==
  /\ at[r] = "open"
  /\ i \in items[r]
  /\ status' = [status EXCEPT ![i] = IF @ = "pending" THEN "in_review" ELSE @]
  /\ Return(r)
  /\ UNCHANGED <<replayState, reopened, target, expires, event, dropped, faults>>

----------------------------------------------------------------------------
(* Review items.                                                            *)

\* POST /review/items takes any type and target, and an expiry.
CreateDirect(i, l) ==
  /\ DirectCreate
  /\ status[i] = "none"
  /\ status' = [status EXCEPT ![i] = "pending"]
  /\ target' = [target EXCEPT ![i] = l]
  /\ \E x \in BOOLEAN : expires' = [expires EXCEPT ![i] = x]
  /\ UNCHANGED <<replayState, reopened, event, requests, dropped, faults>>

\* POST /review/items/{id}/claim, and the batch claim.
Claim(i) ==
  /\ status[i] = "pending"
  /\ status' = [status EXCEPT ![i] = "in_review"]
  /\ UNCHANGED <<replayState, reopened, target, expires, event, requests, dropped, faults>>

\* check_expired_reviews; the consumer does nothing with review.expired.
Expire(i) ==
  /\ status[i] \in {"pending", "in_review"}
  /\ expires[i]
  /\ status' = [status EXCEPT ![i] = "expired"]
  /\ UNCHANGED <<replayState, reopened, target, expires, event, requests, dropped, faults>>

\* The WHERE of approve_review_item, reject_review_item, cancel_review_item.
DecideLate(i, v) == status[i] # "none"      \* mutant: no status in the WHERE
MayDecide(i, v) ==
  status[i] \in IF v = "cancelled" THEN {"pending", "in_review"} ELSE {"in_review"}

----------------------------------------------------------------------------
(* Carrying out a verdict: _execute_dlq_replay and _cancel_dlq_replay, in   *)
(* the API and in the consumer.                                             *)

ReplayAny(l) == replayState[l] # "pending"  \* mutant: replayed ones as well
UnderReview(l) == replayState[l] = "under_review"

\* The replay also sets events.updated_at.
Raises(l, v) == v = "approved" /\ UnderReview(l) /\ ~HasUpdatedAt

\* One transaction; a dead letter in any other state is left alone.
CarryOut(l, v) ==
  IF UnderReview(l) /\ ~Raises(l, v)
  THEN /\ replayState' = [replayState EXCEPT ![l] =
                            IF v = "approved" THEN "replayed" ELSE "cancelled"]
       /\ reopened' = [reopened EXCEPT ![l] =
                         IF v = "approved" /\ @ < 2 THEN @ + 1 ELSE @]
  ELSE UNCHANGED <<replayState, reopened>>

----------------------------------------------------------------------------
(* POST /review/items/{id}/approve, /reject and /cancel.                    *)

Decide(r, i, v) ==
  /\ at[r] = "idle"
  /\ MayDecide(i, v)
  /\ status' = [status EXCEPT ![i] = v]
  /\ Goto(r, "publish")
  /\ verdict' = [verdict EXCEPT ![r] = v]
  /\ decided' = [decided EXCEPT ![r] = {i}]
  /\ UNCHANGED <<replayState, reopened, target, expires, event, about, items, dropped, faults>>

\* The audit row and the outbox event, in a transaction of their own.
Publish(r, i) ==
  /\ at[r] = "publish"
  /\ i \in decided[r]
  /\ event' = [event EXCEPT ![i] = IF @ = "absent" THEN "open" ELSE @]
  /\ Goto(r, "inline")
  /\ UNCHANGED <<replayState, reopened, status, target, expires, about, verdict,
                 items, decided, dropped, faults>>

\* The follow-up of the request, which fails when the replay raises.
Inline(r, i) ==
  /\ at[r] = "inline"
  /\ i \in decided[r]
  /\ CarryOut(target[i], verdict[r])
  /\ KeepDropped
  /\ Return(r)
  /\ UNCHANGED <<status, target, expires, event, faults>>

----------------------------------------------------------------------------
(* POST /review/items/approve, /reject and /cancel: several items.          *)

BatchStart(r, S, v) ==
  /\ at[r] = "idle"
  /\ S # {}
  /\ Goto(r, "batch")
  /\ verdict' = [verdict EXCEPT ![r] = v]
  /\ items' = [items EXCEPT ![r] = S]
  /\ UNCHANGED <<replayState, reopened, status, target, expires, event, about,
                 decided, dropped, faults>>

\* Each item is decided, or skipped, in a transaction of its own.
BatchDecide(r, i) ==
  /\ at[r] = "batch"
  /\ i \in items[r]
  /\ items' = [items EXCEPT ![r] = @ \ {i}]
  /\ IF MayDecide(i, verdict[r])
     THEN /\ status' = [status EXCEPT ![i] = verdict[r]]
          /\ decided' = [decided EXCEPT ![r] = @ \cup {i}]
     ELSE UNCHANGED <<status, decided>>
  /\ Goto(r, IF items[r] = {i} THEN "follow" ELSE "batch")
  /\ UNCHANGED <<replayState, reopened, target, expires, event, about, verdict, dropped, faults>>

\* Then each verdict is carried out; the first that raises ends the request.
BatchFollow(r, i) ==
  /\ at[r] = "follow"
  /\ i \in decided[r]
  /\ CarryOut(target[i], verdict[r])
  /\ IF Raises(target[i], verdict[r])
     THEN Return(r) /\ Drop(r)
     ELSE /\ decided' = [decided EXCEPT ![r] = @ \ {i}]
          /\ KeepDropped
          /\ UNCHANGED <<at, about, verdict, items>>
  /\ UNCHANGED <<status, target, expires, event, faults>>

\* The events review.batch_* are committed; only the no-op consumer takes them.
BatchEnd(r) ==
  /\ at[r] = "follow" /\ decided[r] = {}
  /\ Return(r)
  /\ UNCHANGED <<replayState, reopened, status, target, expires, event, dropped, faults>>

\* The API process dies, or the database fails the request.
Crash(r) ==
  /\ at[r] # "idle"
  /\ Fault
  /\ Return(r)
  /\ Drop(r)
  /\ UNCHANGED <<replayState, reopened, status, target, expires, event>>

----------------------------------------------------------------------------
(* ReviewEventConsumer.dispatch, called by the dispatcher of the outbox.    *)

\* The verdicts that the consumer carries out.
ForgetsCancelled(i) == status[i] \in {"approved", "rejected"}    \* mutant
Handles(i) == status[i] \in Verdict

\* The consumer commits, then the delivery is acknowledged.
Consume(i) ==
  /\ event[i] = "open"
  /\ ~Raises(target[i], status[i])
  /\ IF Handles(i) THEN CarryOut(target[i], status[i])
                   ELSE UNCHANGED <<replayState, reopened>>
  /\ KeepDropped
  /\ event' = [event EXCEPT ![i] = "delivered"]
  /\ UNCHANGED <<status, target, expires, requests, faults>>

\* The worker dies in between, or another one that has lost the lease
\* delivers the event again: the consumer's transaction is all that happens.
ConsumeAgain(i) ==
  /\ event[i] \in {"open", "delivered"}
  /\ Fault
  /\ Handles(i)
  /\ CarryOut(target[i], status[i])
  /\ KeepDropped
  /\ UNCHANGED <<status, target, expires, event, requests>>

\* The event is parked once its retries are spent, on a consumer that raises
\* each time or on failures of another kind.
Park(i) ==
  /\ event[i] = "open"
  /\ (Raises(target[i], status[i]) /\ UNCHANGED faults) \/ Fault
  /\ event' = [event EXCEPT ![i] = "parked"]
  /\ dropped' = dropped \cup
       {l \in Letter : replayState[l] = "under_review" /\ target[i] = l}
  /\ UNCHANGED <<replayState, reopened, status, target, expires, requests>>

----------------------------------------------------------------------------

Next ==
  \/ \E r \in Request :
       \/ \E l \in Letter, i \in Item : Submit(r, l, i)
       \/ \E i \in Item, v \in Verdict : Decide(r, i, v)
       \/ \E S \in SUBSET Item, v \in Verdict : BatchStart(r, S, v)
       \/ \E i \in Item :
            Create(r, i) \/ Open(r, i) \/ Publish(r, i) \/ Inline(r, i)
              \/ BatchDecide(r, i) \/ BatchFollow(r, i)
       \/ Mark(r) \/ Undo(r) \/ BatchEnd(r) \/ Crash(r)
  \/ \E i \in Item :
       \/ \E l \in Letter : CreateDirect(i, l)
       \/ Claim(i) \/ Expire(i) \/ Consume(i) \/ ConsumeAgain(i) \/ Park(i)

Spec == Init /\ [][Next]_vars

=============================================================================
