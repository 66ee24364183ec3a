-------------------------------- MODULE Outbox --------------------------------
(***************************************************************************)
(* The transactional outbox of Mneme: the rows of events, event_deliveries *)
(* and dead_letters, and the workers that claim events, run their          *)
(* consumers, retry failures, recover abandoned claims and park exhausted  *)
(* deliveries (worker/poller.py, dispatcher.py, retry_sweeper.py,          *)
(* recovery_sweeper.py, app.py).                                           *)
(*                                                                         *)
(* Every event has one delivery row here: the row of the one business      *)
(* consumer that handles its type.  The row of the no-op consumer, which   *)
(* is upserted first and always acknowledged in the same transaction, adds *)
(* no state; for an event in Plain it is the only consumer.                *)
(*                                                                         *)
(* The variables hold what is committed.  What a transaction has written   *)
(* and not yet committed is kept per worker, together with the row locks   *)
(* it holds; a statement that needs a locked row waits.                    *)
(***************************************************************************)
EXTENDS Integers, FiniteSets, Sequences, SequencesExt

CONSTANTS
  Event,        \* events, numbered in the order of committed_at
  Plain,        \* the events that only the no-op consumer handles
  Worker,       \* worker processes
  Exclusive,    \* TRUE: the lease admits one active worker at a time
  MaxAttempts,  \* worker_retry_max_attempts
  BatchSize,    \* events claimed by one poll
  MaxReplays,   \* bound on approved dead letter replays
  MaxFaults     \* bound on crashes, lost leases and database errors

ASSUME OutboxAssumption ==
  /\ Event \subseteq Nat /\ IsFiniteSet(Event)
  /\ Plain \subseteq Event
  /\ Exclusive \in BOOLEAN
  /\ MaxAttempts \in Nat \ {0}
  /\ BatchSize \in Nat \ {0}
  /\ MaxReplays \in Nat
  /\ MaxFaults \in Nat

VARIABLES
  publish,    \* events.publish_state
  old,        \* committed_at is before now - dispatching_timeout
  delivery,   \* event_deliveries.delivery_state
  attempts,   \* event_deliveries.dispatch_attempts, saturating at MaxAttempts
  parked,     \* dead_letters rows of the delivery not yet replayed, up to 2
  pc,         \* where each worker is in its cycle
  picked,     \* rows returned by the SELECT of the sweep under way
  retry,      \* rows the open sweep transaction has set back to pending
  batch,      \* claimed events still to be dispatched
  acked,      \* events acknowledged in the open dispatch transaction
  failed,     \* events failed in the open dispatch transaction
  fresh,      \* delivery rows inserted by the open dispatch transaction
  runs,       \* history: executions of the consumer of each event
  replays,    \* replays so far
  faults      \* faults so far

rows == <<publish, old, delivery, attempts, parked>>
txns == <<picked, retry, batch, acked, failed, fresh>>
vars == <<publish, old, delivery, attempts, parked, pc, picked, retry, batch,
          acked, failed, fresh, runs, replays, faults>>

MaxRuns == MaxAttempts * (1 + MaxReplays) + MaxFaults + 1

PublishState == {"none", "pending", "dispatching", "dispatched", "dead_letter"}
DeliveryState == {"none", "pending", "acknowledged", "failed", "dead_letter"}
PC == {"down", "top", "retry", "promote", "swept", "recover", "polling", "batch", "run"}

TypeOK ==
  /\ publish \in [Event -> PublishState]
  /\ old \in [Event -> BOOLEAN]
  /\ delivery \in [Event -> DeliveryState]
  /\ attempts \in [Event -> 0..MaxAttempts]
  /\ parked \in [Event -> 0..2]
  /\ pc \in [Worker -> PC]
  /\ picked \in [Worker -> SUBSET Event]
  /\ retry \in [Worker -> SUBSET Event]
  /\ batch \in [Worker -> Seq(Event)]
  /\ acked \in [Worker -> SUBSET Event]
  /\ failed \in [Worker -> SUBSET Event]
  /\ fresh \in [Worker -> SUBSET Event]
  /\ runs \in [Event -> 0..MaxRuns]
  /\ replays \in 0..MaxReplays
  /\ faults \in 0..MaxFaults

Init ==
  /\ publish = [e \in Event |-> "none"]
  /\ old = [e \in Event |-> FALSE]
  /\ delivery = [e \in Event |-> "none"]
  /\ attempts = [e \in Event |-> 0]
  /\ parked = [e \in Event |-> 0]
  /\ pc = [w \in Worker |-> "down"]
  /\ picked = [w \in Worker |-> {}]
  /\ retry = [w \in Worker |-> {}]
  /\ batch = [w \in Worker |-> <<>>]
  /\ acked = [w \in Worker |-> {}]
  /\ failed = [w \in Worker |-> {}]
  /\ fresh = [w \in Worker |-> {}]
  /\ runs = [e \in Event |-> 0]
  /\ replays = 0
  /\ faults = 0

Goto(w, to) == pc' = [pc EXCEPT ![w] = to]

Fault ==
  /\ faults < MaxFaults
  /\ faults' = faults + 1

\* A function f with the value v at every element of S.
SetAll(f, S, v) == [x \in DOMAIN f |-> IF x \in S THEN v ELSE f[x]]

----------------------------------------------------------------------------
(* Row locks of the open transactions.                                      *)

\* The event whose consumer w is running.
Current(w) == IF pc[w] = "run" THEN {Head(batch[w])} ELSE {}

\* Events dispatched so far in the open transaction of w.
Done(w) == acked[w] \cup failed[w]

\* Rows of event_deliveries written by w, and rows of events written by w.
UnlockedRun(w) == retry[w] \cup Done(w)      \* mutant: the upsert locks nothing
DeliveryLocks(w) == retry[w] \cup Done(w) \cup Current(w)
EventLocks(w) == retry[w] \cup Done(w)

LockedDeliveries(w) == UNION {DeliveryLocks(v) : v \in Worker \ {w}}
LockedEvents(w) == UNION {EventLocks(v) : v \in Worker \ {w}}

\* Inserting a delivery row takes a key-share lock on its event (the foreign
\* key), which lets others update the event but makes SKIP LOCKED pass it by.
KeyShared(w) == UNION {fresh[v] : v \in Worker \ {w}}

\* The rows that the next statement of w needs.
Needs(w) ==
  CASE pc[w] \in {"retry", "promote"} -> picked[w]
    [] pc[w] = "batch" /\ batch[w] # <<>> -> {Head(batch[w])}
    [] OTHER -> {}

WaitsFor(w, v) == w # v /\ Needs(w) \cap DeliveryLocks(v) # {}

\* PostgreSQL ends a deadlock by failing one of the waiting statements.
Deadlocked(w) ==
  \E S \in SUBSET Worker :
    w \in S /\ \A v \in S : \E u \in S : WaitsFor(v, u)

----------------------------------------------------------------------------
(* The application.                                                         *)

\* A business transaction commits with its outbox event.
Publish(e) ==
  /\ publish[e] = "none"
  /\ publish' = [publish EXCEPT ![e] = "pending"]
  /\ UNCHANGED <<old, delivery, attempts, parked, pc, txns, runs, replays, faults>>

\* The timeout of the recovery sweeper counts from committed_at.
Age(e) ==
  /\ publish[e] # "none" /\ ~old[e]
  /\ old' = [old EXCEPT ![e] = TRUE]
  /\ UNCHANGED <<publish, delivery, attempts, parked, pc, txns, runs, replays, faults>>

\* The delivery and the event go back to pending, whatever their state, and
\* the attempts start again.
ReopenDelivery(e) ==                         \* mutant: the event is forgotten
  /\ delivery' = [delivery EXCEPT ![e] = "pending"]
  /\ attempts' = [attempts EXCEPT ![e] = 0]
  /\ UNCHANGED publish

Reopen(e) ==
  /\ delivery' = [delivery EXCEPT ![e] = "pending"]
  /\ attempts' = [attempts EXCEPT ![e] = 0]
  /\ publish' = [publish EXCEPT ![e] = "pending"]

\* An approved replay of one of the dead letters of e.
Replay(e) ==
  /\ parked[e] > 0
  /\ replays < MaxReplays
  /\ \A w \in Worker : e \notin DeliveryLocks(w)
  /\ replays' = replays + 1
  /\ \E n \in IF parked[e] = 2 THEN {1, 2} ELSE {0} :
       parked' = [parked EXCEPT ![e] = n]
  /\ Reopen(e)
  /\ UNCHANGED <<old, pc, txns, runs, faults>>

----------------------------------------------------------------------------
(* RetrySweeper.sweep: one transaction, two phases.                         *)

\* The rows that the two phases look for.
RetryForever(e) == delivery[e] = "failed"    \* mutant: no limit on attempts
Retryable(e) == delivery[e] = "failed" /\ attempts[e] < MaxAttempts

SpentAttempts(e) == attempts[e] >= MaxAttempts   \* mutant: in any state
Exhausted(e) == delivery[e] = "failed" /\ attempts[e] >= MaxAttempts

\* _retry_eligible reads the failed deliveries with attempts left; those in R
\* have waited out their backoff.
RetryPick(w) ==
  /\ pc[w] = "top"
  /\ Goto(w, "retry")
  /\ \E R \in SUBSET {e \in Event : Retryable(e)} :
       picked' = [picked EXCEPT ![w] = R]
  /\ UNCHANGED <<rows, retry, batch, acked, failed, fresh, runs, replays, faults>>

\* The rows picked are updated, not re-checked; then _promote_exhausted reads
\* the failed deliveries without attempts left.
RetryApply(w) ==
  /\ pc[w] = "retry"
  /\ picked[w] \cap LockedDeliveries(w) = {}
  /\ Goto(w, "promote")
  /\ retry' = [retry EXCEPT ![w] = picked[w]]
  /\ picked' = [picked EXCEPT ![w] = {e \in Event \ picked[w] : Exhausted(e)}]
  /\ UNCHANGED <<rows, batch, acked, failed, fresh, runs, replays, faults>>

\* The picked rows get a dead_letters row and are marked; the sweep commits.
SweepCommit(w) ==
  /\ pc[w] = "promote"
  /\ picked[w] \cap LockedDeliveries(w) = {}
  /\ Goto(w, "swept")
  /\ delivery' = SetAll(SetAll(delivery, retry[w], "pending"), picked[w], "dead_letter")
  /\ publish' = SetAll(SetAll(publish, retry[w], "pending"), picked[w], "dead_letter")
  /\ parked' = [e \in Event |-> IF e \in picked[w] /\ parked[e] < 2
                                  THEN parked[e] + 1 ELSE parked[e]]
  /\ retry' = [retry EXCEPT ![w] = {}]
  /\ picked' = [picked EXCEPT ![w] = {}]
  /\ UNCHANGED <<old, attempts, batch, acked, failed, fresh, runs, replays, faults>>

----------------------------------------------------------------------------
(* DispatchingRecoverySweeper.sweep.                                        *)

\* Claimed events whose committed_at is old enough are taken for abandoned.
RecoverMore(e) == publish[e] \in {"dispatching", "dispatched"} /\ old[e]  \* mutant
RecoverLess(e) ==          \* mutant: only events with a delivery row
  publish[e] = "dispatching" /\ old[e] /\ delivery[e] # "none"
Abandoned(e) == publish[e] = "dispatching" /\ old[e]

RecoverPick(w) ==
  /\ pc[w] \in {"top", "swept"}
  /\ Goto(w, "recover")
  /\ picked' = [picked EXCEPT ![w] = {e \in Event : Abandoned(e)}]
  /\ UNCHANGED <<rows, retry, batch, acked, failed, fresh, runs, replays, faults>>

\* They are set to pending by event_id alone.
RecoverApply(w) ==
  /\ pc[w] = "recover"
  /\ picked[w] \cap LockedEvents(w) = {}
  /\ Goto(w, "polling")
  /\ publish' = SetAll(publish, picked[w], "pending")
  /\ picked' = [picked EXCEPT ![w] = {}]
  /\ UNCHANGED <<old, delivery, attempts, parked, retry, batch, acked, failed,
                 fresh, runs, replays, faults>>

----------------------------------------------------------------------------
(* fetch_pending_events and Dispatcher.dispatch_pending.                    *)

\* Pending events that no other transaction has locked.
Claimable(w) ==
  {e \in Event : publish[e] = "pending" /\ e \notin LockedEvents(w) \cup KeyShared(w)}

\* The oldest ones, up to BatchSize; UPDATE ... RETURNING fixes no order.
Poll(w) ==
  /\ pc[w] \in {"top", "swept", "polling"}
  /\ \E B \in SUBSET Claimable(w) :
       /\ Cardinality(B) <= BatchSize
       /\ B # Claimable(w) => Cardinality(B) = BatchSize
       /\ \A e \in B, f \in Claimable(w) \ B : e < f
       /\ batch' \in {[batch EXCEPT ![w] = s] : s \in SetToSeqs(B)}
       /\ publish' = SetAll(publish, B, "dispatching")
       /\ Goto(w, IF B = {} THEN "top" ELSE "batch")
  /\ UNCHANGED <<old, delivery, attempts, parked, picked, retry, acked, failed,
                 fresh, runs, replays, faults>>

\* _ensure_delivery upserts the row, which locks it; the consumer starts.
Begin(w) ==
  /\ pc[w] = "batch" /\ batch[w] # <<>>
  /\ LET e == Head(batch[w]) IN
       /\ e \notin LockedDeliveries(w)
       /\ fresh' = [fresh EXCEPT ![w] = IF delivery[e] = "none" THEN @ \cup {e} ELSE @]
       /\ runs' = [runs EXCEPT ![e] = IF @ < MaxRuns THEN @ + 1 ELSE @]
  /\ Goto(w, "run")
  /\ UNCHANGED <<rows, picked, retry, batch, acked, failed, replays, faults>>

\* The consumer returns or raises; the outcome and the event are recorded in
\* the open transaction.  The no-op consumer never fails.
Finish(w) ==
  /\ pc[w] = "run"
  /\ LET e == Head(batch[w]) IN
       \/ /\ acked' = [acked EXCEPT ![w] = @ \cup {e}]
          /\ UNCHANGED failed
       \/ /\ e \notin Plain
          /\ failed' = [failed EXCEPT ![w] = @ \cup {e}]
          /\ UNCHANGED acked
  /\ batch' = [batch EXCEPT ![w] = Tail(@)]
  /\ Goto(w, "batch")
  /\ UNCHANGED <<rows, picked, retry, fresh, runs, replays, faults>>

\* The state of the delivery of e when the batch of w commits.
NoFailureRecorded(w, e) ==      \* mutant: the state of the upsert stays
  IF e \in acked[w] THEN "acknowledged"
  ELSE IF e \in failed[w] THEN "dispatched" ELSE delivery[e]

Outcome(w, e) ==
  IF e \in acked[w] THEN "acknowledged"
  ELSE IF e \in failed[w] THEN "failed" ELSE delivery[e]

\* The whole batch commits at once.  An event is 'dispatched' whether its
\* consumer succeeded or failed, and the row loses its dead_letter state.
CommitBatch(w) ==
  /\ pc[w] = "batch" /\ batch[w] = <<>>
  /\ Goto(w, "top")
  /\ delivery' = [e \in Event |-> Outcome(w, e)]
  /\ attempts' = [e \in Event |-> IF e \in Done(w) /\ attempts[e] < MaxAttempts
                                    THEN attempts[e] + 1 ELSE attempts[e]]
  /\ publish' = SetAll(publish, Done(w), "dispatched")
  /\ acked' = [acked EXCEPT ![w] = {}]
  /\ failed' = [failed EXCEPT ![w] = {}]
  /\ fresh' = [fresh EXCEPT ![w] = {}]
  /\ UNCHANGED <<old, parked, picked, retry, batch, runs, replays, faults>>

----------------------------------------------------------------------------
(* Failures, and the lease.                                                 *)

\* The open transaction of w is rolled back and what w has read is forgotten.
Forget(w) ==
  /\ picked' = [picked EXCEPT ![w] = {}]
  /\ retry' = [retry EXCEPT ![w] = {}]
  /\ batch' = [batch EXCEPT ![w] = <<>>]
  /\ acked' = [acked EXCEPT ![w] = {}]
  /\ failed' = [failed EXCEPT ![w] = {}]
  /\ fresh' = [fresh EXCEPT ![w] = {}]

\* A database error, or the victim of a deadlock: sweep() and _active_loop
\* log the exception and the cycle goes on; after a poll or a dispatch that
\* failed the iteration is over.  Claimed events stay claimed.
Abort(w) ==
  /\ pc[w] # "down"
  /\ (Deadlocked(w) /\ UNCHANGED faults) \/ Fault
  /\ Goto(w, CASE pc[w] \in {"retry", "promote"} -> "swept"
               [] pc[w] = "recover" -> "polling"
               [] OTHER -> "top")
  /\ Forget(w)
  /\ UNCHANGED <<rows, runs, replays>>

\* The process dies.
Stop(w) ==
  /\ pc[w] # "down"
  /\ Fault
  /\ Goto(w, "down")
  /\ Forget(w)
  /\ UNCHANGED <<rows, runs, replays>>

\* A worker obtains the lease and enters the loop.
LeadUnchecked(w) ==             \* mutant: the lease is not asked for
  /\ pc[w] = "down"
  /\ Goto(w, "top")
  /\ UNCHANGED <<rows, txns, runs, replays, faults>>

Lead(w) ==
  /\ pc[w] = "down"
  /\ Exclusive => \A v \in Worker : pc[v] = "down"
  /\ Goto(w, "top")
  /\ UNCHANGED <<rows, txns, runs, replays, faults>>

\* The loop ends between two iterations: a signal, or a heartbeat that failed.
Leave(w) ==
  /\ pc[w] = "top"
  /\ Goto(w, "down")
  /\ UNCHANGED <<rows, txns, runs, replays, faults>>

----------------------------------------------------------------------------

Cycle(w) ==
  \/ RetryPick(w) \/ RetryApply(w) \/ SweepCommit(w)
  \/ RecoverPick(w) \/ RecoverApply(w)
  \/ Poll(w) \/ Begin(w) \/ Finish(w) \/ CommitBatch(w)

Next ==
  \/ \E e \in Event : Publish(e) \/ Age(e) \/ Replay(e)
  \/ \E w \in Worker : Cycle(w) \/ Abort(w) \/ Stop(w) \/ Lead(w) \/ Leave(w)

Spec == Init /\ [][Next]_vars

=============================================================================
