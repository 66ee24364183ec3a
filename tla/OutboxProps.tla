------------------------------ MODULE OutboxProps ------------------------------
(***************************************************************************)
(* What the outbox promises: under an exclusive lease, and when a worker   *)
(* that has lost the lease goes on for a while (Exclusive = FALSE).        *)
(***************************************************************************)
EXTENDS Outbox

\* What the publisher of an event can know of it.
Stage(e) ==
  CASE publish[e] = "none" -> "absent"
    [] publish[e] = "dispatched" /\ delivery[e] = "acknowledged" -> "delivered"
    [] publish[e] = "dead_letter" -> "parked"
    [] OTHER -> "open"

Life == INSTANCE EventLifecycle WITH stage <- [e \in Event |-> Stage(e)]

\* Every iteration of the loop ends with a poll; the sweeps run when their
\* interval has elapsed, and a failed delivery is picked once its backoff has.
\* The steps of a cycle are taken; a consumer returns; someone gets the lease.
Fairness ==
  /\ \A w \in Worker : WF_vars(Cycle(w))
  /\ WF_vars(\E w \in Worker : Lead(w))
  /\ \A e \in Event : WF_vars(Age(e))
  /\ \A e \in Event :
       SF_vars(\E w \in Worker :
                 RetryPick(w) /\ (Retryable(e) => e \in picked'[w]))
  /\ SF_vars(\E w \in Worker : RecoverPick(w))

FairSpec == Spec /\ Fairness

----------------------------------------------------------------------------
(* Under an exclusive lease.                                                *)

\* Code behaviour: three tables are written by different transactions
\* (dispatcher.py:241-331, retry_sweeper.py:287-507).  What the event, its
\* delivery and the dead letters say of an event always agrees, across
\* crashes, lost leases and replays.
Accounted ==
  \A e \in Event :
    /\ publish[e] = "none" => delivery[e] = "none"
    /\ publish[e] \in {"pending", "dispatching"} => delivery[e] \in {"none", "pending"}
    /\ publish[e] = "dispatched" => delivery[e] \in {"acknowledged", "failed"}
    /\ publish[e] = "dead_letter" <=> delivery[e] = "dead_letter"
    /\ parked[e] = IF delivery[e] = "dead_letter" THEN 1 ELSE 0

\* Code behaviour: worker_retry_max_attempts (retry_sweeper.py:116-155).  A
\* consumer runs at most that often per replay, plus once for every batch
\* that a fault rolled back.
RetryBudget ==
  \A e \in Event : runs[e] <= MaxAttempts * (1 + replays) + faults

\* Code behaviour: the batch transaction and the sweeps (dispatcher.py:181-
\* 189, retry_sweeper.py:116-219).  The consumer of an event that has been
\* acknowledged is never run again.
AckIsFinal ==
  [][\A e \in Event : delivery[e] = "acknowledged" => runs'[e] = runs[e]]_vars

\* The outbox implements the life of an event that its publisher relies on.
EventPromise == Life!LifeSpec

\* Code behaviour: recovery and retry sweeps (recovery_sweeper.py:83-133,
\* retry_sweeper.py:287-507).  Every published event ends up acknowledged
\* or in the dead letter queue, whatever finite number of faults happens.
Settles == Life!LifeLive

----------------------------------------------------------------------------
(* With a stale leader.                                                     *)

\* Code behaviour: the upsert of the delivery row locks it until the batch
\* commits (dispatcher.py:152-178, 261-270).  Even two workers that both
\* dispatch never run the consumer of one event at the same time.
NoConcurrentRun ==
  \A w, v \in Worker : w # v => Current(w) \cap Current(v) = {}

\* Code behaviour: sweepers and dispatcher write by id what they read before
\* (retry_sweeper.py:152-219, recovery_sweeper.py:49-53).  Even so an event
\* that has left the queue still has an outcome that someone acts upon: it is
\* acknowledged, failed and in reach of the retry sweep, or has a dead letter.
NothingLost ==
  \A e \in Event :
    /\ publish[e] \in {"dispatched", "dead_letter"} =>
         delivery[e] \in {"acknowledged", "failed", "dead_letter"}
    /\ delivery[e] = "dead_letter" => parked[e] > 0

----------------------------------------------------------------------------
(* The inductive invariants (OutboxProofs).                                 *)

\* What a worker has in hand at each point of its cycle.
Tidy ==
  \A w \in Worker :
    /\ pc[w] \notin {"retry", "promote", "recover"} => picked[w] = {}
    /\ pc[w] # "promote" => retry[w] = {}
    /\ pc[w] \notin {"batch", "run"} =>
         batch[w] = <<>> /\ acked[w] = {} /\ failed[w] = {}
    /\ pc[w] = "run" => batch[w] # <<>>

\* No two transactions hold the lock of the same delivery row.
LocksAreExclusive ==
  \A w, v \in Worker : w # v => DeliveryLocks(w) \cap DeliveryLocks(v) = {}

\* The invariant of any set of workers.
SafeInv == TypeOK /\ Tidy /\ LocksAreExclusive

OneActive ==
  \A w, v \in Worker : pc[w] # "down" /\ pc[v] # "down" => w = v

\* What a worker has read is still so when it writes.
StillSo(w) ==
  /\ pc[w] = "retry" => \A e \in picked[w] : Retryable(e)
  /\ pc[w] = "promote" => \A e \in picked[w] : Exhausted(e)
  /\ pc[w] = "recover" => \A e \in picked[w] : publish[e] = "dispatching"
  /\ \A e \in retry[w] : Retryable(e)
  /\ \A e \in ToSet(batch[w]) \cup Done(w) : publish[e] = "dispatching"

\* A batch holds an event once, and not after it is done.
Once(w) ==
  /\ \A i, j \in DOMAIN batch[w] : batch[w][i] = batch[w][j] => i = j
  /\ ToSet(batch[w]) \cap Done(w) = {}

\* An event in the queue has attempts left.
HasAttempts ==
  \A e \in Event :
    publish[e] \in {"none", "pending", "dispatching"} => attempts[e] < MaxAttempts

InFlight(e) == \E w \in Worker : e \in Done(w) \cup Current(w)

\* The runs of an event: those its attempts count, those of earlier replays,
\* those that faults made forgotten, and the one under way.
RunsCounted ==
  \A e \in Event :
    runs[e] <= attempts[e] + MaxAttempts * replays + faults
                 + (IF InFlight(e) THEN 1 ELSE 0)

\* What holds in addition when the lease is exclusive.
LeaderInv ==
  /\ OneActive
  /\ \A w \in Worker : StillSo(w) /\ Once(w)
  /\ Accounted
  /\ HasAttempts
  /\ RunsCounted

\* Code behaviour: as for the properties above.  The invariant they follow from.
IInv == SafeInv /\ (Exclusive => LeaderInv)

=============================================================================
