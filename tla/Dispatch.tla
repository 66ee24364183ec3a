------------------------------- MODULE Dispatch -------------------------------
(***************************************************************************)
(* The worker of Mneme as a whole (worker/app.py): the loop that holds the *)
(* lease (Lease) and what an iteration of it does to the outbox (Outbox).  *)
(* Outbox takes for granted that the lease admits one active worker at a   *)
(* time; here it does not, and a worker that starts an iteration asks no   *)
(* one but its own flag and its own clock.                                 *)
(***************************************************************************)
EXTENDS Naturals

CONSTANTS
  Worker, NoWorker, TTL, HB, MaxIter,                         \* as in Lease
  Event, Plain, MaxAttempts, BatchSize, MaxReplays, MaxFaults,  \* as in Outbox
  MaxErrors                             \* bound on the faults of the lease

VARIABLES
  key, ttl, running, held, age, reply, busy, since,   \* as in Lease
  place,      \* Lease!pc: where each worker is in its loop
  errors,     \* Lease!faults: faults of the lease so far
  publish, old, delivery, attempts, parked, pc, picked, retry, batch,
  acked, failed, fresh, runs, replays, faults,        \* as in Outbox
  over        \* nothing is left to do in the iteration but to sleep

leaseVars == <<key, ttl, place, running, held, age, reply, busy, since, errors>>
rows == <<publish, old, delivery, attempts, parked>>
txns == <<picked, retry, batch, acked, failed, fresh>>
outboxVars == <<publish, old, delivery, attempts, parked, pc, picked, retry,
                batch, acked, failed, fresh, runs, replays, faults>>
vars == <<leaseVars, outboxVars, over>>

\* The settings leave room for two slow iterations.
Sized == HB + 2 * MaxIter <= TTL

L == INSTANCE LeaseProofs WITH pc <- place, faults <- errors, MaxFaults <- MaxErrors
O == INSTANCE OutboxProofs WITH Exclusive <- Sized

Init ==
  /\ L!Init
  /\ O!Init
  /\ over = [w \in Worker |-> TRUE]

----------------------------------------------------------------------------
(* One iteration of _active_loop.                                           *)

\* The heartbeat was not due or was answered: the iteration begins.
Enter(w) ==
  /\ L!SkipHeartbeat(w) \/ L!HeartbeatReply(w)
  /\ place'[w] = "cycle"
  /\ pc' = [pc EXCEPT ![w] = "top"]
  /\ over' = [over EXCEPT ![w] = FALSE]
  /\ UNCHANGED <<rows, txns, runs, replays, faults>>

\* The sweeps that are due, the poll and the dispatch, each once.
Iterate(w) ==
  /\ place[w] = "cycle" /\ ~over[w]
  /\ O!Cycle(w) \/ O!Abort(w)
  /\ over' = [over EXCEPT ![w] = pc'[w] = "top"]
  /\ UNCHANGED leaseVars

\* The sleep is over: back to the while test.
Leave(w) ==
  /\ over[w]
  /\ L!EndCycle(w) /\ O!Leave(w)
  /\ UNCHANGED over

\* The process dies in the middle of an iteration.
Die(w) ==
  /\ L!Crash(w) /\ O!Stop(w)
  /\ over' = [over EXCEPT ![w] = TRUE]

\* What else happens to the lease, a signal during an iteration included.
Elsewhere(w) ==
  /\ L!Step(w) \/ L!Failure(w)
  /\ place'[w] = "cycle" <=> place[w] = "cycle"
  /\ UNCHANGED <<outboxVars, over>>

----------------------------------------------------------------------------

Next ==
  \/ \E w \in Worker : Enter(w) \/ Iterate(w) \/ Leave(w) \/ Die(w) \/ Elsewhere(w)
  \/ \E e \in Event :
       /\ O!Publish(e) \/ O!Age(e) \/ O!Replay(e)
       /\ UNCHANGED <<leaseVars, over>>
  \/ L!Tick /\ UNCHANGED <<outboxVars, over>>

Spec == Init /\ [][Next]_vars

----------------------------------------------------------------------------
(* What the worker promises.                                                *)

\* A worker acts on the outbox exactly while the lease has it in its loop.
InStep == \A w \in Worker : pc[w] # "down" <=> place[w] = "cycle"

\* Code behaviour: the loop reads the lease once per iteration and then sweeps,
\* claims and dispatches (app.py:344-438, lease.py:161-318).  If the settings
\* leave room, whoever is between its statements owns the key in Redis still.
ActiveOwnsKey == Sized => \A w \in Worker : pc[w] # "down" => key = w

\* Code behaviour: no statement of the outbox asks who holds the lease.  The
\* worker implements the outbox all the same, the turns that Outbox asks of its
\* workers included: the clocks of the lease keep two iterations apart.
IsOutbox == O!Spec

=============================================================================
