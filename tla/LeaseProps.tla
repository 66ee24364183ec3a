------------------------------ MODULE LeaseProps ------------------------------
(***************************************************************************)
(* What the dispatch lease promises, and under which conditions.           *)
(***************************************************************************)
EXTENDS Lease

\* The worker is between a heartbeat check and the next one, where it sweeps,
\* polls and dispatches.
Dispatching(w) == pc[w] = "cycle"

\* At most one worker runs the poll and dispatch loop.
OneDispatcher ==
  \A w, v \in Worker : Dispatching(w) /\ Dispatching(v) => w = v

\* The settings leave room for two slow iterations after the last heartbeat
\* that was not due.
Sized == HB + 2 * MaxIter <= TTL

\* Code behaviour: acquire() uses NX, heartbeat() and release() compare the
\* stored instance id (lease.py:161-318).  A worker that believes it leads
\* and whose last renewal Redis served less than TTL ago still owns the key,
\* whatever expiries, late replies and releases of other workers happened.
FreshLeaderOwnsKey ==
  \A w \in Worker : held[w] /\ since[w] < TTL => key = w

\* Code behaviour: heartbeat interval, TTL and cycle length (app.py:344-438).
\* When an iteration is short enough for the settings, the loop is exclusive.
SizedLeaseIsExclusive == Sized => OneDispatcher

\* Code behaviour: only expiry or the owner's own release removes a key; no
\* other worker's SET, heartbeat or release ever takes a live key away.
KeyIsNeverStolen ==
  [][key # NoWorker /\ key' # key =>
       /\ key' = NoWorker
       /\ ttl = 1 \/ (held[key] /\ ~running[key])]_vars

\* Code behaviour: the standby loop retries and the container restarts
\* (app.py:468-498, docker-compose.yaml).  Once the faults are over, the
\* system always gets a leader again, if an iteration and the reply to a call of
\* Redis take less than the TTL (MaxIter < TTL): a worker that only ever learns
\* of a lease that has expired goes back to standby for ever.
LeaderReturns == []<>(\E w \in Worker : Dispatching(w))

----------------------------------------------------------------------------
(* The inductive invariant.                                                 *)

\* The life of the key mirrors the time since Redis last renewed it: a worker
\* was renewed less than TTL ago exactly when the key is its own.
KeyMatchesRenewal ==
  /\ key = NoWorker <=> ttl = 0
  /\ \A w \in Worker : since[w] < TTL <=> key = w
  /\ \A w \in Worker : key = w => since[w] = TTL - ttl

\* How old the last renewal of a worker can be at each point of its loop.  A
\* worker that passed its check without a heartbeat has age < HB, and its own
\* clock lags Redis by at most one bounded iteration.
RenewalIsRecent ==
  \A w \in Worker :
    /\ pc[w] = "acquiring" /\ reply[w] = "ok" => since[w] <= busy[w]
    /\ pc[w] = "beating" /\ reply[w] = "ok" => since[w] <= busy[w]
    /\ pc[w] \in {"check", "cycle"} =>
         /\ since[w] <= age[w] + MaxIter
         /\ since[w] <= (HB - 1) + MaxIter + busy[w]

\* Code behaviour: as for the properties above.  The invariant they follow from;
\* it is inductive (LeaseProofs).
IInv == TypeOK /\ KeyMatchesRenewal /\ RenewalIsRecent

=============================================================================
