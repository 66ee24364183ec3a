-------------------------------- MODULE Lease --------------------------------
(***************************************************************************)
(* The dispatch lease of the Mneme worker (worker/lease.py) and the part   *)
(* of the worker's main loop that obtains, renews and gives it up          *)
(* (worker/app.py).  Redis holds one key with a time to live; a worker     *)
(* believes it is the leader while its local flag _held is set, which it   *)
(* learns from replies that arrive some time after Redis has acted.        *)
(***************************************************************************)
EXTENDS Naturals

CONSTANTS
  Worker,      \* the worker processes (one slot per container)
  NoWorker,    \* the value of the lease key when the key does not exist
  TTL,         \* worker_lease_ttl_seconds, in ticks
  HB,          \* worker_lease_heartbeat_interval_seconds, in ticks
  MaxIter,     \* most ticks from one heartbeat check, or one SET, to the next
  MaxFaults    \* bound on Redis errors, signals and crashes together

ASSUME LeaseAssumption ==
  /\ NoWorker \notin Worker
  /\ TTL \in Nat \ {0}
  /\ HB \in 1..TTL
  /\ MaxIter \in Nat \ {0}
  /\ MaxFaults \in Nat

VARIABLES
  key,      \* Redis: the instance stored under the lease key
  ttl,      \* Redis: remaining life of the key, 0 when it does not exist
  pc,       \* where each worker is in run_loop / _standby_loop / _active_loop
  running,  \* the module flag _running, cleared by SIGTERM and SIGINT
  held,     \* LeaseManager._held
  age,      \* seconds_since_last_heartbeat, capped at TTL
  reply,    \* result of the Redis call in flight
  busy,     \* ticks since the worker passed its last check or sent its SET
  since,    \* history: ticks since Redis last renewed the lease of a worker
  faults    \* number of faults so far

redisVars == <<key, ttl>>
vars == <<key, ttl, pc, running, held, age, reply, busy, since, faults>>

PC == {"standby", "acquiring", "check", "beating", "cycle", "exited"}

TypeOK ==
  /\ key \in Worker \cup {NoWorker}
  /\ ttl \in 0..TTL
  /\ pc \in [Worker -> PC]
  /\ running \in [Worker -> BOOLEAN]
  /\ held \in [Worker -> BOOLEAN]
  /\ age \in [Worker -> 0..TTL]
  /\ reply \in [Worker -> {"ok", "fail"}]
  /\ busy \in [Worker -> 0..MaxIter]
  /\ since \in [Worker -> 0..TTL]
  /\ faults \in 0..MaxFaults

Init ==
  /\ key = NoWorker
  /\ ttl = 0
  /\ pc = [w \in Worker |-> "standby"]
  /\ running = [w \in Worker |-> TRUE]
  /\ held = [w \in Worker |-> FALSE]
  /\ age = [w \in Worker |-> TTL]
  /\ reply = [w \in Worker |-> "fail"]
  /\ busy = [w \in Worker |-> 0]
  /\ since = [w \in Worker |-> TTL]
  /\ faults = 0

Goto(w, from, to) ==
  /\ pc[w] = from
  /\ pc' = [pc EXCEPT ![w] = to]

Fault ==
  /\ faults < MaxFaults
  /\ faults' = faults + 1

\* Redis sets or extends the key of w to a full time to live.
Renew(w) ==
  /\ key' = w
  /\ ttl' = TTL
  /\ since' = [since EXCEPT ![w] = 0]

----------------------------------------------------------------------------
(* acquire(): SET key instance NX PX ttl.                                   *)

SetAlways == TRUE               \* mutant: SET without NX
KeyFree == key = NoWorker

\* Redis runs the SET; it creates the key only when there is none.
SendAcquire(w) ==
  /\ running[w]
  /\ Goto(w, "standby", "acquiring")
  /\ IF KeyFree
       THEN Renew(w) /\ reply' = [reply EXCEPT ![w] = "ok"]
       ELSE UNCHANGED <<key, ttl, since>> /\ reply' = [reply EXCEPT ![w] = "fail"]
  /\ busy' = [busy EXCEPT ![w] = 0]
  /\ UNCHANGED <<running, held, age, faults>>

\* RedisError: acquire() returns False, whether or not Redis ran the SET.
AcquireError(w) ==
  /\ running[w]
  /\ Goto(w, "standby", "acquiring")
  /\ Fault
  /\ \/ KeyFree /\ Renew(w)
     \/ UNCHANGED <<key, ttl, since>>
  /\ reply' = [reply EXCEPT ![w] = "fail"]
  /\ busy' = [busy EXCEPT ![w] = 0]
  /\ UNCHANGED <<running, held, age>>

\* The reply arrives: the worker becomes active, or sleeps and tries again.
AcquireReply(w) ==
  /\ IF reply[w] = "ok"
       THEN /\ Goto(w, "acquiring", "check")
            /\ held' = [held EXCEPT ![w] = TRUE]
            /\ age' = [age EXCEPT ![w] = 0]
       ELSE /\ Goto(w, "acquiring", "standby")
            /\ UNCHANGED <<held, age>>
  /\ UNCHANGED <<key, ttl, running, reply, busy, since, faults>>

----------------------------------------------------------------------------
(* _active_loop: while _running and lease_mgr.is_held.                      *)

BeatLate(w) == age[w] > HB      \* mutant: one tick later
HeartbeatDue(w) == age[w] >= HB

\* No heartbeat is due: go on with the sweepers, the poll and the dispatch.
SkipHeartbeat(w) ==
  /\ running[w] /\ held[w]
  /\ ~HeartbeatDue(w)
  /\ Goto(w, "check", "cycle")
  /\ busy' = [busy EXCEPT ![w] = 0]
  /\ UNCHANGED <<key, ttl, running, held, age, reply, since, faults>>

\* Redis runs the heartbeat script: PEXPIRE only if the value is our own.
SendHeartbeat(w) ==
  /\ running[w] /\ held[w]
  /\ HeartbeatDue(w)
  /\ Goto(w, "check", "beating")
  /\ IF key = w
       THEN Renew(w) /\ reply' = [reply EXCEPT ![w] = "ok"]
       ELSE UNCHANGED <<key, ttl, since>> /\ reply' = [reply EXCEPT ![w] = "fail"]
  /\ busy' = [busy EXCEPT ![w] = 0]
  /\ UNCHANGED <<running, held, age, faults>>

\* RedisError during the heartbeat: the script may or may not have run.
HeartbeatError(w) ==
  /\ running[w] /\ held[w]
  /\ HeartbeatDue(w)
  /\ Goto(w, "check", "beating")
  /\ Fault
  /\ \/ key = w /\ Renew(w)
     \/ UNCHANGED <<key, ttl, since>>
  /\ reply' = [reply EXCEPT ![w] = "fail"]
  /\ busy' = [busy EXCEPT ![w] = 0]
  /\ UNCHANGED <<running, held, age>>

\* On success the cycle goes on; on failure _held is cleared, the loop breaks,
\* release() is skipped and run_loop returns: the process ends.
HeartbeatReply(w) ==
  /\ IF reply[w] = "ok"
       THEN /\ Goto(w, "beating", "cycle")
            /\ age' = [age EXCEPT ![w] = 0]
            /\ UNCHANGED held
       ELSE /\ Goto(w, "beating", "exited")
            /\ held' = [held EXCEPT ![w] = FALSE]
            /\ UNCHANGED age
  /\ UNCHANGED <<key, ttl, running, reply, busy, since, faults>>

\* Sweepers, poll, dispatch and the sleep are over: back to the while test.
EndCycle(w) ==
  /\ Goto(w, "cycle", "check")
  /\ UNCHANGED <<key, ttl, running, held, age, reply, busy, since, faults>>

\* The script of release(): DEL only if the value is our own.
DeleteKey(w) ==                 \* mutant: DEL without the comparison
  /\ key' = NoWorker
  /\ ttl' = 0
  /\ since' = [since EXCEPT ![w] = TTL]

ReleaseKey(w) ==
  IF key = w
    THEN /\ key' = NoWorker
         /\ ttl' = 0
         /\ since' = [since EXCEPT ![w] = TTL]
    ELSE UNCHANGED <<key, ttl, since>>

\* After a signal the loop ends, the lease is released and the process exits.
Release(w) ==
  /\ ~running[w] /\ held[w]
  /\ Goto(w, "check", "exited")
  /\ \/ ReleaseKey(w) /\ UNCHANGED faults
     \/ Fault /\ UNCHANGED <<key, ttl, since>>
  /\ held' = [held EXCEPT ![w] = FALSE]
  /\ UNCHANGED <<running, age, reply, busy>>

\* A signal ends the standby loop at its next test of _running.
LeaveStandby(w) ==
  /\ ~running[w]
  /\ Goto(w, "standby", "exited")
  /\ UNCHANGED <<key, ttl, running, held, age, reply, busy, since, faults>>

----------------------------------------------------------------------------
(* The environment: signals, crashes, the container restart, time.          *)

Signal(w) ==
  /\ pc[w] # "exited" /\ running[w]
  /\ Fault
  /\ running' = [running EXCEPT ![w] = FALSE]
  /\ UNCHANGED <<key, ttl, pc, held, age, reply, busy, since>>

\* The process dies; the key stays in Redis until it expires.
Crash(w) ==
  /\ pc[w] # "exited"
  /\ Fault
  /\ pc' = [pc EXCEPT ![w] = "exited"]
  /\ held' = [held EXCEPT ![w] = FALSE]
  /\ UNCHANGED <<key, ttl, running, age, reply, busy, since>>

\* docker-compose.yaml runs the worker with restart: unless-stopped.  The new
\* process has a fresh instance id; reusing w for it is sound, because a key
\* is only compared with the id of a process that has set it itself.
Restart(w) ==
  /\ Goto(w, "exited", "standby")
  /\ running' = [running EXCEPT ![w] = TRUE]
  /\ age' = [age EXCEPT ![w] = TTL]
  /\ UNCHANGED <<key, ttl, held, reply, busy, since, faults>>

\* A worker whose time from one check to the next, or from its SET to its
\* first check, is bounded by MaxIter.
Timed(w) == pc[w] \in {"acquiring", "check", "beating", "cycle"}

Older(n) == IF n < TTL THEN n + 1 ELSE TTL

NeverExpires == FALSE           \* mutant: SET without PX
Expires == ttl <= 1

\* One tick: the key loses life and disappears at zero.
Tick ==
  /\ \A w \in Worker : Timed(w) => busy[w] < MaxIter
  /\ ttl' = IF ttl = 0 THEN 0 ELSE ttl - 1
  /\ key' = IF Expires THEN NoWorker ELSE key
  /\ age' = [w \in Worker |-> Older(age[w])]
  /\ since' = [w \in Worker |-> Older(since[w])]
  /\ busy' = [w \in Worker |-> IF Timed(w) THEN busy[w] + 1 ELSE busy[w]]
  /\ UNCHANGED <<pc, running, held, reply, faults>>

----------------------------------------------------------------------------

Step(w) ==
  \/ SendAcquire(w) \/ AcquireReply(w)
  \/ SkipHeartbeat(w) \/ SendHeartbeat(w) \/ HeartbeatReply(w)
  \/ EndCycle(w) \/ Release(w) \/ LeaveStandby(w)
  \/ Restart(w)

Failure(w) ==
  AcquireError(w) \/ HeartbeatError(w) \/ Signal(w) \/ Crash(w)

Next ==
  \/ \E w \in Worker : Step(w) \/ Failure(w)
  \/ Tick

Spec == Init /\ [][Next]_vars

\* A process that runs takes its steps, a container that has exited is
\* restarted, and time passes.  Faults are owed nothing.
Fairness ==
  /\ WF_vars(Tick)
  /\ \A w \in Worker : WF_vars(Step(w))

FairSpec == Spec /\ Fairness

=============================================================================
