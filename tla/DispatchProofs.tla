---------------------------- MODULE DispatchProofs ----------------------------
(***************************************************************************)
(* Proofs about the worker as a whole: what Outbox takes for granted of    *)
(* the lease is what Lease provides, so that the theorems about either     *)
(* hold of both together, for the settings that the components allow.      *)
(***************************************************************************)
EXTENDS Dispatch, TLAPS

\* Every step of the worker is a step of its lease or leaves it alone.
LEMMA LeaseStep == [Next]_vars => [L!Next]_(L!vars)
<1> SUFFICES ASSUME [Next]_vars PROVE [L!Next]_(L!vars)
  OBVIOUS
<1>1. ASSUME UNCHANGED leaseVars PROVE UNCHANGED L!vars
  BY <1>1 DEF leaseVars, L!vars
<1>2. ASSUME NEW w \in Worker, L!Step(w) \/ L!Failure(w) PROVE L!Next
  BY <1>2 DEF L!Next
<1>3. ASSUME NEW w \in Worker,
             Enter(w) \/ Iterate(w) \/ Leave(w) \/ Die(w) \/ Elsewhere(w)
      PROVE  [L!Next]_(L!vars)
  BY <1>1, <1>2, <1>3 DEF Enter, Iterate, Leave, Die, Elsewhere, L!Step, L!Failure
<1>4. CASE UNCHANGED vars
  BY <1>1, <1>4 DEF vars
<1>5. QED
  BY <1>1, <1>3, <1>4 DEF Next, L!Next

\* Code behaviour: nothing that an iteration does disturbs the lease
\* (app.py:344-438).
THEOREM DispatchIsLease == Spec => L!Spec
<1>1. Init => L!Init
  BY DEF Init
<1>2. QED
  BY <1>1, LeaseStep, PTL DEF Spec, L!Spec

\* The settings of the lease are its own, whatever it is used for.
LEMMA SizedIsSized == L!Sized <=> Sized
  BY DEF L!Sized, Sized

\* What is proved of the lease holds of the worker.
LEMMA LeaseFacts ==
  ASSUME L!LeaseAssumption
  PROVE  Spec => [](L!IInv /\ L!SizedLeaseIsExclusive)
  BY DispatchIsLease, L!LeaseInvariant, L!SizedExclusion, PTL

----------------------------------------------------------------------------
(* Lease and outbox agree on who is active.                                 *)

Matched == pc \in [Worker -> O!PC] /\ InStep

\* An iteration begins and ends on both sides in one step.
LEMMA MatchedStep == L!TypeOK /\ Matched /\ [Next]_vars => Matched'
<1> SUFFICES ASSUME L!TypeOK, Matched, [Next]_vars PROVE Matched'
  OBVIOUS
<1> USE DEF Matched, InStep, L!TypeOK
<1>1. ASSUME UNCHANGED <<pc, place>> PROVE Matched'
  BY <1>1
<1>2. ASSUME NEW w \in Worker, Enter(w) PROVE Matched'
  <2>1. pc' = [pc EXCEPT ![w] = "top"] /\ \E p : place' = [place EXCEPT ![w] = p]
    BY <1>2 DEF Enter, L!SkipHeartbeat, L!HeartbeatReply, L!Goto
  <2>2. place'[w] = "cycle"
    BY <1>2 DEF Enter
  <2>3. QED
    BY <2>1, <2>2 DEF O!PC
<1>3. ASSUME NEW w \in Worker, Iterate(w) PROVE Matched'
  <2>1. pc[w] # "down" /\ place' = place
    BY <1>3 DEF Iterate, leaseVars
  <2>2. PICK to \in O!PC \ {"down"} : pc' = [pc EXCEPT ![w] = to]
    BY <1>3, <2>1
       DEF Iterate, O!Cycle, O!RetryPick, O!RetryApply, O!SweepCommit,
           O!RecoverPick, O!RecoverApply, O!Poll, O!Begin, O!Finish,
           O!CommitBatch, O!Abort, O!Goto, O!PC
  <2>3. QED
    BY <2>1, <2>2
<1>4. ASSUME NEW w \in Worker, Leave(w) \/ Die(w) PROVE Matched'
  <2>1. pc' = [pc EXCEPT ![w] = "down"]
    BY <1>4 DEF Leave, Die, O!Leave, O!Stop, O!Goto
  <2>2. \E p : p # "cycle" /\ place' = [place EXCEPT ![w] = p]
    BY <1>4 DEF Leave, Die, L!EndCycle, L!Crash, L!Goto
  <2>3. QED
    BY <2>1, <2>2 DEF O!PC
<1>5. ASSUME NEW w \in Worker, Elsewhere(w) PROVE Matched'
  <2>1. pc' = pc /\ (place'[w] = "cycle" <=> place[w] = "cycle")
    BY <1>5 DEF Elsewhere, outboxVars
  <2>2. \A v \in Worker \ {w} : place'[v] = place[v]
    BY <1>5 DEF Elsewhere, L!Step, L!Failure, L!SendAcquire, L!AcquireReply,
       L!SkipHeartbeat, L!SendHeartbeat, L!HeartbeatReply, L!EndCycle, L!Release,
       L!LeaveStandby, L!Restart, L!AcquireError, L!HeartbeatError, L!Signal,
       L!Crash, L!Goto
  <2>3. QED
    BY <2>1, <2>2
<1>6. ASSUME NEW e \in Event, O!Publish(e) \/ O!Age(e) \/ O!Replay(e),
             UNCHANGED leaseVars
      PROVE  Matched'
  BY <1>1, <1>6 DEF leaseVars, O!Publish, O!Age, O!Replay
<1>7. CASE L!Tick /\ UNCHANGED outboxVars
  BY <1>1, <1>7 DEF L!Tick, outboxVars
<1>8. CASE UNCHANGED vars
  BY <1>1, <1>8 DEF vars, leaseVars, outboxVars
<1>9. QED
  BY <1>2, <1>3, <1>4, <1>5, <1>6, <1>7, <1>8 DEF Next

\* Code behaviour: the poll and dispatch loop runs between a heartbeat check and
\* the next one and at no other time (app.py:344-438).
THEOREM ActiveInStep == ASSUME L!LeaseAssumption PROVE Spec => [](L!TypeOK /\ Matched)
<1>1. Init => Matched
  BY DEF Init, L!Init, O!Init, Matched, InStep, O!PC
<1>2. L!IInv => L!TypeOK
  BY DEF L!IInv
<1>3. QED
  BY <1>1, <1>2, MatchedStep, LeaseFacts, PTL DEF Spec

----------------------------------------------------------------------------
(* What the outbox takes for granted.                                       *)

\* A worker that begins an iteration finds the others outside of theirs when
\* the settings leave room.
LEMMA EnterIsLead ==
  ASSUME L!TypeOK, Matched, L!SizedLeaseIsExclusive', NEW w \in Worker, Enter(w)
  PROVE  O!Lead(w)
<1>1. place[w] # "cycle" /\ place'[w] = "cycle"
  BY DEF Enter, L!SkipHeartbeat, L!HeartbeatReply, L!Goto
<1>2. \E p : place' = [place EXCEPT ![w] = p]
  BY DEF Enter, L!SkipHeartbeat, L!HeartbeatReply, L!Goto
<1>3. ASSUME Sized, NEW v \in Worker PROVE pc[v] = "down"
  <2>1. place'[v] = "cycle" => v = w
    BY <1>1, <1>3, SizedIsSized DEF L!SizedLeaseIsExclusive, L!OneDispatcher, L!Dispatching
  <2>2. place[v] # "cycle"
    BY <1>1, <1>2, <2>1 DEF L!TypeOK
  <2>3. QED
    BY <2>2 DEF Matched, InStep
<1>4. pc[w] = "down"
  BY <1>1 DEF Matched, InStep
<1>5. QED
  BY <1>3, <1>4 DEF Enter, O!Lead, O!Goto, O!rows, O!txns, rows, txns

\* Every step of the worker is a step of the outbox or leaves it alone.
LEMMA OutboxStep ==
  L!TypeOK /\ Matched /\ L!SizedLeaseIsExclusive' /\ [Next]_vars
    => [O!Next]_(O!vars)
<1> SUFFICES ASSUME L!TypeOK, Matched, L!SizedLeaseIsExclusive', [Next]_vars
             PROVE  [O!Next]_(O!vars)
  OBVIOUS
<1>1. ASSUME UNCHANGED outboxVars PROVE UNCHANGED O!vars
  BY <1>1 DEF outboxVars, O!vars
<1>2. ASSUME NEW w \in Worker, Enter(w) PROVE O!Next
  BY <1>2, EnterIsLead DEF O!Next
<1>3. ASSUME NEW w \in Worker, Iterate(w) \/ Leave(w) \/ Die(w) PROVE O!Next
  BY <1>3 DEF Iterate, Leave, Die, O!Next
<1>4. ASSUME NEW w \in Worker, Elsewhere(w) PROVE UNCHANGED O!vars
  BY <1>1, <1>4 DEF Elsewhere
<1>5. ASSUME NEW e \in Event, O!Publish(e) \/ O!Age(e) \/ O!Replay(e) PROVE O!Next
  BY <1>5 DEF O!Next
<1>6. CASE UNCHANGED vars
  BY <1>1, <1>6 DEF vars
<1>7. QED
  BY <1>1, <1>2, <1>3, <1>4, <1>5, <1>6 DEF Next

\* Code behaviour: the lease gates the loop and nothing else (app.py:262-284,
\* 344-438).  Lease and loop together are the outbox with a lease that is
\* exclusive exactly when the settings leave room for two slow iterations.
THEOREM DispatchIsOutbox == ASSUME L!LeaseAssumption PROVE Spec => IsOutbox
<1>1. Init => O!Init
  BY DEF Init
<1>2. QED
  BY <1>1, OutboxStep, ActiveInStep, LeaseFacts, PTL DEF Spec, IsOutbox, O!Spec

----------------------------------------------------------------------------
(* What follows for the worker.                                             *)

\* Code behaviour: with HB + 2 * MaxIter <= TTL the publisher of an event can
\* rely on its life, although the workers only coordinate through a key that
\* expires and replies that come late (app.py, lease.py, dispatcher.py).
THEOREM WorkerKeepsPromise ==
  ASSUME L!LeaseAssumption, O!OutboxAssumption, Sized
  PROVE  Spec => O!EventPromise
  BY DispatchIsOutbox, O!OutboxKeepsPromise, PTL DEF IsOutbox

\* Code behaviour: the same for the tables, the budget of retries and
\* acknowledged events.
THEOREM WorkerKeepsTables ==
  ASSUME L!LeaseAssumption, O!OutboxAssumption, Sized
  PROVE  Spec => []O!Accounted /\ []O!RetryBudget /\ O!AckIsFinal
  BY DispatchIsOutbox, O!TablesAgree, O!RunsAreBounded, O!AckStays, PTL DEF IsOutbox

\* Code behaviour: whatever the settings, late replies and slow iterations, no
\* event is run twice at the same time and none is lost.
THEOREM AnySettings ==
  ASSUME L!LeaseAssumption, O!OutboxAssumption
  PROVE  Spec => []O!NoConcurrentRun /\ []O!NothingLost
  BY DispatchIsOutbox, O!OneRunAtATime, O!EventsAreNotLost, PTL DEF IsOutbox

\* Code behaviour: NX, the compare-and-expire script and the check at the top
\* of the loop (lease.py:161-318, app.py:344-358).  Who acts on the outbox owns
\* the key at that moment when the settings leave room.
THEOREM ActiveIsOwner == ASSUME L!LeaseAssumption PROVE Spec => []ActiveOwnsKey
<1>1. L!IInv /\ Matched => ActiveOwnsKey
  <2> SUFFICES ASSUME L!IInv, Matched, Sized, NEW w \in Worker, pc[w] # "down"
               PROVE  key = w
    BY DEF ActiveOwnsKey
  <2>1. place[w] = "cycle"
    BY DEF Matched, InStep
  <2>2. since[w] < TTL
    BY <2>1, L!LeaseAssumption DEF L!IInv, L!TypeOK, L!RenewalIsRecent, Sized, L!LeaseAssumption
  <2>3. QED
    BY <2>2 DEF L!IInv, L!KeyMatchesRenewal
<1>2. QED
  BY <1>1, ActiveInStep, LeaseFacts, PTL

=============================================================================
