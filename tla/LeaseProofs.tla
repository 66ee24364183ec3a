----------------------------- MODULE LeaseProofs -----------------------------
(***************************************************************************)
(* Proofs about the dispatch lease, for any set of workers, any time to    *)
(* live, heartbeat interval and cycle length, and any number of faults.    *)
(***************************************************************************)
EXTENDS LeaseProps, TLAPS

\* The initial state is well typed.
LEMMA TypeInit == Init => TypeOK
  BY LeaseAssumption DEF Init, TypeOK, PC

\* Type correctness is inductive by itself.
LEMMA TypeStep == TypeOK /\ [Next]_vars => TypeOK'
<1> SUFFICES ASSUME TypeOK, [Next]_vars PROVE TypeOK'
  OBVIOUS
<1> USE LeaseAssumption DEF TypeOK, PC
<1>1. ASSUME NEW w \in Worker, SendAcquire(w) PROVE TypeOK'
  BY <1>1 DEF SendAcquire, KeyFree, Goto, Renew
<1>2. ASSUME NEW w \in Worker, AcquireReply(w) PROVE TypeOK'
  <2>1. pc' \in [Worker -> PC]
    BY <1>2 DEF AcquireReply, Goto
  <2>2. held' \in [Worker -> BOOLEAN]
    BY <1>2 DEF AcquireReply
  <2>3. age' \in [Worker -> 0..TTL]
    BY <1>2 DEF AcquireReply
  <2>4. QED
    BY <1>2, <2>1, <2>2, <2>3 DEF AcquireReply
<1>3. ASSUME NEW w \in Worker, SkipHeartbeat(w) PROVE TypeOK'
  BY <1>3 DEF SkipHeartbeat, Goto
<1>4. ASSUME NEW w \in Worker, SendHeartbeat(w) PROVE TypeOK'
  BY <1>4 DEF SendHeartbeat, Goto, Renew
<1>5. ASSUME NEW w \in Worker, HeartbeatReply(w) PROVE TypeOK'
  <2>1. pc' \in [Worker -> PC]
    BY <1>5 DEF HeartbeatReply, Goto
  <2>2. held' \in [Worker -> BOOLEAN]
    BY <1>5 DEF HeartbeatReply
  <2>3. age' \in [Worker -> 0..TTL]
    BY <1>5 DEF HeartbeatReply
  <2>4. QED
    BY <1>5, <2>1, <2>2, <2>3 DEF HeartbeatReply
<1>6. ASSUME NEW w \in Worker, EndCycle(w) PROVE TypeOK'
  BY <1>6 DEF EndCycle, Goto
<1>7. ASSUME NEW w \in Worker, Release(w) PROVE TypeOK'
  BY <1>7 DEF Release, ReleaseKey, Goto, Fault
<1>8. ASSUME NEW w \in Worker, LeaveStandby(w) PROVE TypeOK'
  BY <1>8 DEF LeaveStandby, Goto
<1>9. ASSUME NEW w \in Worker, Restart(w) PROVE TypeOK'
  BY <1>9 DEF Restart, Goto
<1>10. ASSUME NEW w \in Worker, AcquireError(w) PROVE TypeOK'
  BY <1>10 DEF AcquireError, KeyFree, Goto, Renew, Fault
<1>11. ASSUME NEW w \in Worker, HeartbeatError(w) PROVE TypeOK'
  BY <1>11 DEF HeartbeatError, Goto, Renew, Fault
<1>12. ASSUME NEW w \in Worker, Signal(w) PROVE TypeOK'
  BY <1>12 DEF Signal, Fault
<1>13. ASSUME NEW w \in Worker, Crash(w) PROVE TypeOK'
  BY <1>13 DEF Crash, Fault
<1>14. CASE Tick
  BY <1>14 DEF Tick, Expires, Older, Timed
<1>15. CASE UNCHANGED vars
  BY <1>15 DEF vars
<1>16. QED
  BY <1>1, <1>2, <1>3, <1>4, <1>5, <1>6, <1>7, <1>8, <1>9, <1>10, <1>11,
     <1>12, <1>13, <1>14, <1>15 DEF Next, Step, Failure

\* The inductive invariant holds initially.
LEMMA IInvInit == Init => IInv
<1> SUFFICES ASSUME Init PROVE KeyMatchesRenewal /\ RenewalIsRecent
  BY TypeInit DEF IInv
<1> QED
  BY LeaseAssumption DEF Init, KeyMatchesRenewal, RenewalIsRecent

\* The key and the ages of the renewals move together.
LEMMA KeyStep == TypeOK /\ KeyMatchesRenewal /\ [Next]_vars => KeyMatchesRenewal'
<1> SUFFICES ASSUME TypeOK, KeyMatchesRenewal, [Next]_vars
             PROVE KeyMatchesRenewal'
  OBVIOUS
<1> USE LeaseAssumption DEF TypeOK, KeyMatchesRenewal
<1>1. ASSUME NEW w \in Worker, Renew(w), key \in {NoWorker, w}
      PROVE KeyMatchesRenewal'
  BY <1>1 DEF Renew
<1>2. ASSUME UNCHANGED <<key, ttl, since>> PROVE KeyMatchesRenewal'
  BY <1>2
<1>3. ASSUME NEW w \in Worker, Release(w) PROVE KeyMatchesRenewal'
  BY <1>3, <1>2 DEF Release, ReleaseKey
<1>4. ASSUME NEW w \in Worker, SendAcquire(w) \/ AcquireError(w)
      PROVE KeyMatchesRenewal'
  BY <1>4, <1>1, <1>2 DEF SendAcquire, AcquireError, KeyFree
<1>5. ASSUME NEW w \in Worker, SendHeartbeat(w) \/ HeartbeatError(w)
      PROVE KeyMatchesRenewal'
  BY <1>5, <1>1, <1>2 DEF SendHeartbeat, HeartbeatError
<1>6. CASE Tick
  BY <1>6 DEF Tick, Expires, Older
<1>7. ASSUME NEW w \in Worker, Step(w) \/ Failure(w)
      PROVE KeyMatchesRenewal'
  BY <1>7, <1>2, <1>3, <1>4, <1>5
     DEF Step, Failure, AcquireReply, SkipHeartbeat, HeartbeatReply, EndCycle,
         LeaveStandby, Restart, Signal, Crash
<1>8. CASE UNCHANGED vars
  BY <1>8, <1>2 DEF vars
<1>9. QED
  BY <1>6, <1>7, <1>8 DEF Next

\* The bounds on the age of a renewal, point by point of the loop.
LEMMA RecentStep == IInv /\ [Next]_vars => RenewalIsRecent'
<1> SUFFICES ASSUME IInv, [Next]_vars PROVE RenewalIsRecent'
  OBVIOUS
<1> USE LeaseAssumption DEF IInv, TypeOK, KeyMatchesRenewal, RenewalIsRecent
<1>1. ASSUME NEW w \in Worker, SendAcquire(w) PROVE RenewalIsRecent'
  BY <1>1 DEF SendAcquire, KeyFree, Goto, Renew
<1>2. ASSUME NEW w \in Worker, AcquireReply(w) PROVE RenewalIsRecent'
  BY <1>2 DEF AcquireReply, Goto
<1>3. ASSUME NEW w \in Worker, SkipHeartbeat(w) PROVE RenewalIsRecent'
  BY <1>3 DEF SkipHeartbeat, Goto, HeartbeatDue
<1>4. ASSUME NEW w \in Worker, SendHeartbeat(w) PROVE RenewalIsRecent'
  BY <1>4 DEF SendHeartbeat, Goto, Renew
<1>5. ASSUME NEW w \in Worker, HeartbeatReply(w) PROVE RenewalIsRecent'
  BY <1>5 DEF HeartbeatReply, Goto
<1>6. ASSUME NEW w \in Worker, EndCycle(w) PROVE RenewalIsRecent'
  BY <1>6 DEF EndCycle, Goto
<1>7. ASSUME NEW w \in Worker, Release(w) PROVE RenewalIsRecent'
  BY <1>7 DEF Release, ReleaseKey, Goto
<1>8. ASSUME NEW w \in Worker, LeaveStandby(w) PROVE RenewalIsRecent'
  BY <1>8 DEF LeaveStandby, Goto
<1>9. ASSUME NEW w \in Worker, Restart(w) PROVE RenewalIsRecent'
  BY <1>9 DEF Restart, Goto
<1>10. ASSUME NEW w \in Worker, AcquireError(w) PROVE RenewalIsRecent'
  BY <1>10 DEF AcquireError, KeyFree, Goto, Renew
<1>11. ASSUME NEW w \in Worker, HeartbeatError(w) PROVE RenewalIsRecent'
  BY <1>11 DEF HeartbeatError, Goto, Renew
<1>12. ASSUME NEW w \in Worker, Signal(w) PROVE RenewalIsRecent'
  BY <1>12 DEF Signal
<1>13. ASSUME NEW w \in Worker, Crash(w) PROVE RenewalIsRecent'
  BY <1>13 DEF Crash
<1>14. CASE Tick
  BY <1>14 DEF Tick, Expires, Older, Timed
<1>15. CASE UNCHANGED vars
  BY <1>15 DEF vars
<1>16. QED
  BY <1>1, <1>2, <1>3, <1>4, <1>5, <1>6, <1>7, <1>8, <1>9, <1>10, <1>11,
     <1>12, <1>13, <1>14, <1>15 DEF Next, Step, Failure

\* Code behaviour: every state the lease code reaches is well typed.
THEOREM LeaseTyped == Spec => []TypeOK
  BY TypeInit, TypeStep, PTL DEF Spec

\* Code behaviour: the inductive invariant behind the lease (see README).
THEOREM LeaseInvariant == Spec => []IInv
<1>1. IInv /\ [Next]_vars => IInv'
  BY TypeStep, KeyStep, RecentStep DEF IInv
<1>2. QED
  BY IInvInit, <1>1, PTL DEF Spec

\* Code behaviour: NX and the compare-and-expire and compare-and-delete
\* scripts protect a fresh leader (lease.py:54-72, 161-318).
THEOREM FreshLeader == Spec => []FreshLeaderOwnsKey
<1>1. IInv => FreshLeaderOwnsKey
  BY DEF IInv, KeyMatchesRenewal, FreshLeaderOwnsKey
<1>2. QED
  BY LeaseInvariant, <1>1, PTL

\* Code behaviour: with HB + 2 * MaxIter <= TTL at most one worker is ever in
\* the poll and dispatch loop (app.py:344-438), whatever the faults.
THEOREM SizedExclusion == Spec => []SizedLeaseIsExclusive
<1>1. IInv => SizedLeaseIsExclusive
  <2> SUFFICES ASSUME IInv, Sized,
                      NEW w \in Worker, NEW v \in Worker,
                      Dispatching(w), Dispatching(v)
               PROVE w = v
    BY DEF SizedLeaseIsExclusive, OneDispatcher
  <2>1. since[w] < TTL /\ since[v] < TTL
    BY LeaseAssumption DEF IInv, TypeOK, RenewalIsRecent, Dispatching, Sized
  <2>2. QED
    BY <2>1 DEF IInv, KeyMatchesRenewal
<1>2. QED
  BY LeaseInvariant, <1>1, PTL

\* Code behaviour: a live key only goes by expiry or by its owner's release.
THEOREM KeyNotStolen == Spec => KeyIsNeverStolen
<1>1. ASSUME IInv, [Next]_vars, key # NoWorker, key' # key
      PROVE /\ key' = NoWorker
            /\ ttl = 1 \/ (held[key] /\ ~running[key])
  <2> USE LeaseAssumption DEF IInv, TypeOK, KeyMatchesRenewal
  <2>1. ASSUME NEW w \in Worker, Step(w) \/ Failure(w)
        PROVE key' = NoWorker /\ held[key] /\ ~running[key]
    BY <1>1, <2>1
       DEF Step, Failure, SendAcquire, AcquireReply, SkipHeartbeat,
           SendHeartbeat, HeartbeatReply, EndCycle, Release, ReleaseKey,
           LeaveStandby, Restart, AcquireError, HeartbeatError, Signal, Crash,
           Renew, KeyFree
  <2>2. CASE Tick
    BY <1>1, <2>2 DEF Tick, Expires
  <2>3. CASE UNCHANGED vars
    BY <1>1, <2>3 DEF vars
  <2>4. QED
    BY <1>1, <2>1, <2>2, <2>3 DEF Next
<1>2. IInv /\ [Next]_vars =>
        [key # NoWorker /\ key' # key =>
           /\ key' = NoWorker
           /\ ttl = 1 \/ (held[key] /\ ~running[key])]_vars
  BY <1>1
<1>3. QED
  BY LeaseInvariant, <1>2, PTL DEF Spec, KeyIsNeverStolen

=============================================================================
