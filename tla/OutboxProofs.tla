----------------------------- MODULE OutboxProofs -----------------------------
(***************************************************************************)
(* Proofs about the outbox, for any finite set of events, any workers, any *)
(* limit on attempts and batch size, and any number of replays and faults. *)
(***************************************************************************)
EXTENDS OutboxProps, FiniteSetTheorems, TLAPS

\* A batch lists some of the claimable events, each once.
LEMMA BatchChoice ==
  ASSUME NEW B \in SUBSET Event, NEW s \in SetToSeqs(B)
  PROVE  /\ s \in Seq(Event)
         /\ ToSet(s) \subseteq B
         /\ \A i, j \in DOMAIN s : s[i] = s[j] => i = j
         /\ B = {} => s = <<>>
<1>1. Cardinality(B) \in Nat
  BY OutboxAssumption, FS_Subset, FS_CardinalityType
<1>2. /\ s \in [1..Cardinality(B) -> B]
      /\ \A i, j \in 1..Cardinality(B) : i # j => s[i] # s[j]
  BY DEF SetToSeqs
<1>3. s \in Seq(Event)
  BY <1>1, <1>2
<1>4. ASSUME B = {} PROVE s = <<>>
  <2>1. DOMAIN s = {}
    BY <1>2, <1>4
  <2>2. Len(s) = 0
    BY <1>3, <2>1
  <2>3. QED
    BY <1>3, <2>2
<1>5. QED
  BY <1>2, <1>3, <1>4 DEF ToSet

\* The cap of the history variable is a number.
LEMMA MaxRunsType == MaxRuns \in Nat
  BY OutboxAssumption DEF MaxRuns

\* Counting a run up to the cap stays in the range of the history variable.
LEMMA RunsCapped ==
  ASSUME NEW r \in 0..MaxRuns
  PROVE  (IF r < MaxRuns THEN r + 1 ELSE r) \in 0..MaxRuns
  BY MaxRunsType

----------------------------------------------------------------------------
(* Type correctness, what each worker has in hand, and the row locks.       *)

\* The initial state satisfies all of it.
LEMMA SafeInit == Init => SafeInv
<1> SUFFICES ASSUME Init PROVE SafeInv
  OBVIOUS
<1>1. TypeOK
  BY OutboxAssumption, MaxRunsType
     DEF Init, TypeOK, PublishState, DeliveryState, PC
<1>2. Tidy /\ LocksAreExclusive
  BY DEF Init, Tidy, LocksAreExclusive, DeliveryLocks, Done, Current
<1>3. QED
  BY <1>1, <1>2 DEF SafeInv

\* Type correctness, one action at a time; it needs Tidy for Head and Tail.
LEMMA TypeStep == TypeOK /\ Tidy /\ [Next]_vars => TypeOK'
<1> SUFFICES ASSUME TypeOK, Tidy, [Next]_vars PROVE TypeOK'
  OBVIOUS
<1> USE OutboxAssumption, MaxRunsType
    DEF TypeOK, PublishState, DeliveryState, PC
<1>1. ASSUME NEW e \in Event, Publish(e) PROVE TypeOK'
  BY <1>1 DEF Publish, txns
<1>2. ASSUME NEW e \in Event, Age(e) PROVE TypeOK'
  BY <1>2 DEF Age, txns
<1>3. ASSUME NEW e \in Event, Replay(e) PROVE TypeOK'
  BY <1>3 DEF Replay, Reopen, txns
<1>4. ASSUME NEW w \in Worker, RetryPick(w) PROVE TypeOK'
  BY <1>4 DEF RetryPick, Goto, rows
<1>5. ASSUME NEW w \in Worker, RetryApply(w) PROVE TypeOK'
  BY <1>5 DEF RetryApply, Goto, rows
<1>6. ASSUME NEW w \in Worker, SweepCommit(w) PROVE TypeOK'
  <2>1. delivery' \in [Event -> DeliveryState]
    BY <1>6 DEF SweepCommit, SetAll
  <2>2. publish' \in [Event -> PublishState]
    BY <1>6 DEF SweepCommit, SetAll
  <2>3. parked' \in [Event -> 0..2]
    BY <1>6 DEF SweepCommit
  <2>4. QED
    BY <1>6, <2>1, <2>2, <2>3 DEF SweepCommit, Goto
<1>7. ASSUME NEW w \in Worker, RecoverPick(w) PROVE TypeOK'
  BY <1>7 DEF RecoverPick, Goto, rows
<1>8. ASSUME NEW w \in Worker, RecoverApply(w) PROVE TypeOK'
  <2>1. publish' \in [Event -> PublishState]
    BY <1>8 DEF RecoverApply, SetAll
  <2>2. QED
    BY <1>8, <2>1 DEF RecoverApply, Goto
<1>9. ASSUME NEW w \in Worker, Poll(w) PROVE TypeOK'
  <2>1. PICK B \in SUBSET Event :
          /\ batch' \in {[batch EXCEPT ![w] = s] : s \in SetToSeqs(B)}
          /\ publish' = SetAll(publish, B, "dispatching")
          /\ Goto(w, IF B = {} THEN "top" ELSE "batch")
    BY <1>9 DEF Poll, Claimable
  <2>2. batch' \in [Worker -> Seq(Event)]
    <3>1. PICK s \in SetToSeqs(B) : batch' = [batch EXCEPT ![w] = s]
      BY <2>1
    <3>2. s \in Seq(Event)
      BY BatchChoice
    <3>3. QED
      BY <3>1, <3>2
  <2>3. publish' \in [Event -> PublishState]
    BY <2>1 DEF SetAll
  <2>4. pc' \in [Worker -> PC]
    BY <2>1 DEF Goto
  <2>5. QED
    BY <1>9, <2>2, <2>3, <2>4 DEF Poll
<1>10. ASSUME NEW w \in Worker, Begin(w) PROVE TypeOK'
  <2>1. Head(batch[w]) \in Event
    BY <1>10 DEF Begin
  <2>2. fresh' \in [Worker -> SUBSET Event]
    BY <1>10, <2>1 DEF Begin
  <2>3. runs' \in [Event -> 0..MaxRuns]
    <3> DEFINE e == Head(batch[w])
               n == IF runs[e] < MaxRuns THEN runs[e] + 1 ELSE runs[e]
    <3>0. runs[e] \in 0..MaxRuns
      BY <2>1
    <3>1. n \in 0..MaxRuns
      BY <3>0, RunsCapped
    <3>2. runs' = [runs EXCEPT ![e] = n]
      BY <1>10 DEF Begin
    <3>3. QED
      BY <3>1, <3>2
  <2>4. QED
    BY <1>10, <2>2, <2>3 DEF Begin, Goto, rows
<1>11. ASSUME NEW w \in Worker, Finish(w) PROVE TypeOK'
  <2>1. Head(batch[w]) \in Event /\ Tail(batch[w]) \in Seq(Event)
    BY <1>11 DEF Finish, Tidy
  <2>2. /\ acked' \in [Worker -> SUBSET Event]
        /\ failed' \in [Worker -> SUBSET Event]
    <3> DEFINE e == Head(batch[w])
    <3>1. CASE acked' = [acked EXCEPT ![w] = @ \cup {e}] /\ failed' = failed
      BY <3>1, <2>1
    <3>2. CASE failed' = [failed EXCEPT ![w] = @ \cup {e}] /\ acked' = acked
      BY <3>2, <2>1
    <3>3. QED
      BY <1>11, <3>1, <3>2 DEF Finish
  <2>3. batch' \in [Worker -> Seq(Event)]
    BY <1>11, <2>1 DEF Finish
  <2>4. QED
    BY <1>11, <2>2, <2>3 DEF Finish, Goto, rows
<1>12. ASSUME NEW w \in Worker, CommitBatch(w) PROVE TypeOK'
  <2>1. delivery' \in [Event -> DeliveryState]
    BY <1>12 DEF CommitBatch, Outcome
  <2>2. publish' \in [Event -> PublishState]
    BY <1>12 DEF CommitBatch, SetAll
  <2>3. attempts' \in [Event -> 0..MaxAttempts]
    BY <1>12 DEF CommitBatch
  <2>4. QED
    BY <1>12, <2>1, <2>2, <2>3 DEF CommitBatch, Goto
<1>13. ASSUME NEW w \in Worker, Forget(w)
       PROVE  /\ picked' \in [Worker -> SUBSET Event]
              /\ retry' \in [Worker -> SUBSET Event]
              /\ batch' \in [Worker -> Seq(Event)]
              /\ acked' \in [Worker -> SUBSET Event]
              /\ failed' \in [Worker -> SUBSET Event]
              /\ fresh' \in [Worker -> SUBSET Event]
  BY <1>13 DEF Forget
<1>14. ASSUME NEW w \in Worker, Abort(w) PROVE TypeOK'
  <2>1. faults' \in 0..MaxFaults
    BY <1>14 DEF Abort, Fault
  <2>2. pc' \in [Worker -> PC]
    BY <1>14 DEF Abort, Goto
  <2>3. QED
    BY <1>13, <1>14, <2>1, <2>2 DEF Abort, rows
<1>15. ASSUME NEW w \in Worker, Stop(w) PROVE TypeOK'
  BY <1>13, <1>15 DEF Stop, Fault, Goto, rows
<1>16. ASSUME NEW w \in Worker, Lead(w) \/ Leave(w) PROVE TypeOK'
  BY <1>16 DEF Lead, Leave, Goto, rows, txns
<1>17. CASE UNCHANGED vars
  BY <1>17 DEF vars
<1>18. QED
  BY <1>1, <1>2, <1>3, <1>4, <1>5, <1>6, <1>7, <1>8, <1>9, <1>10, <1>11,
     <1>12, <1>14, <1>15, <1>16, <1>17 DEF Next, Cycle

\* What a worker has in hand changes only in its own steps.
LEMMA TidyStep == TypeOK /\ Tidy /\ [Next]_vars => Tidy'
<1> SUFFICES ASSUME TypeOK, Tidy, [Next]_vars PROVE Tidy'
  OBVIOUS
<1> USE DEF TypeOK, Tidy
<1>1. ASSUME NEW e \in Event, Publish(e) \/ Age(e) \/ Replay(e) PROVE Tidy'
  BY <1>1 DEF Publish, Age, Replay, txns
<1>2. ASSUME NEW w \in Worker, RetryPick(w) PROVE Tidy'
  BY <1>2 DEF RetryPick, Goto
<1>3. ASSUME NEW w \in Worker, RetryApply(w) PROVE Tidy'
  BY <1>3 DEF RetryApply, Goto
<1>4. ASSUME NEW w \in Worker, SweepCommit(w) PROVE Tidy'
  BY <1>4 DEF SweepCommit, Goto
<1>5. ASSUME NEW w \in Worker, RecoverPick(w) PROVE Tidy'
  BY <1>5 DEF RecoverPick, Goto
<1>6. ASSUME NEW w \in Worker, RecoverApply(w) PROVE Tidy'
  BY <1>6 DEF RecoverApply, Goto
<1>7. ASSUME NEW w \in Worker, Poll(w) PROVE Tidy'
  <2>a. PICK B \in SUBSET Event :
          /\ \E s \in SetToSeqs(B) : batch' = [batch EXCEPT ![w] = s]
          /\ Goto(w, IF B = {} THEN "top" ELSE "batch")
    BY <1>7 DEF Poll, Claimable
  <2>1. PICK s \in SetToSeqs(B) : batch' = [batch EXCEPT ![w] = s]
    BY <2>a
  <2>2. s \in Seq(Event) /\ (B = {} => s = <<>>)
    BY BatchChoice
  <2>3. QED
    BY <1>7, <2>a, <2>1, <2>2 DEF Poll, Goto
<1>8. ASSUME NEW w \in Worker, Begin(w) PROVE Tidy'
  BY <1>8 DEF Begin, Goto
<1>9. ASSUME NEW w \in Worker, Finish(w) PROVE Tidy'
  BY <1>9 DEF Finish, Goto
<1>10. ASSUME NEW w \in Worker, CommitBatch(w) PROVE Tidy'
  BY <1>10 DEF CommitBatch, Goto
<1>11. ASSUME NEW w \in Worker, Abort(w) PROVE Tidy'
  BY <1>11 DEF Abort, Forget, Goto
<1>12. ASSUME NEW w \in Worker, Stop(w) PROVE Tidy'
  BY <1>12 DEF Stop, Forget, Goto
<1>13. ASSUME NEW w \in Worker, Lead(w) \/ Leave(w) PROVE Tidy'
  BY <1>13 DEF Lead, Leave, Goto, txns
<1>14. CASE UNCHANGED vars
  BY <1>14 DEF vars
<1>15. QED
  BY <1>1, <1>2, <1>3, <1>4, <1>5, <1>6, <1>7, <1>8, <1>9, <1>10, <1>11,
     <1>12, <1>13, <1>14 DEF Next, Cycle

\* A step of w keeps the locks exclusive when it leaves the other workers
\* alone and w takes no row that another one holds.
LEMMA LocksOfOne ==
  ASSUME NEW w \in Worker, LocksAreExclusive,
         \A v \in Worker \ {w} : DeliveryLocks(v)' = DeliveryLocks(v),
         DeliveryLocks(w)' \cap LockedDeliveries(w) \subseteq DeliveryLocks(w)
  PROVE  LocksAreExclusive'
<1> SUFFICES ASSUME NEW u \in Worker, NEW v \in Worker, u # v,
                    NEW e, e \in DeliveryLocks(u)', e \in DeliveryLocks(v)'
             PROVE  FALSE
  BY DEF LocksAreExclusive
<1>1. ASSUME NEW x \in Worker \ {w}, e \in DeliveryLocks(x)', e \in DeliveryLocks(w)'
      PROVE  FALSE
  <2>1. e \in DeliveryLocks(x)
    BY <1>1
  <2>2. e \in LockedDeliveries(w)
    BY <1>1, <2>1 DEF LockedDeliveries
  <2>3. QED
    BY <1>1, <2>1, <2>2 DEF LocksAreExclusive
<1>2. QED
  BY <1>1 DEF LocksAreExclusive

\* No step lets two workers lock the same delivery.
LEMMA LocksStep ==
  TypeOK /\ Tidy /\ LocksAreExclusive /\ [Next]_vars => LocksAreExclusive'
<1> SUFFICES ASSUME TypeOK, Tidy, LocksAreExclusive, [Next]_vars
             PROVE  LocksAreExclusive'
  OBVIOUS
<1> USE DEF TypeOK, DeliveryLocks, Done, Current, Goto
\* Steps that take no lock.
<1>1. ASSUME UNCHANGED <<pc, retry, batch, acked, failed>>
      PROVE  LocksAreExclusive'
  BY <1>1 DEF LocksAreExclusive
<1>2. ASSUME NEW e \in Event, Publish(e) \/ Age(e) \/ Replay(e)
      PROVE  LocksAreExclusive'
  BY <1>1, <1>2 DEF Publish, Age, Replay, txns
<1>3. ASSUME NEW w \in Worker, DeliveryLocks(w)' \subseteq DeliveryLocks(w),
             \A v \in Worker \ {w} : DeliveryLocks(v)' = DeliveryLocks(v)
      PROVE  LocksAreExclusive'
  BY <1>3, LocksOfOne
<1>4. ASSUME NEW w \in Worker, RetryPick(w) \/ RecoverPick(w) \/ Lead(w) \/ Leave(w)
      PROVE  LocksAreExclusive'
  BY <1>3, <1>4 DEF RetryPick, RecoverPick, Lead, Leave, txns
<1>5. ASSUME NEW w \in Worker, SweepCommit(w) \/ RecoverApply(w)
      PROVE  LocksAreExclusive'
  BY <1>3, <1>5 DEF SweepCommit, RecoverApply
<1>6. ASSUME NEW w \in Worker, Poll(w) PROVE LocksAreExclusive'
  <2>1. /\ \E s : batch' = [batch EXCEPT ![w] = s]
        /\ \E to : to # "run" /\ pc' = [pc EXCEPT ![w] = to]
    BY <1>6 DEF Poll, Claimable
  <2>2. QED
    BY <1>3, <1>6, <2>1 DEF Poll
<1>7. ASSUME NEW w \in Worker, Finish(w) PROVE LocksAreExclusive'
  <2>1. \A v \in Worker \ {w} : DeliveryLocks(v)' = DeliveryLocks(v)
    BY <1>7 DEF Finish
  <2>2. DeliveryLocks(w)' \subseteq DeliveryLocks(w)
    BY <1>7 DEF Finish
  <2>3. QED
    BY <1>3, <2>1, <2>2
<1>8. ASSUME NEW w \in Worker, CommitBatch(w) PROVE LocksAreExclusive'
  BY <1>3, <1>8 DEF CommitBatch
<1>9. ASSUME NEW w \in Worker, Abort(w) \/ Stop(w) PROVE LocksAreExclusive'
  <2>1. Forget(w) /\ \E to : to # "run" /\ pc' = [pc EXCEPT ![w] = to]
    BY <1>9 DEF Abort, Stop
  <2>2. QED
    BY <1>3, <2>1 DEF Forget
\* Steps that take locks, after waiting for the rows.
<1>10. ASSUME NEW w \in Worker, RetryApply(w) PROVE LocksAreExclusive'
  <2>1. \A v \in Worker \ {w} : DeliveryLocks(v)' = DeliveryLocks(v)
    BY <1>10 DEF RetryApply
  <2>2. DeliveryLocks(w)' \subseteq DeliveryLocks(w) \cup picked[w]
    BY <1>10 DEF RetryApply
  <2>3. picked[w] \cap LockedDeliveries(w) = {}
    BY <1>10 DEF RetryApply
  <2>4. QED
    BY <2>1, <2>2, <2>3, LocksOfOne
<1>11. ASSUME NEW w \in Worker, Begin(w) PROVE LocksAreExclusive'
  <2>1. \A v \in Worker \ {w} : DeliveryLocks(v)' = DeliveryLocks(v)
    BY <1>11 DEF Begin
  <2>2. DeliveryLocks(w)' \subseteq DeliveryLocks(w) \cup {Head(batch[w])}
    BY <1>11 DEF Begin
  <2>3. Head(batch[w]) \notin LockedDeliveries(w)
    BY <1>11 DEF Begin
  <2> HIDE DEF DeliveryLocks
  <2>4. QED
    BY <2>1, <2>2, <2>3, LocksOfOne
<1>12. CASE UNCHANGED vars
  BY <1>1, <1>12 DEF vars
<1>13. QED
  BY <1>2, <1>4, <1>5, <1>6, <1>7, <1>8, <1>9, <1>10, <1>11, <1>12 DEF Next, Cycle

\* Code behaviour: every state that the workers, the application and replays
\* reach is well typed and the row locks are exclusive.
THEOREM OutboxSafe == Spec => []SafeInv
<1>1. SafeInv /\ [Next]_vars => SafeInv'
  BY TypeStep, TidyStep, LocksStep DEF SafeInv
<1>2. QED
  BY SafeInit, <1>1, PTL DEF Spec

\* Code behaviour: ON CONFLICT DO UPDATE locks the delivery row until the
\* batch commits (dispatcher.py:152-178, 261-270), so that no two workers run
\* the consumer of one event at the same time, with or without the lease.
THEOREM OneRunAtATime == Spec => []NoConcurrentRun
<1>1. SafeInv => NoConcurrentRun
  BY DEF SafeInv, LocksAreExclusive, NoConcurrentRun, DeliveryLocks
<1>2. QED
  BY OutboxSafe, <1>1, PTL

\* What a step of a worker or of a replay does to the three tables, however
\* many workers there are: none takes an event out of the queue without an
\* outcome, and a dead letter is written with the state that tells of it.
LEMMA LossStep == TypeOK /\ NothingLost /\ [Next]_vars => NothingLost'
<1> SUFFICES ASSUME TypeOK, NothingLost, [Next]_vars PROVE NothingLost'
  OBVIOUS
<1> USE DEF TypeOK, NothingLost
<1>1. ASSUME NEW e \in Event, Publish(e) \/ Age(e) \/ Replay(e) PROVE NothingLost'
  <2>1. CASE Publish(e) \/ Age(e)
    BY <2>1 DEF Publish, Age
  <2>2. CASE Replay(e)
    <3>1. /\ publish' = [publish EXCEPT ![e] = "pending"]
          /\ delivery' = [delivery EXCEPT ![e] = "pending"]
          /\ \E n : parked' = [parked EXCEPT ![e] = n]
      BY <2>2 DEF Replay, Reopen
    <3>2. QED
      BY <3>1
  <2>3. QED
    BY <1>1, <2>1, <2>2
<1>2. ASSUME NEW w \in Worker, SweepCommit(w) PROVE NothingLost'
  <2>1. \A e \in Event :
          /\ delivery'[e] = IF e \in picked[w] THEN "dead_letter"
                             ELSE IF e \in retry[w] THEN "pending" ELSE delivery[e]
          /\ publish'[e] = IF e \in picked[w] THEN "dead_letter"
                            ELSE IF e \in retry[w] THEN "pending" ELSE publish[e]
          /\ parked'[e] = IF e \in picked[w] /\ parked[e] < 2
                           THEN parked[e] + 1 ELSE parked[e]
    BY <1>2 DEF SweepCommit, SetAll
  <2>2. ASSUME NEW e \in Event, e \in picked[w] PROVE parked'[e] > 0
    <3>1. parked[e] \in 0..2
      OBVIOUS
    <3>2. parked'[e] = IF parked[e] < 2 THEN parked[e] + 1 ELSE parked[e]
      BY <2>1, <2>2
    <3>3. QED
      BY <3>1, <3>2
  <2>3. \A e \in Event : e \notin picked[w] => parked'[e] = parked[e]
    BY <2>1
  <2>4. QED
    BY <2>1, <2>2, <2>3
<1>3. ASSUME NEW w \in Worker, RecoverApply(w) \/ Poll(w) PROVE NothingLost'
  <2>1. \A e \in Event : publish'[e] \in {publish[e], "pending", "dispatching"}
    BY <1>3 DEF RecoverApply, Poll, SetAll
  <2>2. UNCHANGED <<delivery, parked>>
    BY <1>3 DEF RecoverApply, Poll
  <2>3. QED
    BY <2>1, <2>2
<1>4. ASSUME NEW w \in Worker, CommitBatch(w) PROVE NothingLost'
  <2>1. \A e \in Event :
          /\ publish'[e] = IF e \in Done(w) THEN "dispatched" ELSE publish[e]
          /\ delivery'[e] \in (IF e \in Done(w) THEN {"acknowledged", "failed"}
                                ELSE {delivery[e]})
    BY <1>4 DEF CommitBatch, SetAll, Outcome, Done
  <2>2. parked' = parked
    BY <1>4 DEF CommitBatch
  <2>3. QED
    BY <2>1, <2>2
<1>5. CASE UNCHANGED rows
  BY <1>5 DEF rows
<1>6. CASE UNCHANGED vars
  BY <1>6 DEF vars
<1>7. QED
  BY <1>1, <1>2, <1>3, <1>4, <1>5, <1>6
     DEF Next, Cycle, RetryPick, RetryApply, RecoverPick, Begin, Finish, Abort,
         Stop, Lead, Leave

\* Code behaviour: sweepers and dispatcher write by id what they read earlier
\* (retry_sweeper.py:152-219, recovery_sweeper.py:49-53).  However many workers
\* believe that they hold the lease, an event that has left the queue has an
\* outcome that someone acts upon.
THEOREM EventsAreNotLost == Spec => []NothingLost
<1>1. Init => NothingLost
  BY DEF Init, NothingLost
<1>2. SafeInv => TypeOK
  BY DEF SafeInv
<1>3. QED
  BY OutboxSafe, LossStep, <1>1, <1>2, PTL DEF Spec

----------------------------------------------------------------------------
(* Under an exclusive lease.                                                *)

\* Taking the head of a batch whose events are different.
LEMMA HeadAndTail ==
  ASSUME NEW s \in Seq(Event), s # <<>>,
         \A i, j \in DOMAIN s : s[i] = s[j] => i = j
  PROVE  /\ Head(s) \in ToSet(s)
         /\ ToSet(Tail(s)) \subseteq ToSet(s)
         /\ Head(s) \notin ToSet(Tail(s))
         /\ \A i, j \in DOMAIN Tail(s) : Tail(s)[i] = Tail(s)[j] => i = j
<1>1. /\ Tail(s) \in Seq(Event)
      /\ \A i \in DOMAIN Tail(s) : i + 1 \in DOMAIN s /\ Tail(s)[i] = s[i + 1]
      /\ DOMAIN Tail(s) \subseteq Nat \ {0}
      /\ 1 \in DOMAIN s /\ Head(s) = s[1]
  OBVIOUS
<1>2. QED
  BY <1>1 DEF ToSet

\* A worker that is down has nothing in hand.
LEMMA Idle ==
  ASSUME Tidy, NEW v \in Worker, pc[v] = "down"
  PROVE  /\ StillSo(v) /\ Once(v)
         /\ retry[v] = {} /\ batch[v] = <<>> /\ Done(v) = {} /\ Current(v) = {}
  BY DEF Tidy, StillSo, Once, Done, Current, ToSet

\* Nothing has happened yet in the initial state.
LEMMA LeaderInit == Init => LeaderInv
<1> SUFFICES ASSUME Init PROVE LeaderInv
  OBVIOUS
<1>1. OneActive /\ Accounted /\ HasAttempts
  BY OutboxAssumption DEF Init, OneActive, Accounted, HasAttempts
<1>2. \A w \in Worker : StillSo(w) /\ Once(w)
  BY SafeInit, Idle DEF Init, SafeInv
<1>3. RunsCounted
  BY OutboxAssumption DEF Init, RunsCounted, InFlight, Done, Current
<1>4. QED
  BY <1>1, <1>2, <1>3 DEF LeaderInv

\* The lease admits one active worker.
LEMMA OneActiveStep ==
  TypeOK /\ Exclusive /\ OneActive /\ [Next]_vars => OneActive'
<1> SUFFICES ASSUME TypeOK, Exclusive, OneActive, [Next]_vars PROVE OneActive'
  OBVIOUS
<1> USE DEF TypeOK, OneActive, Goto
<1>1. ASSUME NEW w \in Worker, pc[w] # "down", NEW to, pc' = [pc EXCEPT ![w] = to]
      PROVE  OneActive'
  BY <1>1
<1>2. ASSUME NEW w \in Worker, Lead(w) PROVE OneActive'
  BY <1>2 DEF Lead
<1>3. ASSUME pc' = pc PROVE OneActive'
  BY <1>3
<1>4. ASSUME NEW w \in Worker, Cycle(w) \/ Abort(w) \/ Stop(w) \/ Leave(w)
      PROVE  pc[w] # "down" /\ \E to : pc' = [pc EXCEPT ![w] = to]
  BY <1>4 DEF Cycle, RetryPick, RetryApply, SweepCommit, RecoverPick,
              RecoverApply, Poll, Begin, Finish, CommitBatch, Abort, Stop, Leave
<1>5. QED
  BY <1>1, <1>2, <1>3, <1>4 DEF Next, Publish, Age, Replay, vars

\* The rest of the invariant for the workers that are not active.
LEMMA Others ==
  ASSUME TypeOK, Tidy, Tidy', OneActive, NEW w \in Worker, pc[w] # "down",
         NEW to, pc' = [pc EXCEPT ![w] = to],
         NEW v \in Worker, v # w
  PROVE  /\ (StillSo(v) /\ Once(v))'
         /\ Done(v) = {} /\ Current(v) = {}
         /\ Done(v)' = {} /\ Current(v)' = {}
         /\ retry[v] = {}
<1>1. pc[v] = "down" /\ pc'[v] = "down"
  BY DEF TypeOK, OneActive
<1>2. (StillSo(v) /\ Once(v))' /\ Done(v)' = {} /\ Current(v)' = {}
  BY <1>1 DEF Tidy, StillSo, Once, Done, Current, ToSet
<1>3. QED
  BY <1>1, <1>2, Idle

\* Only the active worker has runs under way.
LEMMA FlightOfOne ==
  ASSUME TypeOK, Tidy, Tidy', OneActive, NEW w \in Worker, pc[w] # "down",
         NEW to, pc' = [pc EXCEPT ![w] = to]
  PROVE  /\ \A e \in Event : InFlight(e) <=> e \in Done(w) \cup Current(w)
         /\ \A e \in Event : InFlight(e)' <=> e \in Done(w)' \cup Current(w)'
  BY Others DEF InFlight

\* What is counted of runs does not go down.
LEMMA CountKept ==
  ASSUME TypeOK, TypeOK', RunsCounted,
         UNCHANGED <<runs, attempts, replays, faults>>,
         \A e \in Event : InFlight(e) => InFlight(e)'
  PROVE  RunsCounted'
<1> SUFFICES ASSUME NEW e \in Event
             PROVE  runs'[e] <= attempts'[e] + MaxAttempts * replays' + faults'
                                  + (IF InFlight(e)' THEN 1 ELSE 0)
  BY DEF RunsCounted
<1>1. runs[e] \in Nat /\ attempts[e] \in Nat /\ faults \in Nat
  BY DEF TypeOK
<1>2. MaxAttempts * replays \in Nat
  BY OutboxAssumption DEF TypeOK
<1>3. runs[e] <= attempts[e] + MaxAttempts * replays + faults
                   + (IF InFlight(e) THEN 1 ELSE 0)
  BY DEF RunsCounted
<1>4. QED
  BY <1>1, <1>2, <1>3

\* A step in which the active worker w reads or moves on, without running a
\* consumer and without writing a row.
LEMMA ReadStep ==
  ASSUME TypeOK, Tidy, TypeOK', Tidy', LeaderInv, OneActive',
         NEW w \in Worker, pc[w] # "down",
         NEW to, pc' = [pc EXCEPT ![w] = to],
         UNCHANGED <<rows, runs, replays, faults>>,
         (StillSo(w) /\ Once(w))',
         Done(w) \cup Current(w) = {}
  PROVE  LeaderInv'
<1>1. Accounted' /\ HasAttempts'
  BY DEF LeaderInv, Accounted, HasAttempts, rows
<1>2. \A v \in Worker : (StillSo(v) /\ Once(v))'
  BY Others DEF LeaderInv
<1>3. RunsCounted'
  BY FlightOfOne, CountKept DEF LeaderInv, rows
<1>4. QED
  BY <1>1, <1>2, <1>3 DEF LeaderInv

\* The steps of the application.
LEMMA LeaderEnv ==
  ASSUME TypeOK, Tidy, TypeOK', LeaderInv, OneActive', NEW e \in Event,
         Publish(e) \/ Age(e) \/ Replay(e)
  PROVE  LeaderInv'
<1> USE OutboxAssumption DEF TypeOK, LeaderInv
<1>1. UNCHANGED <<pc, picked, retry, batch, acked, failed, runs, faults>>
  BY DEF Publish, Age, Replay, txns
<1>2. CASE Publish(e)
  <2>1. Accounted' /\ HasAttempts'
    BY <1>2 DEF Publish, Accounted, HasAttempts, PublishState, DeliveryState
  <2>2. \A w \in Worker : (StillSo(w) /\ Once(w))'
    BY <1>1, <1>2 DEF Publish, StillSo, Once, Retryable, Exhausted, Done
  <2>3. RunsCounted'
    BY <1>1, <1>2 DEF Publish, RunsCounted, InFlight, Done, Current
  <2>4. QED
    BY <2>1, <2>2, <2>3
<1>3. CASE Age(e)
  <2>1. Accounted' /\ HasAttempts'
    BY <1>3 DEF Age, Accounted, HasAttempts
  <2>2. \A w \in Worker : (StillSo(w) /\ Once(w))'
    BY <1>1, <1>3 DEF Age, StillSo, Once, Retryable, Exhausted, Done
  <2>3. RunsCounted'
    BY <1>1, <1>3 DEF Age, RunsCounted, InFlight, Done, Current
  <2>4. QED
    BY <2>1, <2>2, <2>3
<1>4. CASE Replay(e)
  <2>1. delivery[e] = "dead_letter" /\ publish[e] = "dead_letter" /\ parked[e] = 1
    BY <1>4 DEF Replay, Accounted
  <2>2. Accounted' /\ HasAttempts'
    BY <1>4, <2>1 DEF Replay, Reopen, Accounted, HasAttempts, PublishState, DeliveryState
  <2>3. \A w \in Worker : (StillSo(w) /\ Once(w))'
    BY <1>1, <1>4, <2>1 DEF Replay, Reopen, StillSo, Once, Retryable, Exhausted, Done
  <2>4. \A f \in Event : InFlight(f)' <=> InFlight(f)
    BY <1>1 DEF InFlight, Done, Current
  <2>5. ~InFlight(e)
    <3>1. \A w \in Worker : e \notin Done(w)
      BY <2>1 DEF StillSo
    <3>2. \A w \in Worker : e \notin Current(w)
      BY <1>4 DEF Replay, DeliveryLocks
    <3>3. QED
      BY <3>1, <3>2 DEF InFlight
  <2> DEFINE p == MaxAttempts * replays
             q == MaxAttempts * replays'
  <2>6. p \in Nat /\ q = p + MaxAttempts
    BY <1>4 DEF Replay
  <2>7. ASSUME NEW f \in Event
        PROVE runs'[f] <= attempts'[f] + q + faults' + (IF InFlight(f)' THEN 1 ELSE 0)
    <3> HIDE DEF p, q
    <3>1. runs[f] <= attempts[f] + p + faults + (IF InFlight(f) THEN 1 ELSE 0)
      BY DEF RunsCounted, p
    <3>2. CASE f = e
      <4>1. attempts'[f] = 0 /\ attempts[f] <= MaxAttempts /\ attempts[f] \in Nat
        BY <1>4, <3>2 DEF Replay, Reopen
      <4>2. ~InFlight(f) /\ ~InFlight(f)' /\ runs[f] \in Nat /\ faults \in Nat
        BY <2>4, <2>5, <3>2
      <4>3. runs' = runs /\ faults' = faults
        BY <1>1
      <4>4. QED
        BY <2>6, <3>1, <4>1, <4>2, <4>3
    <3>3. CASE f # e
      BY <1>1, <1>4, <2>4, <2>6, <3>1, <3>3 DEF Replay, Reopen
    <3>4. QED
      BY <3>2, <3>3
  <2>8. RunsCounted'
    BY <2>7 DEF RunsCounted
  <2>9. QED
    BY <2>2, <2>3, <2>8
<1>5. QED
  BY <1>2, <1>3, <1>4

\* The two sweeps and the start of the loop.
LEMMA LeaderSweep ==
  ASSUME TypeOK, Tidy, TypeOK', Tidy', LeaderInv, OneActive', NEW w \in Worker,
         \/ RetryPick(w) \/ RetryApply(w) \/ SweepCommit(w)
         \/ RecoverPick(w) \/ RecoverApply(w)
  PROVE  LeaderInv'
<1> USE OutboxAssumption DEF Goto
<1>1. /\ pc[w] # "down" /\ pc[w] \notin {"batch", "run"}
      /\ \E to : pc' = [pc EXCEPT ![w] = to]
      /\ pc'[w] # "run"
      /\ UNCHANGED <<batch, acked, failed, runs, attempts, replays, faults>>
  BY DEF RetryPick, RetryApply, SweepCommit, RecoverPick, RecoverApply, rows, TypeOK
<1>2. /\ Done(w) = {} /\ Current(w) = {} /\ batch[w] = <<>>
      /\ Done(w)' = {} /\ Current(w)' = {}
  BY <1>1 DEF Done, Current, Tidy
<1>3. Once(w)'
  BY <1>1, <1>2 DEF Once, Done, ToSet
<1>4. \A e \in ToSet(batch'[w]) \cup Done(w)' : FALSE
  BY <1>1, <1>2 DEF ToSet
<1>5. CASE RetryPick(w) \/ RetryApply(w) \/ RecoverPick(w)
  <2>1. UNCHANGED rows
    BY <1>5 DEF RetryPick, RetryApply, RecoverPick
  <2>2. StillSo(w)'
    <3>1. CASE RetryPick(w)
      BY <1>4, <3>1 DEF RetryPick, StillSo, Retryable, Tidy, TypeOK, rows
    <3>2. CASE RetryApply(w)
      BY <1>4, <3>2 DEF RetryApply, StillSo, Retryable, Exhausted, TypeOK, rows, LeaderInv
    <3>3. CASE RecoverPick(w)
      BY <1>4, <3>3 DEF RecoverPick, StillSo, Retryable, Abandoned, Tidy, TypeOK, rows
    <3>4. QED
      BY <1>5, <3>1, <3>2, <3>3
  <2>3. QED
    BY <1>1, <1>2, <1>3, <2>1, <2>2, ReadStep DEF rows
<1>6. ASSUME StillSo(w)', Accounted', HasAttempts' PROVE LeaderInv'
  <2>1. \A v \in Worker : (StillSo(v) /\ Once(v))'
    BY <1>1, <1>3, <1>6, Others DEF LeaderInv
  <2>2. RunsCounted'
    BY <1>1, <1>2, FlightOfOne, CountKept DEF LeaderInv
  <2>3. QED
    BY <1>6, <2>1, <2>2 DEF LeaderInv
<1>7. CASE SweepCommit(w)
  <2>1. \A e \in retry[w] : Retryable(e)
    BY DEF LeaderInv, StillSo
  <2>2. \A e \in picked[w] : Exhausted(e)
    BY <1>7 DEF SweepCommit, LeaderInv, StillSo
  <2>3. \A e \in retry[w] \cup picked[w] : delivery[e] = "failed" /\ parked[e] = 0
    BY <2>1, <2>2 DEF LeaderInv, Accounted, Retryable, Exhausted, TypeOK
  <2>4. \A e \in Event :
          /\ delivery'[e] = IF e \in picked[w] THEN "dead_letter"
                             ELSE IF e \in retry[w] THEN "pending" ELSE delivery[e]
          /\ publish'[e] = IF e \in picked[w] THEN "dead_letter"
                            ELSE IF e \in retry[w] THEN "pending" ELSE publish[e]
          /\ parked'[e] = IF e \in picked[w] /\ parked[e] < 2
                           THEN parked[e] + 1 ELSE parked[e]
    BY <1>7 DEF SweepCommit, SetAll, TypeOK
  <2>5. Accounted'
    BY <2>3, <2>4 DEF Accounted, LeaderInv
  <2>6. HasAttempts'
    BY <1>1, <2>1, <2>4 DEF HasAttempts, LeaderInv, Retryable
  <2>7. StillSo(w)'
    BY <1>4, <1>7 DEF SweepCommit, StillSo, TypeOK
  <2>8. QED
    BY <1>6, <2>5, <2>6, <2>7
<1>8. CASE RecoverApply(w)
  <2>1. \A e \in picked[w] : publish[e] = "dispatching"
    BY <1>8 DEF RecoverApply, LeaderInv, StillSo
  <2>2. /\ \A e \in Event : publish'[e] = IF e \in picked[w] THEN "pending" ELSE publish[e]
        /\ UNCHANGED <<delivery, attempts, parked>>
    BY <1>8 DEF RecoverApply, SetAll, TypeOK
  <2>3. Accounted'
    BY <2>1, <2>2 DEF Accounted, LeaderInv
  <2>4. HasAttempts'
    BY <2>1, <2>2 DEF HasAttempts, LeaderInv
  <2>5. StillSo(w)'
    BY <1>4, <1>8 DEF RecoverApply, StillSo, Tidy, TypeOK
  <2>6. QED
    BY <1>6, <2>3, <2>4, <2>5
<1>9. QED
  BY <1>5, <1>7, <1>8

\* Claiming a batch.
LEMMA LeaderPoll ==
  ASSUME TypeOK, Tidy, TypeOK', Tidy', LeaderInv, OneActive', NEW w \in Worker,
         Poll(w)
  PROVE  LeaderInv'
<1> USE OutboxAssumption DEF Goto
<1>1. PICK B \in SUBSET Claimable(w) :
        /\ \E s \in SetToSeqs(B) : batch' = [batch EXCEPT ![w] = s]
        /\ publish' = SetAll(publish, B, "dispatching")
        /\ pc' = [pc EXCEPT ![w] = IF B = {} THEN "top" ELSE "batch"]
  BY DEF Poll
<1>2. PICK s \in SetToSeqs(B) : batch' = [batch EXCEPT ![w] = s]
  BY <1>1
<1>3. /\ s \in Seq(Event) /\ ToSet(s) \subseteq B
      /\ \A i, j \in DOMAIN s : s[i] = s[j] => i = j
  BY BatchChoice DEF Claimable
<1>4. /\ pc[w] # "down" /\ pc[w] \notin {"batch", "run", "promote"} /\ pc'[w] \in {"top", "batch"}
      /\ UNCHANGED <<delivery, attempts, parked, retry, acked, failed, runs, replays, faults>>
  BY <1>1 DEF Poll, TypeOK
<1>5. /\ Done(w) = {} /\ Current(w) = {} /\ Done(w)' = {} /\ Current(w)' = {}
      /\ retry[w] = {} /\ batch'[w] = s
  BY <1>2, <1>4 DEF Done, Current, Tidy, TypeOK
<1>6. \A e \in Event : publish'[e] = IF e \in B THEN "dispatching" ELSE publish[e]
  BY <1>1 DEF SetAll, TypeOK
<1>7. \A e \in B : publish[e] = "pending"
  BY <1>1 DEF Claimable
<1>8. Accounted' /\ HasAttempts'
  BY <1>4, <1>6, <1>7 DEF Accounted, HasAttempts, LeaderInv
<1>9. StillSo(w)'
  BY <1>1, <1>3, <1>4, <1>5, <1>6 DEF StillSo, Claimable
<1>10. Once(w)'
  BY <1>3, <1>5 DEF Once
<1>11. \A v \in Worker : (StillSo(v) /\ Once(v))'
  BY <1>1, <1>4, <1>9, <1>10, Others DEF LeaderInv
<1>12. RunsCounted'
  BY <1>1, <1>4, <1>5, FlightOfOne, CountKept DEF LeaderInv
<1>13. QED
  BY <1>8, <1>11, <1>12 DEF LeaderInv

\* The consumer of the head of the batch starts: one more run under way.
LEMMA LeaderBegin ==
  ASSUME TypeOK, Tidy, TypeOK', Tidy', LeaderInv, OneActive', NEW w \in Worker,
         Begin(w)
  PROVE  LeaderInv'
<1> DEFINE e == Head(batch[w])
<1>1. /\ pc[w] = "batch" /\ batch[w] # <<>> /\ pc' = [pc EXCEPT ![w] = "run"]
      /\ UNCHANGED <<publish, delivery, attempts, parked, retry, batch, acked,
                     failed, replays, faults>>
      /\ runs' = [runs EXCEPT ![e] = IF @ < MaxRuns THEN @ + 1 ELSE @]
  BY DEF Begin, Goto, rows
<1>2. e \in Event /\ e \in ToSet(batch[w])
  BY <1>1, HeadAndTail DEF TypeOK, LeaderInv, Once
<1>3. Done(w)' = Done(w) /\ Current(w) = {} /\ Current(w)' = {e}
  BY <1>1 DEF Done, Current, TypeOK
<1>4. Accounted' /\ HasAttempts'
  BY <1>1 DEF Accounted, HasAttempts, LeaderInv
<1>5. StillSo(w)' /\ Once(w)'
  BY <1>1, <1>3 DEF StillSo, Once, LeaderInv, TypeOK, Retryable
<1>6. \A v \in Worker : (StillSo(v) /\ Once(v))'
  BY <1>1, <1>5, Others DEF LeaderInv
<1>7. \A f \in Event : f = e => ~InFlight(f) /\ InFlight(f)'
  BY <1>1, <1>2, <1>3, FlightOfOne DEF LeaderInv, Once
<1>8. \A f \in Event \ {e} : InFlight(f)' <=> InFlight(f)
  BY <1>1, <1>3, FlightOfOne DEF LeaderInv
<1> DEFINE p == MaxAttempts * replays
<1>9. p \in Nat
  BY OutboxAssumption DEF TypeOK
<1>10. ASSUME NEW f \in Event
       PROVE runs'[f] <= attempts'[f] + p + faults' + (IF InFlight(f)' THEN 1 ELSE 0)
  <2>1. runs[f] <= attempts[f] + p + faults + (IF InFlight(f) THEN 1 ELSE 0)
    BY DEF LeaderInv, RunsCounted
  <2>2. runs[f] \in Nat /\ attempts[f] \in Nat /\ faults \in Nat
    BY MaxRunsType DEF TypeOK
  <2> HIDE DEF p, e
  <2>3. CASE f = e
    <3>1. runs'[f] <= runs[f] + 1
      BY <1>1, <1>2, <2>2, <2>3, MaxRunsType DEF TypeOK
    <3>2. runs'[f] \in Nat
      BY MaxRunsType DEF TypeOK
    <3>3. attempts' = attempts /\ faults' = faults
      BY <1>1
    <3>4. ~InFlight(f) /\ InFlight(f)'
      BY <1>7, <2>3
    <3>5. QED
      BY <1>9, <2>1, <2>2, <3>1, <3>2, <3>3, <3>4
  <2>4. CASE f # e
    <3>1. runs'[f] = runs[f] /\ attempts' = attempts /\ faults' = faults
      BY <1>1, <2>4 DEF TypeOK
    <3>2. QED
      BY <1>8, <1>9, <2>1, <2>2, <2>4, <3>1
  <2>5. QED
    BY <2>3, <2>4
<1>11. RunsCounted'
  BY <1>1, <1>10 DEF RunsCounted
<1>12. QED
  BY <1>4, <1>6, <1>11 DEF LeaderInv

\* The consumer has returned.
LEMMA LeaderFinish ==
  ASSUME TypeOK, Tidy, TypeOK', Tidy', LeaderInv, OneActive', NEW w \in Worker,
         Finish(w)
  PROVE  LeaderInv'
<1> DEFINE e == Head(batch[w])
<1>1. /\ pc[w] = "run" /\ batch[w] # <<>> /\ pc' = [pc EXCEPT ![w] = "batch"]
      /\ UNCHANGED <<publish, delivery, attempts, parked, retry, runs, replays, faults>>
      /\ batch' = [batch EXCEPT ![w] = Tail(@)]
  BY DEF Finish, Goto, rows, Tidy
<1>2. /\ e \in Event /\ e \in ToSet(batch[w])
      /\ ToSet(Tail(batch[w])) \subseteq ToSet(batch[w])
      /\ e \notin ToSet(Tail(batch[w]))
      /\ \A i, j \in DOMAIN Tail(batch[w]) :
           Tail(batch[w])[i] = Tail(batch[w])[j] => i = j
  <2>1. /\ batch[w] \in Seq(Event) /\ batch[w] # <<>>
        /\ \A i, j \in DOMAIN batch[w] : batch[w][i] = batch[w][j] => i = j
    BY <1>1 DEF TypeOK, LeaderInv, Once
  <2>2. e \in Event
    BY <2>1
  <2>3. QED
    BY <2>1, <2>2, HeadAndTail
<1>3. /\ Done(w)' = Done(w) \cup {e} /\ Current(w) = {e} /\ Current(w)' = {}
      /\ batch'[w] = Tail(batch[w])
  BY <1>1 DEF Finish, Done, Current, TypeOK
<1>4. Accounted' /\ HasAttempts'
  BY <1>1 DEF Accounted, HasAttempts, LeaderInv
<1>5. StillSo(w)'
  <2>1. retry'[w] = {}
    BY <1>1 DEF Tidy
  <2>2. \A f \in ToSet(batch'[w]) \cup Done(w)' : publish'[f] = "dispatching"
    BY <1>1, <1>2, <1>3 DEF LeaderInv, StillSo
  <2>3. pc'[w] = "batch"
    BY <1>1 DEF TypeOK
  <2>4. QED
    BY <2>1, <2>2, <2>3 DEF StillSo
<1>6. Once(w)'
  BY <1>2, <1>3 DEF Once, LeaderInv
<1>7. \A v \in Worker : (StillSo(v) /\ Once(v))'
  BY <1>1, <1>5, <1>6, Others DEF LeaderInv
<1>8. \A f \in Event : InFlight(f) => InFlight(f)'
  BY <1>1, <1>3, FlightOfOne DEF LeaderInv
<1>9. RunsCounted'
  BY <1>1, <1>8, CountKept DEF LeaderInv
<1>10. QED
  BY <1>4, <1>7, <1>9 DEF LeaderInv

\* The batch commits: the runs under way become attempts.
LEMMA LeaderCommit ==
  ASSUME TypeOK, Tidy, TypeOK', Tidy', LeaderInv, OneActive', NEW w \in Worker,
         CommitBatch(w)
  PROVE  LeaderInv'
<1>1. /\ pc[w] = "batch" /\ batch[w] = <<>> /\ pc' = [pc EXCEPT ![w] = "top"]
      /\ UNCHANGED <<parked, picked, retry, batch, runs, replays, faults>>
      /\ \A e \in Event :
           /\ publish'[e] = IF e \in Done(w) THEN "dispatched" ELSE publish[e]
           /\ delivery'[e] = Outcome(w, e)
           /\ attempts'[e] = IF e \in Done(w) /\ attempts[e] < MaxAttempts
                                THEN attempts[e] + 1 ELSE attempts[e]
  BY DEF CommitBatch, Goto, SetAll, TypeOK
<1>2. \A e \in Event :
        delivery'[e] \in (IF e \in Done(w) THEN {"acknowledged", "failed"} ELSE {delivery[e]})
  BY <1>1 DEF Outcome, Done
<1>3. \A e \in Done(w) : publish[e] = "dispatching"
  BY DEF LeaderInv, StillSo
<1>4. \A e \in Done(w) \cap Event : delivery[e] \in {"none", "pending"} /\ parked[e] = 0
  BY <1>3 DEF LeaderInv, Accounted
<1>5. Accounted'
  BY <1>1, <1>2, <1>4 DEF Accounted, LeaderInv
<1>6. HasAttempts'
  BY <1>1 DEF HasAttempts, LeaderInv
<1>7. Done(w)' = {} /\ Current(w)' = {} /\ Current(w) = {}
  BY <1>1 DEF CommitBatch, Done, Current, TypeOK
<1>8. StillSo(w)' /\ Once(w)'
  BY <1>1, <1>7 DEF StillSo, Once, ToSet, Tidy, TypeOK
<1>9. \A v \in Worker : (StillSo(v) /\ Once(v))'
  BY <1>1, <1>8, Others DEF LeaderInv
<1> DEFINE p == MaxAttempts * replays
<1>10. p \in Nat
  BY OutboxAssumption DEF TypeOK
<1>11. ASSUME NEW f \in Event
       PROVE runs'[f] <= attempts'[f] + p + faults' + (IF InFlight(f)' THEN 1 ELSE 0)
  <2>1. runs[f] <= attempts[f] + p + faults + (IF InFlight(f) THEN 1 ELSE 0)
    BY DEF LeaderInv, RunsCounted
  <2>2. /\ runs[f] \in Nat /\ attempts[f] \in Nat /\ faults \in Nat
        /\ attempts'[f] \in Nat
    BY OutboxAssumption, MaxRunsType DEF TypeOK
  <2>3. InFlight(f) <=> f \in Done(w)
    BY <1>1, <1>7, FlightOfOne DEF LeaderInv
  <2>4. ~InFlight(f)'
    BY <1>1, <1>7, FlightOfOne DEF LeaderInv
  <2>5. f \in Done(w) => attempts[f] < MaxAttempts
    BY <1>3 DEF LeaderInv, HasAttempts
  <2> HIDE DEF p
  <2>6. runs' = runs /\ faults' = faults
    BY <1>1
  <2>7. attempts'[f] = IF f \in Done(w) THEN attempts[f] + 1 ELSE attempts[f]
    BY <1>1, <2>5
  <2>8. QED
    BY <1>10, <2>1, <2>2, <2>3, <2>4, <2>6, <2>7
<1>12. RunsCounted'
  BY <1>1, <1>11 DEF RunsCounted
<1>13. QED
  BY <1>5, <1>6, <1>9, <1>12 DEF LeaderInv

\* The only active worker waits for nobody.
LEMMA NoDeadlock ==
  ASSUME Tidy, OneActive, NEW w \in Worker, pc[w] # "down"
  PROVE  ~Deadlocked(w)
<1> SUFFICES ASSUME NEW S \in SUBSET Worker, w \in S,
                    \A v \in S : \E u \in S : WaitsFor(v, u)
             PROVE  FALSE
  BY DEF Deadlocked
<1>1. PICK u \in S : WaitsFor(w, u)
  OBVIOUS
<1>2. u # w /\ DeliveryLocks(u) # {}
  BY <1>1 DEF WaitsFor
<1>3. pc[u] = "down"
  BY <1>2 DEF OneActive
<1>4. DeliveryLocks(u) = {}
  BY <1>3, Idle DEF DeliveryLocks
<1>5. QED
  BY <1>2, <1>4

\* A rollback forgets at most one run of each event, and is counted.
LEMMA LeaderFault ==
  ASSUME TypeOK, Tidy, TypeOK', Tidy', LeaderInv, OneActive', NEW w \in Worker,
         Abort(w) \/ Stop(w)
  PROVE  LeaderInv'
<1>1. pc[w] # "down"
  BY DEF Abort, Stop
<1>2. /\ Forget(w) /\ faults' = faults + 1 /\ UNCHANGED <<rows, runs, replays>>
      /\ \E to : to # "run" /\ pc' = [pc EXCEPT ![w] = to]
  BY <1>1, NoDeadlock DEF Abort, Stop, Fault, Goto, LeaderInv
<1>3. PICK to : to # "run" /\ pc' = [pc EXCEPT ![w] = to]
  BY <1>2
<1>4. Accounted' /\ HasAttempts'
  BY <1>2 DEF LeaderInv, Accounted, HasAttempts, rows
<1>5. Done(w)' = {} /\ Current(w)' = {}
  BY <1>2, <1>3 DEF Forget, Done, Current, TypeOK
<1>6. StillSo(w)' /\ Once(w)'
  BY <1>2, <1>5 DEF Forget, StillSo, Once, ToSet, TypeOK
<1>7. \A v \in Worker : (StillSo(v) /\ Once(v))'
  BY <1>1, <1>3, <1>6, Others DEF LeaderInv
<1> DEFINE p == MaxAttempts * replays
<1>8. p \in Nat
  BY OutboxAssumption DEF TypeOK
<1>9. ASSUME NEW f \in Event
      PROVE runs'[f] <= attempts'[f] + p + faults' + (IF InFlight(f)' THEN 1 ELSE 0)
  <2>1. runs[f] <= attempts[f] + p + faults + (IF InFlight(f) THEN 1 ELSE 0)
    BY DEF LeaderInv, RunsCounted
  <2>2. /\ runs[f] \in Nat /\ attempts[f] \in Nat /\ faults \in Nat
        /\ runs' = runs /\ attempts' = attempts /\ faults' = faults + 1
    BY <1>2, OutboxAssumption, MaxRunsType DEF TypeOK, rows
  <2>3. ~InFlight(f)'
    BY <1>1, <1>3, <1>5, FlightOfOne DEF LeaderInv
  <2> HIDE DEF p
  <2>4. QED
    BY <1>8, <2>1, <2>2, <2>3
<1>10. RunsCounted'
  BY <1>2, <1>9 DEF RunsCounted
<1>11. QED
  BY <1>4, <1>7, <1>10 DEF LeaderInv

\* A worker starts to lead.
LEMMA LeaderLead ==
  ASSUME TypeOK, Tidy, TypeOK', Tidy', LeaderInv, OneActive', NEW w \in Worker,
         Lead(w)
  PROVE  LeaderInv'
<1>1. /\ pc[w] = "down" /\ pc' = [pc EXCEPT ![w] = "top"]
      /\ UNCHANGED <<rows, picked, retry, batch, acked, failed, runs, replays, faults>>
  BY DEF Lead, Goto, txns
<1>2. Accounted' /\ HasAttempts'
  BY <1>1 DEF LeaderInv, Accounted, HasAttempts, rows
<1>3. \A v \in Worker : (StillSo(v) /\ Once(v))'
  BY <1>1 DEF LeaderInv, StillSo, Once, Done, Retryable, Exhausted, rows, TypeOK
<1>4. \A f \in Event : InFlight(f) => InFlight(f)'
  BY <1>1 DEF InFlight, Done, Current, TypeOK
<1>5. RunsCounted'
  BY <1>1, <1>4, CountKept DEF LeaderInv, rows
<1>6. QED
  BY <1>2, <1>3, <1>5 DEF LeaderInv

\* A worker leaves the loop with nothing in hand.
LEMMA LeaderLeave ==
  ASSUME TypeOK, Tidy, TypeOK', Tidy', LeaderInv, OneActive', NEW w \in Worker,
         Leave(w)
  PROVE  LeaderInv'
<1>1. /\ pc[w] = "top" /\ pc' = [pc EXCEPT ![w] = "down"]
      /\ UNCHANGED <<rows, picked, retry, batch, acked, failed, runs, replays, faults>>
  BY DEF Leave, Goto, txns
<1>2. Done(w) = {} /\ Current(w) = {}
  BY <1>1 DEF Tidy, Done, Current
<1>3. (StillSo(w) /\ Once(w))'
  BY <1>1 DEF Tidy, StillSo, Once, Done, ToSet, TypeOK
<1>4. QED
  BY <1>1, <1>2, <1>3, ReadStep

\* The invariant of an exclusive lease is inductive.
LEMMA LeaderStep ==
  SafeInv /\ SafeInv' /\ Exclusive /\ LeaderInv /\ [Next]_vars => LeaderInv'
<1> SUFFICES ASSUME SafeInv, SafeInv', Exclusive, LeaderInv, [Next]_vars
             PROVE  LeaderInv'
  OBVIOUS
<1>1. TypeOK /\ Tidy /\ TypeOK' /\ Tidy'
  BY DEF SafeInv
<1>2. OneActive'
  BY <1>1, OneActiveStep DEF LeaderInv
<1>3. CASE \E e \in Event : Publish(e) \/ Age(e) \/ Replay(e)
  BY <1>1, <1>2, <1>3, LeaderEnv
<1>4. ASSUME NEW w \in Worker, Cycle(w) PROVE LeaderInv'
  BY <1>1, <1>2, <1>4, LeaderSweep, LeaderPoll, LeaderBegin, LeaderFinish, LeaderCommit
     DEF Cycle
<1>5. ASSUME NEW w \in Worker, Abort(w) \/ Stop(w) \/ Lead(w) \/ Leave(w)
      PROVE  LeaderInv'
  BY <1>1, <1>2, <1>5, LeaderFault, LeaderLead, LeaderLeave
<1>6. CASE UNCHANGED vars
  BY <1>6 DEF vars, LeaderInv, OneActive, StillSo, Once, Accounted, HasAttempts,
              RunsCounted, InFlight, Done, Current, Retryable, Exhausted
<1>7. QED
  BY <1>3, <1>4, <1>5, <1>6 DEF Next

\* Code behaviour: the inductive invariant of the outbox (see README).
THEOREM OutboxInvariant == Spec => []IInv
<1>1. Init => IInv
  BY SafeInit, LeaderInit DEF IInv
<1>2. IInv /\ [Next]_vars => IInv'
  <2>1. SafeInv /\ [Next]_vars => SafeInv'
    BY TypeStep, TidyStep, LocksStep DEF SafeInv
  <2>2. QED
    BY <2>1, LeaderStep DEF IInv
<1>3. QED
  BY <1>1, <1>2, PTL DEF Spec

\* Code behaviour: under an exclusive lease events, event_deliveries and
\* dead_letters agree on every event (dispatcher.py, retry_sweeper.py).
THEOREM TablesAgree ==
  ASSUME Exclusive
  PROVE  Spec => []Accounted
<1>1. IInv => Accounted
  BY DEF IInv, LeaderInv
<1>2. QED
  BY OutboxInvariant, <1>1, PTL

\* A run under way counts as an attempt that the event still has.
LEMMA BudgetFollows == IInv /\ Exclusive => RetryBudget
<1> SUFFICES ASSUME IInv, Exclusive, NEW e \in Event
             PROVE  runs[e] <= MaxAttempts * (1 + replays) + faults
  BY DEF RetryBudget
<1> DEFINE p == MaxAttempts * replays
<1>1. p \in Nat /\ MaxAttempts * (1 + replays) = MaxAttempts + p
  BY OutboxAssumption DEF IInv, SafeInv, TypeOK
<1>2. runs[e] <= attempts[e] + p + faults + (IF InFlight(e) THEN 1 ELSE 0)
  BY DEF IInv, LeaderInv, RunsCounted
<1>3. InFlight(e) => publish[e] = "dispatching"
  <2>1. ASSUME NEW w \in Worker, e \in Current(w) PROVE e \in ToSet(batch[w])
    BY <2>1, HeadAndTail DEF Current, IInv, SafeInv, TypeOK, Tidy, LeaderInv, Once
  <2>2. QED
    BY <2>1 DEF InFlight, IInv, LeaderInv, StillSo
<1>4. InFlight(e) => attempts[e] < MaxAttempts
  BY <1>3 DEF IInv, LeaderInv, HasAttempts
<1>5. /\ runs[e] \in Nat /\ attempts[e] \in 0..MaxAttempts /\ faults \in Nat
      /\ MaxAttempts \in Nat
  BY OutboxAssumption, MaxRunsType DEF IInv, SafeInv, TypeOK
<1> HIDE DEF p
<1>6. QED
  BY <1>1, <1>2, <1>4, <1>5

\* Code behaviour: worker_retry_max_attempts bounds the runs of a consumer
\* (retry_sweeper.py:116-155).
THEOREM RunsAreBounded ==
  ASSUME Exclusive
  PROVE  Spec => []RetryBudget
<1>1. IInv => RetryBudget
  BY BudgetFollows
<1>2. QED
  BY OutboxInvariant, <1>1, PTL

\* Only Begin runs a consumer, and its event is in the queue.
LEMMA RunsWhileQueued ==
  ASSUME IInv, Exclusive, [Next]_vars, NEW e \in Event, delivery[e] = "acknowledged"
  PROVE  runs'[e] = runs[e]
<1>1. ASSUME NEW w \in Worker, Begin(w) PROVE runs'[e] = runs[e]
  <2>1. pc[w] = "batch" /\ batch[w] # <<>>
    BY <1>1 DEF Begin
  <2>2. Head(batch[w]) \in ToSet(batch[w])
    BY <2>1, HeadAndTail DEF IInv, SafeInv, TypeOK, LeaderInv, Once
  <2>3. publish[Head(batch[w])] = "dispatching"
    BY <2>2 DEF IInv, LeaderInv, StillSo
  <2>4. Head(batch[w]) # e
    BY <2>3 DEF IInv, LeaderInv, Accounted
  <2>5. QED
    BY <1>1, <2>4 DEF Begin, IInv, SafeInv, TypeOK
<1>2. CASE UNCHANGED vars
  BY <1>2 DEF vars
<1>3. QED
  BY <1>1, <1>2 DEF Next, Cycle, Publish, Age, Replay, RetryPick, RetryApply,
     SweepCommit, RecoverPick, RecoverApply, Poll, Finish, CommitBatch, Abort,
     Stop, Lead, Leave

\* Code behaviour: an acknowledged event is never run again while the lease is
\* exclusive (dispatcher.py:181-211, retry_sweeper.py:116-219).
THEOREM AckStays ==
  ASSUME Exclusive
  PROVE  Spec => AckIsFinal
<1>1. IInv /\ [Next]_vars =>
        [\A e \in Event : delivery[e] = "acknowledged" => runs'[e] = runs[e]]_vars
  BY RunsWhileQueued
<1>2. QED
  BY OutboxInvariant, <1>1, PTL DEF Spec, AckIsFinal

----------------------------------------------------------------------------
(* The outbox implements the life of an event.                              *)

\* What a step does to the two columns that the stage of an event is made of.
LEMMA ColumnStep ==
  ASSUME IInv, Exclusive, [Next]_vars, NEW e \in Event
  PROVE  \/ publish'[e] = publish[e] /\ delivery'[e] = delivery[e]
         \/ publish[e] = "none" /\ publish'[e] = "pending"
         \/ publish[e] = "dead_letter" /\ publish'[e] = "pending"
         \/ /\ publish[e] # "none" /\ delivery[e] \notin {"acknowledged", "dead_letter"}
            /\ publish'[e] # "none"
<1> USE DEF IInv, SafeInv, TypeOK, LeaderInv
<1>1. ASSUME NEW f \in Event, Publish(f) \/ Age(f) \/ Replay(f)
      PROVE  \/ publish'[e] = publish[e] /\ delivery'[e] = delivery[e]
             \/ publish[e] = "none" /\ publish'[e] = "pending"
             \/ publish[e] = "dead_letter" /\ publish'[e] = "pending"
  <2>1. CASE Publish(f)
    BY <2>1 DEF Publish
  <2>2. CASE Age(f)
    BY <2>2 DEF Age
  <2>3. CASE Replay(f)
    <3>1. publish[f] = "dead_letter"
      BY <2>3 DEF Replay, Accounted
    <3>2. QED
      BY <2>3, <3>1 DEF Replay, Reopen
  <2>4. QED
    BY <1>1, <2>1, <2>2, <2>3
<1>2. ASSUME NEW w \in Worker, SweepCommit(w)
      PROVE  \/ publish'[e] = publish[e] /\ delivery'[e] = delivery[e]
             \/ /\ publish[e] # "none" /\ delivery[e] = "failed"
                /\ publish'[e] # "none"
  <2>1. e \in retry[w] \cup picked[w] => delivery[e] = "failed" /\ publish[e] # "none"
    BY <1>2 DEF SweepCommit, StillSo, Retryable, Exhausted, Accounted
  <2>2. QED
    BY <1>2, <2>1 DEF SweepCommit, SetAll
<1>3. ASSUME NEW w \in Worker, RecoverApply(w)
      PROVE  \/ publish'[e] = publish[e] /\ delivery'[e] = delivery[e]
             \/ publish[e] = "dispatching" /\ publish'[e] # "none"
  <2>1. e \in picked[w] => publish[e] = "dispatching"
    BY <1>3 DEF RecoverApply, StillSo
  <2>2. QED
    BY <1>3, <2>1 DEF RecoverApply, SetAll
<1>4. ASSUME NEW w \in Worker, Poll(w)
      PROVE  \/ publish'[e] = publish[e] /\ delivery'[e] = delivery[e]
             \/ publish[e] = "pending" /\ publish'[e] # "none"
  BY <1>4 DEF Poll, Claimable, SetAll
<1>5. ASSUME NEW w \in Worker, CommitBatch(w)
      PROVE  \/ publish'[e] = publish[e] /\ delivery'[e] = delivery[e]
             \/ publish[e] = "dispatching" /\ publish'[e] # "none"
  <2>1. e \in Done(w) => publish[e] = "dispatching"
    BY DEF StillSo
  <2>2. QED
    BY <1>5, <2>1 DEF CommitBatch, Outcome, SetAll, Done
<1>6. publish[e] \in {"pending", "dispatching"} =>
        delivery[e] \notin {"acknowledged", "dead_letter"}
  BY DEF Accounted
<1>7. CASE UNCHANGED vars
  BY <1>7 DEF vars
<1>8. QED
  BY <1>1, <1>2, <1>3, <1>4, <1>5, <1>6, <1>7
     DEF Next, Cycle, RetryPick, RetryApply, RecoverPick, Begin, Finish, Abort,
         Stop, Lead, Leave, rows

\* Code behaviour: whatever the worker, the sweeps, crashes and replays do, the
\* publisher of an event sees it go from open to delivered or parked, and only
\* a replay takes it back (dispatcher.py, retry_sweeper.py, recovery_sweeper.py).
THEOREM OutboxKeepsPromise ==
  ASSUME Exclusive
  PROVE  Spec => EventPromise
<1>1. Init => Life!LifeInit
  BY DEF Init, Life!LifeInit, Stage
<1>2. IInv /\ IInv' /\ [Next]_vars => [Life!LifeNext]_[e \in Event |-> Stage(e)]
  <2> SUFFICES ASSUME IInv, IInv', [Next]_vars, NEW e \in Event, Stage(e)' # Stage(e)
               PROVE  <<Stage(e), Stage(e)'>> \in Life!Moves
    BY DEF Life!LifeNext
  <2>1. /\ publish[e] = "dead_letter" <=> delivery[e] = "dead_letter"
        /\ publish'[e] = "dead_letter" <=> delivery'[e] = "dead_letter"
    BY DEF IInv, LeaderInv, Accounted
  <2>2. QED
    BY <2>1, ColumnStep DEF Stage, Life!Moves
<1>3. QED
  BY OutboxInvariant, <1>1, <1>2, PTL DEF Spec, EventPromise, Life!LifeSpec

=============================================================================
