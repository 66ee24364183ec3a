---------------------------- MODULE GatewayCallProofs ----------------------------
(***************************************************************************)
(* Proofs about the gateway, for any number of calls, keys, threads and    *)
(* faults, any limit and any number of retries.                            *)
(***************************************************************************)
EXTENDS GatewayCallProps, FiniteSetTheorems, TLAPS

\* The initial state satisfies the invariant.
LEMMA InvInit == Init => IInv
<1> SUFFICES ASSUME Init PROVE IInv
  OBVIOUS
<1> USE GatewayAssumption DEF Init
<1>1. TypeOK
  BY DEF TypeOK, LogState, BudgetState, Answer, At
<1>2. ErrorsEnd /\ SentSoFar /\ KeysAreUnique /\ KnowsItCalled /\ TablesAgree
  BY DEF ErrorsEnd, Position, SentSoFar, KeysAreUnique, KnowsItCalled, TablesAgree
<1>3. Running = {} /\ Committed = {} /\ Passed = {}
  BY DEF Running, Committed, Passed
<1>4. Headroom
  BY <1>3, FS_EmptySet DEF Headroom
<1>5. QED
  BY <1>1, <1>2, <1>4 DEF IInv

\* Type correctness, one action at a time.
LEMMA TypeStep == TypeOK /\ SentSoFar /\ [Next]_vars => TypeOK'
<1> SUFFICES ASSUME TypeOK, SentSoFar, [Next]_vars PROVE TypeOK'
  OBVIOUS
<1> USE GatewayAssumption DEF TypeOK, LogState, BudgetState, Answer, At, SentSoFar
<1>1. ASSUME NEW c \in Call, NEW k \in Key, Start(c, k) PROVE TypeOK'
  BY <1>1 DEF Start, Goto, SetLog
<1>2. ASSUME NEW c \in Call, Check(c) PROVE TypeOK'
  BY <1>2 DEF Check, Goto, Allows
<1>3. ASSUME NEW c \in Call, Deny(c) PROVE TypeOK'
  BY <1>3 DEF Deny, MoveLog, Goto
<1>4. ASSUME NEW c \in Call, Reserve(c) PROVE TypeOK'
  BY <1>4 DEF Reserve, Goto
<1>5. ASSUME NEW c \in Call, Link(c) PROVE TypeOK'
  BY <1>5 DEF Link, MoveLog, Goto
<1>6. ASSUME NEW c \in Call, Credential(c) PROVE TypeOK'
  BY <1>6 DEF Credential, MoveLog, Goto
<1>7. ASSUME NEW c \in Call, NoCredential(c) PROVE TypeOK'
  BY <1>7 DEF NoCredential, MoveLog, Goto
<1>8. ASSUME NEW c \in Call, Refuse(c) PROVE TypeOK'
  BY <1>8 DEF Refuse, MoveBudget, Goto
<1>9. ASSUME NEW c \in Call, InFlight(c) PROVE TypeOK'
  BY <1>9 DEF InFlight, MoveLog, Goto
<1>10. ASSUME NEW c \in Call, NEW a \in Answer, Request(c, a) PROVE TypeOK'
  BY <1>10 DEF Request, Goto
<1>11. ASSUME NEW c \in Call, RecordSuccess(c) PROVE TypeOK'
  BY <1>11 DEF RecordSuccess, SetLog, Goto
<1>12. ASSUME NEW c \in Call, RecordFailure(c) PROVE TypeOK'
  BY <1>12 DEF RecordFailure, SetLog, Goto, Retries
<1>13. ASSUME NEW c \in Call, Garbled(c) PROVE TypeOK'
  BY <1>13 DEF Garbled, Goto
<1>14. ASSUME NEW c \in Call, Settle(c) PROVE TypeOK'
  BY <1>14 DEF Settle, Settled, MoveBudget, Goto
<1>15. ASSUME NEW c \in Call, Raise(c) PROVE TypeOK'
  BY <1>15 DEF Raise, Fault, MoveLog, MoveBudget, Settled, Goto
<1>16. ASSUME NEW c \in Call, CatchAll(c) PROVE TypeOK'
  BY <1>16 DEF CatchAll, SetLog, Goto, Fault
<1>17. ASSUME NEW c \in Call, Die(c) PROVE TypeOK'
  BY <1>17 DEF Die, Fault, Goto
<1>18. CASE UNCHANGED vars
  BY <1>18 DEF vars
<1>19. QED
  BY <1>1, <1>2, <1>3, <1>4, <1>5, <1>6, <1>7, <1>8, <1>9, <1>10, <1>11, <1>12,
     <1>13, <1>14, <1>15, <1>16, <1>17, <1>18 DEF Next, Serve

\* Requests are sent in the retry loop only.
LEMMA SentStep == TypeOK /\ SentSoFar /\ [Next]_vars => SentSoFar'
<1> SUFFICES ASSUME TypeOK, SentSoFar, [Next]_vars PROVE SentSoFar'
  OBVIOUS
<1> USE GatewayAssumption DEF TypeOK, LogState, BudgetState, Answer, At, SentSoFar
<1>1. ASSUME NEW c \in Call, NEW k \in Key, Start(c, k) PROVE SentSoFar'
  BY <1>1 DEF Start, Goto, SetLog
<1>2. ASSUME NEW c \in Call, Check(c) PROVE SentSoFar'
  BY <1>2 DEF Check, Goto, Allows
<1>3. ASSUME NEW c \in Call, Deny(c) PROVE SentSoFar'
  BY <1>3 DEF Deny, MoveLog, Goto
<1>4. ASSUME NEW c \in Call, Reserve(c) PROVE SentSoFar'
  BY <1>4 DEF Reserve, Goto
<1>5. ASSUME NEW c \in Call, Link(c) PROVE SentSoFar'
  BY <1>5 DEF Link, MoveLog, Goto
<1>6. ASSUME NEW c \in Call, Credential(c) PROVE SentSoFar'
  BY <1>6 DEF Credential, MoveLog, Goto
<1>7. ASSUME NEW c \in Call, NoCredential(c) PROVE SentSoFar'
  BY <1>7 DEF NoCredential, MoveLog, Goto
<1>8. ASSUME NEW c \in Call, Refuse(c) PROVE SentSoFar'
  BY <1>8 DEF Refuse, MoveBudget, Goto
<1>9. ASSUME NEW c \in Call, InFlight(c) PROVE SentSoFar'
  BY <1>9 DEF InFlight, MoveLog, Goto
<1>10. ASSUME NEW c \in Call, NEW a \in Answer, Request(c, a) PROVE SentSoFar'
  BY <1>10 DEF Request, Goto
<1>11. ASSUME NEW c \in Call, RecordSuccess(c) PROVE SentSoFar'
  BY <1>11 DEF RecordSuccess, SetLog, Goto
<1>12. ASSUME NEW c \in Call, RecordFailure(c) PROVE SentSoFar'
  BY <1>12 DEF RecordFailure, SetLog, Goto, Retries
<1>13. ASSUME NEW c \in Call, Garbled(c) PROVE SentSoFar'
  BY <1>13 DEF Garbled, Goto
<1>14. ASSUME NEW c \in Call, Settle(c) PROVE SentSoFar'
  BY <1>14 DEF Settle, Settled, MoveBudget, Goto
<1>15. ASSUME NEW c \in Call, Raise(c) PROVE SentSoFar'
  BY <1>15 DEF Raise, Fault, MoveLog, MoveBudget, Settled, Goto
<1>16. ASSUME NEW c \in Call, CatchAll(c) PROVE SentSoFar'
  BY <1>16 DEF CatchAll, SetLog, Goto, Fault
<1>17. ASSUME NEW c \in Call, Die(c) PROVE SentSoFar'
  BY <1>17 DEF Die, Fault, Goto
<1>18. CASE UNCHANGED vars
  BY <1>18 DEF vars
<1>19. QED
  BY <1>1, <1>2, <1>3, <1>4, <1>5, <1>6, <1>7, <1>8, <1>9, <1>10, <1>11, <1>12,
     <1>13, <1>14, <1>15, <1>16, <1>17, <1>18 DEF Next, Serve

\* A key is taken by one call, and no call works without one.
LEMMA KeysStep == TypeOK /\ KeysAreUnique /\ [Next]_vars => KeysAreUnique'
<1> SUFFICES ASSUME TypeOK, KeysAreUnique, [Next]_vars PROVE KeysAreUnique'
  OBVIOUS
<1> USE GatewayAssumption DEF TypeOK, LogState, BudgetState, Answer, At, KeysAreUnique
<1>1. ASSUME NEW c \in Call, NEW k \in Key, Start(c, k) PROVE KeysAreUnique'
  BY <1>1 DEF Start, Goto, SetLog
<1>2. ASSUME NEW c \in Call, Check(c) PROVE KeysAreUnique'
  BY <1>2 DEF Check, Goto, Allows
<1>3. ASSUME NEW c \in Call, Deny(c) PROVE KeysAreUnique'
  BY <1>3 DEF Deny, MoveLog, Goto
<1>4. ASSUME NEW c \in Call, Reserve(c) PROVE KeysAreUnique'
  BY <1>4 DEF Reserve, Goto
<1>5. ASSUME NEW c \in Call, Link(c) PROVE KeysAreUnique'
  BY <1>5 DEF Link, MoveLog, Goto
<1>6. ASSUME NEW c \in Call, Credential(c) PROVE KeysAreUnique'
  BY <1>6 DEF Credential, MoveLog, Goto
<1>7. ASSUME NEW c \in Call, NoCredential(c) PROVE KeysAreUnique'
  BY <1>7 DEF NoCredential, MoveLog, Goto
<1>8. ASSUME NEW c \in Call, Refuse(c) PROVE KeysAreUnique'
  BY <1>8 DEF Refuse, MoveBudget, Goto
<1>9. ASSUME NEW c \in Call, InFlight(c) PROVE KeysAreUnique'
  BY <1>9 DEF InFlight, MoveLog, Goto
<1>10. ASSUME NEW c \in Call, NEW a \in Answer, Request(c, a) PROVE KeysAreUnique'
  BY <1>10 DEF Request, Goto
<1>11. ASSUME NEW c \in Call, RecordSuccess(c) PROVE KeysAreUnique'
  BY <1>11 DEF RecordSuccess, SetLog, Goto
<1>12. ASSUME NEW c \in Call, RecordFailure(c) PROVE KeysAreUnique'
  BY <1>12 DEF RecordFailure, SetLog, Goto, Retries
<1>13. ASSUME NEW c \in Call, Garbled(c) PROVE KeysAreUnique'
  BY <1>13 DEF Garbled, Goto
<1>14. ASSUME NEW c \in Call, Settle(c) PROVE KeysAreUnique'
  BY <1>14 DEF Settle, Settled, MoveBudget, Goto
<1>15. ASSUME NEW c \in Call, Raise(c) PROVE KeysAreUnique'
  BY <1>15 DEF Raise, Fault, MoveLog, MoveBudget, Settled, Goto
<1>16. ASSUME NEW c \in Call, CatchAll(c) PROVE KeysAreUnique'
  BY <1>16 DEF CatchAll, SetLog, Goto, Fault
<1>17. ASSUME NEW c \in Call, Die(c) PROVE KeysAreUnique'
  BY <1>17 DEF Die, Fault, Goto
<1>18. CASE UNCHANGED vars
  BY <1>18 DEF vars
<1>19. QED
  BY <1>1, <1>2, <1>3, <1>4, <1>5, <1>6, <1>7, <1>8, <1>9, <1>10, <1>11, <1>12,
     <1>13, <1>14, <1>15, <1>16, <1>17, <1>18 DEF Next, Serve

\* The row of a call that was sent tells it.
LEMMA KnowsStep ==
  TypeOK /\ ErrorsEnd /\ SentSoFar /\ KnowsItCalled /\ [Next]_vars => KnowsItCalled'
<1> SUFFICES ASSUME TypeOK, ErrorsEnd, SentSoFar, KnowsItCalled, [Next]_vars PROVE KnowsItCalled'
  OBVIOUS
<1> USE GatewayAssumption DEF TypeOK, LogState, BudgetState, Answer, At, ErrorsEnd, Position, SentSoFar, KnowsItCalled
<1>1. ASSUME NEW c \in Call, NEW k \in Key, Start(c, k) PROVE KnowsItCalled'
  BY <1>1 DEF Start, Goto, SetLog
<1>2. ASSUME NEW c \in Call, Check(c) PROVE KnowsItCalled'
  BY <1>2 DEF Check, Goto, Allows
<1>3. ASSUME NEW c \in Call, Deny(c) PROVE KnowsItCalled'
  BY <1>3 DEF Deny, MoveLog, Goto
<1>4. ASSUME NEW c \in Call, Reserve(c) PROVE KnowsItCalled'
  BY <1>4 DEF Reserve, Goto
<1>5. ASSUME NEW c \in Call, Link(c) PROVE KnowsItCalled'
  BY <1>5 DEF Link, MoveLog, Goto
<1>6. ASSUME NEW c \in Call, Credential(c) PROVE KnowsItCalled'
  BY <1>6 DEF Credential, MoveLog, Goto
<1>7. ASSUME NEW c \in Call, NoCredential(c) PROVE KnowsItCalled'
  BY <1>7 DEF NoCredential, MoveLog, Goto
<1>8. ASSUME NEW c \in Call, Refuse(c) PROVE KnowsItCalled'
  BY <1>8 DEF Refuse, MoveBudget, Goto
<1>9. ASSUME NEW c \in Call, InFlight(c) PROVE KnowsItCalled'
  BY <1>9 DEF InFlight, MoveLog, Goto
<1>10. ASSUME NEW c \in Call, NEW a \in Answer, Request(c, a) PROVE KnowsItCalled'
  BY <1>10 DEF Request, Goto
<1>11. ASSUME NEW c \in Call, RecordSuccess(c) PROVE KnowsItCalled'
  BY <1>11 DEF RecordSuccess, SetLog, Goto
<1>12. ASSUME NEW c \in Call, RecordFailure(c) PROVE KnowsItCalled'
  BY <1>12 DEF RecordFailure, SetLog, Goto, Retries
<1>13. ASSUME NEW c \in Call, Garbled(c) PROVE KnowsItCalled'
  BY <1>13 DEF Garbled, Goto
<1>14. ASSUME NEW c \in Call, Settle(c) PROVE KnowsItCalled'
  BY <1>14 DEF Settle, Settled, MoveBudget, Goto
<1>15. ASSUME NEW c \in Call, Raise(c) PROVE KnowsItCalled'
  BY <1>15 DEF Raise, Fault, MoveLog, MoveBudget, Settled, Goto
<1>16. ASSUME NEW c \in Call, CatchAll(c) PROVE KnowsItCalled'
  BY <1>16 DEF CatchAll, SetLog, Goto, Fault
<1>17. ASSUME NEW c \in Call, Die(c) PROVE KnowsItCalled'
  BY <1>17 DEF Die, Fault, Goto
<1>18. CASE UNCHANGED vars
  BY <1>18 DEF vars
<1>19. QED
  BY <1>1, <1>2, <1>3, <1>4, <1>5, <1>6, <1>7, <1>8, <1>9, <1>10, <1>11, <1>12,
     <1>13, <1>14, <1>15, <1>16, <1>17, <1>18 DEF Next, Serve

\* A call that met no error is where its rows say.
LEMMA ErrorsStep ==
  TypeOK /\ ErrorsEnd /\ SentSoFar /\ [Next]_vars => ErrorsEnd'
<1> SUFFICES ASSUME TypeOK, ErrorsEnd, SentSoFar, [Next]_vars PROVE ErrorsEnd'
  OBVIOUS
<1> USE GatewayAssumption DEF TypeOK, LogState, BudgetState, Answer, At, ErrorsEnd, Position, SentSoFar, Served
<1>1. ASSUME NEW c \in Call, NEW k \in Key, Start(c, k) PROVE ErrorsEnd'
  BY <1>1 DEF Start, Goto, SetLog
<1>2. ASSUME NEW c \in Call, Check(c) PROVE ErrorsEnd'
  BY <1>2 DEF Check, Goto, Allows
<1>3. ASSUME NEW c \in Call, Deny(c) PROVE ErrorsEnd'
  BY <1>3 DEF Deny, MoveLog, Goto
<1>4. ASSUME NEW c \in Call, Reserve(c) PROVE ErrorsEnd'
  BY <1>4 DEF Reserve, Goto
<1>5. ASSUME NEW c \in Call, Link(c) PROVE ErrorsEnd'
  BY <1>5 DEF Link, MoveLog, Goto
<1>6. ASSUME NEW c \in Call, Credential(c) PROVE ErrorsEnd'
  BY <1>6 DEF Credential, MoveLog, Goto
<1>7. ASSUME NEW c \in Call, NoCredential(c) PROVE ErrorsEnd'
  BY <1>7 DEF NoCredential, MoveLog, Goto
<1>8. ASSUME NEW c \in Call, Refuse(c) PROVE ErrorsEnd'
  BY <1>8 DEF Refuse, MoveBudget, Goto
<1>9. ASSUME NEW c \in Call, InFlight(c) PROVE ErrorsEnd'
  BY <1>9 DEF InFlight, MoveLog, Goto
<1>10. ASSUME NEW c \in Call, NEW a \in Answer, Request(c, a) PROVE ErrorsEnd'
  BY <1>10 DEF Request, Goto
<1>11. ASSUME NEW c \in Call, RecordSuccess(c) PROVE ErrorsEnd'
  BY <1>11 DEF RecordSuccess, SetLog, Goto
<1>12. ASSUME NEW c \in Call, RecordFailure(c) PROVE ErrorsEnd'
  BY <1>12 DEF RecordFailure, SetLog, Goto, Retries
<1>13. ASSUME NEW c \in Call, Garbled(c) PROVE ErrorsEnd'
  BY <1>13 DEF Garbled, Goto
<1>14. ASSUME NEW c \in Call, Settle(c) PROVE ErrorsEnd'
  BY <1>14 DEF Settle, Settled, MoveBudget, Goto
<1>15. ASSUME NEW c \in Call, Raise(c) PROVE ErrorsEnd'
  BY <1>15 DEF Raise, Fault, MoveLog, MoveBudget, Settled, Goto
<1>16. ASSUME NEW c \in Call, CatchAll(c) PROVE ErrorsEnd'
  BY <1>16 DEF CatchAll, SetLog, Goto, Fault
<1>17. ASSUME NEW c \in Call, Die(c) PROVE ErrorsEnd'
  BY <1>17 DEF Die, Fault, Goto
<1>18. CASE UNCHANGED vars
  BY <1>18 DEF vars
<1>19. QED
  BY <1>1, <1>2, <1>3, <1>4, <1>5, <1>6, <1>7, <1>8, <1>9, <1>10, <1>11, <1>12,
     <1>13, <1>14, <1>15, <1>16, <1>17, <1>18 DEF Next, Serve

\* Every way out of a call leaves the two tables in agreement.
LEMMA AgreeStep ==
  TypeOK /\ ErrorsEnd /\ KeysAreUnique /\ TablesAgree /\ [Next]_vars => TablesAgree'
<1> SUFFICES ASSUME TypeOK, ErrorsEnd, KeysAreUnique, TablesAgree, [Next]_vars PROVE TablesAgree'
  OBVIOUS
<1> USE GatewayAssumption DEF TypeOK, LogState, BudgetState, Answer, At, ErrorsEnd, Position, TablesAgree, Served
<1>1. ASSUME NEW c \in Call, NEW k \in Key, Start(c, k) PROVE TablesAgree'
  BY <1>1 DEF Start, Goto, SetLog
<1>2. ASSUME NEW c \in Call, Check(c) PROVE TablesAgree'
  BY <1>2 DEF Check, Goto, Allows
<1>3. ASSUME NEW c \in Call, Deny(c) PROVE TablesAgree'
  BY <1>3 DEF Deny, MoveLog, Goto
<1>4. ASSUME NEW c \in Call, Reserve(c) PROVE TablesAgree'
  BY <1>4 DEF Reserve, Goto
<1>5. ASSUME NEW c \in Call, Link(c) PROVE TablesAgree'
  BY <1>5 DEF Link, MoveLog, Goto
<1>6. ASSUME NEW c \in Call, Credential(c) PROVE TablesAgree'
  BY <1>6 DEF Credential, MoveLog, Goto
<1>7. ASSUME NEW c \in Call, NoCredential(c) PROVE TablesAgree'
  BY <1>7 DEF NoCredential, MoveLog, Goto
<1>8. ASSUME NEW c \in Call, Refuse(c) PROVE TablesAgree'
  BY <1>8 DEF Refuse, MoveBudget, Goto
<1>9. ASSUME NEW c \in Call, InFlight(c) PROVE TablesAgree'
  BY <1>9 DEF InFlight, MoveLog, Goto
<1>10. ASSUME NEW c \in Call, NEW a \in Answer, Request(c, a) PROVE TablesAgree'
  BY <1>10 DEF Request, Goto
<1>11. ASSUME NEW c \in Call, RecordSuccess(c) PROVE TablesAgree'
  BY <1>11 DEF RecordSuccess, SetLog, Goto
<1>12. ASSUME NEW c \in Call, RecordFailure(c) PROVE TablesAgree'
  BY <1>12 DEF RecordFailure, SetLog, Goto, Retries
<1>13. ASSUME NEW c \in Call, Garbled(c) PROVE TablesAgree'
  BY <1>13 DEF Garbled, Goto
<1>14. ASSUME NEW c \in Call, Settle(c) PROVE TablesAgree'
  BY <1>14 DEF Settle, Settled, MoveBudget, Goto
<1>15. ASSUME NEW c \in Call, Raise(c) PROVE TablesAgree'
  BY <1>15 DEF Raise, Fault, MoveLog, MoveBudget, Settled, Goto
<1>16. ASSUME NEW c \in Call, CatchAll(c) PROVE TablesAgree'
  BY <1>16 DEF CatchAll, SetLog, Goto, Fault
<1>17. ASSUME NEW c \in Call, Die(c) PROVE TablesAgree'
  BY <1>17 DEF Die, Fault, Goto
<1>18. CASE UNCHANGED vars
  BY <1>18 DEF vars
<1>19. QED
  BY <1>1, <1>2, <1>3, <1>4, <1>5, <1>6, <1>7, <1>8, <1>9, <1>10, <1>11, <1>12,
     <1>13, <1>14, <1>15, <1>16, <1>17, <1>18 DEF Next, Serve

\* At most one more call is served after a step, and only if a thread is free.
LEMMA RunningStep ==
  TypeOK /\ [Next]_vars =>
    \/ Running' \subseteq Running
    \/ \E c \in Call : Running' \subseteq Running \cup {c} /\ Cardinality(Running) < Threads
<1> DEFINE Runs == \/ Running' \subseteq Running
                   \/ \E c \in Call : /\ Running' \subseteq Running \cup {c}
                                       /\ Cardinality(Running) < Threads
<1> SUFFICES ASSUME TypeOK, [Next]_vars PROVE Runs
  OBVIOUS
<1> USE GatewayAssumption DEF TypeOK, LogState, BudgetState, Answer, At, Running
<1>1. ASSUME NEW c \in Call, NEW k \in Key, Start(c, k) PROVE Runs
  BY <1>1 DEF Start, Goto, SetLog
<1>2. ASSUME NEW c \in Call, Check(c) PROVE Runs
  BY <1>2 DEF Check, Goto, Allows
<1>3. ASSUME NEW c \in Call, Deny(c) PROVE Runs
  BY <1>3 DEF Deny, MoveLog, Goto
<1>4. ASSUME NEW c \in Call, Reserve(c) PROVE Runs
  BY <1>4 DEF Reserve, Goto
<1>5. ASSUME NEW c \in Call, Link(c) PROVE Runs
  BY <1>5 DEF Link, MoveLog, Goto
<1>6. ASSUME NEW c \in Call, Credential(c) PROVE Runs
  BY <1>6 DEF Credential, MoveLog, Goto
<1>7. ASSUME NEW c \in Call, NoCredential(c) PROVE Runs
  BY <1>7 DEF NoCredential, MoveLog, Goto
<1>8. ASSUME NEW c \in Call, Refuse(c) PROVE Runs
  BY <1>8 DEF Refuse, MoveBudget, Goto
<1>9. ASSUME NEW c \in Call, InFlight(c) PROVE Runs
  BY <1>9 DEF InFlight, MoveLog, Goto
<1>10. ASSUME NEW c \in Call, NEW a \in Answer, Request(c, a) PROVE Runs
  BY <1>10 DEF Request, Goto
<1>11. ASSUME NEW c \in Call, RecordSuccess(c) PROVE Runs
  BY <1>11 DEF RecordSuccess, SetLog, Goto
<1>12. ASSUME NEW c \in Call, RecordFailure(c) PROVE Runs
  BY <1>12 DEF RecordFailure, SetLog, Goto, Retries
<1>13. ASSUME NEW c \in Call, Garbled(c) PROVE Runs
  BY <1>13 DEF Garbled, Goto
<1>14. ASSUME NEW c \in Call, Settle(c) PROVE Runs
  BY <1>14 DEF Settle, Settled, MoveBudget, Goto
<1>15. ASSUME NEW c \in Call, Raise(c) PROVE Runs
  BY <1>15 DEF Raise, Fault, MoveLog, MoveBudget, Settled, Goto
<1>16. ASSUME NEW c \in Call, CatchAll(c) PROVE Runs
  BY <1>16 DEF CatchAll, SetLog, Goto, Fault
<1>17. ASSUME NEW c \in Call, Die(c) PROVE Runs
  BY <1>17 DEF Die, Fault, Goto
<1>18. CASE UNCHANGED vars
  BY <1>18 DEF vars
<1>19. QED
  BY <1>1, <1>2, <1>3, <1>4, <1>5, <1>6, <1>7, <1>8, <1>9, <1>10, <1>11, <1>12,
     <1>13, <1>14, <1>15, <1>16, <1>17, <1>18 DEF Next, Serve

\* Only a call that passes the check adds to those that are or may be charged, and
\* then the charged ones are fewer than the limit and the others are being served.
LEMMA ChargedStep ==
  TypeOK /\ [Next]_vars =>
    \/ (Committed \cup Passed)' \subseteq Committed \cup Passed
    \/ /\ (Committed \cup Passed)' \subseteq Committed \cup Running
       /\ Cardinality(Committed) < MaxRequests
<1> DEFINE Charges == \/ (Committed \cup Passed)' \subseteq Committed \cup Passed
                      \/ /\ (Committed \cup Passed)' \subseteq Committed \cup Running
                         /\ Cardinality(Committed) < MaxRequests
<1> SUFFICES ASSUME TypeOK, [Next]_vars PROVE Charges
  OBVIOUS
<1> USE GatewayAssumption DEF TypeOK, LogState, BudgetState, Answer, At, Committed, Passed, Running
<1>1. ASSUME NEW c \in Call, NEW k \in Key, Start(c, k) PROVE Charges
  BY <1>1 DEF Start, Goto, SetLog
<1>2. ASSUME NEW c \in Call, Check(c) PROVE Charges
  BY <1>2 DEF Check, Goto, Allows
<1>3. ASSUME NEW c \in Call, Deny(c) PROVE Charges
  BY <1>3 DEF Deny, MoveLog, Goto
<1>4. ASSUME NEW c \in Call, Reserve(c) PROVE Charges
  BY <1>4 DEF Reserve, Goto
<1>5. ASSUME NEW c \in Call, Link(c) PROVE Charges
  BY <1>5 DEF Link, MoveLog, Goto
<1>6. ASSUME NEW c \in Call, Credential(c) PROVE Charges
  BY <1>6 DEF Credential, MoveLog, Goto
<1>7. ASSUME NEW c \in Call, NoCredential(c) PROVE Charges
  BY <1>7 DEF NoCredential, MoveLog, Goto
<1>8. ASSUME NEW c \in Call, Refuse(c) PROVE Charges
  BY <1>8 DEF Refuse, MoveBudget, Goto
<1>9. ASSUME NEW c \in Call, InFlight(c) PROVE Charges
  BY <1>9 DEF InFlight, MoveLog, Goto
<1>10. ASSUME NEW c \in Call, NEW a \in Answer, Request(c, a) PROVE Charges
  BY <1>10 DEF Request, Goto
<1>11. ASSUME NEW c \in Call, RecordSuccess(c) PROVE Charges
  BY <1>11 DEF RecordSuccess, SetLog, Goto
<1>12. ASSUME NEW c \in Call, RecordFailure(c) PROVE Charges
  BY <1>12 DEF RecordFailure, SetLog, Goto, Retries
<1>13. ASSUME NEW c \in Call, Garbled(c) PROVE Charges
  BY <1>13 DEF Garbled, Goto
<1>14. ASSUME NEW c \in Call, Settle(c) PROVE Charges
  BY <1>14 DEF Settle, Settled, MoveBudget, Goto
<1>15. ASSUME NEW c \in Call, Raise(c) PROVE Charges
  BY <1>15 DEF Raise, Fault, MoveLog, MoveBudget, Settled, Goto
<1>16. ASSUME NEW c \in Call, CatchAll(c) PROVE Charges
  BY <1>16 DEF CatchAll, SetLog, Goto, Fault
<1>17. ASSUME NEW c \in Call, Die(c) PROVE Charges
  BY <1>17 DEF Die, Fault, Goto
<1>18. CASE UNCHANGED vars
  BY <1>18 DEF vars
<1>19. QED
  BY <1>1, <1>2, <1>3, <1>4, <1>5, <1>6, <1>7, <1>8, <1>9, <1>10, <1>11, <1>12,
     <1>13, <1>14, <1>15, <1>16, <1>17, <1>18 DEF Next, Serve

\* A step moves a row along the table of transitions.
LEMMA FollowStep ==
  TypeOK /\ ErrorsEnd /\ SentSoFar /\ [Next]_vars =>
    \A c \in Call : log'[c] # log[c] /\ ~erred[c] => <<log[c], log'[c]>> \in Valid
<1> DEFINE Follows == \A c \in Call : log'[c] # log[c] /\ ~erred[c] =>
                                       <<log[c], log'[c]>> \in Valid
<1> SUFFICES ASSUME TypeOK, ErrorsEnd, SentSoFar, [Next]_vars PROVE Follows
  OBVIOUS
<1> USE GatewayAssumption DEF TypeOK, LogState, BudgetState, Answer, At, ErrorsEnd, Position, SentSoFar, Valid
<1>1. ASSUME NEW c \in Call, NEW k \in Key, Start(c, k) PROVE Follows
  BY <1>1 DEF Start, Goto, SetLog
<1>2. ASSUME NEW c \in Call, Check(c) PROVE Follows
  BY <1>2 DEF Check, Goto, Allows
<1>3. ASSUME NEW c \in Call, Deny(c) PROVE Follows
  BY <1>3 DEF Deny, MoveLog, Goto
<1>4. ASSUME NEW c \in Call, Reserve(c) PROVE Follows
  BY <1>4 DEF Reserve, Goto
<1>5. ASSUME NEW c \in Call, Link(c) PROVE Follows
  BY <1>5 DEF Link, MoveLog, Goto
<1>6. ASSUME NEW c \in Call, Credential(c) PROVE Follows
  BY <1>6 DEF Credential, MoveLog, Goto
<1>7. ASSUME NEW c \in Call, NoCredential(c) PROVE Follows
  BY <1>7 DEF NoCredential, MoveLog, Goto
<1>8. ASSUME NEW c \in Call, Refuse(c) PROVE Follows
  BY <1>8 DEF Refuse, MoveBudget, Goto
<1>9. ASSUME NEW c \in Call, InFlight(c) PROVE Follows
  BY <1>9 DEF InFlight, MoveLog, Goto
<1>10. ASSUME NEW c \in Call, NEW a \in Answer, Request(c, a) PROVE Follows
  BY <1>10 DEF Request, Goto
<1>11. ASSUME NEW c \in Call, RecordSuccess(c) PROVE Follows
  BY <1>11 DEF RecordSuccess, SetLog, Goto
<1>12. ASSUME NEW c \in Call, RecordFailure(c) PROVE Follows
  BY <1>12 DEF RecordFailure, SetLog, Goto, Retries
<1>13. ASSUME NEW c \in Call, Garbled(c) PROVE Follows
  BY <1>13 DEF Garbled, Goto
<1>14. ASSUME NEW c \in Call, Settle(c) PROVE Follows
  BY <1>14 DEF Settle, Settled, MoveBudget, Goto
<1>15. ASSUME NEW c \in Call, Raise(c) PROVE Follows
  BY <1>15 DEF Raise, Fault, MoveLog, MoveBudget, Settled, Goto
<1>16. ASSUME NEW c \in Call, CatchAll(c) PROVE Follows
  BY <1>16 DEF CatchAll, SetLog, Goto, Fault
<1>17. ASSUME NEW c \in Call, Die(c) PROVE Follows
  BY <1>17 DEF Die, Fault, Goto
<1>18. CASE UNCHANGED vars
  BY <1>18 DEF vars
<1>19. QED
  BY <1>1, <1>2, <1>3, <1>4, <1>5, <1>6, <1>7, <1>8, <1>9, <1>10, <1>11, <1>12,
     <1>13, <1>14, <1>15, <1>16, <1>17, <1>18 DEF Next, Serve

\* The calls that may be charged are bounded by the limit and the threads.
LEMMA HeadroomStep == TypeOK /\ Headroom /\ [Next]_vars => Headroom'
<1> SUFFICES ASSUME TypeOK, Headroom, [Next]_vars PROVE Headroom'
  OBVIOUS
<1> USE GatewayAssumption
<1> DEFINE Charged == Committed \cup Passed
<1>1. /\ IsFiniteSet(Running) /\ Cardinality(Running) \in Nat
      /\ IsFiniteSet(Committed) /\ Cardinality(Committed) \in Nat
      /\ IsFiniteSet(Charged) /\ Cardinality(Charged) \in Nat
  <2>1. Running \subseteq Call /\ Committed \subseteq Call /\ Charged \subseteq Call
    BY DEF Running, Committed, Passed
  <2>2. QED
    BY <2>1, FS_Subset, FS_CardinalityType
<1>2. Cardinality(Running') <= Threads
  <2>1. CASE Running' \subseteq Running
    <3>1. Cardinality(Running') <= Cardinality(Running)
      BY <1>1, <2>1, FS_Subset
    <3>2. Cardinality(Running') \in Nat
      BY <1>1, <2>1, FS_Subset, FS_CardinalityType
    <3>3. QED
      BY <1>1, <3>1, <3>2 DEF Headroom
  <2>2. CASE \E c \in Call : Running' \subseteq Running \cup {c} /\ Cardinality(Running) < Threads
    <3>1. PICK c \in Call : Running' \subseteq Running \cup {c} /\ Cardinality(Running) < Threads
      BY <2>2
    <3>2. /\ IsFiniteSet(Running \cup {c})
          /\ \/ Cardinality(Running \cup {c}) = Cardinality(Running)
             \/ Cardinality(Running \cup {c}) = Cardinality(Running) + 1
      BY <1>1, FS_AddElement
    <3>3. /\ Cardinality(Running') <= Cardinality(Running \cup {c})
          /\ Cardinality(Running') \in Nat
      BY <3>1, <3>2, FS_Subset, FS_CardinalityType
    <3>4. QED
      BY <1>1, <3>1, <3>2, <3>3
  <2>3. QED
    BY <2>1, <2>2, RunningStep
<1>3. Cardinality(Charged') < MaxRequests + Threads
  <2>1. CASE Charged' \subseteq Charged
    <3>1. Cardinality(Charged') <= Cardinality(Charged) /\ Cardinality(Charged') \in Nat
      BY <1>1, <2>1, FS_Subset, FS_CardinalityType
    <3>2. QED
      BY <1>1, <3>1 DEF Headroom
  <2>2. CASE Charged' \subseteq Committed \cup Running /\ Cardinality(Committed) < MaxRequests
    <3>1. /\ IsFiniteSet(Committed \cup Running)
          /\ Cardinality(Committed \cup Running)
               = Cardinality(Committed) + Cardinality(Running)
                   - Cardinality(Committed \cap Running)
      BY <1>1, FS_Union
    <3>2. Cardinality(Committed \cap Running) \in Nat
      BY <1>1, FS_Subset, FS_CardinalityType
    <3>3. /\ Cardinality(Charged') <= Cardinality(Committed \cup Running)
          /\ Cardinality(Charged') \in Nat
      BY <2>2, <3>1, FS_Subset, FS_CardinalityType
    <3>4. QED
      BY <1>1, <2>2, <3>1, <3>2, <3>3 DEF Headroom
  <2>3. QED
    BY <2>1, <2>2, ChargedStep
<1>4. QED
  BY <1>2, <1>3 DEF Headroom

\* Every step preserves the invariant.
LEMMA InvStep == IInv /\ [Next]_vars => IInv'
<1> SUFFICES ASSUME IInv, [Next]_vars PROVE IInv'
  OBVIOUS
<1>1. TypeOK' /\ SentSoFar' /\ ErrorsEnd'
  BY TypeStep, SentStep, ErrorsStep DEF IInv
<1>2. KeysAreUnique' /\ KnowsItCalled' /\ TablesAgree'
  BY KeysStep, KnowsStep, AgreeStep DEF IInv
<1>3. Headroom'
  BY HeadroomStep DEF IInv
<1>4. QED
  BY <1>1, <1>2, <1>3 DEF IInv

\* The invariant holds of every behaviour (Gateway.call and its two tables).
THEOREM GatewayInvariant == Spec => []IInv
<1>1. Init => IInv
  BY InvInit
<1>2. IInv /\ [Next]_vars => IInv'
  BY InvStep
<1>3. QED
  BY <1>1, <1>2, PTL DEF Spec

\* A call that met no unexpected error ends with its log row and its budget row in
\* agreement (the exits of Gateway._execute).
THEOREM EndsAgree == Spec => []TablesAgree
<1>1. IInv => TablesAgree
  BY DEF IInv
<1>2. QED
  BY <1>1, GatewayInvariant, PTL

\* Whatever fails, the row of a call whose request was sent says so (call.py:506-517).
THEOREM SentIsKnown == Spec => []KnowsItCalled
<1>1. IInv => KnowsItCalled
  BY DEF IInv
<1>2. QED
  BY <1>1, GatewayInvariant, PTL

\* A key reaches the provider with one call only, at most MaxRetries + 1 times.
THEOREM KeyCallsOnce == Spec => []OneCallPerKey
<1>1. IInv => OneCallPerKey
  <2> SUFFICES ASSUME IInv PROVE OneCallPerKey
    OBVIOUS
  <2>1. \A c \in Call : sent[c] > 0 => key[c] # NoKey
    BY GatewayAssumption DEF IInv, TypeOK, KeysAreUnique
  <2>2. \A c \in Call : sent[c] <= MaxRetries + 1
    BY GatewayAssumption DEF IInv, TypeOK
  <2>3. QED
    BY <2>1, <2>2 DEF IInv, KeysAreUnique, OneCallPerKey
<1>2. QED
  BY <1>1, GatewayInvariant, PTL

\* The limit is overrun by fewer calls than are served at a time (budget.py:190-211,
\* 353-506: check and commit are separate transactions).
THEOREM BoundedOverrun == Spec => []OverrunIsBounded
<1>1. IInv => OverrunIsBounded
  <2> SUFFICES ASSUME IInv PROVE OverrunIsBounded
    OBVIOUS
  <2>1. IsFiniteSet(Committed \cup Passed)
    <3>1. Committed \cup Passed \subseteq Call
      BY DEF Committed, Passed
    <3>2. QED
      BY <3>1, GatewayAssumption, FS_Subset
  <2>2. /\ Cardinality(Committed) <= Cardinality(Committed \cup Passed)
        /\ Cardinality(Committed) \in Nat /\ Cardinality(Committed \cup Passed) \in Nat
    BY <2>1, FS_Subset, FS_CardinalityType
  <2>3. QED
    BY <2>2, GatewayAssumption DEF IInv, Headroom, OverrunIsBounded
<1>2. QED
  BY <1>1, GatewayInvariant, PTL

\* The row of a call that met no unexpected error moves along _VALID_TRANSITIONS, though
\* update_call_result has no guard (api_call_logs.py:96-116).
THEOREM TableIsFollowed == Spec => RowsFollowTheTable
<1>1. IInv /\ [Next]_vars =>
        [\A c \in Call : log'[c] # log[c] /\ ~erred[c] => <<log[c], log'[c]>> \in Valid]_vars
  BY FollowStep DEF IInv
<1>2. QED
  BY <1>1, GatewayInvariant, PTL DEF Spec, RowsFollowTheTable

=============================================================================
