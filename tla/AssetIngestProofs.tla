--------------------------- MODULE AssetIngestProofs ---------------------------
(***************************************************************************)
(* Proofs about uploads, for any requests, keys, contents and projects and *)
(* any number of faults; those about duplicates for one process.           *)
(***************************************************************************)
EXTENDS AssetIngestProps, TLAPS, FiniteSetTheorems

\* The initial state satisfies the invariant.
LEMMA InvInit == Init => IInv
<1> SUFFICES ASSUME Init PROVE IInv
  OBVIOUS
<1> USE IngestAssumption DEF Init
<1>1. TypeOK
  BY DEF TypeOK, At, Busy
<1>2. OneHolder /\ InOrder /\ CreatedIsKept
  BY DEF OneHolder, InOrder, CreatedIsKept, Holding
<1>3. Alone /\ Looked /\ Whole /\ DuplicateIsKept /\ OnCourse /\ FailsForAReason
  BY DEF Alone, Looked, Whole, DuplicateIsKept, OnCourse, FailsForAReason, Busy
<1>4. QED
  BY <1>1, <1>2, <1>3 DEF IInv

\* With one process, a request starts when no other is at work.
LEMMA OneAtATime ==
  ASSUME Processes = 1, NEW r \in Request, Upload(r)
  PROVE  \A q \in Request : at[q] \notin Busy
<1> DEFINE S == {q \in Request : at[q] \in Busy}
<1>1. IsFiniteSet(S) /\ Cardinality(S) < 1
  BY FS_Subset, IngestAssumption DEF Upload
<1>2. S = {}
  BY <1>1, FS_EmptySet, FS_CardinalityType
<1>3. QED
  BY <1>2

\* Type correctness, one action at a time.
LEMMA TypeStep ==
  TypeOK /\ [Next]_vars => TypeOK'
<1> SUFFICES ASSUME TypeOK, [Next]_vars PROVE TypeOK'
  OBVIOUS
<1> USE IngestAssumption DEF TypeOK, At, Busy, Statuses
<1>1. ASSUME NEW r \in Request, Upload(r) PROVE TypeOK'
  BY <1>1 DEF Upload, LookUp, Found, Goto, rows, request
<1>2. ASSUME NEW r \in Request, Check(r) PROVE TypeOK'
  BY <1>2 DEF Check, LookUp, Found, Goto, rows, request
<1>3. ASSUME NEW r \in Request, Receive(r) PROVE TypeOK'
  BY <1>3 DEF Receive, Goto, request
<1>4. ASSUME NEW r \in Request, Insert(r) PROVE TypeOK'
  BY <1>4 DEF Insert, Goto, Collides, request
<1>5. ASSUME NEW r \in Request, Move(r) PROVE TypeOK'
  BY <1>5 DEF Move, Goto, rows, request
<1>6. ASSUME NEW r \in Request, Promote(r) PROVE TypeOK'
  <2>1. UNCHANGED <<inbox, content, status, file, staged, request, answer, faults, hurt, struck>>
    BY <1>6 DEF Promote
  <2>2. at' \in [Request -> At]
    BY <1>6 DEF Promote, Goto
  <2>3. ingest' = [ingest EXCEPT ![key[r]] = "staged"] \/ UNCHANGED ingest
    BY <1>6 DEF Promote
  <2>4. QED
    BY <2>1, <2>2, <2>3 DEF request
<1>7. ASSUME NEW r \in Request, Link(r) PROVE TypeOK'
  <2>1. UNCHANGED <<content, status, ingest, file, staged, request, answer, faults, hurt, struck>>
    BY <1>7 DEF Link
  <2>2. at' \in [Request -> At]
    BY <1>7 DEF Link, Goto
  <2>3. inbox' = [inbox EXCEPT ![key[r]] = "linked"] \/ UNCHANGED inbox
    BY <1>7 DEF Link
  <2>4. QED
    BY <2>1, <2>2, <2>3 DEF request
<1>8. ASSUME NEW r \in Request, Rollback(r) PROVE TypeOK'
  BY <1>8 DEF Rollback, Goto, rows, request
<1>9. ASSUME NEW r \in Request, Error(r) PROVE TypeOK'
  BY <1>9 DEF Error, Goto, Raise, Fault, rows, request
<1>10. ASSUME NEW r \in Request, LostCommit(r) PROVE TypeOK'
  BY <1>10 DEF LostCommit, Goto, Raise, Fault, Collides, request
<1>11. ASSUME NEW r \in Request, Crash(r) PROVE TypeOK'
  BY <1>11 DEF Crash, Goto, Fault, rows, request
<1>12. ASSUME NEW k \in Key, Process(k) PROVE TypeOK'
  BY <1>12 DEF Process, request
<1>13. ASSUME NEW k \in Key, Advance(k) PROVE TypeOK'
  BY <1>13 DEF Advance, request
<1>14. ASSUME NEW k \in Key, NEW to \in Statuses, ChangeStatus(k, to)
      PROVE TypeOK'
  BY <1>14 DEF ChangeStatus, request
<1>15. CASE UNCHANGED vars
  BY <1>15 DEF vars, rows, request
<1> HIDE DEF TypeOK
<1>16. QED
  BY <1>1, <1>2, <1>3, <1>4, <1>5, <1>6, <1>7, <1>8, <1>9, <1>10, <1>11,
     <1>12, <1>13, <1>14, <1>15 DEF Next

\* Only an empty place is moved to, so the second mover is turned away.
LEMMA HolderStep ==
  TypeOK /\ OneHolder /\ InOrder /\ CreatedIsKept /\ [Next]_vars => OneHolder'
<1> SUFFICES ASSUME TypeOK, OneHolder, InOrder, CreatedIsKept, [Next]_vars PROVE OneHolder'
  OBVIOUS
<1> USE IngestAssumption DEF TypeOK, OneHolder, InOrder, CreatedIsKept, Holding, Busy
<1>1. ASSUME NEW r \in Request, Upload(r) PROVE OneHolder'
  BY <1>1 DEF Upload, LookUp, Found, Goto, rows, request
<1>2. ASSUME NEW r \in Request, Check(r) PROVE OneHolder'
  BY <1>2 DEF Check, LookUp, Found, Goto, rows, request
<1>3. ASSUME NEW r \in Request, Receive(r) PROVE OneHolder'
  BY <1>3 DEF Receive, Goto, request
<1>4. ASSUME NEW r \in Request, Insert(r) PROVE OneHolder'
  BY <1>4 DEF Insert, Goto, Collides, request
<1>5. ASSUME NEW r \in Request, Move(r) PROVE OneHolder'
  BY <1>5 DEF Move, Goto, rows, request
<1>6. ASSUME NEW r \in Request, Promote(r) PROVE OneHolder'
  BY <1>6 DEF Promote, Goto, request
<1>7. ASSUME NEW r \in Request, Link(r) PROVE OneHolder'
  BY <1>7 DEF Link, Goto, request
<1>8. ASSUME NEW r \in Request, Rollback(r) PROVE OneHolder'
  BY <1>8 DEF Rollback, Goto, rows, request
<1>9. ASSUME NEW r \in Request, Error(r) PROVE OneHolder'
  BY <1>9 DEF Error, Goto, Raise, Fault, rows, request
<1>10. ASSUME NEW r \in Request, LostCommit(r) PROVE OneHolder'
  BY <1>10 DEF LostCommit, Goto, Raise, Fault, Collides, request
<1>11. ASSUME NEW r \in Request, Crash(r) PROVE OneHolder'
  BY <1>11 DEF Crash, Goto, Fault, rows, request
<1>12. ASSUME NEW k \in Key, Process(k) PROVE OneHolder'
  BY <1>12 DEF Process, request
<1>13. ASSUME NEW k \in Key, Advance(k) PROVE OneHolder'
  BY <1>13 DEF Advance, request
<1>14. ASSUME NEW k \in Key, NEW to \in Statuses, ChangeStatus(k, to)
      PROVE OneHolder'
  BY <1>14 DEF ChangeStatus, request
<1>15. CASE UNCHANGED vars
  BY <1>15 DEF vars, rows, request
<1> HIDE DEF OneHolder
<1>16. QED
  BY <1>1, <1>2, <1>3, <1>4, <1>5, <1>6, <1>7, <1>8, <1>9, <1>10, <1>11,
     <1>12, <1>13, <1>14, <1>15 DEF Next

\* Rows come in order.
LEMMA OrderStep ==
  TypeOK /\ OneHolder /\ InOrder /\ [Next]_vars => InOrder'
<1> SUFFICES ASSUME TypeOK, OneHolder, InOrder, [Next]_vars PROVE InOrder'
  OBVIOUS
<1> USE IngestAssumption DEF TypeOK, OneHolder, InOrder, Holding, Busy, Statuses
<1>1. ASSUME NEW r \in Request, Upload(r) PROVE InOrder'
  BY <1>1 DEF Upload, LookUp, Found, Goto, rows, request
<1>2. ASSUME NEW r \in Request, Check(r) PROVE InOrder'
  BY <1>2 DEF Check, LookUp, Found, Goto, rows, request
<1>3. ASSUME NEW r \in Request, Receive(r) PROVE InOrder'
  BY <1>3 DEF Receive, Goto, request
<1>4. ASSUME NEW r \in Request, Insert(r) PROVE InOrder'
  BY <1>4 DEF Insert, Goto, Collides, request
<1>5. ASSUME NEW r \in Request, Move(r) PROVE InOrder'
  BY <1>5 DEF Move, Goto, rows, request
<1>6. ASSUME NEW r \in Request, Promote(r) PROVE InOrder'
  BY <1>6 DEF Promote, Goto, request
<1>7. ASSUME NEW r \in Request, Link(r) PROVE InOrder'
  BY <1>7 DEF Link, Goto, request
<1>8. ASSUME NEW r \in Request, Rollback(r) PROVE InOrder'
  BY <1>8 DEF Rollback, Goto, rows, request
<1>9. ASSUME NEW r \in Request, Error(r) PROVE InOrder'
  BY <1>9 DEF Error, Goto, Raise, Fault, rows, request
<1>10. ASSUME NEW r \in Request, LostCommit(r) PROVE InOrder'
  BY <1>10 DEF LostCommit, Goto, Raise, Fault, Collides, request
<1>11. ASSUME NEW r \in Request, Crash(r) PROVE InOrder'
  BY <1>11 DEF Crash, Goto, Fault, rows, request
<1>12. ASSUME NEW k \in Key, Process(k) PROVE InOrder'
  BY <1>12 DEF Process, request
<1>13. ASSUME NEW k \in Key, Advance(k) PROVE InOrder'
  BY <1>13 DEF Advance, request
<1>14. ASSUME NEW k \in Key, NEW to \in Statuses, ChangeStatus(k, to)
      PROVE InOrder'
  BY <1>14 DEF ChangeStatus, request
<1>15. CASE UNCHANGED vars
  BY <1>15 DEF vars, rows, request
<1> HIDE DEF InOrder
<1>16. QED
  BY <1>1, <1>2, <1>3, <1>4, <1>5, <1>6, <1>7, <1>8, <1>9, <1>10, <1>11,
     <1>12, <1>13, <1>14, <1>15 DEF Next

\* Only the one holder of the place can delete its file.
LEMMA CreatedStep ==
  TypeOK /\ OneHolder /\ InOrder /\ CreatedIsKept /\ [Next]_vars => CreatedIsKept'
<1> SUFFICES ASSUME TypeOK, OneHolder, InOrder, CreatedIsKept, [Next]_vars PROVE CreatedIsKept'
  OBVIOUS
<1> USE IngestAssumption DEF TypeOK, OneHolder, InOrder, CreatedIsKept, Holding, Busy
<1>1. ASSUME NEW r \in Request, Upload(r) PROVE CreatedIsKept'
  BY <1>1 DEF Upload, LookUp, Found, Goto, rows, request
<1>2. ASSUME NEW r \in Request, Check(r) PROVE CreatedIsKept'
  BY <1>2 DEF Check, LookUp, Found, Goto, rows, request
<1>3. ASSUME NEW r \in Request, Receive(r) PROVE CreatedIsKept'
  BY <1>3 DEF Receive, Goto, request
<1>4. ASSUME NEW r \in Request, Insert(r) PROVE CreatedIsKept'
  BY <1>4 DEF Insert, Goto, Collides, request
<1>5. ASSUME NEW r \in Request, Move(r) PROVE CreatedIsKept'
  BY <1>5 DEF Move, Goto, rows, request
<1>6. ASSUME NEW r \in Request, Promote(r) PROVE CreatedIsKept'
  BY <1>6 DEF Promote, Goto, request
<1>7. ASSUME NEW r \in Request, Link(r) PROVE CreatedIsKept'
  BY <1>7 DEF Link, Goto, request
<1>8. ASSUME NEW r \in Request, Rollback(r) PROVE CreatedIsKept'
  BY <1>8 DEF Rollback, Goto, rows, request
<1>9. ASSUME NEW r \in Request, Error(r) PROVE CreatedIsKept'
  BY <1>9 DEF Error, Goto, Raise, Fault, rows, request
<1>10. ASSUME NEW r \in Request, LostCommit(r) PROVE CreatedIsKept'
  BY <1>10 DEF LostCommit, Goto, Raise, Fault, Collides, request
<1>11. ASSUME NEW r \in Request, Crash(r) PROVE CreatedIsKept'
  BY <1>11 DEF Crash, Goto, Fault, rows, request
<1>12. ASSUME NEW k \in Key, Process(k) PROVE CreatedIsKept'
  BY <1>12 DEF Process, request
<1>13. ASSUME NEW k \in Key, Advance(k) PROVE CreatedIsKept'
  BY <1>13 DEF Advance, request
<1>14. ASSUME NEW k \in Key, NEW to \in Statuses, ChangeStatus(k, to)
      PROVE CreatedIsKept'
  BY <1>14 DEF ChangeStatus, request
<1>15. CASE UNCHANGED vars
  BY <1>15 DEF vars, rows, request
<1> HIDE DEF CreatedIsKept
<1>16. QED
  BY <1>1, <1>2, <1>3, <1>4, <1>5, <1>6, <1>7, <1>8, <1>9, <1>10, <1>11,
     <1>12, <1>13, <1>14, <1>15 DEF Next

\* Requests run one at a time.
LEMMA AloneStep ==
  Processes = 1 /\ TypeOK /\ Alone /\ [Next]_vars => Alone'
<1> SUFFICES ASSUME Processes = 1, TypeOK, Alone, [Next]_vars PROVE Alone'
  OBVIOUS
<1> USE IngestAssumption, OneAtATime DEF TypeOK, Alone, Busy
<1>1. ASSUME NEW r \in Request, Upload(r) PROVE Alone'
  BY <1>1 DEF Upload, LookUp, Found, Goto, rows, request
<1>2. ASSUME NEW r \in Request, Check(r) PROVE Alone'
  BY <1>2 DEF Check, LookUp, Found, Goto, rows, request
<1>3. ASSUME NEW r \in Request, Receive(r) PROVE Alone'
  <2>1. at[r] \in Busy /\ \A q \in Request \ {r} : at'[q] = at[q]
    BY <1>3 DEF Receive, Goto
  <2>2. QED
    BY <2>1
<1>4. ASSUME NEW r \in Request, Insert(r) PROVE Alone'
  BY <1>4 DEF Insert, Goto, Collides, request
<1>5. ASSUME NEW r \in Request, Move(r) PROVE Alone'
  BY <1>5 DEF Move, Goto, rows, request
<1>6. ASSUME NEW r \in Request, Promote(r) PROVE Alone'
  BY <1>6 DEF Promote, Goto, request
<1>7. ASSUME NEW r \in Request, Link(r) PROVE Alone'
  BY <1>7 DEF Link, Goto, request
<1>8. ASSUME NEW r \in Request, Rollback(r) PROVE Alone'
  BY <1>8 DEF Rollback, Goto, rows, request
<1>9. ASSUME NEW r \in Request, Error(r) PROVE Alone'
  BY <1>9 DEF Error, Goto, Raise, Fault, rows, request
<1>10. ASSUME NEW r \in Request, LostCommit(r) PROVE Alone'
  BY <1>10 DEF LostCommit, Goto, Raise, Fault, Collides, request
<1>11. ASSUME NEW r \in Request, Crash(r) PROVE Alone'
  BY <1>11 DEF Crash, Goto, Fault, rows, request
<1>12. ASSUME NEW k \in Key, Process(k) PROVE Alone'
  BY <1>12 DEF Process, request
<1>13. ASSUME NEW k \in Key, Advance(k) PROVE Alone'
  BY <1>13 DEF Advance, request
<1>14. ASSUME NEW k \in Key, NEW to \in Statuses, ChangeStatus(k, to)
      PROVE Alone'
  BY <1>14 DEF ChangeStatus, request
<1>15. CASE UNCHANGED vars
  BY <1>15 DEF vars, rows, request
<1> HIDE DEF Alone
<1>16. QED
  BY <1>1, <1>2, <1>3, <1>4, <1>5, <1>6, <1>7, <1>8, <1>9, <1>10, <1>11,
     <1>12, <1>13, <1>14, <1>15 DEF Next

\* Nobody inserts between the lookup and the insert of a request.
LEMMA LookedStep ==
  Processes = 1 /\ TypeOK /\ InOrder /\ Alone /\ Looked /\ [Next]_vars => Looked'
<1> SUFFICES ASSUME Processes = 1, TypeOK, InOrder, Alone, Looked, [Next]_vars PROVE Looked'
  OBVIOUS
<1> USE IngestAssumption, OneAtATime DEF TypeOK, InOrder, Alone, Looked, Found, Is, Busy
<1>1. ASSUME NEW r \in Request, Upload(r) PROVE Looked'
  BY <1>1 DEF Upload, LookUp, Found, Goto, rows, request
<1>2. ASSUME NEW r \in Request, Check(r) PROVE Looked'
  <2>1. CASE \E l \in Found(key[r], sent[r]) : Goto(r, "duplicate") /\ answer' = [answer EXCEPT ![r] = l]
    BY <1>2, <2>1 DEF Check, Goto, rows, request
  <2>2. CASE Found(key[r], sent[r]) = {} /\ Goto(r, "inbox") /\ UNCHANGED answer
    BY <1>2, <2>2 DEF Check, Goto, rows, request
  <2>3. QED
    BY <1>2, <2>1, <2>2 DEF Check, LookUp
<1>3. ASSUME NEW r \in Request, Receive(r) PROVE Looked'
  BY <1>3 DEF Receive, Goto, request
<1>4. ASSUME NEW r \in Request, Insert(r) PROVE Looked'
  BY <1>4 DEF Insert, Goto, Collides, request
<1>5. ASSUME NEW r \in Request, Move(r) PROVE Looked'
  BY <1>5 DEF Move, Goto, rows, request
<1>6. ASSUME NEW r \in Request, Promote(r) PROVE Looked'
  BY <1>6 DEF Promote, Goto, request
<1>7. ASSUME NEW r \in Request, Link(r) PROVE Looked'
  BY <1>7 DEF Link, Goto, request
<1>8. ASSUME NEW r \in Request, Rollback(r) PROVE Looked'
  BY <1>8 DEF Rollback, Goto, rows, request
<1>9. ASSUME NEW r \in Request, Error(r) PROVE Looked'
  BY <1>9 DEF Error, Goto, Raise, Fault, rows, request
<1>10. ASSUME NEW r \in Request, LostCommit(r) PROVE Looked'
  BY <1>10 DEF LostCommit, Goto, Raise, Fault, Collides, request
<1>11. ASSUME NEW r \in Request, Crash(r) PROVE Looked'
  BY <1>11 DEF Crash, Goto, Fault, rows, request
<1>12. ASSUME NEW k \in Key, Process(k) PROVE Looked'
  BY <1>12 DEF Process, request
<1>13. ASSUME NEW k \in Key, Advance(k) PROVE Looked'
  BY <1>13 DEF Advance, request
<1>14. ASSUME NEW k \in Key, NEW to \in Statuses, ChangeStatus(k, to)
      PROVE Looked'
  BY <1>14 DEF ChangeStatus, request
<1>15. CASE UNCHANGED vars
  BY <1>15 DEF vars, rows, request
<1> HIDE DEF Looked
<1>16. QED
  BY <1>1, <1>2, <1>3, <1>4, <1>5, <1>6, <1>7, <1>8, <1>9, <1>10, <1>11,
     <1>12, <1>13, <1>14, <1>15 DEF Next

\* Whoever inserts a row completes it, or a fault has hit it.
LEMMA WholeStep ==
  Processes = 1 /\ TypeOK /\ OneHolder /\ InOrder /\ Alone /\ Whole /\ [Next]_vars => Whole'
<1> SUFFICES ASSUME Processes = 1, TypeOK, OneHolder, InOrder, Alone, Whole, [Next]_vars PROVE Whole'
  OBVIOUS
<1> USE IngestAssumption, OneAtATime DEF TypeOK, OneHolder, InOrder, Alone, Whole, Complete, Completing, Holding, Busy
<1>1. ASSUME NEW r \in Request, Upload(r) PROVE Whole'
  BY <1>1 DEF Upload, LookUp, Found, Goto, rows, request
<1>2. ASSUME NEW r \in Request, Check(r) PROVE Whole'
  BY <1>2 DEF Check, LookUp, Found, Goto, rows, request
<1>3. ASSUME NEW r \in Request, Receive(r) PROVE Whole'
  BY <1>3 DEF Receive, Goto, request
<1>4. ASSUME NEW r \in Request, Insert(r) PROVE Whole'
  BY <1>4 DEF Insert, Goto, Collides, request
<1>5. ASSUME NEW r \in Request, Move(r) PROVE Whole'
  BY <1>5 DEF Move, Goto, rows, request
<1>6. ASSUME NEW r \in Request, Promote(r) PROVE Whole'
  BY <1>6 DEF Promote, Goto, request
<1>7. ASSUME NEW r \in Request, Link(r) PROVE Whole'
  BY <1>7 DEF Link, Goto, request
<1>8. ASSUME NEW r \in Request, Rollback(r) PROVE Whole'
  BY <1>8 DEF Rollback, Goto, rows, request
<1>9. ASSUME NEW r \in Request, Error(r) PROVE Whole'
  BY <1>9 DEF Error, Goto, Raise, Fault, rows, request
<1>10. ASSUME NEW r \in Request, LostCommit(r) PROVE Whole'
  BY <1>10 DEF LostCommit, Goto, Raise, Fault, Collides, request
<1>11. ASSUME NEW r \in Request, Crash(r) PROVE Whole'
  BY <1>11 DEF Crash, Goto, Fault, rows, request
<1>12. ASSUME NEW k \in Key, Process(k) PROVE Whole'
  BY <1>12 DEF Process, request
<1>13. ASSUME NEW k \in Key, Advance(k) PROVE Whole'
  BY <1>13 DEF Advance, request
<1>14. ASSUME NEW k \in Key, NEW to \in Statuses, ChangeStatus(k, to)
      PROVE Whole'
  BY <1>14 DEF ChangeStatus, request
<1>15. CASE UNCHANGED vars
  BY <1>15 DEF vars, rows, request
<1> HIDE DEF Whole
<1>16. QED
  BY <1>1, <1>2, <1>3, <1>4, <1>5, <1>6, <1>7, <1>8, <1>9, <1>10, <1>11,
     <1>12, <1>13, <1>14, <1>15 DEF Next

\* A duplicate is answered when nobody is at work but the request.
LEMMA DuplicateStep ==
  Processes = 1 /\ TypeOK /\ OneHolder /\ InOrder /\ Alone /\ Whole /\ DuplicateIsKept /\ [Next]_vars => DuplicateIsKept'
<1> SUFFICES ASSUME Processes = 1, TypeOK, OneHolder, InOrder, Alone, Whole, DuplicateIsKept, [Next]_vars PROVE DuplicateIsKept'
  OBVIOUS
<1> USE IngestAssumption, OneAtATime DEF TypeOK, OneHolder, InOrder, Alone, Whole, Complete, Completing, DuplicateIsKept, Holding, Busy
<1>1. ASSUME NEW r \in Request, Upload(r) PROVE DuplicateIsKept'
  <2>1. ASSUME NEW l \in Found(key[r], sent[r]), Goto(r, "duplicate"), answer' = [answer EXCEPT ![r] = l]
        PROVE DuplicateIsKept'
    <3>1. l \in Key /\ content[l] = sent[r]
      BY DEF Found, Is
    <3>2. l \notin hurt => Complete(l)
      <4>1. \A q \in Request : at[q] \notin Busy \ {"check"}
        BY <1>1, OneAtATime DEF Upload
      <4>2. QED
        BY <3>1, <4>1
    <3>3. QED
      BY <1>1, <2>1, <3>1, <3>2 DEF Upload, Goto, rows, request
  <2>2. CASE Goto(r, "check") /\ UNCHANGED answer
    BY <1>1, <2>2 DEF Upload, Goto, rows, request
  <2>3. QED
    BY <1>1, <2>1, <2>2 DEF Upload, LookUp
<1>2. ASSUME NEW r \in Request, Check(r) PROVE DuplicateIsKept'
  <2>1. ASSUME NEW l \in Found(key[r], sent[r]), Goto(r, "duplicate"), answer' = [answer EXCEPT ![r] = l]
        PROVE DuplicateIsKept'
    <3>1. l \in Key /\ content[l] = sent[r]
      BY DEF Found, Is
    <3>2. l \notin hurt => Complete(l)
      <4>1. \A q \in Request : at[q] \notin Busy \ {"check"}
        BY <1>2, OneAtATime DEF Check
      <4>2. QED
        BY <3>1, <4>1
    <3>3. QED
      BY <1>2, <2>1, <3>1, <3>2 DEF Check, Goto, rows, request
  <2>2. CASE Goto(r, "inbox") /\ UNCHANGED answer
    BY <1>2, <2>2 DEF Check, Goto, rows, request
  <2>3. QED
    BY <1>2, <2>1, <2>2 DEF Check, LookUp
<1>3. ASSUME NEW r \in Request, Receive(r) PROVE DuplicateIsKept'
  BY <1>3 DEF Receive, Goto, request
<1>4. ASSUME NEW r \in Request, Insert(r) PROVE DuplicateIsKept'
  BY <1>4 DEF Insert, Goto, Collides, request
<1>5. ASSUME NEW r \in Request, Move(r) PROVE DuplicateIsKept'
  BY <1>5 DEF Move, Goto, rows, request
<1>6. ASSUME NEW r \in Request, Promote(r) PROVE DuplicateIsKept'
  BY <1>6 DEF Promote, Goto, request
<1>7. ASSUME NEW r \in Request, Link(r) PROVE DuplicateIsKept'
  BY <1>7 DEF Link, Goto, request
<1>8. ASSUME NEW r \in Request, Rollback(r) PROVE DuplicateIsKept'
  BY <1>8 DEF Rollback, Goto, rows, request
<1>9. ASSUME NEW r \in Request, Error(r) PROVE DuplicateIsKept'
  BY <1>9 DEF Error, Goto, Raise, Fault, rows, request
<1>10. ASSUME NEW r \in Request, LostCommit(r) PROVE DuplicateIsKept'
  BY <1>10 DEF LostCommit, Goto, Raise, Fault, Collides, request
<1>11. ASSUME NEW r \in Request, Crash(r) PROVE DuplicateIsKept'
  BY <1>11 DEF Crash, Goto, Fault, rows, request
<1>12. ASSUME NEW k \in Key, Process(k) PROVE DuplicateIsKept'
  BY <1>12 DEF Process, request
<1>13. ASSUME NEW k \in Key, Advance(k) PROVE DuplicateIsKept'
  BY <1>13 DEF Advance, request
<1>14. ASSUME NEW k \in Key, NEW to \in Statuses, ChangeStatus(k, to)
      PROVE DuplicateIsKept'
  BY <1>14 DEF ChangeStatus, request
<1>15. CASE UNCHANGED vars
  BY <1>15 DEF vars, rows, request
<1> HIDE DEF DuplicateIsKept
<1>16. QED
  BY <1>1, <1>2, <1>3, <1>4, <1>5, <1>6, <1>7, <1>8, <1>9, <1>10, <1>11,
     <1>12, <1>13, <1>14, <1>15 DEF Next

\* At the insert, what the lookup found is still so: no asset collides, and a
\* used key has been used for other content.
LEMMA AtInsert ==
  ASSUME TypeOK, Looked, OnCourse, NEW r \in Request, at[r] = "asset"
  PROVE  /\ ~Collides(key[r], sent[r])
         /\ content[key[r]] # NoContent => Reason(r)
<1> USE DEF TypeOK
<1>1. \A l \in Key : content[l] = sent[r] => project[l] # project[key[r]]
  BY DEF Looked, Found, Is
<1>2. ~Collides(key[r], sent[r])
  BY <1>1 DEF Collides, Is
<1>3. ASSUME content[key[r]] # NoContent PROVE Reason(r)
  <2>1. PICK q \in Request : key[q] = key[r] /\ sent[q] = content[key[r]]
    BY <1>3 DEF OnCourse
  <2>2. sent[q] # sent[r]
    BY <1>1, <2>1
  <2>3. QED
    BY <2>1, <2>2 DEF Reason
<1>4. QED
  BY <1>2, <1>3

\* Nobody else is at work, so a request that starts on a free place keeps it.
LEMMA CourseStep ==
  Processes = 1 /\ TypeOK /\ OneHolder /\ InOrder /\ Alone /\ Looked /\ OnCourse /\ [Next]_vars => OnCourse'
<1> SUFFICES ASSUME Processes = 1, TypeOK, OneHolder, InOrder, Alone, Looked, OnCourse, [Next]_vars PROVE OnCourse'
  OBVIOUS
<1> USE IngestAssumption, OneAtATime DEF TypeOK, OneHolder, InOrder, Alone, Looked, OnCourse, Reason, Holding, Busy
<1>1. ASSUME NEW r \in Request, Upload(r) PROVE OnCourse'
  BY <1>1 DEF Upload, LookUp, Found, Goto, rows, request
<1>2. ASSUME NEW r \in Request, Check(r) PROVE OnCourse'
  BY <1>2 DEF Check, LookUp, Found, Goto, rows, request
<1>3. ASSUME NEW r \in Request, Receive(r) PROVE OnCourse'
  BY <1>3 DEF Receive, Goto, request
<1>4. ASSUME NEW r \in Request, Insert(r) PROVE OnCourse'
  <2> DEFINE k == key[r]
  <2>1. /\ UNCHANGED <<inbox, ingest, file, struck, key, sent, project>>
        /\ at' = [at EXCEPT ![r] = "move"]
        /\ \/ content[k] # NoContent /\ content' = content
           \/ content[k] = NoContent /\ content' = [content EXCEPT ![k] = sent[r]]
    BY <1>4, AtInsert DEF Insert, Goto, request
  <2>2. ASSUME NEW l \in Key, content'[l] # NoContent
        PROVE  \E q \in Request : key'[q] = l /\ sent'[q] = content'[l]
    BY <2>1, <2>2
  <2>3. ASSUME ~Reason(r)
        PROVE  file[k] = NoContent /\ ingest[k] = "pending" /\ inbox[k] = "staged"
    BY <1>4, <2>3, AtInsert DEF Insert
  <2>4. \A q \in Request : Reason(q)' = Reason(q)
    BY <2>1
  <2>5. QED
    BY <2>1, <2>2, <2>3, <2>4
<1>5. ASSUME NEW r \in Request, Move(r) PROVE OnCourse'
  BY <1>5 DEF Move, Goto, rows, request
<1>6. ASSUME NEW r \in Request, Promote(r) PROVE OnCourse'
  BY <1>6 DEF Promote, Goto, request
<1>7. ASSUME NEW r \in Request, Link(r) PROVE OnCourse'
  <2>1. UNCHANGED <<content, ingest, file, struck, key, sent, project>>
    BY <1>7 DEF Link, request
  <2>2. \A q \in Request \ {r} : at'[q] = at[q] /\ at[q] \notin Busy
    BY <1>7 DEF Link, Goto
  <2>3. at'[r] \in {"created", "rollback"} /\ (at'[r] = "rollback" => Reason(r))
    BY <1>7 DEF Link, Goto
  <2>4. QED
    BY <2>1, <2>2, <2>3
<1>8. ASSUME NEW r \in Request, Rollback(r) PROVE OnCourse'
  BY <1>8 DEF Rollback, Goto, rows, request
<1>9. ASSUME NEW r \in Request, Error(r) PROVE OnCourse'
  BY <1>9 DEF Error, Goto, Raise, Fault, rows, request
<1>10. ASSUME NEW r \in Request, LostCommit(r) PROVE OnCourse'
  BY <1>10 DEF LostCommit, Goto, Raise, Fault, Collides, request
<1>11. ASSUME NEW r \in Request, Crash(r) PROVE OnCourse'
  BY <1>11 DEF Crash, Goto, Fault, rows, request
<1>12. ASSUME NEW k \in Key, Process(k) PROVE OnCourse'
  BY <1>12 DEF Process, request
<1>13. ASSUME NEW k \in Key, Advance(k) PROVE OnCourse'
  BY <1>13 DEF Advance, request
<1>14. ASSUME NEW k \in Key, NEW to \in Statuses, ChangeStatus(k, to)
      PROVE OnCourse'
  BY <1>14 DEF ChangeStatus, request
<1>15. CASE UNCHANGED vars
  BY <1>15 DEF vars, rows, request
<1> HIDE DEF OnCourse
<1>16. QED
  BY <1>1, <1>2, <1>3, <1>4, <1>5, <1>6, <1>7, <1>8, <1>9, <1>10, <1>11,
     <1>12, <1>13, <1>14, <1>15 DEF Next

\* Every step to the error has its reason.
LEMMA ReasonStep ==
  Processes = 1 /\ TypeOK /\ InOrder /\ Looked /\ OnCourse /\ FailsForAReason /\ [Next]_vars => FailsForAReason'
<1> SUFFICES ASSUME Processes = 1, TypeOK, InOrder, Looked, OnCourse, FailsForAReason, [Next]_vars PROVE FailsForAReason'
  OBVIOUS
<1> USE IngestAssumption DEF TypeOK, InOrder, Looked, OnCourse, FailsForAReason, Reason, Holding, Busy
<1>1. ASSUME NEW r \in Request, Upload(r) PROVE FailsForAReason'
  BY <1>1 DEF Upload, LookUp, Found, Goto, rows, request
<1>2. ASSUME NEW r \in Request, Check(r) PROVE FailsForAReason'
  BY <1>2 DEF Check, LookUp, Found, Goto, rows, request
<1>3. ASSUME NEW r \in Request, Receive(r) PROVE FailsForAReason'
  BY <1>3 DEF Receive, Goto, request
<1>4. ASSUME NEW r \in Request, Insert(r) PROVE FailsForAReason'
  <2>1. ~Collides(key[r], sent[r])
    BY <1>4, AtInsert DEF Insert
  <2>2. UNCHANGED <<struck, key, sent, project>> /\ at' = [at EXCEPT ![r] = "move"]
    BY <1>4, <2>1 DEF Insert, Goto, request
  <2>3. QED
    BY <2>2
<1>5. ASSUME NEW r \in Request, Move(r) PROVE FailsForAReason'
  BY <1>5 DEF Move, Goto, rows, request
<1>6. ASSUME NEW r \in Request, Promote(r) PROVE FailsForAReason'
  BY <1>6 DEF Promote, Goto, request
<1>7. ASSUME NEW r \in Request, Link(r) PROVE FailsForAReason'
  BY <1>7 DEF Link, Goto, request
<1>8. ASSUME NEW r \in Request, Rollback(r) PROVE FailsForAReason'
  BY <1>8 DEF Rollback, Goto, rows, request
<1>9. ASSUME NEW r \in Request, Error(r) PROVE FailsForAReason'
  BY <1>9 DEF Error, Goto, Raise, Fault, rows, request
<1>10. ASSUME NEW r \in Request, LostCommit(r) PROVE FailsForAReason'
  BY <1>10 DEF LostCommit, Goto, Raise, Fault, Collides, request
<1>11. ASSUME NEW r \in Request, Crash(r) PROVE FailsForAReason'
  BY <1>11 DEF Crash, Goto, Fault, rows, request
<1>12. ASSUME NEW k \in Key, Process(k) PROVE FailsForAReason'
  BY <1>12 DEF Process, request
<1>13. ASSUME NEW k \in Key, Advance(k) PROVE FailsForAReason'
  BY <1>13 DEF Advance, request
<1>14. ASSUME NEW k \in Key, NEW to \in Statuses, ChangeStatus(k, to)
      PROVE FailsForAReason'
  BY <1>14 DEF ChangeStatus, request
<1>15. CASE UNCHANGED vars
  BY <1>15 DEF vars, rows, request
<1> HIDE DEF FailsForAReason
<1>16. QED
  BY <1>1, <1>2, <1>3, <1>4, <1>5, <1>6, <1>7, <1>8, <1>9, <1>10, <1>11,
     <1>12, <1>13, <1>14, <1>15 DEF Next

----------------------------------------------------------------------------
(* The theorems.                                                            *)

\* Code behaviour: the invariant behind the ingest of an upload (see README).
THEOREM IngestInvariant == Spec => []IInv
<1>1. IInv /\ [Next]_vars => IInv'
  BY TypeStep, HolderStep, OrderStep, CreatedStep, AloneStep, LookedStep, WholeStep,
     DuplicateStep, CourseStep, ReasonStep DEF IInv
<1>2. QED
  BY InvInit, <1>1, PTL DEF Spec

\* Code behaviour: an upload that was answered 201 keeps its file, however many
\* requests repeat its key at the same time (storage/promote.py:62-66,
\* db/assets.py:2020-2025).
THEOREM CreatedFileIsKept == Spec => []CreatedIsKept
<1>1. IInv => CreatedIsKept
  BY DEF IInv
<1>2. QED
  BY IngestInvariant, <1>1, PTL

\* Code behaviour: with one process, an upload answered as a duplicate has its
\* file in place (db/assets.py:1941-1948).
THEOREM DuplicateFileIsKept ==
  ASSUME Processes = 1
  PROVE  Spec => []DuplicateIsKept
<1>1. IInv => DuplicateIsKept
  BY DEF IInv
<1>2. QED
  BY IngestInvariant, <1>1, PTL

\* Code behaviour: with one process, the lookup (db/assets.py:180-193, 1941)
\* still holds when UNIQUE (project_id, content_hash) decides, and no other
\* request stands in the way of the place of the file or of the inbox item.
THEOREM UploadsFailForAReason ==
  ASSUME Processes = 1
  PROVE  Spec => []FailsForAReason
<1>1. IInv => FailsForAReason
  BY DEF IInv
<1>2. QED
  BY IngestInvariant, <1>1, PTL

=============================================================================
