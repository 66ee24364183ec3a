--------------------------- MODULE PipelineRunProofs ---------------------------
(***************************************************************************)
(* Proofs about pipeline runs, for any runs, assets and workers and any    *)
(* number of attempts, replays, requests of users and faults.              *)
(***************************************************************************)
EXTENDS PipelineRunProps, TLAPS

\* The initial state satisfies the invariant.
LEMMA InvInit == Init => IInv
<1> SUFFICES ASSUME Init PROVE IInv
  OBVIOUS
<1> USE PipelineAssumption DEF Init
<1>1. TypeOK
  BY DEF TypeOK, RunStatus, JobStatus, TrackStatus, IngestState, PC
<1>2. Untouched /\ Once /\ OneImporter /\ Concluding /\ Working /\ Asked
  BY DEF Untouched, Once, OneImporter, Importing, Concluding, Working, Asked, Executing
<1>3. NeverAbandoned /\ OneDocument /\ JobTellsTruth
  BY DEF NeverAbandoned, OneDocument, JobTellsTruth
<1>4. QED
  BY <1>1, <1>2, <1>3 DEF IInv

\* The handlers of an exception, as a table.
LEMMA Handlers ==
  ASSUME NEW p \in PC \ {"idle", "ack", "nack"}, NEW c \in BOOLEAN
  PROVE  /\ p \in {"create", "link", "mark", "start", "fail", "failjob", "failtrack"}
              => Handler(p, c) = "nack"
         /\ p \in {"read", "import", "finish", "complete"} => Handler(p, c) = "fail"
         /\ p = "finalize" => Handler(p, c) = IF c THEN "finish" ELSE "fail"
         /\ p = "track" => Handler(p, c) = "read"
         /\ p = "document" => Handler(p, c) = "finalize"
         /\ p = "done" => Handler(p, c) = "ack"
  BY DEF Handler, PC, Starting, Executing, Failing

\* Type correctness, one action at a time.
LEMMA TypeStep ==
  TypeOK /\ Untouched /\ Once /\ Asked /\ [Next]_vars => TypeOK'
<1> SUFFICES ASSUME TypeOK, Untouched, Once, Asked, [Next]_vars PROVE TypeOK'
  OBVIOUS
<1> USE PipelineAssumption DEF TypeOK, Untouched, Once, Asked, Transitions, RunStatus, JobStatus, TrackStatus, IngestState, PC, Starting, Executing, Failing
<1>1. ASSUME NEW r \in Run, QueueJob(r) PROVE TypeOK'
  BY <1>1 DEF QueueJob, queue, local, api
<1>2. ASSUME NEW r \in Run, RequestRun(r) PROVE TypeOK'
  BY <1>2 DEF RequestRun, local, api
<1>3. ASSUME NEW a \in Asset, Promote(a) PROVE TypeOK'
  BY <1>3 DEF Promote, queue, local, api
<1>4. ASSUME NEW r \in Run, NEW to \in RunStatus, Ask(r, to)
      PROVE TypeOK'
  BY <1>4 DEF Ask, rows, queue, local
<1>5. ASSUME NEW q \in asked, Answer(q) PROVE TypeOK'
  <2>1. q.run \in Run /\ q.to \in RunStatus /\ <<q.from, q.to>> \in Transitions
    BY <1>5 DEF TypeOK, Asked
  <2>2. q.to \in RunStatus \ {"none"} /\ q.from \notin {"none", "succeeded", "cancelled"}
    BY <2>1 DEF Transitions, RunStatus
  <2>3. CASE status[q.run] = q.from
    BY <1>5, <2>1, <2>2, <2>3 DEF Answer, queue, local
  <2>4. CASE status[q.run] # q.from
    BY <1>5, <2>4 DEF Answer, queue, local
  <2>5. QED
    BY <2>3, <2>4
<1>6. ASSUME NEW r \in Run, Replay(r) PROVE TypeOK'
  BY <1>6 DEF Replay, rows, local, api
<1>7. ASSUME NEW r \in Run, Deliver(r) PROVE TypeOK'
  BY <1>7 DEF Deliver, Goto, rows, queue, api
<1>8. ASSUME NEW r \in Run, CreateJob(r) PROVE TypeOK'
  BY <1>8 DEF CreateJob, Goto, queue, api
<1>9. ASSUME NEW r \in Run, Link(r) PROVE TypeOK'
  BY <1>9 DEF Link, Goto, queue, api, rows
<1>10. ASSUME NEW r \in Run, MarkJob(r) PROVE TypeOK'
  BY <1>10 DEF MarkJob, Goto, queue, api
<1>11. ASSUME NEW r \in Run, Start(r) PROVE TypeOK'
  BY <1>11 DEF Start, Goto, queue, api
<1>12. ASSUME NEW r \in Run, Track(r) PROVE TypeOK'
  BY <1>12 DEF Track, Goto, queue, api
<1>13. ASSUME NEW r \in Run, ReadAsset(r) PROVE TypeOK'
  BY <1>13 DEF ReadAsset, Goto, queue, api, rows
<1>14. ASSUME NEW r \in Run, Import(r) PROVE TypeOK'
  BY <1>14 DEF Import, Goto, queue, api
<1>15. ASSUME NEW r \in Run, Document(r) PROVE TypeOK'
  BY <1>15 DEF Document, Goto, queue, api
<1>16. ASSUME NEW r \in Run, Finalize(r) PROVE TypeOK'
  BY <1>16 DEF Finalize, Goto, queue, api, Forget
<1>17. ASSUME NEW r \in Run, Finish(r) PROVE TypeOK'
  BY <1>17 DEF Finish, Goto, queue, api
<1>18. ASSUME NEW r \in Run, CompleteJob(r) PROVE TypeOK'
  BY <1>18 DEF CompleteJob, Goto, queue, api
<1>19. ASSUME NEW r \in Run, TrackDone(r) PROVE TypeOK'
  BY <1>19 DEF TrackDone, Goto, queue, api
<1>20. ASSUME NEW r \in Run, Fail(r) PROVE TypeOK'
  BY <1>20 DEF Fail, Goto, queue, api
<1>21. ASSUME NEW r \in Run, FailJob(r) PROVE TypeOK'
  BY <1>21 DEF FailJob, Goto, queue, api
<1>22. ASSUME NEW r \in Run, FailTrack(r) PROVE TypeOK'
  BY <1>22 DEF FailTrack, Goto, queue, api
<1>23. ASSUME NEW r \in Run, Record(r) PROVE TypeOK'
  BY <1>23 DEF Record, Goto, rows, api
<1>24. ASSUME NEW r \in Run, Error(r) PROVE TypeOK'
  <2>1. at[r] \in PC \ {"idle", "ack", "nack"} /\ made[r] \in BOOLEAN
    BY <1>24 DEF Error
  <2>2. Handler(at[r], made[r]) \in PC
    BY <2>1, Handlers
  <2>3. at' \in [Run -> PC]
    BY <1>24, <2>2 DEF Error, Goto
  <2>4. seen' \in [Run -> IngestState] /\ made' \in [Run -> BOOLEAN]
    <3>1. CASE at[r] = "document"
      BY <1>24, <3>1 DEF Error
    <3>2. CASE at[r] # "document"
      <4>1. seen' = [seen EXCEPT ![r] = "pending"] /\ made' = [made EXCEPT ![r] = FALSE]
        BY <1>24, <3>2 DEF Error, Forget
      <4>2. seen' \in [Run -> IngestState]
        BY <4>1
      <4>3. made' \in [Run -> BOOLEAN]
        BY <4>1, Zenon
      <4>4. QED
        BY <4>2, <4>3
    <3>3. QED
      BY <3>1, <3>2
  <2>5. faults' \in 0..MaxFaults /\ hurt' \subseteq Run
    BY <1>24 DEF Error, Fault, Hurts
  <2>6. QED
    BY <1>24, <2>3, <2>4, <2>5 DEF Error, rows, queue, api
<1>25. ASSUME NEW r \in Run, Crash(r) PROVE TypeOK'
  BY <1>25 DEF Crash, Goto, Forget, Fault, Hurts, rows, queue, api, Starting, Executing
<1>26. CASE UNCHANGED vars
  BY <1>26 DEF vars, rows, queue, local, api
<1> HIDE DEF TypeOK
<1>27. QED
  BY <1>1, <1>2, <1>3, <1>4, <1>5, <1>6, <1>7, <1>8, <1>9, <1>10, <1>11,
     <1>12, <1>13, <1>14, <1>15, <1>16, <1>17, <1>18, <1>19, <1>20, <1>21, <1>22,
     <1>23, <1>24, <1>25, <1>26 DEF Next, Consume

\* A worker has the delivery only while it is open.
LEMMA UntouchedStep ==
  TypeOK /\ Untouched /\ Once /\ Asked /\ [Next]_vars => Untouched'
<1> SUFFICES ASSUME TypeOK, Untouched, Once, Asked, [Next]_vars PROVE Untouched'
  OBVIOUS
<1> USE PipelineAssumption DEF TypeOK, Untouched, Once, Asked, Transitions, RunStatus, JobStatus, TrackStatus, IngestState, PC, Starting, Executing, Failing
<1>1. ASSUME NEW r \in Run, QueueJob(r) PROVE Untouched'
  BY <1>1 DEF QueueJob, queue, local, api
<1>2. ASSUME NEW r \in Run, RequestRun(r) PROVE Untouched'
  BY <1>2 DEF RequestRun, local, api
<1>3. ASSUME NEW a \in Asset, Promote(a) PROVE Untouched'
  BY <1>3 DEF Promote, queue, local, api
<1>4. ASSUME NEW r \in Run, NEW to \in RunStatus, Ask(r, to)
      PROVE Untouched'
  BY <1>4 DEF Ask, rows, queue, local
<1>5. ASSUME NEW q \in asked, Answer(q) PROVE Untouched'
  <2>1. q.run \in Run /\ q.to \in RunStatus /\ <<q.from, q.to>> \in Transitions
    BY <1>5 DEF TypeOK, Asked
  <2>2. q.to \in RunStatus \ {"none"} /\ q.from \notin {"none", "succeeded", "cancelled"}
    BY <2>1 DEF Transitions, RunStatus
  <2>3. CASE status[q.run] = q.from
    BY <1>5, <2>1, <2>2, <2>3 DEF Answer, queue, local
  <2>4. CASE status[q.run] # q.from
    BY <1>5, <2>4 DEF Answer, queue, local
  <2>5. QED
    BY <2>3, <2>4
<1>6. ASSUME NEW r \in Run, Replay(r) PROVE Untouched'
  BY <1>6 DEF Replay, rows, local, api
<1>7. ASSUME NEW r \in Run, Deliver(r) PROVE Untouched'
  BY <1>7 DEF Deliver, Goto, rows, queue, api
<1>8. ASSUME NEW r \in Run, CreateJob(r) PROVE Untouched'
  BY <1>8 DEF CreateJob, Goto, queue, api
<1>9. ASSUME NEW r \in Run, Link(r) PROVE Untouched'
  BY <1>9 DEF Link, Goto, queue, api, rows
<1>10. ASSUME NEW r \in Run, MarkJob(r) PROVE Untouched'
  BY <1>10 DEF MarkJob, Goto, queue, api
<1>11. ASSUME NEW r \in Run, Start(r) PROVE Untouched'
  BY <1>11 DEF Start, Goto, queue, api
<1>12. ASSUME NEW r \in Run, Track(r) PROVE Untouched'
  BY <1>12 DEF Track, Goto, queue, api
<1>13. ASSUME NEW r \in Run, ReadAsset(r) PROVE Untouched'
  BY <1>13 DEF ReadAsset, Goto, queue, api, rows
<1>14. ASSUME NEW r \in Run, Import(r) PROVE Untouched'
  BY <1>14 DEF Import, Goto, queue, api
<1>15. ASSUME NEW r \in Run, Document(r) PROVE Untouched'
  BY <1>15 DEF Document, Goto, queue, api
<1>16. ASSUME NEW r \in Run, Finalize(r) PROVE Untouched'
  BY <1>16 DEF Finalize, Goto, queue, api, Forget
<1>17. ASSUME NEW r \in Run, Finish(r) PROVE Untouched'
  BY <1>17 DEF Finish, Goto, queue, api
<1>18. ASSUME NEW r \in Run, CompleteJob(r) PROVE Untouched'
  BY <1>18 DEF CompleteJob, Goto, queue, api
<1>19. ASSUME NEW r \in Run, TrackDone(r) PROVE Untouched'
  BY <1>19 DEF TrackDone, Goto, queue, api
<1>20. ASSUME NEW r \in Run, Fail(r) PROVE Untouched'
  BY <1>20 DEF Fail, Goto, queue, api
<1>21. ASSUME NEW r \in Run, FailJob(r) PROVE Untouched'
  BY <1>21 DEF FailJob, Goto, queue, api
<1>22. ASSUME NEW r \in Run, FailTrack(r) PROVE Untouched'
  BY <1>22 DEF FailTrack, Goto, queue, api
<1>23. ASSUME NEW r \in Run, Record(r) PROVE Untouched'
  BY <1>23 DEF Record, Goto, rows, api
<1>24. ASSUME NEW r \in Run, Error(r) PROVE Untouched'
  <2>1. at[r] \in PC \ {"idle", "ack", "nack"} /\ made[r] \in BOOLEAN
    BY <1>24 DEF Error, TypeOK
  <2>2. QED
    BY <1>24, <2>1, Handlers DEF Error, Goto, Forget, Fault, Hurts, rows, queue, api, Starting, Executing, Failing, PC
<1>25. ASSUME NEW r \in Run, Crash(r) PROVE Untouched'
  BY <1>25 DEF Crash, Goto, Forget, Fault, Hurts, rows, queue, api, Starting, Executing
<1>26. CASE UNCHANGED vars
  BY <1>26 DEF vars, rows, queue, local, api
<1> HIDE DEF Untouched
<1>27. QED
  BY <1>1, <1>2, <1>3, <1>4, <1>5, <1>6, <1>7, <1>8, <1>9, <1>10, <1>11,
     <1>12, <1>13, <1>14, <1>15, <1>16, <1>17, <1>18, <1>19, <1>20, <1>21, <1>22,
     <1>23, <1>24, <1>25, <1>26 DEF Next, Consume

\* Past create_job there is no document yet, because there was no job.
LEMMA OnceStep ==
  TypeOK /\ Untouched /\ Once /\ [Next]_vars => Once'
<1> SUFFICES ASSUME TypeOK, Untouched, Once, [Next]_vars PROVE Once'
  OBVIOUS
<1> USE PipelineAssumption DEF TypeOK, Untouched, Once
<1>1. ASSUME NEW r \in Run, QueueJob(r) PROVE Once'
  BY <1>1 DEF QueueJob, queue, local, api
<1>2. ASSUME NEW r \in Run, RequestRun(r) PROVE Once'
  BY <1>2 DEF RequestRun, local, api
<1>3. ASSUME NEW a \in Asset, Promote(a) PROVE Once'
  BY <1>3 DEF Promote, queue, local, api
<1>4. ASSUME NEW r \in Run, NEW to \in RunStatus, Ask(r, to)
      PROVE Once'
  BY <1>4 DEF Ask, rows, queue, local
<1>5. ASSUME NEW q \in asked, Answer(q) PROVE Once'
  BY <1>5 DEF Answer, queue, local
<1>6. ASSUME NEW r \in Run, Replay(r) PROVE Once'
  BY <1>6 DEF Replay, rows, local, api
<1>7. ASSUME NEW r \in Run, Deliver(r) PROVE Once'
  BY <1>7 DEF Deliver, Goto, rows, queue, api
<1>8. ASSUME NEW r \in Run, CreateJob(r) PROVE Once'
  BY <1>8 DEF CreateJob, Goto, queue, api
<1>9. ASSUME NEW r \in Run, Link(r) PROVE Once'
  BY <1>9 DEF Link, Goto, queue, api, rows
<1>10. ASSUME NEW r \in Run, MarkJob(r) PROVE Once'
  BY <1>10 DEF MarkJob, Goto, queue, api
<1>11. ASSUME NEW r \in Run, Start(r) PROVE Once'
  BY <1>11 DEF Start, Goto, queue, api
<1>12. ASSUME NEW r \in Run, Track(r) PROVE Once'
  BY <1>12 DEF Track, Goto, queue, api
<1>13. ASSUME NEW r \in Run, ReadAsset(r) PROVE Once'
  BY <1>13 DEF ReadAsset, Goto, queue, api, rows
<1>14. ASSUME NEW r \in Run, Import(r) PROVE Once'
  BY <1>14 DEF Import, Goto, queue, api
<1>15. ASSUME NEW r \in Run, Document(r) PROVE Once'
  BY <1>15 DEF Document, Goto, queue, api
<1>16. ASSUME NEW r \in Run, Finalize(r) PROVE Once'
  BY <1>16 DEF Finalize, Goto, queue, api, Forget
<1>17. ASSUME NEW r \in Run, Finish(r) PROVE Once'
  BY <1>17 DEF Finish, Goto, queue, api
<1>18. ASSUME NEW r \in Run, CompleteJob(r) PROVE Once'
  BY <1>18 DEF CompleteJob, Goto, queue, api
<1>19. ASSUME NEW r \in Run, TrackDone(r) PROVE Once'
  BY <1>19 DEF TrackDone, Goto, queue, api
<1>20. ASSUME NEW r \in Run, Fail(r) PROVE Once'
  BY <1>20 DEF Fail, Goto, queue, api
<1>21. ASSUME NEW r \in Run, FailJob(r) PROVE Once'
  BY <1>21 DEF FailJob, Goto, queue, api
<1>22. ASSUME NEW r \in Run, FailTrack(r) PROVE Once'
  BY <1>22 DEF FailTrack, Goto, queue, api
<1>23. ASSUME NEW r \in Run, Record(r) PROVE Once'
  BY <1>23 DEF Record, Goto, rows, api
<1>24. ASSUME NEW r \in Run, Error(r) PROVE Once'
  <2>1. at[r] \in PC \ {"idle", "ack", "nack"} /\ made[r] \in BOOLEAN
    BY <1>24 DEF Error, TypeOK
  <2>2. QED
    BY <1>24, <2>1, Handlers DEF Error, Goto, Forget, Fault, Hurts, rows, queue, api, Starting, Executing, Failing, PC
<1>25. ASSUME NEW r \in Run, Crash(r) PROVE Once'
  BY <1>25 DEF Crash, Goto, Forget, Fault, Hurts, rows, queue, api, Starting, Executing
<1>26. CASE UNCHANGED vars
  BY <1>26 DEF vars, rows, queue, local, api
<1> HIDE DEF Once
<1>27. QED
  BY <1>1, <1>2, <1>3, <1>4, <1>5, <1>6, <1>7, <1>8, <1>9, <1>10, <1>11,
     <1>12, <1>13, <1>14, <1>15, <1>16, <1>17, <1>18, <1>19, <1>20, <1>21, <1>22,
     <1>23, <1>24, <1>25, <1>26 DEF Next, Consume

\* The compare-and-set staged -> importing lets one run in.
LEMMA ImporterStep ==
  TypeOK /\ OneImporter /\ [Next]_vars => OneImporter'
<1> SUFFICES ASSUME TypeOK, OneImporter, [Next]_vars PROVE OneImporter'
  OBVIOUS
<1> USE PipelineAssumption DEF TypeOK, OneImporter, Importing, IngestState
<1>1. ASSUME NEW r \in Run, QueueJob(r) PROVE OneImporter'
  BY <1>1 DEF QueueJob, queue, local, api
<1>2. ASSUME NEW r \in Run, RequestRun(r) PROVE OneImporter'
  BY <1>2 DEF RequestRun, local, api
<1>3. ASSUME NEW a \in Asset, Promote(a) PROVE OneImporter'
  BY <1>3 DEF Promote, queue, local, api
<1>4. ASSUME NEW r \in Run, NEW to \in RunStatus, Ask(r, to)
      PROVE OneImporter'
  BY <1>4 DEF Ask, rows, queue, local
<1>5. ASSUME NEW q \in asked, Answer(q) PROVE OneImporter'
  BY <1>5 DEF Answer, queue, local
<1>6. ASSUME NEW r \in Run, Replay(r) PROVE OneImporter'
  BY <1>6 DEF Replay, rows, local, api
<1>7. ASSUME NEW r \in Run, Deliver(r) PROVE OneImporter'
  BY <1>7 DEF Deliver, Goto, rows, queue, api
<1>8. ASSUME NEW r \in Run, CreateJob(r) PROVE OneImporter'
  BY <1>8 DEF CreateJob, Goto, queue, api
<1>9. ASSUME NEW r \in Run, Link(r) PROVE OneImporter'
  BY <1>9 DEF Link, Goto, queue, api, rows
<1>10. ASSUME NEW r \in Run, MarkJob(r) PROVE OneImporter'
  BY <1>10 DEF MarkJob, Goto, queue, api
<1>11. ASSUME NEW r \in Run, Start(r) PROVE OneImporter'
  BY <1>11 DEF Start, Goto, queue, api
<1>12. ASSUME NEW r \in Run, Track(r) PROVE OneImporter'
  BY <1>12 DEF Track, Goto, queue, api
<1>13. ASSUME NEW r \in Run, ReadAsset(r) PROVE OneImporter'
  BY <1>13 DEF ReadAsset, Goto, queue, api, rows
<1>14. ASSUME NEW r \in Run, Import(r) PROVE OneImporter'
  BY <1>14 DEF Import, Goto, queue, api
<1>15. ASSUME NEW r \in Run, Document(r) PROVE OneImporter'
  BY <1>15 DEF Document, Goto, queue, api
<1>16. ASSUME NEW r \in Run, Finalize(r) PROVE OneImporter'
  BY <1>16 DEF Finalize, Goto, queue, api, Forget
<1>17. ASSUME NEW r \in Run, Finish(r) PROVE OneImporter'
  BY <1>17 DEF Finish, Goto, queue, api
<1>18. ASSUME NEW r \in Run, CompleteJob(r) PROVE OneImporter'
  BY <1>18 DEF CompleteJob, Goto, queue, api
<1>19. ASSUME NEW r \in Run, TrackDone(r) PROVE OneImporter'
  BY <1>19 DEF TrackDone, Goto, queue, api
<1>20. ASSUME NEW r \in Run, Fail(r) PROVE OneImporter'
  BY <1>20 DEF Fail, Goto, queue, api
<1>21. ASSUME NEW r \in Run, FailJob(r) PROVE OneImporter'
  BY <1>21 DEF FailJob, Goto, queue, api
<1>22. ASSUME NEW r \in Run, FailTrack(r) PROVE OneImporter'
  BY <1>22 DEF FailTrack, Goto, queue, api
<1>23. ASSUME NEW r \in Run, Record(r) PROVE OneImporter'
  BY <1>23 DEF Record, Goto, rows, api
<1>24. ASSUME NEW r \in Run, Error(r) PROVE OneImporter'
  <2>1. at[r] \in PC \ {"idle", "ack", "nack"} /\ made[r] \in BOOLEAN
    BY <1>24 DEF Error, TypeOK
  <2>2. QED
    BY <1>24, <2>1, Handlers DEF Error, Goto, Forget, Fault, Hurts, rows, queue, api, Starting, Executing, Failing, PC
<1>25. ASSUME NEW r \in Run, Crash(r) PROVE OneImporter'
  BY <1>25 DEF Crash, Goto, Forget, Fault, Hurts, rows, queue, api, Starting, Executing
<1>26. CASE UNCHANGED vars
  BY <1>26 DEF vars, rows, queue, local, api
<1> HIDE DEF OneImporter
<1>27. QED
  BY <1>1, <1>2, <1>3, <1>4, <1>5, <1>6, <1>7, <1>8, <1>9, <1>10, <1>11,
     <1>12, <1>13, <1>14, <1>15, <1>16, <1>17, <1>18, <1>19, <1>20, <1>21, <1>22,
     <1>23, <1>24, <1>25, <1>26 DEF Next, Consume

\* Success is committed before the job is completed, and it is final.
LEMMA ConcludingStep ==
  TypeOK /\ Untouched /\ OneImporter /\ Asked /\ Concluding /\ [Next]_vars => Concluding'
<1> SUFFICES ASSUME TypeOK, Untouched, OneImporter, Asked, Concluding, [Next]_vars PROVE Concluding'
  OBVIOUS
<1> USE PipelineAssumption DEF TypeOK, Untouched, OneImporter, Importing, Asked, Transitions, Concluding
<1>1. ASSUME NEW r \in Run, QueueJob(r) PROVE Concluding'
  BY <1>1 DEF QueueJob, queue, local, api
<1>2. ASSUME NEW r \in Run, RequestRun(r) PROVE Concluding'
  BY <1>2 DEF RequestRun, local, api
<1>3. ASSUME NEW a \in Asset, Promote(a) PROVE Concluding'
  BY <1>3 DEF Promote, queue, local, api
<1>4. ASSUME NEW r \in Run, NEW to \in RunStatus, Ask(r, to)
      PROVE Concluding'
  BY <1>4 DEF Ask, rows, queue, local
<1>5. ASSUME NEW q \in asked, Answer(q) PROVE Concluding'
  <2>1. q.run \in Run /\ q.to \in RunStatus /\ <<q.from, q.to>> \in Transitions
    BY <1>5 DEF TypeOK, Asked
  <2>2. q.to \in RunStatus \ {"none"} /\ q.from \notin {"none", "succeeded", "cancelled"}
    BY <2>1 DEF Transitions, RunStatus
  <2>3. CASE status[q.run] = q.from
    BY <1>5, <2>1, <2>2, <2>3 DEF Answer, queue, local
  <2>4. CASE status[q.run] # q.from
    BY <1>5, <2>4 DEF Answer, queue, local
  <2>5. QED
    BY <2>3, <2>4
<1>6. ASSUME NEW r \in Run, Replay(r) PROVE Concluding'
  BY <1>6 DEF Replay, rows, local, api
<1>7. ASSUME NEW r \in Run, Deliver(r) PROVE Concluding'
  BY <1>7 DEF Deliver, Goto, rows, queue, api
<1>8. ASSUME NEW r \in Run, CreateJob(r) PROVE Concluding'
  BY <1>8 DEF CreateJob, Goto, queue, api
<1>9. ASSUME NEW r \in Run, Link(r) PROVE Concluding'
  BY <1>9 DEF Link, Goto, queue, api, rows
<1>10. ASSUME NEW r \in Run, MarkJob(r) PROVE Concluding'
  BY <1>10 DEF MarkJob, Goto, queue, api
<1>11. ASSUME NEW r \in Run, Start(r) PROVE Concluding'
  BY <1>11 DEF Start, Goto, queue, api
<1>12. ASSUME NEW r \in Run, Track(r) PROVE Concluding'
  BY <1>12 DEF Track, Goto, queue, api
<1>13. ASSUME NEW r \in Run, ReadAsset(r) PROVE Concluding'
  BY <1>13 DEF ReadAsset, Goto, queue, api, rows
<1>14. ASSUME NEW r \in Run, Import(r) PROVE Concluding'
  BY <1>14 DEF Import, Goto, queue, api
<1>15. ASSUME NEW r \in Run, Document(r) PROVE Concluding'
  BY <1>15 DEF Document, Goto, queue, api
<1>16. ASSUME NEW r \in Run, Finalize(r) PROVE Concluding'
  BY <1>16 DEF Finalize, Goto, queue, api, Forget
<1>17. ASSUME NEW r \in Run, Finish(r) PROVE Concluding'
  BY <1>17 DEF Finish, Goto, queue, api
<1>18. ASSUME NEW r \in Run, CompleteJob(r) PROVE Concluding'
  BY <1>18 DEF CompleteJob, Goto, queue, api
<1>19. ASSUME NEW r \in Run, TrackDone(r) PROVE Concluding'
  BY <1>19 DEF TrackDone, Goto, queue, api
<1>20. ASSUME NEW r \in Run, Fail(r) PROVE Concluding'
  BY <1>20 DEF Fail, Goto, queue, api
<1>21. ASSUME NEW r \in Run, FailJob(r) PROVE Concluding'
  BY <1>21 DEF FailJob, Goto, queue, api
<1>22. ASSUME NEW r \in Run, FailTrack(r) PROVE Concluding'
  BY <1>22 DEF FailTrack, Goto, queue, api
<1>23. ASSUME NEW r \in Run, Record(r) PROVE Concluding'
  BY <1>23 DEF Record, Goto, rows, api
<1>24. ASSUME NEW r \in Run, Error(r) PROVE Concluding'
  <2>1. at[r] \in PC \ {"idle", "ack", "nack"} /\ made[r] \in BOOLEAN
    BY <1>24 DEF Error, TypeOK
  <2>2. /\ at'[r] \notin {"complete", "done"}
        /\ at'[r] = "ack" => at[r] = "done"
        /\ at'[r] = "finish" => at[r] = "finalize"
    <3>1. at'[r] = Handler(at[r], made[r])
      BY <1>24 DEF Error, Goto
    <3>2. at[r] \in Starting \cup Executing \cup Failing \cup {"complete", "done"}
      BY <2>1 DEF PC
    <3>3. QED
      BY <3>1, <3>2, <2>1, Handlers, SMTT(30) DEF Starting, Executing, Failing
  <2>3. \A k \in Run \ {r} : at'[k] = at[k]
    BY <1>24 DEF Error, Goto
  <2>4. hurt \subseteq hurt' /\ (at[r] = "finalize" => r \in hurt')
    BY <1>24 DEF Error, Hurts
  <2>5. UNCHANGED <<status, ingest>>
    BY <1>24 DEF Error, rows
  <2>6. QED
    BY <2>2, <2>3, <2>4, <2>5
<1>25. ASSUME NEW r \in Run, Crash(r) PROVE Concluding'
  BY <1>25 DEF Crash, Goto, Forget, Fault, Hurts, rows, queue, api, Starting, Executing
<1>26. CASE UNCHANGED vars
  BY <1>26 DEF vars, rows, queue, local, api
<1> HIDE DEF Concluding
<1>27. QED
  BY <1>1, <1>2, <1>3, <1>4, <1>5, <1>6, <1>7, <1>8, <1>9, <1>10, <1>11,
     <1>12, <1>13, <1>14, <1>15, <1>16, <1>17, <1>18, <1>19, <1>20, <1>21, <1>22,
     <1>23, <1>24, <1>25, <1>26 DEF Next, Consume

\* The job is marked by the worker that has inserted it and by nobody else.
LEMMA WorkingStep ==
  TypeOK /\ Untouched /\ Working /\ [Next]_vars => Working'
<1> SUFFICES ASSUME TypeOK, Untouched, Working, [Next]_vars PROVE Working'
  OBVIOUS
<1> USE DEF TypeOK, Working, Starting, Executing, Failing
<1>1. ASSUME UNCHANGED <<at, job>> PROVE Working'
  BY <1>1
<1>2. ASSUME NEW r \in Run, QueueJob(r) \/ RequestRun(r) \/ Replay(r) PROVE Working'
  BY <1>1, <1>2 DEF QueueJob, RequestRun, Replay, rows, local
<1>3. ASSUME NEW a \in Asset, Promote(a) PROVE Working'
  BY <1>1, <1>3 DEF Promote, local
<1>4. ASSUME NEW r \in Run, NEW to \in RunStatus, Ask(r, to) PROVE Working'
  BY <1>1, <1>4 DEF Ask, rows, local
<1>5. ASSUME NEW q \in asked, Answer(q) PROVE Working'
  BY <1>1, <1>5 DEF Answer, local
<1>6. ASSUME NEW r \in Run, Deliver(r) \/ Record(r) \/ Crash(r) PROVE Working'
  <2>1. job' = job /\ \E to \in {"idle", "create", "ack"} : at' = [at EXCEPT ![r] = to]
    BY <1>6 DEF Deliver, Record, Crash, Goto, rows
  <2>2. QED
    BY <2>1
<1>7. ASSUME NEW r \in Run, CreateJob(r) \/ Link(r) \/ MarkJob(r) PROVE Working'
  BY <1>7 DEF CreateJob, Link, MarkJob, Goto, rows
<1>8. ASSUME NEW r \in Run, Start(r) \/ Track(r) \/ ReadAsset(r) PROVE Working'
  BY <1>8 DEF Start, Track, ReadAsset, Goto, rows
<1>9. ASSUME NEW r \in Run, Import(r) \/ Document(r) \/ Finalize(r) PROVE Working'
  <2>1. job' = job /\ job[r] = "running"
    BY <1>9 DEF Import, Document, Finalize
  <2>2. \E to \in {"document", "finalize", "finish", "fail"} : at' = [at EXCEPT ![r] = to]
    BY <1>9 DEF Import, Document, Finalize, Goto
  <2>3. QED
    BY <2>1, <2>2
<1>10. ASSUME NEW r \in Run, Finish(r) \/ Fail(r) PROVE Working'
  BY <1>10 DEF Finish, Fail, Goto
<1>11. ASSUME NEW r \in Run,
              CompleteJob(r) \/ TrackDone(r) \/ FailJob(r) \/ FailTrack(r)
       PROVE  Working'
  BY <1>11 DEF CompleteJob, TrackDone, FailJob, FailTrack, Goto
<1>12. ASSUME NEW r \in Run, Error(r) PROVE Working'
  <2>1. at[r] \in PC \ {"idle", "ack", "nack"} /\ made[r] \in BOOLEAN
    BY <1>12 DEF Error
  <2>2. job' = job /\ at' = [at EXCEPT ![r] = Handler(at[r], made[r])]
    BY <1>12 DEF Error, Goto, rows
  <2>3. \/ Handler(at[r], made[r]) \in {"nack", "ack"}
        \/ /\ at[r] \in {"read", "import", "finish", "complete", "finalize", "track", "document"}
           /\ Handler(at[r], made[r]) \in {"fail", "finish", "read", "finalize"}
    BY <2>1, Handlers DEF PC
  <2>4. QED
    BY <2>2, <2>3
<1>13. CASE UNCHANGED vars
  BY <1>1, <1>13 DEF vars
<1> HIDE DEF Working
<1>14. QED
  BY <1>2, <1>3, <1>4, <1>5, <1>6, <1>7, <1>8, <1>9, <1>10, <1>11, <1>12, <1>13
     DEF Next, Consume

\* The API validates a change before it writes it.
LEMMA AskedStep ==
  TypeOK /\ Asked /\ [Next]_vars => Asked'
<1> SUFFICES ASSUME TypeOK, Asked, [Next]_vars PROVE Asked'
  OBVIOUS
<1> USE DEF Asked
<1>1. ASSUME NEW r \in Run, QueueJob(r) PROVE Asked'
  BY <1>1 DEF QueueJob, queue, local, api
<1>2. ASSUME NEW r \in Run, RequestRun(r) PROVE Asked'
  BY <1>2 DEF RequestRun, local, api
<1>3. ASSUME NEW a \in Asset, Promote(a) PROVE Asked'
  BY <1>3 DEF Promote, queue, local, api
<1>4. ASSUME NEW r \in Run, NEW to \in RunStatus, Ask(r, to)
      PROVE Asked'
  <2>1. \A q \in asked' : q \in asked \/ q = [run |-> r, from |-> status[r], to |-> to]
    BY <1>4 DEF Ask
  <2>2. <<status[r], to>> \in Transitions
    BY <1>4 DEF Ask
  <2>3. LET q == [run |-> r, from |-> status[r], to |-> to] IN <<q.from, q.to>> \in Transitions
    BY <2>2
  <2>4. QED
    BY <2>1, <2>3
<1>5. ASSUME NEW q \in asked, Answer(q) PROVE Asked'
  BY <1>5 DEF Answer, queue, local
<1>6. ASSUME NEW r \in Run, Replay(r) PROVE Asked'
  BY <1>6 DEF Replay, rows, local, api
<1>7. ASSUME NEW r \in Run, Deliver(r) PROVE Asked'
  BY <1>7 DEF Deliver, Goto, rows, queue, api
<1>8. ASSUME NEW r \in Run, CreateJob(r) PROVE Asked'
  BY <1>8 DEF CreateJob, Goto, queue, api
<1>9. ASSUME NEW r \in Run, Link(r) PROVE Asked'
  BY <1>9 DEF Link, Goto, queue, api, rows
<1>10. ASSUME NEW r \in Run, MarkJob(r) PROVE Asked'
  BY <1>10 DEF MarkJob, Goto, queue, api
<1>11. ASSUME NEW r \in Run, Start(r) PROVE Asked'
  BY <1>11 DEF Start, Goto, queue, api
<1>12. ASSUME NEW r \in Run, Track(r) PROVE Asked'
  BY <1>12 DEF Track, Goto, queue, api
<1>13. ASSUME NEW r \in Run, ReadAsset(r) PROVE Asked'
  BY <1>13 DEF ReadAsset, Goto, queue, api, rows
<1>14. ASSUME NEW r \in Run, Import(r) PROVE Asked'
  BY <1>14 DEF Import, Goto, queue, api
<1>15. ASSUME NEW r \in Run, Document(r) PROVE Asked'
  BY <1>15 DEF Document, Goto, queue, api
<1>16. ASSUME NEW r \in Run, Finalize(r) PROVE Asked'
  BY <1>16 DEF Finalize, Goto, queue, api, Forget
<1>17. ASSUME NEW r \in Run, Finish(r) PROVE Asked'
  BY <1>17 DEF Finish, Goto, queue, api
<1>18. ASSUME NEW r \in Run, CompleteJob(r) PROVE Asked'
  BY <1>18 DEF CompleteJob, Goto, queue, api
<1>19. ASSUME NEW r \in Run, TrackDone(r) PROVE Asked'
  BY <1>19 DEF TrackDone, Goto, queue, api
<1>20. ASSUME NEW r \in Run, Fail(r) PROVE Asked'
  BY <1>20 DEF Fail, Goto, queue, api
<1>21. ASSUME NEW r \in Run, FailJob(r) PROVE Asked'
  BY <1>21 DEF FailJob, Goto, queue, api
<1>22. ASSUME NEW r \in Run, FailTrack(r) PROVE Asked'
  BY <1>22 DEF FailTrack, Goto, queue, api
<1>23. ASSUME NEW r \in Run, Record(r) PROVE Asked'
  BY <1>23 DEF Record, Goto, rows, api
<1>24. ASSUME NEW r \in Run, Error(r) PROVE Asked'
  BY <1>24 DEF Error, Goto, Forget, Handler, Fault, Hurts, rows, queue, api, Starting, Executing
<1>25. ASSUME NEW r \in Run, Crash(r) PROVE Asked'
  BY <1>25 DEF Crash, Goto, Forget, Fault, Hurts, rows, queue, api, Starting, Executing
<1>26. CASE UNCHANGED vars
  BY <1>26 DEF vars, rows, queue, local, api
<1> HIDE DEF Asked
<1>27. QED
  BY <1>1, <1>2, <1>3, <1>4, <1>5, <1>6, <1>7, <1>8, <1>9, <1>10, <1>11,
     <1>12, <1>13, <1>14, <1>15, <1>16, <1>17, <1>18, <1>19, <1>20, <1>21, <1>22,
     <1>23, <1>24, <1>25, <1>26 DEF Next, Consume

\* Whoever stops working on a run has ended it, or was hurt.
LEMMA CarriedStep ==
  TypeOK /\ Untouched /\ Concluding /\ Asked /\ NeverAbandoned /\ [Next]_vars => NeverAbandoned'
<1> SUFFICES ASSUME TypeOK, Untouched, Concluding, Asked, NeverAbandoned, [Next]_vars PROVE NeverAbandoned'
  OBVIOUS
<1> USE PipelineAssumption DEF TypeOK, Untouched, Asked, Transitions, Concluding, NeverAbandoned, Carried, RunStatus, JobStatus, TrackStatus, IngestState, PC, Starting, Executing, Failing
<1>1. ASSUME NEW r \in Run, QueueJob(r) PROVE NeverAbandoned'
  BY <1>1 DEF QueueJob, queue, local, api
<1>2. ASSUME NEW r \in Run, RequestRun(r) PROVE NeverAbandoned'
  BY <1>2 DEF RequestRun, local, api
<1>3. ASSUME NEW a \in Asset, Promote(a) PROVE NeverAbandoned'
  BY <1>3 DEF Promote, queue, local, api
<1>4. ASSUME NEW r \in Run, NEW to \in RunStatus, Ask(r, to)
      PROVE NeverAbandoned'
  BY <1>4 DEF Ask, rows, queue, local
<1>5. ASSUME NEW q \in asked, Answer(q) PROVE NeverAbandoned'
  <2>1. q.run \in Run /\ q.to \in RunStatus /\ <<q.from, q.to>> \in Transitions
    BY <1>5 DEF TypeOK, Asked
  <2>2. q.to \in RunStatus \ {"none"} /\ q.from \notin {"none", "succeeded", "cancelled"}
    BY <2>1 DEF Transitions, RunStatus
  <2>3. CASE status[q.run] = q.from
    BY <1>5, <2>1, <2>2, <2>3 DEF Answer, queue, local
  <2>4. CASE status[q.run] # q.from
    BY <1>5, <2>4 DEF Answer, queue, local
  <2>5. QED
    BY <2>3, <2>4
<1>6. ASSUME NEW r \in Run, Replay(r) PROVE NeverAbandoned'
  BY <1>6 DEF Replay, rows, local, api
<1>7. ASSUME NEW r \in Run, Deliver(r) PROVE NeverAbandoned'
  BY <1>7 DEF Deliver, Goto, rows, queue, api
<1>8. ASSUME NEW r \in Run, CreateJob(r) PROVE NeverAbandoned'
  BY <1>8 DEF CreateJob, Goto, queue, api
<1>9. ASSUME NEW r \in Run, Link(r) PROVE NeverAbandoned'
  BY <1>9 DEF Link, Goto, queue, api, rows
<1>10. ASSUME NEW r \in Run, MarkJob(r) PROVE NeverAbandoned'
  BY <1>10 DEF MarkJob, Goto, queue, api
<1>11. ASSUME NEW r \in Run, Start(r) PROVE NeverAbandoned'
  BY <1>11 DEF Start, Goto, queue, api
<1>12. ASSUME NEW r \in Run, Track(r) PROVE NeverAbandoned'
  BY <1>12 DEF Track, Goto, queue, api
<1>13. ASSUME NEW r \in Run, ReadAsset(r) PROVE NeverAbandoned'
  BY <1>13 DEF ReadAsset, Goto, queue, api, rows
<1>14. ASSUME NEW r \in Run, Import(r) PROVE NeverAbandoned'
  BY <1>14 DEF Import, Goto, queue, api
<1>15. ASSUME NEW r \in Run, Document(r) PROVE NeverAbandoned'
  BY <1>15 DEF Document, Goto, queue, api
<1>16. ASSUME NEW r \in Run, Finalize(r) PROVE NeverAbandoned'
  BY <1>16 DEF Finalize, Goto, queue, api, Forget
<1>17. ASSUME NEW r \in Run, Finish(r) PROVE NeverAbandoned'
  BY <1>17 DEF Finish, Goto, queue, api
<1>18. ASSUME NEW r \in Run, CompleteJob(r) PROVE NeverAbandoned'
  BY <1>18 DEF CompleteJob, Goto, queue, api
<1>19. ASSUME NEW r \in Run, TrackDone(r) PROVE NeverAbandoned'
  BY <1>19 DEF TrackDone, Goto, queue, api
<1>20. ASSUME NEW r \in Run, Fail(r) PROVE NeverAbandoned'
  BY <1>20 DEF Fail, Goto, queue, api
<1>21. ASSUME NEW r \in Run, FailJob(r) PROVE NeverAbandoned'
  BY <1>21 DEF FailJob, Goto, queue, api
<1>22. ASSUME NEW r \in Run, FailTrack(r) PROVE NeverAbandoned'
  BY <1>22 DEF FailTrack, Goto, queue, api
<1>23. ASSUME NEW r \in Run, Record(r) PROVE NeverAbandoned'
  BY <1>23 DEF Record, Goto, rows, api
<1>24. ASSUME NEW r \in Run, Error(r) PROVE NeverAbandoned'
  <2>1. at[r] \in PC \ {"idle", "ack", "nack"} /\ made[r] \in BOOLEAN
    BY <1>24 DEF Error, TypeOK
  <2>2. SUFFICES ASSUME NEW k \in Run, status'[k] \in {"pending", "running"}, k \notin hurt'
                 PROVE Carried(k)'
    BY DEF NeverAbandoned
  <2>3. status'[k] = status[k] /\ k \notin hurt /\ Carried(k)
    BY <1>24, <2>2 DEF Error, Hurts, rows
  <2>4. CASE k = r
    <3>1. at'[r] = Handler(at[r], made[r])
      BY <1>24 DEF Error, Goto
    <3>2. at[r] \notin {"link", "mark", "start", "finalize", "fail"}
      BY <1>24, <2>2, <2>4 DEF Error, Hurts
    <3>3. CASE status[r] = "pending"
      BY <1>24, <2>1, <2>3, <2>4, <3>2, <3>3 DEF Error, Carried, rows, queue
    <3>4. CASE status[r] = "running"
      BY <1>24, <2>1, <2>3, <2>4, <3>1, <3>2, <3>4, Handlers DEF Error, Carried, rows, PC, Starting, Executing, Failing
    <3>5. QED
      BY <2>2, <2>3, <2>4, <3>3, <3>4
  <2>5. CASE k # r
    BY <1>24, <2>3, <2>5 DEF Error, Goto, Carried, rows, queue
  <2>6. QED
    BY <2>4, <2>5
<1>25. ASSUME NEW r \in Run, Crash(r) PROVE NeverAbandoned'
  BY <1>25 DEF Crash, Goto, Forget, Fault, Hurts, rows, queue, api, Starting, Executing
<1>26. CASE UNCHANGED vars
  BY <1>26 DEF vars, rows, queue, local, api
<1> HIDE DEF NeverAbandoned
<1>27. QED
  BY <1>1, <1>2, <1>3, <1>4, <1>5, <1>6, <1>7, <1>8, <1>9, <1>10, <1>11,
     <1>12, <1>13, <1>14, <1>15, <1>16, <1>17, <1>18, <1>19, <1>20, <1>21, <1>22,
     <1>23, <1>24, <1>25, <1>26 DEF Next, Consume

\* The second document is never made.
LEMMA DocumentStep ==
  TypeOK /\ Once /\ OneDocument /\ [Next]_vars => OneDocument'
<1> SUFFICES ASSUME TypeOK, Once, OneDocument, [Next]_vars PROVE OneDocument'
  OBVIOUS
<1> USE PipelineAssumption DEF TypeOK, Once, OneDocument
<1>1. ASSUME NEW r \in Run, QueueJob(r) PROVE OneDocument'
  BY <1>1 DEF QueueJob, queue, local, api
<1>2. ASSUME NEW r \in Run, RequestRun(r) PROVE OneDocument'
  BY <1>2 DEF RequestRun, local, api
<1>3. ASSUME NEW a \in Asset, Promote(a) PROVE OneDocument'
  BY <1>3 DEF Promote, queue, local, api
<1>4. ASSUME NEW r \in Run, NEW to \in RunStatus, Ask(r, to)
      PROVE OneDocument'
  BY <1>4 DEF Ask, rows, queue, local
<1>5. ASSUME NEW q \in asked, Answer(q) PROVE OneDocument'
  BY <1>5 DEF Answer, queue, local
<1>6. ASSUME NEW r \in Run, Replay(r) PROVE OneDocument'
  BY <1>6 DEF Replay, rows, local, api
<1>7. ASSUME NEW r \in Run, Deliver(r) PROVE OneDocument'
  BY <1>7 DEF Deliver, Goto, rows, queue, api
<1>8. ASSUME NEW r \in Run, CreateJob(r) PROVE OneDocument'
  BY <1>8 DEF CreateJob, Goto, queue, api
<1>9. ASSUME NEW r \in Run, Link(r) PROVE OneDocument'
  BY <1>9 DEF Link, Goto, queue, api, rows
<1>10. ASSUME NEW r \in Run, MarkJob(r) PROVE OneDocument'
  BY <1>10 DEF MarkJob, Goto, queue, api
<1>11. ASSUME NEW r \in Run, Start(r) PROVE OneDocument'
  BY <1>11 DEF Start, Goto, queue, api
<1>12. ASSUME NEW r \in Run, Track(r) PROVE OneDocument'
  BY <1>12 DEF Track, Goto, queue, api
<1>13. ASSUME NEW r \in Run, ReadAsset(r) PROVE OneDocument'
  BY <1>13 DEF ReadAsset, Goto, queue, api, rows
<1>14. ASSUME NEW r \in Run, Import(r) PROVE OneDocument'
  BY <1>14 DEF Import, Goto, queue, api
<1>15. ASSUME NEW r \in Run, Document(r) PROVE OneDocument'
  BY <1>15 DEF Document, Goto, queue, api
<1>16. ASSUME NEW r \in Run, Finalize(r) PROVE OneDocument'
  BY <1>16 DEF Finalize, Goto, queue, api, Forget
<1>17. ASSUME NEW r \in Run, Finish(r) PROVE OneDocument'
  BY <1>17 DEF Finish, Goto, queue, api
<1>18. ASSUME NEW r \in Run, CompleteJob(r) PROVE OneDocument'
  BY <1>18 DEF CompleteJob, Goto, queue, api
<1>19. ASSUME NEW r \in Run, TrackDone(r) PROVE OneDocument'
  BY <1>19 DEF TrackDone, Goto, queue, api
<1>20. ASSUME NEW r \in Run, Fail(r) PROVE OneDocument'
  BY <1>20 DEF Fail, Goto, queue, api
<1>21. ASSUME NEW r \in Run, FailJob(r) PROVE OneDocument'
  BY <1>21 DEF FailJob, Goto, queue, api
<1>22. ASSUME NEW r \in Run, FailTrack(r) PROVE OneDocument'
  BY <1>22 DEF FailTrack, Goto, queue, api
<1>23. ASSUME NEW r \in Run, Record(r) PROVE OneDocument'
  BY <1>23 DEF Record, Goto, rows, api
<1>24. ASSUME NEW r \in Run, Error(r) PROVE OneDocument'
  <2>1. at[r] \in PC \ {"idle", "ack", "nack"} /\ made[r] \in BOOLEAN
    BY <1>24 DEF Error, TypeOK
  <2>2. QED
    BY <1>24, <2>1, Handlers DEF Error, Goto, Forget, Fault, Hurts, rows, queue, api, Starting, Executing, Failing, PC
<1>25. ASSUME NEW r \in Run, Crash(r) PROVE OneDocument'
  BY <1>25 DEF Crash, Goto, Forget, Fault, Hurts, rows, queue, api, Starting, Executing
<1>26. CASE UNCHANGED vars
  BY <1>26 DEF vars, rows, queue, local, api
<1> HIDE DEF OneDocument
<1>27. QED
  BY <1>1, <1>2, <1>3, <1>4, <1>5, <1>6, <1>7, <1>8, <1>9, <1>10, <1>11,
     <1>12, <1>13, <1>14, <1>15, <1>16, <1>17, <1>18, <1>19, <1>20, <1>21, <1>22,
     <1>23, <1>24, <1>25, <1>26 DEF Next, Consume

\* Jobs follow the run and the asset.
LEMMA TruthStep ==
  TypeOK /\ Untouched /\ Concluding /\ Asked /\ JobTellsTruth /\ [Next]_vars => JobTellsTruth'
<1> SUFFICES ASSUME TypeOK, Untouched, Concluding, Asked, JobTellsTruth, [Next]_vars PROVE JobTellsTruth'
  OBVIOUS
<1> USE PipelineAssumption DEF TypeOK, Untouched, Concluding, Asked, Transitions, JobTellsTruth, IngestState
<1>1. ASSUME NEW r \in Run, QueueJob(r) PROVE JobTellsTruth'
  BY <1>1 DEF QueueJob, queue, local, api
<1>2. ASSUME NEW r \in Run, RequestRun(r) PROVE JobTellsTruth'
  BY <1>2 DEF RequestRun, local, api
<1>3. ASSUME NEW a \in Asset, Promote(a) PROVE JobTellsTruth'
  BY <1>3 DEF Promote, queue, local, api
<1>4. ASSUME NEW r \in Run, NEW to \in RunStatus, Ask(r, to)
      PROVE JobTellsTruth'
  BY <1>4 DEF Ask, rows, queue, local
<1>5. ASSUME NEW q \in asked, Answer(q) PROVE JobTellsTruth'
  <2>1. q.run \in Run /\ q.to \in RunStatus /\ <<q.from, q.to>> \in Transitions
    BY <1>5 DEF TypeOK, Asked
  <2>2. q.to \in RunStatus \ {"none"} /\ q.from \notin {"none", "succeeded", "cancelled"}
    BY <2>1 DEF Transitions, RunStatus
  <2>3. CASE status[q.run] = q.from
    BY <1>5, <2>1, <2>2, <2>3 DEF Answer, queue, local
  <2>4. CASE status[q.run] # q.from
    BY <1>5, <2>4 DEF Answer, queue, local
  <2>5. QED
    BY <2>3, <2>4
<1>6. ASSUME NEW r \in Run, Replay(r) PROVE JobTellsTruth'
  BY <1>6 DEF Replay, rows, local, api
<1>7. ASSUME NEW r \in Run, Deliver(r) PROVE JobTellsTruth'
  BY <1>7 DEF Deliver, Goto, rows, queue, api
<1>8. ASSUME NEW r \in Run, CreateJob(r) PROVE JobTellsTruth'
  BY <1>8 DEF CreateJob, Goto, queue, api
<1>9. ASSUME NEW r \in Run, Link(r) PROVE JobTellsTruth'
  BY <1>9 DEF Link, Goto, queue, api, rows
<1>10. ASSUME NEW r \in Run, MarkJob(r) PROVE JobTellsTruth'
  BY <1>10 DEF MarkJob, Goto, queue, api
<1>11. ASSUME NEW r \in Run, Start(r) PROVE JobTellsTruth'
  BY <1>11 DEF Start, Goto, queue, api
<1>12. ASSUME NEW r \in Run, Track(r) PROVE JobTellsTruth'
  BY <1>12 DEF Track, Goto, queue, api
<1>13. ASSUME NEW r \in Run, ReadAsset(r) PROVE JobTellsTruth'
  BY <1>13 DEF ReadAsset, Goto, queue, api, rows
<1>14. ASSUME NEW r \in Run, Import(r) PROVE JobTellsTruth'
  BY <1>14 DEF Import, Goto, queue, api
<1>15. ASSUME NEW r \in Run, Document(r) PROVE JobTellsTruth'
  BY <1>15 DEF Document, Goto, queue, api
<1>16. ASSUME NEW r \in Run, Finalize(r) PROVE JobTellsTruth'
  BY <1>16 DEF Finalize, Goto, queue, api, Forget
<1>17. ASSUME NEW r \in Run, Finish(r) PROVE JobTellsTruth'
  BY <1>17 DEF Finish, Goto, queue, api
<1>18. ASSUME NEW r \in Run, CompleteJob(r) PROVE JobTellsTruth'
  BY <1>18 DEF CompleteJob, Goto, queue, api
<1>19. ASSUME NEW r \in Run, TrackDone(r) PROVE JobTellsTruth'
  BY <1>19 DEF TrackDone, Goto, queue, api
<1>20. ASSUME NEW r \in Run, Fail(r) PROVE JobTellsTruth'
  BY <1>20 DEF Fail, Goto, queue, api
<1>21. ASSUME NEW r \in Run, FailJob(r) PROVE JobTellsTruth'
  BY <1>21 DEF FailJob, Goto, queue, api
<1>22. ASSUME NEW r \in Run, FailTrack(r) PROVE JobTellsTruth'
  BY <1>22 DEF FailTrack, Goto, queue, api
<1>23. ASSUME NEW r \in Run, Record(r) PROVE JobTellsTruth'
  BY <1>23 DEF Record, Goto, rows, api
<1>24. ASSUME NEW r \in Run, Error(r) PROVE JobTellsTruth'
  <2>1. at[r] \in PC \ {"idle", "ack", "nack"} /\ made[r] \in BOOLEAN
    BY <1>24 DEF Error, TypeOK
  <2>2. QED
    BY <1>24, <2>1, Handlers DEF Error, Goto, Forget, Fault, Hurts, rows, queue, api, Starting, Executing, Failing, PC
<1>25. ASSUME NEW r \in Run, Crash(r) PROVE JobTellsTruth'
  BY <1>25 DEF Crash, Goto, Forget, Fault, Hurts, rows, queue, api, Starting, Executing
<1>26. CASE UNCHANGED vars
  BY <1>26 DEF vars, rows, queue, local, api
<1> HIDE DEF JobTellsTruth
<1>27. QED
  BY <1>1, <1>2, <1>3, <1>4, <1>5, <1>6, <1>7, <1>8, <1>9, <1>10, <1>11,
     <1>12, <1>13, <1>14, <1>15, <1>16, <1>17, <1>18, <1>19, <1>20, <1>21, <1>22,
     <1>23, <1>24, <1>25, <1>26 DEF Next, Consume

----------------------------------------------------------------------------
(* The theorems.                                                            *)

\* Code behaviour: the invariant behind the pipeline consumer (see README).
THEOREM RunInvariant == Spec => []IInv
<1>1. IInv /\ [Next]_vars => IInv'
  BY TypeStep, UntouchedStep, OnceStep, ImporterStep, ConcludingStep, WorkingStep, AskedStep,
     CarriedStep, DocumentStep, TruthStep DEF IInv
<1>2. QED
  BY InvInit, <1>1, PTL DEF Spec

\* Code behaviour: a run that is pending or running has somebody to finish it,
\* unless a fault hit it at the wrong place (pipeline_consumer.py:121-197).
THEOREM NoRunIsAbandoned == Spec => []NeverAbandoned
<1>1. IInv => NeverAbandoned
  BY DEF IInv
<1>2. QED
  BY RunInvariant, <1>1, PTL

\* Code behaviour: redeliveries and replays do not import a run twice
\* (pipeline_consumer.py:151-166, jobs.job_key).
THEOREM ImportsOnce == Spec => []OneDocument
<1>1. IInv => OneDocument
  BY DEF IInv
<1>2. QED
  BY RunInvariant, <1>1, PTL

\* Code behaviour: jobs and processing jobs do not claim more than the run and
\* the asset have reached (pipeline_consumer.py:232-262, 320-368).
THEOREM JobsTellTheTruth == Spec => []JobTellsTruth
<1>1. IInv => JobTellsTruth
  BY DEF IInv
<1>2. QED
  BY RunInvariant, <1>1, PTL

----------------------------------------------------------------------------
(* The refinement.                                                          *)

\* The set of runs that are importing, which the abstract run calls holders.
Importers == {r \in Run : Importing(r)}

\* Only the orchestrator changes who is importing.
LEMMA ImportersStay ==
  ASSUME NEW r \in Run, TypeOK,
         at' = at \/ \E to : at' = [at EXCEPT ![r] = to],
         \A k \in Run \ {r} : seen'[k] = seen[k],
         Importing(r)' <=> Importing(r)
  PROVE  Importers' = Importers
<1>1. \A k \in Run \ {r} : at'[k] = at[k]
  BY DEF TypeOK
<1>2. \A k \in Run : Importing(k)' <=> Importing(k)
  BY <1>1 DEF Importing
<1>3. QED
  BY <1>2 DEF Importers

\* The first run that finds the asset staged takes it.
LEMMA ImportIsLife ==
  ASSUME IInv, NEW r \in Run, Import(r)
  PROVE  Life!Next \/ UNCHANGED Life!vars
<1> USE DEF IInv, TypeOK
<1>1. at[r] = "import" /\ job[r] = "running" /\ ~Importing(r)
  BY DEF Import, Working, Importing, Executing
<1>2. CASE at'[r] = "document" /\ seen[r] # "ready"
  <2>1. /\ ingest[AssetOf[r]] = "staged"
        /\ ingest' = [ingest EXCEPT ![AssetOf[r]] = "importing"]
        /\ at' = [at EXCEPT ![r] = "document"] /\ seen' = seen
    BY <1>2 DEF Import, Goto
  <2>2. \A k \in Run : Importing(k)' <=> Importing(k) \/ k = r
    BY <1>1, <1>2, <2>1 DEF Importing
  <2>3. Importers' = Importers \cup {r}
    BY <2>2 DEF Importers
  <2>4. Life!Take(r)
    BY <1>1, <2>1, <2>3 DEF Import, Life!Take, Importers
  <2>5. QED
    BY <2>4 DEF Life!Next
<1>3. CASE ~(at'[r] = "document" /\ seen[r] # "ready")
  <2>1. UNCHANGED <<status, job, ingest, docs>>
    BY <1>3 DEF Import, Goto
  <2>2. ~Importing(r)'
    BY <1>3 DEF Import, Goto, Importing
  <2>3. \A k \in Run \ {r} : seen'[k] = seen[k]
    BY DEF Import
  <2>4. Importers' = Importers
    BY <1>1, <2>2, <2>3, ImportersStay DEF Import, Goto
  <2>5. QED
    BY <2>1, <2>4 DEF Life!vars, Importers
<1>4. QED
  BY <1>2, <1>3

\* The document is written by a run that holds the asset, or finds it ready.
LEMMA DocumentIsLife ==
  ASSUME IInv, NEW r \in Run, Document(r)
  PROVE  Life!Next \/ UNCHANGED Life!vars
<1> USE DEF IInv, TypeOK
<1>1. at[r] = "document" /\ job[r] = "running" /\ docs[r] = 0
  BY DEF Document, Working, Executing, Once
<1>2. at' = [at EXCEPT ![r] = "finalize"] /\ seen' = seen /\ UNCHANGED <<status, job, ingest>>
  BY DEF Document, Goto
<1>3. Importing(r)' <=> Importing(r)
  BY <1>1, <1>2 DEF Importing
<1>4. Importers' = Importers
  BY <1>2, <1>3, ImportersStay
<1>5. Importing(r) \/ ingest[AssetOf[r]] = "ready"
  BY <1>1 DEF Importing, OneImporter
<1>6. docs' = docs \/ docs' = [docs EXCEPT ![r] = 1]
  <2>1. PICK wrote \in BOOLEAN :
          docs' = [docs EXCEPT ![r] = IF wrote /\ docs[r] < 2 THEN docs[r] + 1 ELSE docs[r]]
    BY DEF Document
  <2>2. CASE wrote
    BY <1>1, <2>1, <2>2
  <2>3. CASE ~wrote
    BY <2>1, <2>3
  <2>4. QED
    BY <2>2, <2>3
<1>7. CASE docs' = docs
  BY <1>2, <1>4, <1>7 DEF Life!vars, Importers
<1>8. CASE docs' = [docs EXCEPT ![r] = 1]
  <2>1. Life!Write(r)
    BY <1>1, <1>2, <1>4, <1>5, <1>8 DEF Life!Write, Importers
  <2>2. QED
    BY <2>1 DEF Life!Next
<1>9. QED
  BY <1>6, <1>7, <1>8

\* A run that leaves its import has made the asset ready or gives up on it.
LEMMA LeaveIsLife ==
  ASSUME IInv, NEW r \in Run, NEW to \in PC \ {"document", "finalize"},
         at' = [at EXCEPT ![r] = to],
         \A k \in Run \ {r} : seen'[k] = seen[k],
         UNCHANGED <<status, job, docs>>,
         \/ ingest' = ingest
         \/ /\ Importing(r)
            /\ ingest' = [ingest EXCEPT ![AssetOf[r]] = "ready"]
  PROVE  Life!Next \/ UNCHANGED Life!vars
<1> USE DEF IInv, TypeOK
<1>1. \A k \in Run \ {r} : at'[k] = at[k]
  OBVIOUS
<1>2. \A k \in Run : Importing(k)' <=> Importing(k) /\ k # r
  BY <1>1 DEF Importing
<1>3. Importers' = Importers \ {r}
  BY <1>2 DEF Importers
<1>4. CASE ~Importing(r)
  <2>1. Importers' = Importers
    BY <1>3, <1>4 DEF Importers
  <2>2. QED
    BY <1>4, <2>1 DEF Life!vars, Importers
<1>5. CASE Importing(r) /\ ingest' = ingest
  <2>1. Life!Abandon(r)
    BY <1>3, <1>5 DEF Life!Abandon, Importers
  <2>2. QED
    BY <2>1 DEF Life!Next
<1>6. CASE Importing(r) /\ ingest' = [ingest EXCEPT ![AssetOf[r]] = "ready"]
  <2>1. ingest[AssetOf[r]] = "importing"
    BY <1>6 DEF OneImporter
  <2>2. Life!Release(r)
    BY <1>3, <1>6, <2>1 DEF Life!Release, Importers
  <2>3. QED
    BY <2>2 DEF Life!Next
<1>7. QED
  BY <1>4, <1>5, <1>6

\* A change of status is along the table, and changes nothing else.
LEMMA StatusIsLife ==
  ASSUME IInv, NEW r \in Run, NEW from, NEW to, status[r] = from,
         <<from, to>> \in Life!Moves,
         status' = [status EXCEPT ![r] = to],
         UNCHANGED <<job, ingest, docs>>, Importers' = Importers
  PROVE  Life!Next
<1>1. Life!Move(r, to)
  BY DEF Life!Move, Importers
<1>2. QED
  BY <1>1 DEF Life!Next

\* Requests of users and of the API.
LEMMA UserIsLife ==
  ASSUME IInv, NEW r \in Run,
         \/ QueueJob(r) \/ RequestRun(r) \/ Replay(r) \/ Deliver(r)
         \/ \E to \in RunStatus : Ask(r, to)
         \/ \E q \in asked : Answer(q)
  PROVE  Life!Next \/ UNCHANGED Life!vars
<1> USE DEF IInv, TypeOK
<1>1. Importers' = Importers
  <2>1. CASE Deliver(r)
    BY <2>1, ImportersStay DEF Deliver, Goto, Importing
  <2>2. CASE ~Deliver(r)
    BY <2>2 DEF QueueJob, RequestRun, Replay, Ask, Answer, local, Importers, Importing
  <2>3. QED
    BY <2>1, <2>2
<1>2. ASSUME UNCHANGED <<status, job, ingest, docs>> PROVE UNCHANGED Life!vars
  BY <1>1, <1>2 DEF Life!vars, Importers
<1>3. CASE QueueJob(r) \/ Replay(r) \/ Deliver(r) \/ \E to \in RunStatus : Ask(r, to)
  BY <1>2, <1>3 DEF QueueJob, Replay, Deliver, Ask, rows
<1>4. CASE RequestRun(r)
  BY <1>1, <1>4, StatusIsLife DEF RequestRun, Life!Moves
<1>5. ASSUME NEW q \in asked, Answer(q) PROVE Life!Next \/ UNCHANGED Life!vars
  <2>1. q.run \in Run /\ <<q.from, q.to>> \in Life!Moves
    BY <1>5 DEF Asked, Transitions, Life!Moves
  <2>2. CASE status[q.run] = q.from
    BY <1>1, <1>5, <2>1, <2>2, StatusIsLife DEF Answer
  <2>3. CASE status[q.run] # q.from
    BY <1>2, <1>5, <2>3 DEF Answer
  <2>4. QED
    BY <2>2, <2>3
<1>6. QED
  BY <1>3, <1>4, <1>5

\* The consumer before and after the import.
LEMMA ConsumerIsLife ==
  ASSUME IInv, NEW r \in Run,
         \/ CreateJob(r) \/ Link(r) \/ MarkJob(r) \/ Start(r) \/ Track(r)
         \/ ReadAsset(r) \/ Finish(r) \/ CompleteJob(r) \/ TrackDone(r)
         \/ Fail(r) \/ FailJob(r) \/ FailTrack(r) \/ Record(r)
  PROVE  Life!Next \/ UNCHANGED Life!vars
<1> USE DEF IInv, TypeOK
<1>1. ~Importing(r) /\ Importers' = Importers
  <2>1. /\ at[r] \notin {"document", "finalize"}
        /\ \E to \in PC \ {"document", "finalize"} : at' = [at EXCEPT ![r] = to]
        /\ \A k \in Run \ {r} : seen'[k] = seen[k]
    BY DEF CreateJob, Link, MarkJob, Start, Track, ReadAsset, Finish, CompleteJob,
           TrackDone, Fail, FailJob, FailTrack, Record, Goto, PC, Starting,
           Executing, Failing
  <2>2. ~Importing(r) /\ ~Importing(r)'
    BY <2>1 DEF Importing
  <2>3. QED
    BY <2>1, <2>2, ImportersStay
<1>2. ASSUME UNCHANGED <<status, job, ingest, docs>> PROVE UNCHANGED Life!vars
  BY <1>1, <1>2 DEF Life!vars, Importers
<1>3. CASE Link(r) \/ Track(r) \/ ReadAsset(r) \/ TrackDone(r) \/ FailTrack(r) \/ Record(r)
  BY <1>2, <1>3 DEF Link, Track, ReadAsset, TrackDone, FailTrack, Record, rows
<1>4. CASE Start(r) \/ Finish(r) \/ Fail(r)
  <2>1. UNCHANGED <<job, ingest, docs>>
    BY <1>4 DEF Start, Finish, Fail
  <2>2. \/ status' = status
        \/ \E to : /\ status' = [status EXCEPT ![r] = to]
                   /\ <<status[r], to>> \in Life!Moves
    BY <1>4 DEF Start, Finish, Fail, Life!Moves
  <2>3. QED
    BY <1>1, <1>2, <2>1, <2>2, StatusIsLife
<1>5. CASE CreateJob(r) /\ job' # job
  <2>1. Life!Claim(r)
    <3>1. status[r] # "none"
      BY <1>5 DEF CreateJob, Untouched
    <3>2. QED
      BY <1>1, <1>5, <3>1 DEF CreateJob, Life!Claim, Importers
  <2>2. QED
    BY <2>1 DEF Life!Next
<1>6. CASE CreateJob(r) /\ job' = job
  BY <1>2, <1>6 DEF CreateJob
<1>7. CASE MarkJob(r)
  <2>1. job[r] = "pending"
    BY <1>7 DEF MarkJob, Working
  <2>2. Life!Begin(r)
    BY <1>1, <1>7, <2>1 DEF MarkJob, Life!Begin, Importers
  <2>3. QED
    BY <2>2 DEF Life!Next
<1>8. CASE CompleteJob(r) \/ FailJob(r)
  <2>1. job[r] = "running" /\ (CompleteJob(r) => status[r] = "succeeded")
    BY <1>8 DEF CompleteJob, FailJob, Working, Concluding
  <2>2. r \notin Importers
    BY <1>1 DEF Importers
  <2>3. Life!Conclude(r)
    BY <1>1, <1>8, <2>1, <2>2 DEF CompleteJob, FailJob, Life!Conclude, Importers
  <2>4. QED
    BY <2>3 DEF Life!Next
<1>9. QED
  BY <1>3, <1>4, <1>5, <1>6, <1>7, <1>8

\* The end of an import, orderly or not.
LEMMA EndIsLife ==
  ASSUME IInv, NEW r \in Run, Finalize(r) \/ Error(r) \/ Crash(r)
  PROVE  Life!Next \/ UNCHANGED Life!vars
<1> USE DEF IInv, TypeOK
<1>1. CASE Finalize(r)
  <2>1. \E to \in PC \ {"document", "finalize"} : at' = [at EXCEPT ![r] = to]
    BY <1>1 DEF Finalize, Goto, PC, Executing, Failing
  <2>2. \/ ingest' = ingest
        \/ Importing(r) /\ ingest' = [ingest EXCEPT ![AssetOf[r]] = "ready"]
    BY <1>1 DEF Finalize, Importing
  <2>3. /\ \A k \in Run \ {r} : seen'[k] = seen[k]
        /\ UNCHANGED <<status, job, docs>>
    BY <1>1 DEF Finalize, Forget
  <2>4. QED
    BY <2>1, <2>2, <2>3, LeaveIsLife
<1>2. CASE Error(r) /\ at[r] = "document"
  <2>1. at' = [at EXCEPT ![r] = "finalize"] /\ seen' = seen
    BY <1>2, Handlers DEF Error, Goto, PC, Executing
  <2>2. Importing(r)' <=> Importing(r)
    BY <1>2, <2>1 DEF Importing
  <2>3. Importers' = Importers
    BY <2>1, <2>2, ImportersStay
  <2>4. QED
    BY <1>2, <2>3 DEF Error, rows, Life!vars, Importers
<1>3. CASE Error(r) /\ at[r] # "document"
  <2>1. at[r] \in PC \ {"idle", "ack", "nack", "document"} /\ made[r] \in BOOLEAN
    BY <1>3 DEF Error
  <2>2. Handler(at[r], made[r]) \in PC \ {"document", "finalize"}
    BY <2>1, Handlers DEF PC, Starting, Executing, Failing
  <2>3. at' = [at EXCEPT ![r] = Handler(at[r], made[r])]
    BY <1>3 DEF Error, Goto
  <2>4. \A k \in Run \ {r} : seen'[k] = seen[k]
    BY <1>3 DEF Error, Forget
  <2>5. UNCHANGED <<status, job, docs, ingest>>
    BY <1>3 DEF Error, rows
  <2>6. QED
    BY <2>2, <2>3, <2>4, <2>5, LeaveIsLife
<1>4. CASE Crash(r)
  <2>1. /\ at' = [at EXCEPT ![r] = "idle"]
        /\ \A k \in Run \ {r} : seen'[k] = seen[k]
        /\ UNCHANGED <<status, job, docs, ingest>>
    BY <1>4 DEF Crash, Goto, Forget, rows
  <2>2. "idle" \in PC \ {"document", "finalize"}
    BY DEF PC
  <2>3. QED
    BY <2>1, <2>2, LeaveIsLife
<1>5. QED
  BY <1>1, <1>2, <1>3, <1>4

LEMMA LifeStep == IInv /\ [Next]_vars => [Life!Next]_(Life!vars)
<1> SUFFICES ASSUME IInv, [Next]_vars PROVE Life!Next \/ UNCHANGED Life!vars
  OBVIOUS
<1>1. ASSUME NEW r \in Run, Consume(r) PROVE Life!Next \/ UNCHANGED Life!vars
  BY <1>1, ConsumerIsLife, ImportIsLife, DocumentIsLife, EndIsLife DEF Consume
<1>2. ASSUME NEW r \in Run,
             \/ QueueJob(r) \/ RequestRun(r) \/ Replay(r) \/ Deliver(r)
             \/ \E to \in RunStatus : Ask(r, to)
             \/ Error(r) \/ Crash(r)
      PROVE  Life!Next \/ UNCHANGED Life!vars
  BY <1>2, UserIsLife, EndIsLife
<1>3. ASSUME NEW a \in Asset, Promote(a) PROVE Life!Next \/ UNCHANGED Life!vars
  <2>1. Importers' = Importers
    BY <1>3 DEF Promote, local, Importers, Importing
  <2>2. Life!Upload(a)
    BY <1>3, <2>1 DEF Promote, Life!Upload, Importers
  <2>3. QED
    BY <2>2 DEF Life!Next
<1>4. ASSUME NEW q \in asked, Answer(q) PROVE Life!Next \/ UNCHANGED Life!vars
  <2>1. q.run \in Run
    BY <1>4 DEF IInv, TypeOK
  <2>2. QED
    BY <1>4, <2>1, UserIsLife
<1>5. CASE UNCHANGED vars
  BY <1>5 DEF vars, Life!vars, Importing
<1>6. QED
  BY <1>1, <1>2, <1>3, <1>4, <1>5 DEF Next

\* Code behaviour: as a user sees it, a run is worked on once, holds its asset
\* alone while it imports, writes one document and ends for good, whatever is
\* delivered again, replayed, cut off or set by hand (pipeline_consumer.py:114-368,
\* db/pipelines.py:690-1013).
THEOREM RunsHaveOneLife == Spec => RunHasOneLife
<1>1. Init => Life!Init
  BY PipelineAssumption DEF Init, Life!Init, Importing
<1>2. QED
  BY <1>1, LifeStep, RunInvariant, PTL DEF Spec, Life!Spec, RunHasOneLife

\* Code behaviour: no update of a run leaves succeeded or cancelled, because
\* each repeats the status it expects (db/pipelines.py:48-55, 240-263).
THEOREM FinalStatusIsFinal == Spec => FinalIsFinal
<1>1. IInv /\ [Life!Next]_(Life!vars) /\ [Next]_vars
        => [\A r \in Run : status[r] \in {"succeeded", "cancelled"} => status'[r] = status[r]]_vars
  <2> SUFFICES ASSUME IInv, [Life!Next]_(Life!vars), NEW r \in Run,
                      status[r] \in {"succeeded", "cancelled"}
               PROVE  status'[r] = status[r]
    OBVIOUS
  <2>1. status \in [Run -> RunStatus]
    BY DEF IInv, TypeOK
  <2>2. ASSUME NEW q \in Run, NEW m \in Life!Moves, Life!Move(q, m[2])
        PROVE  status'[r] = status[r]
    BY <2>1, <2>2 DEF Life!Move, Life!Moves
  <2>3. QED
    BY <2>2 DEF Life!Next, Life!vars, Life!Claim, Life!Begin, Life!Conclude, Life!Upload,
       Life!Take, Life!Write, Life!Release, Life!Abandon
<1>2. QED
  BY <1>1, LifeStep, RunInvariant, PTL DEF Spec, FinalIsFinal

=============================================================================
