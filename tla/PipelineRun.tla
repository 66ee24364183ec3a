----------------------------- MODULE PipelineRun -----------------------------
(***************************************************************************)
(* Pipeline runs that import assets (worker/consumers/pipeline_consumer.py,*)
(* db/pipelines.py, db/jobs.py, db/processing_jobs.py, db/assets.py, and   *)
(* the endpoints of api/routes/system/pipelines.py and                     *)
(* api/routes/knowledge/import_jobs.py).                                   *)
(*                                                                         *)
(* A run is requested by the API together with an outbox event.  The       *)
(* worker that gets the event creates a root job, starts the run, imports  *)
(* the asset and finishes the run.  Each of these commits by itself, on a  *)
(* connection of its own, so a failure leaves what was committed before it,*)
(* and the event is then delivered again.                                  *)
(*                                                                         *)
(* The outbox appears as what it promises: an event stays open until it is *)
(* acknowledged or parked (EventLifecycle), and no two workers have the    *)
(* same delivery (OutboxProps!NoConcurrentRun).                            *)
(***************************************************************************)
EXTENDS Integers, FiniteSets

CONSTANTS
  Run,          \* pipeline runs
  Generic,      \* the runs of a pipeline type other than asset_import
  Asset,        \* assets
  AssetOf,      \* the asset of each run
  Workers,      \* number of workers that dispatch events
  MaxAttempts,  \* worker_retry_max_attempts
  MaxReplays,   \* bound on approved replays of dead letters
  MaxAsks,      \* bound on status changes asked for by users
  MaxFaults     \* bound on crashes and database errors

ASSUME PipelineAssumption ==
  /\ Generic \subseteq Run
  /\ AssetOf \in [Run -> Asset]
  /\ Workers \in Nat \ {0}
  /\ MaxAttempts \in Nat \ {0}
  /\ MaxReplays \in Nat
  /\ MaxAsks \in Nat
  /\ MaxFaults \in Nat

VARIABLES
  status,     \* pipeline_runs.status, "none" before the row exists
  job,        \* status of the root job, the row with job_key pipeline:<run>
  track,      \* processing_jobs.status of the import
  ingest,     \* assets.ingest_state
  docs,       \* knowledge documents made by each run
  delivery,   \* the delivery of pipeline.run.requested
  attempts,   \* its failed attempts since it was last opened
  at,         \* where the worker that has the delivery is in the consumer
  seen,       \* the ingest state that its orchestrator read at the start
  made,       \* its doc_created
  asked,      \* status changes validated by the API and not yet written
  asks,       \* number of such requests
  replays,    \* number of replays
  faults,     \* number of faults
  hurt        \* history: the runs that a fault hit where nothing repairs it

rows == <<status, job, track, ingest, docs>>
queue == <<delivery, attempts, replays>>
local == <<at, seen, made>>
api == <<asked, asks>>
vars == <<status, job, track, ingest, docs, delivery, attempts, replays,
          at, seen, made, asked, asks, faults, hurt>>

RunStatus == {"none", "pending", "running", "succeeded", "failed", "cancelled"}
JobStatus == {"none", "pending", "running", "succeeded", "failed"}
TrackStatus == {"none", "queued", "processing", "done", "failed"}
IngestState == {"pending", "staged", "importing", "ready"}
Starting == {"create", "link", "mark", "start"}
Executing == {"track", "read", "import", "document", "finalize", "finish"}
Failing == {"fail", "failjob", "failtrack"}
PC == {"idle", "complete", "done", "ack", "nack"} \cup Starting \cup Executing \cup Failing

TypeOK ==
  /\ status \in [Run -> RunStatus]
  /\ job \in [Run -> JobStatus]
  /\ track \in [Run -> TrackStatus]
  /\ ingest \in [Asset -> IngestState]
  /\ docs \in [Run -> 0..2]
  /\ delivery \in [Run -> {"none", "open", "acked", "dead"}]
  /\ attempts \in [Run -> 0..MaxAttempts]
  /\ at \in [Run -> PC]
  /\ seen \in [Run -> IngestState]
  /\ made \in [Run -> BOOLEAN]
  /\ asked \subseteq [run : Run, from : RunStatus, to : RunStatus]
  /\ asks \in 0..MaxAsks
  /\ replays \in 0..MaxReplays
  /\ faults \in 0..MaxFaults
  /\ hurt \subseteq Run

\* Imports may be asked for assets whose upload has or has not finished.
Init ==
  /\ status = [r \in Run |-> "none"]
  /\ job = [r \in Run |-> "none"]
  /\ track = [r \in Run |-> "none"]
  /\ ingest \in [Asset -> {"pending", "staged"}]
  /\ docs = [r \in Run |-> 0]
  /\ delivery = [r \in Run |-> "none"]
  /\ attempts = [r \in Run |-> 0]
  /\ at = [r \in Run |-> "idle"]
  /\ seen = [r \in Run |-> "pending"]
  /\ made = [r \in Run |-> FALSE]
  /\ asked = {}
  /\ asks = 0
  /\ replays = 0
  /\ faults = 0
  /\ hurt = {}

Goto(r, to) == at' = [at EXCEPT ![r] = to]

\* The variables of the orchestrator are gone when it returns or raises.
Forget(r) ==
  /\ seen' = [seen EXCEPT ![r] = "pending"]
  /\ made' = [made EXCEPT ![r] = FALSE]

\* _link_root_job has updated the row of r in a transaction still open.
Locked(r) == at[r] \in {"mark", "start"}

----------------------------------------------------------------------------
(* Requests of users.                                                       *)

\* create_processing_job, on upload or for assets that are already there.
QueueJob(r) ==
  /\ status[r] = "none" /\ track[r] = "none"
  /\ track' = [track EXCEPT ![r] = "queued"]
  /\ UNCHANGED <<status, job, ingest, docs, queue, local, api, faults, hurt>>

\* create_pipeline_run, for a processing job or by itself.  It may not
\* happen: the import endpoints ignore a failure and skip it for duplicates.
RequestRun(r) ==
  /\ status[r] = "none"
  /\ status' = [status EXCEPT ![r] = "pending"]
  /\ delivery' = [delivery EXCEPT ![r] = "open"]
  /\ UNCHANGED <<job, track, ingest, docs, attempts, replays, local, api, faults, hurt>>

\* promote_from_staging, at the end of the upload.
Promote(a) ==
  /\ ingest[a] = "pending"
  /\ ingest' = [ingest EXCEPT ![a] = "staged"]
  /\ UNCHANGED <<status, job, track, docs, queue, local, api, faults, hurt>>

Transitions ==
  {<<"pending", "running">>, <<"pending", "cancelled">>,
   <<"running", "succeeded">>, <<"running", "failed">>, <<"running", "cancelled">>,
   <<"failed", "pending">>}

\* advance_run_status and cancel read the row and validate the change.
Ask(r, to) ==
  /\ asks < MaxAsks
  /\ asks' = asks + 1
  /\ <<status[r], to>> \in Transitions
  /\ asked' = asked \cup {[run |-> r, from |-> status[r], to |-> to]}
  /\ UNCHANGED <<rows, queue, local, faults, hurt>>

\* The UPDATE repeats the expected status; a row that moved on is left alone.
AnswerBlindly(q) ==              \* mutant: WHERE pipeline_run_id only
  /\ ~Locked(q.run)
  /\ asked' = asked \ {q}
  /\ status' = [status EXCEPT ![q.run] = q.to]
  /\ hurt' = IF q.to \in {"pending", "running"} THEN hurt \cup {q.run} ELSE hurt
  /\ UNCHANGED <<job, track, ingest, docs, queue, local, asks, faults>>

Answer(q) ==
  /\ ~Locked(q.run)
  /\ asked' = asked \ {q}
  /\ IF status[q.run] = q.from
       THEN /\ status' = [status EXCEPT ![q.run] = q.to]
            /\ hurt' = IF q.to \in {"pending", "running"} THEN hurt \cup {q.run} ELSE hurt
       ELSE UNCHANGED <<status, hurt>>
  /\ UNCHANGED <<job, track, ingest, docs, queue, local, asks, faults>>

\* An approved replay of the dead letter opens the delivery again.
Replay(r) ==
  /\ delivery[r] = "dead"
  /\ replays < MaxReplays
  /\ replays' = replays + 1
  /\ delivery' = [delivery EXCEPT ![r] = "open"]
  /\ attempts' = [attempts EXCEPT ![r] = 0]
  /\ UNCHANGED <<rows, local, api, faults, hurt>>

----------------------------------------------------------------------------
(* PipelineEventConsumer.dispatch up to the start of the run.               *)

\* The event is dispatched: a run that is not pending is acknowledged.
Deliver(r) ==
  /\ at[r] = "idle" /\ delivery[r] = "open"
  /\ Cardinality({q \in Run : at[q] # "idle"}) < Workers
  /\ Goto(r, IF status[r] = "pending" THEN "create" ELSE "ack")
  /\ UNCHANGED <<rows, queue, seen, made, api, faults, hurt>>

\* create_job inserts and commits.  A second row with the key of the run, or
\* a job type that the table does not allow, is an IntegrityError.
CreateJobAgain(r) ==             \* mutant: an existing job is taken over
  /\ at[r] = "create"
  /\ r \notin Generic
  /\ job' = [job EXCEPT ![r] = "pending"]
  /\ Goto(r, "link")
  /\ UNCHANGED <<status, track, ingest, docs, queue, seen, made, api, faults, hurt>>

CreateJob(r) ==
  /\ at[r] = "create"
  /\ IF job[r] = "none" /\ r \notin Generic
       THEN job' = [job EXCEPT ![r] = "pending"] /\ Goto(r, "link")
       ELSE UNCHANGED job /\ Goto(r, "nack")
  /\ UNCHANGED <<status, track, ingest, docs, queue, seen, made, api, faults, hurt>>

\* _link_root_job updates the run, whatever its status, and keeps the row
\* locked until the run has started or the session is closed.
Link(r) ==
  /\ at[r] = "link"
  /\ Goto(r, "mark")
  /\ UNCHANGED <<rows, queue, seen, made, api, faults, hurt>>

\* update_job_running, in a session of its own.
MarkJob(r) ==
  /\ at[r] = "mark"
  /\ Goto(r, "start")
  /\ job' = [job EXCEPT ![r] = IF @ = "pending" THEN "running" ELSE @]
  /\ UNCHANGED <<status, track, ingest, docs, queue, seen, made, api, faults, hurt>>

\* advance_run_status(pending -> running) commits, with the link.
Start(r) ==
  /\ at[r] = "start"
  /\ IF status[r] = "pending"
       THEN status' = [status EXCEPT ![r] = "running"] /\ Goto(r, "track")
       ELSE UNCHANGED status /\ Goto(r, "nack")
  /\ UNCHANGED <<job, track, ingest, docs, queue, seen, made, api, faults, hurt>>

\* The processing job follows if it can; errors are ignored.
Track(r) ==
  /\ at[r] = "track"
  /\ Goto(r, "read")
  /\ track' = [track EXCEPT ![r] = IF @ = "queued" THEN "processing" ELSE @]
  /\ UNCHANGED <<status, job, ingest, docs, queue, seen, made, api, faults, hurt>>

----------------------------------------------------------------------------
(* asset_import_orchestrator.                                               *)

ReadAsset(r) ==
  /\ at[r] = "read"
  /\ Goto(r, "import")
  /\ seen' = [seen EXCEPT ![r] = ingest[AssetOf[r]]]
  /\ UNCHANGED <<rows, queue, made, api, faults, hurt>>

\* advance_ingest_state(staged -> importing), unless the asset was ready.
Import(r) ==
  /\ at[r] = "import"
  /\ LET a == AssetOf[r] IN
       \/ /\ seen[r] = "ready"
          /\ Goto(r, "document")
          /\ UNCHANGED <<ingest, seen>>
       \/ /\ seen[r] # "ready" /\ ingest[a] = "staged"
          /\ Goto(r, "document")
          /\ ingest' = [ingest EXCEPT ![a] = "importing"]
          /\ UNCHANGED seen
       \/ /\ seen[r] # "ready" /\ ingest[a] # "staged"
          /\ Goto(r, "fail")
          /\ seen' = [seen EXCEPT ![r] = "pending"]
          /\ UNCHANGED ingest
  /\ UNCHANGED <<status, job, track, docs, queue, made, api, faults, hurt>>

\* A document is made, or none, or one that lacks its chunks: an exception
\* is logged as not fatal.
Document(r) ==
  /\ at[r] = "document"
  /\ Goto(r, "finalize")
  /\ \E wrote, complete \in BOOLEAN :
       /\ complete => wrote
       /\ made' = [made EXCEPT ![r] = complete]
       /\ docs' = [docs EXCEPT ![r] = IF wrote /\ @ < 2 THEN @ + 1 ELSE @]
  /\ UNCHANGED <<status, job, track, ingest, queue, seen, api, faults, hurt>>

\* advance_ingest_state(importing -> ready), unless the asset was ready.  If
\* the document was made, the exception of this step is not fatal either.
FinalizeWithoutDocument(r) ==    \* mutant: only done when there is no document
  /\ at[r] = "finalize"
  /\ Goto(r, "finish")
  /\ ingest' = [ingest EXCEPT ![AssetOf[r]] =
                  IF @ = "importing" /\ ~made[r] THEN "ready" ELSE @]
  /\ Forget(r)
  /\ UNCHANGED <<status, job, track, docs, queue, api, faults, hurt>>

Finalize(r) ==
  /\ at[r] = "finalize"
  /\ LET a == AssetOf[r] IN
       \/ /\ seen[r] # "ready" /\ ingest[a] = "importing"
          /\ ingest' = [ingest EXCEPT ![a] = "ready"]
          /\ Goto(r, "finish")
       \/ /\ seen[r] = "ready" \/ ingest[a] # "importing"
          /\ UNCHANGED ingest
          /\ Goto(r, IF seen[r] = "ready" \/ made[r] THEN "finish" ELSE "fail")
  /\ Forget(r)
  /\ UNCHANGED <<status, job, track, docs, queue, api, faults, hurt>>

----------------------------------------------------------------------------
(* The end of dispatch.                                                     *)

\* advance_run_status(running -> succeeded) commits, or raises.
FinishEarly(r) ==                \* mutant: the job is completed first
  /\ at[r] = "finish"
  /\ job' = [job EXCEPT ![r] = "succeeded"]
  /\ IF status[r] = "running"
       THEN status' = [status EXCEPT ![r] = "succeeded"] /\ Goto(r, "done")
       ELSE UNCHANGED status /\ Goto(r, "fail")
  /\ UNCHANGED <<track, ingest, docs, queue, seen, made, api, faults, hurt>>

Finish(r) ==
  /\ at[r] = "finish"
  /\ IF status[r] = "running"
       THEN status' = [status EXCEPT ![r] = "succeeded"] /\ Goto(r, "complete")
       ELSE UNCHANGED status /\ Goto(r, "fail")
  /\ UNCHANGED <<job, track, ingest, docs, queue, seen, made, api, faults, hurt>>

\* update_job_completed does not look at the status of the job.
CompleteJob(r) ==
  /\ at[r] = "complete"
  /\ Goto(r, "done")
  /\ job' = [job EXCEPT ![r] = "succeeded"]
  /\ UNCHANGED <<status, track, ingest, docs, queue, seen, made, api, faults, hurt>>

TrackDone(r) ==
  /\ at[r] = "done"
  /\ Goto(r, "ack")
  /\ track' = [track EXCEPT ![r] = IF @ = "processing" THEN "done" ELSE @]
  /\ UNCHANGED <<status, job, ingest, docs, queue, seen, made, api, faults, hurt>>

\* advance_run_status(running -> failed); if it raises, nothing is recorded.
NoFail(r) ==                     \* mutant: the failure is only reported
  /\ at[r] = "fail"
  /\ Goto(r, "failjob")
  /\ UNCHANGED <<rows, queue, seen, made, api, faults, hurt>>

Fail(r) ==
  /\ at[r] = "fail"
  /\ IF status[r] = "running"
       THEN status' = [status EXCEPT ![r] = "failed"] /\ Goto(r, "failjob")
       ELSE UNCHANGED status /\ Goto(r, "nack")
  /\ UNCHANGED <<job, track, ingest, docs, queue, seen, made, api, faults, hurt>>

FailJob(r) ==
  /\ at[r] = "failjob"
  /\ Goto(r, "failtrack")
  /\ job' = [job EXCEPT ![r] = "failed"]
  /\ UNCHANGED <<status, track, ingest, docs, queue, seen, made, api, faults, hurt>>

FailTrack(r) ==
  /\ at[r] = "failtrack"
  /\ Goto(r, "nack")
  /\ track' = [track EXCEPT ![r] = IF @ = "processing" THEN "failed" ELSE @]
  /\ UNCHANGED <<status, job, ingest, docs, queue, seen, made, api, faults, hurt>>

\* The outbox records the outcome; a failed delivery is retried until it is
\* parked.
Record(r) ==
  /\ Goto(r, "idle")
  /\ \/ /\ at[r] = "ack"
        /\ delivery' = [delivery EXCEPT ![r] = "acked"]
        /\ UNCHANGED attempts
     \/ /\ at[r] = "nack"
        /\ attempts' = [attempts EXCEPT ![r] = @ + 1]
        /\ delivery' = [delivery EXCEPT ![r] =
                          IF attempts'[r] = MaxAttempts THEN "dead" ELSE "open"]
  /\ UNCHANGED <<rows, replays, seen, made, api, faults, hurt>>

----------------------------------------------------------------------------
(* Failures.                                                                *)

Fault ==
  /\ faults < MaxFaults
  /\ faults' = faults + 1

\* Where an exception of the step at p takes the consumer.
ImportOutside(p, complete) ==    \* mutant: the import is not in the inner try
  IF p \in {"create", "link", "mark", "start", "read", "import", "fail", "failjob"}
    THEN "nack" ELSE "finish"

Handler(p, complete) ==
  CASE p \in {"create", "link", "mark", "start", "fail", "failjob"} -> "nack"
    [] p \in {"read", "import", "finish", "complete"} -> "fail"
    [] p = "finalize" -> IF complete THEN "finish" ELSE "fail"
    [] p = "track" -> "read"
    [] p = "document" -> "finalize"
    [] p = "done" -> "ack"
    [] p = "failtrack" -> "nack"

Hurts(r, steps) == hurt' = IF at[r] \in steps THEN hurt \cup {r} ELSE hurt

\* A statement fails: its own transaction is rolled back.
Error(r) ==
  /\ at[r] \notin {"idle", "ack", "nack"}
  /\ Fault
  /\ Goto(r, Handler(at[r], made[r]))
  /\ IF at[r] = "document" THEN UNCHANGED <<seen, made>> ELSE Forget(r)
  /\ Hurts(r, {"link", "mark", "start", "finalize", "fail"})
  /\ UNCHANGED <<rows, queue, api>>

\* The worker dies; the event is recovered and delivered again.
Crash(r) ==
  /\ at[r] # "idle"
  /\ Fault
  /\ Goto(r, "idle") /\ Forget(r)
  /\ Hurts(r, (Starting \ {"create"}) \cup Executing \cup {"fail"})
  /\ UNCHANGED <<rows, queue, api>>

----------------------------------------------------------------------------

Consume(r) ==
  \/ CreateJob(r) \/ Link(r) \/ MarkJob(r) \/ Start(r) \/ Track(r)
  \/ ReadAsset(r) \/ Import(r) \/ Document(r) \/ Finalize(r)
  \/ Finish(r) \/ CompleteJob(r) \/ TrackDone(r)
  \/ Fail(r) \/ FailJob(r) \/ FailTrack(r) \/ Record(r)

Next ==
  \/ \E r \in Run :
       \/ QueueJob(r) \/ RequestRun(r) \/ Replay(r)
       \/ \E to \in RunStatus : Ask(r, to)
       \/ Deliver(r) \/ Consume(r) \/ Error(r) \/ Crash(r)
  \/ \E a \in Asset : Promote(a)
  \/ \E q \in asked : Answer(q)

Spec == Init /\ [][Next]_vars

=============================================================================
