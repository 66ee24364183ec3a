# Mneme in TLA+

A model of the parts of Mneme (`src/mneme`) whose correctness depends on the
order of things: which worker may dispatch, what happens to an outbox event, how
a dead letter gets replayed, what a call to an external provider leaves in the
tables, how an uploaded file becomes an asset and an asset gets imported, and
how memories are changed by several people at once. Each component is a module of its own, checked by TLC on small
instances and proved by TLAPS for every value of its constants.

- [1. Inventory](#1-inventory)
- [2. Modules](#2-modules)
- [3. What each module models](#3-what-each-module-models)
- [4. Runs](#4-runs)
- [5. Fairness](#5-fairness)
- [6. Proofs](#6-proofs)
- [7. Where code and documents disagree](#7-where-code-and-documents-disagree)
- [8. Left out](#8-left-out)
- [9. Plan](#9-plan)

## 1. Inventory

Mneme is a FastAPI application and a worker process over one PostgreSQL database
and a Redis. API requests run on threads, each with database sessions of its
own. A request commits its business rows together with a row in `events` (the
outbox); the worker polls that table, claims a batch and runs the consumers.
Several workers may run, and a lease in Redis is meant to keep all but one in
standby.

| Component | State | Operations | Talks to | What makes it hard | What makes it correct | Status |
|---|---|---|---|---|---|---|
| Dispatch lease (`worker/lease.py`, `worker/app.py`) | Redis key with a TTL; `_held`, last heartbeat | acquire (SET NX PX), heartbeat and release (scripts that compare the owner), standby and active loop | Redis; gates everything the worker does | the reply arrives later than the effect, a lost reply, expiry in the middle of an iteration, crash and restart | one dispatcher if the settings leave room; nobody's live key is taken; a leader comes back | modelled, proved |
| Outbox (`db/audit.py`, `worker/poller.py`, `dispatcher.py`, `retry_sweeper.py`, `recovery_sweeper.py`) | `events.publish_state`, `event_deliveries`, `dead_letters` | publish, claim, dispatch a batch, retry, park, recover, reopen | consumers run inside the batch transaction | crash between claim and commit, rollback of a whole batch, sweeps that write what they read earlier, row locks, deadlock | tables agree, retries bounded, an acknowledged event is never run again, every event settles | modelled, proved |
| Replay review (`api/routes/system/dead_letters.py`, `api/routes/memory/review_items.py`, `db/review_items.py`, `db/dead_letters.py`, `worker/consumers/review_consumer.py`, `worker/review_timeout_checker.py`) | `dead_letters.replay_state`, `review_items.status`, event of the verdict | submit, create, claim, expire, approve/reject/cancel singly and in batches, inline follow-up, consumer | publishes through the outbox, reopens its rows | each request is three or four transactions; request and consumer carry out the same verdict | a replay has a standing approval, happens once, and a dead letter is left under review only at known places | modelled, proved |
| LLM gateway (`gateway/call.py`, `db/api_call_logs.py`, `db/budget.py`) | `api_call_logs.call_state`, `budget_tracking.reservation_state` | check, reserve, resolve the credential, send, retry, record, commit or release | provider over HTTP, vault | check and commit far apart, timeouts, exceptions at any point, repeated calls | the tables agree, a sent request is known, one call per key, bounded overrun | modelled, proved |
| Pipeline runs and jobs (`worker/consumers/pipeline_consumer.py`, `db/pipelines.py`, `db/jobs.py`, `db/processing_jobs.py`, `api/routes/system/pipelines.py`) | `pipeline_runs.status`, `jobs.status`, `processing_jobs.status`, `assets.ingest_state`, documents | request, create the job, start, import in up to seven commits, finish, fail; advance and cancel by users | run by the outbox, works on the asset of an upload | each helper commits on a session of its own, so every failure leaves what was committed before it, and the event is delivered again | no run is left behind, one execution per run, jobs tell the truth, final is final, runs settle | modelled, proved |
| Uploads and storage (`db/assets.py`, `storage/upload.py`, `storage/promote.py`, `db/inbox.py`, `api/routes/system/assets.py`, `api/routes/knowledge/import_jobs.py`) | `inbox_items`, `assets`, staging directory, permanent files | stage, look for the content, insert, move, promote, link, roll back; archive and its reverse | assets are imported by pipeline runs | files and rows cannot commit together, retries with one key, checks long before the insert | who was answered has the file, a duplicate is one, nothing fails without a reason | modelled, proved |
| Memories (`db/memories.py`, `memory/refine/merge.py`, `memory/decay.py`, `memory/index_manager.py`, `db/memory_index_entries.py`, `api/routes/memory/memory_index.py`) | `memories`, `memory_versions`, `memory_relations`, `memory_index_entries` | create, edit, merge, smart merge, expire, restore, delete, reinforce, rebuild the index (both ways) | gateway for the smart merge, search reads the index | each request reads, thinks and then writes; versions are the only guard | requests are atomic, versions are true, merges end, the index is current until a rebuild says otherwise | modelled, proved |
| Memory consumer and candidates (`worker/consumers/memory_consumer.py`, `memory/extract_pipeline.py`, `db/memory_candidates.py`) | extraction runs, candidates | extract, promote, reject | outbox, gateway, reviews | partial failure | a candidate is promoted once | not modelled: see [8](#8-left-out) |
| Idempotent writes (`db/transactions.py`, `db/idempotency.py`) | unique `events.idempotency_key` | check, write, resolve a lost race | every mutating request | two requests with one key | one effect per key | inside the models of its callers |
| Event log (`db/event_log.py`) | `event_log.stream_version` | append, read | nobody appends in this commit | | | not modelled |
| Backup and restore (`backup/`, `restore/`) | manifests, dumps | dump, verify, drill, live restore | `pg_dump`, `pg_restore` | partial failure of a sequence | | not planned yet |
| Federation queue (`db/federation.py`) | `sync_queue` | enqueue, claim with SKIP LOCKED | no worker drains it in this commit | | | not modelled |
| Vault, security, encryption | keys, secrets | encrypt, resolve | gateway | cryptographic I/O | | not modelled |
| Importer, watcher, migration | run by hand or by a timer | sequential passes | pipelines | | | not modelled |
| Knowledge, search, context, parsers, graph, evaluation, memory scoring | rows and indexes | ranking, parsing, scoring | | data without control | | not modelled |
| API plumbing, web client, scripts | | | | | | not modelled |

`PROJECT.json` lists the sources of every component, and every hazard with the
line where it bites and the properties that catch it.

## 2. Modules

    EventLifecycle
      ^ implements
    Outbox ........... OutboxProps ........... OutboxProofs         MCOutbox
      ^ implements
    Dispatch ................................. DispatchProofs       MCDispatch
      v implements
    Lease ............ LeaseProps ............ LeaseProofs          MCLease
    ReplayLife
      ^ implements
    ReplayReview ..... ReplayReviewProps ..... ReplayReviewProofs   MCReplayReview
    GatewayCall ...... GatewayCallProps ...... GatewayCallProofs    MCGatewayCall
    ImportLife
      ^ implements
    PipelineRun ...... PipelineRunProps ...... PipelineRunProofs    MCPipelineRun
    AssetIngest ...... AssetIngestProps ...... AssetIngestProofs    MCAssetIngest
    AtomicMemory
      ^ implements
    MemoryLife ....... MemoryLifeProps ....... MemoryLifeProofs     MCMemoryLife

A component `X` is three modules. `X` is the translation of the code: constants
with their assumptions, variables, one action per step of the code, `Spec`.
`XProps` extends it with the properties and the invariants they follow from.
`XProofs` holds the theorems. `MCX` extends `XProps` for TLC; a `.cfg` gives the
constants their values.

How the components meet:

- `Outbox` has a constant `Exclusive`: with `TRUE` its workers take turns, with
  `FALSE` it says what is left when the lease did not do its job. `Dispatch` puts
  `Lease` and `Outbox` together into the worker as it runs, where nobody takes
  turns: a worker reads its own flag and its own clock and goes ahead. It is
  shown to implement both, `Outbox` with `Exclusive = (HB + 2 * MaxIter <= TTL)`,
  so that what `Outbox` takes for granted is a consequence of the timing.
- `EventLifecycle` is what a publisher may rely on: an event is absent, open,
  then delivered or parked, and a parked event may be opened again.
  `OutboxProps` maps the rows to that (`Stage`) and `Outbox` is shown to
  implement it. `ReplayReview` uses the same life for the event of a verdict
  instead of the whole outbox.
- `Outbox!Replay` is what `ReplayReview!CarryOut` does to the outbox tables.
- `GatewayCall` stands alone: the gateway publishes nothing.
- `PipelineRun` uses the outbox as what is proved of it: its event is open until
  it is acknowledged or parked (`EventLifecycle`), and one worker at a time has
  its delivery (`NoConcurrentRun`). A replay of its dead letter is
  `ReplayReview!CarryOut`.
- `AssetIngest` and `PipelineRun` share `assets.ingest_state`: an upload ends
  with it at `staged`, a run takes it to `importing` and `ready`
  (`AssetIngest!Advance`, `PipelineRun!Promote` are the other side).
- `ImportLife` is what whoever asks for an import may rely on: one status and one
  execution per run, one importer per asset, one document at most. `Life` in
  `PipelineRunProps` maps the tables and the places of the workers to it.
- `ReplayLife` is what whoever decides a review may rely on: a dead letter is
  replayed or closed once for the review that holds it. `Life` in
  `ReplayReviewProps` maps the rows and the requests under way to it.
- `AtomicMemory` is what users of the memories may rely on: every request takes
  place at one moment. `MemoryLifeProps` maps the rows to it, and `MemoryLife`
  is shown to implement it.

Definitions marked `\* mutant` are variants of the definition that follows, with
the sort of slip that a change of that code could introduce. Each
property has one that breaks it, so that a property which could not fail would
be noticed.

## 3. What each module models

### Lease

Time is a counter: `Tick` shortens the life of the key and ages everything else.
`key` and `ttl` are Redis. A worker has its place in the loop (`pc`), `held`
(`LeaseManager._held`), `age` (time since the last heartbeat by its own clock)
and the reply of the Redis call under way. A call is two steps, `Send...` where
Redis acts and `...Reply` where the worker learns of it; ticks in between are
the delay. `AcquireError` and `HeartbeatError` are a call that failed, before or
after Redis acted.

| Action | Code |
|---|---|
| `SendAcquire`, `AcquireReply`, `AcquireError` | `LeaseManager.acquire`, standby loop |
| `SkipHeartbeat`, `SendHeartbeat`, `HeartbeatReply`, `HeartbeatError` | top of an iteration of `_active_loop` |
| `EndCycle` | sweeps, poll, dispatch and sleep, up to the next check |
| `Release`, `LeaveStandby`, `Signal` | shutdown |
| `Crash`, `Restart` | the process, and `restart: unless-stopped` |

`busy` counts the ticks since a worker passed its last check and `MaxIter`
bounds it: the longest iteration. `since` is a history variable, the true time
since Redis last renewed the lease of a worker.

### Outbox

The variables are committed rows, plus what each worker has read or written and
not yet committed (`picked`, `retry`, `batch`, `acked`, `failed`, `fresh`). Row
locks are derived from those: `DeliveryLocks`, `EventLocks`, and `KeyShared` for
the lock that inserting a delivery takes on its event, which `SKIP LOCKED` sees.
A step whose rows are locked by another worker waits; when workers wait for each
other, PostgreSQL fails one (`Deadlocked`, `Abort`).

| Action | Code |
|---|---|
| `Publish` | `add_outbox_event` in a business transaction |
| `RetryPick`, `RetryApply`, `SweepCommit` | `RetrySweeper.sweep`: pick failed deliveries, reset them, park the exhausted ones |
| `RecoverPick`, `RecoverApply` | `DispatchingRecoverySweeper.sweep` |
| `Poll` | `fetch_pending_events`, which commits the claim |
| `Begin`, `Finish`, `CommitBatch` | `_dispatch_one` and the commit of the batch |
| `Replay` | the update of delivery and event by an approved replay |
| `Age` | `committed_at` becomes older than the timeout of the recovery sweep |
| `Abort` | a statement that fails, or a deadlock, and its `except` in the loop |
| `Lead`, `Leave`, `Stop` | into the loop, out of it between two iterations, death of the process |

An event has two consumers at most, the no-op consumer, which takes every event
and never fails, and one whose types include it; the types of the three are
disjoint. The delivery in the model is that of the second; `Plain` are events
that have only the first.

### Dispatch

The variables of both components, with Lease's `pc` and `faults` renamed to
`place` and `errors`. Every step is a step of one of them or of both, and the two
meet only where the code has one statement for both: a worker is in its cycle of
`Outbox` exactly while `Lease` has it in the body of the loop (`InStep`). `over`
says that an iteration has done its work and only sleeps.

| Action | Code |
|---|---|
| `Enter` | the test at the top of the loop passed, its heartbeat answered or not due (`app.py:344-356`) |
| `Iterate` | a step of the sweeps, the poll or the dispatch (`app.py:358-436`), failures included |
| `Leave` | the sleep is over and the loop is back at its test |
| `Die` | the process dies in an iteration: a fault for both components |
| `Elsewhere` | everything of the lease outside an iteration, and a signal inside one |

Time passes between any two steps of an iteration; `MaxIter` bounds the whole of
it. That is the only assumption on the work: no step of `Outbox` looks at the
key, the clock or another worker.

### ReplayReview

A request (`at`) goes through the transactions of its endpoint one by one, and
other requests, the consumer and crashes come in between. `submit` is `Submit`
(count), `Mark` (replay_state), `Create`, `Open`, or `Undo` when the creation
fails. Approve, reject and cancel are `Decide`, `Publish`, `Inline`; the batch
endpoints are `BatchStart`, `BatchDecide` for each item, `BatchFollow`,
`BatchEnd`. `CreateDirect` is `POST /review/items`. `Consume` is a delivery that
is acknowledged, `ConsumeAgain` one whose acknowledgement was lost, `Park` the
event in the dead letter queue.

`HasUpdatedAt` says whether `events` has the column that the replay writes. The
migrations do not create it, so the code as it stands is `FALSE`; with `TRUE`
the rest of the protocol is checked. The safety theorems hold for both.

`dropped` is history: the dead letters that are under review and that the last
one to work on them left. A submit drops its letter when it dies between `Mark`
and `Create` or in `Undo`; a single verdict when it dies before `Publish`; a
batch when it dies, or the replay raises, before `BatchFollow` has got to the
letter; and a parked event drops its letter. A request that dies after `Publish`
drops nothing: the consumer has the event. A verdict that settles the letter
after all, or the undo, takes it out again (`KeepDropped`).

### GatewayCall

A call is at one place of `Gateway._execute` (`at`), and every update of a table
is a step, because each is a transaction. `MoveLog` and `MoveBudget` are the
conditional updates, `SetLog` the unconditional one of `update_call_result`.
`answer` is what the HTTP client returns or raises: a success, a redirect (not
followed, and passing for a success), a 4xx, a 5xx, a network error, a timeout,
or a body that is not JSON or another exception. A request that was answered
with anything but a success, a redirect or a 4xx may have been carried out by
the provider all the same (`done`). `Raise` is an exception at any point,
`CatchAll` its handler, `Die` the end of the process.

### PipelineRun

`at` is where the worker that has the delivery of a run is in
`PipelineEventConsumer.dispatch`; `seen` and `made` are the local variables of
the orchestrator that later steps depend on. Each committed write is a step.

| Action | Code |
|---|---|
| `QueueJob`, `RequestRun`, `Promote` | the upload endpoints: processing job, run with its event, end of the upload |
| `Ask`, `Answer` | a status set or cancelled by a user: read and validate, then UPDATE with the expected status |
| `Deliver`, `CreateJob`, `Link`, `MarkJob`, `Start`, `Track` | `dispatch` up to the commit of `running` |
| `ReadAsset`, `Import`, `Document`, `Finalize` | `asset_import_orchestrator` |
| `Finish`, `CompleteJob`, `TrackDone` | success |
| `Fail`, `FailJob`, `FailTrack` | the `except` around the orchestrator |
| `Record` | acknowledgement, retry or dead letter |
| `Error`, `Crash` | a statement that fails (`Handler` says which `except` takes it), the worker dies |

The link of the job stays in a transaction that is open until `running` is
committed; until then the row is `Locked` for users. `hurt` collects the runs
that a fault hit where the code has no way back, and those that a user set back
to `pending` or `running` by hand.

### AssetIngest

A key stands for the inbox item and the asset made under it, because a used key
resolves to the row it made. A request stages its file (`Upload`), looks for the
content twice (`LookUp` in `Upload` and `Check`), inserts the inbox item, which
an upload without a project does not survive (`Receive`), and the asset (`Insert`),
moves the file (`Move`), notes that (`Promote`), links (`Link`), or deletes what
it has moved (`Rollback`). `Process`, `ChangeStatus` and `Advance` are the other
writers of the same rows. `Error` is a statement that fails, `LostCommit` one
that succeeds without the server hearing of it, `Crash` the end of the process.

`Processes` is the number of API processes. The endpoints are coroutines that
never wait, so one process serves one upload at a time; the container runs one
uvicorn process. An asset is active or archived: the CHECK of migration 0026
refuses the change to any other status.

### MemoryLife

The endpoints of memories are plain functions in threads. `Read` and `ReadOther`
are the reads and the checks on them; `Edit`, `Merge`, `SmartMerge`, `Expire`
(expiry and deletion), `Restore`, `Reinforce`, `Rebuild` (rebuild-fts) and
`RebuildVector` the transactions that follow; `RebuildEntry` is rebuild-fts of
one entry; `Fail` is every reason for a rollback, the number of a version row
being taken (`IsFree`) among them. A text is the set of facts it states, so that
a lost fact is a lost update. `Current` is the version in the WHERE clause,
which the smart merge does not have. `reworded`, `rewound` and `misbuilt` are
history: memories that a smart merge has rewritten, whose version has gone
down, whose index a rebuild has written with another text, or while another
request wrote to it.

The rebuilds lock nothing. A rebuild writes any text: the caller may pass one,
the memory may have been edited since it was read, and an entry may be an old
one. What others have committed to the index since the rebuild read it is in
`entries` and not in `req[t].indexed`; of that, any part may have come after the
marking (`late`), and an entry of the number to be created makes the insert
return nothing. `rebuild-vector` marks nothing stale.

## 4. Runs

Each run asks one question. Distinct states are those of TLC with the given
symmetry.

| Run | Question | Constants | States |
|---|---|---|---|
| `lease_late` | What is left when iterations outlive the lease, and does a leader always come back? | 3 workers, TTL 4, HB 2, MaxIter 2, 2 faults | 825,797 |
| `worker_sized` | Does the clock of the lease make the workers of the outbox take turns, when the settings leave room? | 3 workers, TTL 3, HB 1, MaxIter 1, 1 event, 2 attempts, 1 replay, 1 fault of the lease, 2 of the outbox | 898,199 |
| `outbox_exclusive` | Do the tables agree, is the budget of retries kept, does every event settle, with one worker at a time? | 2 events, 2 workers, 2 attempts, batch of 2, 1 replay, 2 faults | 129,394 |
| `outbox_stale` | What is left when two workers dispatch? | 2 events, 2 workers, 2 attempts, batch of 2, 1 replay, no fault but deadlocks | 5,097,043 |
| `review_direct` | Is a replay always approved, who is left to settle it, and does a verdict take effect once, with reviews of both origins? | 1 dead letter, 2 items, 2 requests, 1 fault | 1,714,354 |
| `review_submit` | Do concurrent submits leave one review? | 2 dead letters, 2 items, 2 requests, 1 fault | 54,574 |
| `review_schema` | Is a published verdict executed for certain, as `review_consumer.py` says? (no) | 1 of each, no fault | violated |
| `gateway_calls` | Do call log and budget agree, is a key used once, how far is the limit overrun? | 3 calls, 3 keys, 2 threads, 1 request allowed, 1 retry, 2 faults | 1,342,858 |
| `pipeline_runs` | Is every run carried to its end, with one life whoever reports it, and do the jobs tell the truth? | 2 runs of one asset, 2 workers, 2 attempts, 1 replay, 1 request of a user, 1 fault | 1,057,336 |
| `uploads` | Does an answered upload have its file, is a duplicate one, and why does an upload fail? | 3 requests, 2 keys, 2 contents, 2 projects or none, 1 process, 2 faults | 288,100 |
| `memories` | Do version checks make requests atomic, and are versions, merges and index what they should be? | 3 memories, 2 facts, 2 threads, 3 requests, 4 versions | 1,136,055 |
| `memory_rewind` | Is the number of the next version always free? (no) | the same | violated |

Why the bounds are enough:

- *Lease.* Three workers are an old leader, a new one and one more to take the
  key from either. In `lease_late` two iterations may outlive the key
  (`HB + 2 * MaxIter > TTL`), so late heartbeats, releases of lost leases and
  replies after expiry all happen; one is still shorter than the key, without
  which no reply would ever come in time and no leader come back (TLC finds that
  behaviour at TTL 2 and MaxIter 3). Two faults are a lost reply and a crash
  after it; more workers and longer times are covered by the proofs.
- *Worker.* `TTL = HB + 2 * MaxIter` is the tightest setting that meets the
  condition, so an off-by-one in the renewal shows (it does: that is the
  mutant). One event is enough for two workers to be at; retries, the recovery
  sweep, a replay and crashes in both components all happen. Longer times
  (TTL 5, MaxIter 2, 2 workers: 1,103,597 states) show nothing else.
- *Outbox.* Two events make a batch in which one fails or blocks the other, and
  a rollback that forgets the first because of the second. Two attempts
  distinguish a retry from a promotion; a replay makes the counters start again;
  two faults allow a crash during the recovery from a crash. With
  `Exclusive = FALSE` two workers with two events deadlock in both ways: two
  batches that have the events in different orders, and a sweep that has set one
  delivery back and waits to park the other, which the batch of the other worker
  has written and which waits for the first. Both need two events that can fail
  and two attempts. Faults are left to `outbox_exclusive` and to the proofs,
  which hold for any number; with one fault and no replay `outbox_stale` has
  2,262,054 states and shows nothing else.
- *Reviews.* Two items on one letter, and one on each of two, two requests that
  race, one crash at any point. A third item could only repeat the part of one
  of the two. On the schema as it is (`HasUpdatedAt = FALSE`) `IInv` was checked
  with the same constants too (1,617,681 states).
- *Gateway.* Three calls, two at a time, and a limit of one: overrun by one is
  possible, by two is not, and the third call shows that the limit still holds
  for those who come later. Two faults let the catch-all itself fail.

- *Pipeline runs.* Two runs of one asset are what it takes to disturb an import:
  they compete for `ingest_state`. Two attempts tell a retry from a dead letter,
  and a replay gives one more delivery than the attempts. One fault is a crash
  or an error at any of some twenty places; one request of a user races with all
  of them.
- *Uploads.* Two requests with one key and one with another, in all
  combinations of contents and projects: a retry, a retry with other content, a
  duplicate, the same content in another project, an upload without a project.
  Archiving is not bounded. Two faults are one in each of two uploads of a content.
- *Memories.* Three memories allow a circle of merges through a third. Three
  requests are two that overlap and one more in between or afterwards; versions
  up to four let a smart merge, which skips one, be overtaken. The rebuilds
  count as requests, so a rebuild is overtaken by an edit and by another rebuild.

What bounds a run: `MaxFaults`, `MaxReplays`, `MaxAsks`, `MaxRequests`,
`MaxVersion`, and the sets. Counters saturate
where the properties cannot tell higher values apart (`attempts` at
`MaxAttempts`, `parked` and `reopened` at 2, `runs` at one above its bound,
times at `TTL`).

`CHECK_DEADLOCK FALSE` is set where the system may stop: in the gateway run when
all calls are over, in `pipeline_runs`, `uploads` and the runs of the memories
when there is nothing left to ask for. Every other run is also a check that the
system never gets stuck.

## 5. Fairness

- *Lease* (`FairSpec`): the clock ticks, and a worker that can take a step of
  its loop does, including the restart of its container. Redis errors, signals
  and crashes are owed nothing, and there are finitely many. The loop is a
  `while` without blocking calls other than Redis and the database, with
  timeouts, and the container is restarted unless stopped by hand.
- *Outbox* (`FairSpec`): a cycle that has begun goes on (the loop catches
  exceptions and ends each iteration with a poll), some worker becomes leader
  (`LeaderReturns`), an event that is not settled gets old (`Age`), and the
  sweeps run again and again (strong fairness: their interval elapses again and
  again, though they are not enabled in the middle of an iteration; the retry
  sweep picks a delivery once its backoff has passed, and the backoff is
  capped). Consumers return; nothing is assumed about their success.
- *ReplayReview* (`FairSpec`): the consumer of an open event is run until it is
  delivered or parked. This is `Settles` of `Outbox`. Requests get no fairness:
  a client may go away, a thread may die.
- *PipelineRun* (`FairSpec`): an open delivery gets to its consumer, and a
  consumer that has begun goes on to its end. The first is `Settles` of
  `Outbox`, the second that `dispatch` has no wait in it and every call has a
  timeout or an exception. Users and faults are owed nothing.
- *AssetIngest*, *MemoryLife*: no liveness is claimed. A client repeats a request
  or does not.
- *GatewayCall*: no liveness is claimed. A call that dies is not taken up by
  anyone.

## 6. Proofs

TLAPS proves these for all values of the constants that meet the `ASSUME` of the
component. The assumptions are what the settings require: positive times and
`HB <= TTL`, finite sets of events and calls, at least one attempt and one
thread. They do not bound the number of workers, items, requests or faults.

| Theorem | Says |
|---|---|
| `LeaseTyped`, `LeaseInvariant` | type correctness; the inductive invariant |
| `FreshLeader` | who was renewed less than TTL ago owns the key |
| `SizedExclusion` | `HB + 2 * MaxIter <= TTL` implies one dispatcher |
| `KeyNotStolen` | a live key goes only by expiry or by its owner |
| `OutboxSafe` | types, tidy cycles and exclusive row locks, with or without the lease |
| `OneRunAtATime` | one event never runs twice at the same time, with or without the lease |
| `EventsAreNotLost` | an event that left the queue has an outcome someone acts upon, with or without the lease |
| `OutboxInvariant` | the inductive invariant under an exclusive lease |
| `TablesAgree`, `RunsAreBounded`, `AckStays` | `Accounted`, `RetryBudget`, `AckIsFinal` when `Exclusive` |
| `OutboxKeepsPromise` | `Outbox` implements `EventLifecycle` (its safety part) when `Exclusive` |
| `DispatchIsLease`, `DispatchIsOutbox` | `Dispatch` implements `Lease`, and `Outbox` with the exclusion that the settings give |
| `ActiveIsOwner` | with settings that leave room, who acts on the outbox owns the key |
| `WorkerKeepsPromise`, `WorkerKeepsTables` | with such settings the whole worker keeps what `Outbox` promises under an exclusive lease |
| `AnySettings` | with any settings no event runs twice at once or is lost |
| `ReviewInvariant` | the inductive invariant of the reviews |
| `VerdictsStand` | `ReplayReview` implements `ReplayLife` |
| `ReplaysAreApproved`, `OneReplay`, `SubmitsAreExclusive` | three safety properties of the reviews, with and without `events.updated_at` |
| `OnlyDroppedLettersWait` | a dead letter under review has someone to settle it or is in `dropped`, with and without `events.updated_at`, for any number of faults |
| `GatewayInvariant` | the inductive invariant of the gateway |
| `RunInvariant` | the inductive invariant of the pipeline runs |
| `NoRunIsAbandoned`, `ImportsOnce`, `JobsTellTheTruth` | the safety properties of the runs |
| `RunsHaveOneLife` | `PipelineRun` implements `ImportLife` |
| `FinalStatusIsFinal` | a status that is final stays, which `ImportLife` says |
| `IngestInvariant` | the inductive invariant of the uploads |
| `CreatedFileIsKept` | an answered upload keeps its file, for any number of processes |
| `DuplicateFileIsKept`, `UploadsFailForAReason` | duplicates have their file, and uploads fail only by a fault, without a project or with a reused key, with one process |
| `MemoryInvariant` | the inductive invariant of the memories |
| `HistoryIsTrue`, `MergesEnd` | two invariants of the memories |
| `IndexStaysCurrent` | the index of a memory that is not in `misbuilt` finds it by what it says now and by nothing else |
| `RequestsAreOneStep` | `MemoryLife` implements `AtomicMemory` |
| `EndsAgree`, `SentIsKnown`, `KeyCallsOnce`, `BoundedOverrun`, `TableIsFollowed` | the five properties of the gateway |

The arguments:

- *Lease.* `OneDispatcher` is not inductive: that two workers are not in their
  cycle says nothing of who will be. `KeyMatchesRenewal` ties the remaining life
  of the key to the time since the last renewal of its owner, and
  `RenewalIsRecent` bounds that time at each point of the loop: at the check it
  is at most `HB - 1` plus an iteration plus the ticks since the last check. Two
  dispatchers would both have been renewed less than TTL ago and so both own the
  key. With the defaults (TTL 30 s, heartbeat 10 s) the condition allows
  iterations of up to 10 s, of which 5 s are the sleep of the poll.
- *Outbox.* `SafeInv` (types, `Tidy`, `LocksAreExclusive`) holds for any number
  of workers at once. Under an exclusive lease `LeaderInv` adds that what a
  worker has read is still so when it writes (`StillSo`), that a batch holds an
  event once (`Once`), and how often a consumer can have run given the attempts,
  replays and faults (`RunsCounted`). The step lemmas go by phase of the cycle
  (`LeaderSweep`, `LeaderPoll`, `LeaderBegin`, ...). The refinement is
  `ColumnStep`: what each step does to one event is a step of its life or none.
  `NothingLost` needs no exclusive lease and nothing but the types: a step that
  takes an event out of the queue writes the outcome of its delivery in the same
  transaction, and one that reopens the delivery reopens the event as well
  (`LossStep`), so stale reads can undo work but not lose it.
- *Worker.* `DispatchProofs` cites the theorems of both components and adds only
  what lies between them. Every step of `Dispatch` is one of `Lease` or leaves it
  alone (`LeaseStep`), so `SizedLeaseIsExclusive` holds of the whole. `Matched`
  (`InStep` and what `over` means) says that loop and cycle begin and end together.
  The one step that `Outbox` guards and the code does not is entering the loop,
  and exclusion in the state after it gives that guard (`EnterIsLead`): had
  another worker been in its cycle, there would be two. The rest follows by
  composing the theorems. Their hypotheses are the assumptions of the two
  components (`L!LeaseAssumption`, `O!OutboxAssumption`) and, where it says so,
  `Sized`; none is about what other workers do.
- *Reviews.* A request remembers what it decided (`RequestsRemember`), an event
  exists only for a decided item (`ItemsAgree`), a verdict is given by one request
  and has no event before that request publishes it (`DecidedOnce`), and a letter
  under review is attended by a request, by an item that does not expire, or by
  the consumer, or it was dropped (`Settleable`, inductive with the two before).
  The request between `Publish` and `Inline` is not among those who attend: its
  event is open, so its death changes nothing. For submits, `OneSubmit` says that the request that has put
  a letter under review is the only one, up to the creation of its item. The
  refinement of `ReplayLife` maps open items of either status to open reviews and
  the requests between `Mark` and `Create` to `asked`; `OneHolder` says that no
  two of them hold one letter, so that what one gives up is nobody else's
  (`SubmitIsLife`). The follow-up of a request, of a batch and of the consumer are
  one step of the abstraction, `Replay` or `Close`, or none (`CarryOutIsLife`).
- *Gateway.* `Position` gives the contents of both tables for each place in the
  code; a call that met an unexpected error is at its end (`ErrorsEnd`).
  `Headroom` is the counting argument for the overrun: the check compares the
  committed calls with the limit, calls that passed it run, and only `Threads`
  run at a time.

- *Pipeline runs.* The root job is the lock of a run. `Once` says that a worker
  between `create_job` and the document has made none yet, and `Untouched` that
  without a job nobody is past `create_job`; so the insert of the job, which
  fails for the second worker, is what keeps a run from being executed twice.
  `OneImporter` is the same for the asset: while one run imports it, no other
  run that saw it earlier gets past its first step. `Carried` names who will
  move a run; each step hands it on or ends the run. For the refinement of
  `ImportLife`, `Working` says that the job of a run is where its worker is, so
  that taking up and ending the work is one step each; the abstract importers are
  the workers between `Import` and the end of the import, and `OneImporter` makes
  them one per asset. `FinalStatusIsFinal` is then read off `ImportLife!Moves`.
- *Uploads.* The file in its place is the lock: `OneHolder` says that one
  request per key is past the move and that the file is its own, so that a
  rollback cannot delete somebody else's. With one process (`Alone`), `Looked`
  carries what the lookup found up to the insert, and `Whole` says of every
  asset that no fault has hit that it is complete or being completed. That an
  upload fails for a reason (`FailsForAReason`) takes `Looked` at the insert (what
  the unique constraint would refuse, the lookup has found: `AtInsert`) and
  `OnCourse` after it: no other request has touched the row or the place of the
  file of a request on its way.
- *Memories.* Optimistic locking by numbers fails if a number comes back, and
  the smart merge can set the version back. `Numbered` and `SeenInThePast`
  show why requests are atomic all the same: every number that was ever read
  has a row, a new version needs a number without one, so an equal number means
  an equal memory. `NoMergeCycle` holds because the consumed memory is live when
  it is merged: a circle would need a last one, merged into a memory that is
  merged already, and the version check excludes that. `IndexIsCurrent` is
  inductive with the rest: whoever marks all entries stale writes one of the
  text it gives the memory in the same transaction, and the rebuilds, which do
  not, either write what the memory says (`RebuildWrites`) or put it in
  `misbuilt`.

Only model-checked: what a violation run shows, and everything with fairness
(`LeaderReturns`, `Settles`, `VerdictIsExecuted`); liveness and `ENABLED` are
outside what the prover handles. The refinements are of the safety parts. Every
other property of a run has a theorem. `FreshLeaderOwnsKey`,
`SizedLeaseIsExclusive`, `FinalIsFinal` and `ReplaysOnce` are proved and no longer
asked of a run: `KeyMatchesRenewal` (in `IInv`), `ActiveOwnsKey`, `RunHasOneLife`
and `VerdictsTakeEffectOnce` say more.

## 7. Where code and documents disagree

With a run that shows it (see `findings` in `PROJECT.json`):

1. `review_schema`: the replay writes `events.updated_at`, which no migration
   creates. Approving the replay of a dead letter therefore fails in the request
   and in each delivery of its event.
2. `memory_rewind`: a smart merge that is overtaken by another one sets
   `current_version` back. The numbers after it are taken, and every edit,
   expiry and deletion of the memory fails until another smart merge happens to
   jump over them.

Seen while modelling, without a run of their own.

Outbox, reviews and gateway:

- `gateway/call.py:14` ends every call with "Commit/release budget"; an answer
  that is not JSON, a protocol error or a database error ends in the catch-all
  (`call.py:326-345`), which leaves the reservation as it is for ever.
- `db/budget.py:362` asks "whether a call is within all matching budget limits";
  the check counts committed calls only and locks nothing, so calls side by side
  overrun the limit. By how many is `OverrunIsBounded`.
- `worker/poller.py:111` says that several workers can poll in parallel; they
  depend on the lease. The claim lock ends at the commit, and the recovery sweep
  of another worker can reset an event that is being dispatched or is done.
- The consistency design (`doc/一致性设计.md:28-34`) wants a change, its audit
  row and its event in one transaction; a verdict commits by itself
  (`db/review_items.py:309-332`) and its event in a second one, so a crash in
  between leaves a verdict that nobody is told of.
- `worker/poller.py:126` promises the oldest first; `UPDATE ... RETURNING` gives
  no order. The model takes any order, so nothing here depends on it.
- `worker/recovery_sweeper.py:16` says it uses `FOR UPDATE SKIP LOCKED`; it does
  not, and it measures age from `committed_at`.
- `db/dead_letters.py:224` rules out two reviews of one dead letter;
  `POST /review/items` can create a second. `ReplaysOnce` and
  `ReplayNeedsApproval` hold even so.
- `tests/test_gateway_call.py:192` calls `succeeded` and `denied` terminal; the
  catch-all can overwrite both with `failed` after a database error.
- `worker/review_timeout_checker.py:145` passes the payload of `review.expired`
  as a Python dict to a statement that does not type it, so that the insert
  fails, is counted as an error, and the item expires without an event. No
  consumer does anything with the event, so the model leaves it out.

Pipeline runs:

- `db/pipelines.py:51` calls `failed` to `pending` a "manual retry". Nothing
  picks such a run up: its event is acknowledged or dead, and a replay of it
  fails on the unique `job_key` of the job that exists already.
- The consumer has a branch for other pipeline types; `create_job` refuses their
  `job_type` (CHECK of `jobs`), so the branch is never reached.
- Cancelling a run that is running leaves its job `running` and its processing
  job `processing`, and the orchestrator goes on.
- An error in the last step of the import is swallowed (`db/pipelines.py:984`):
  the run succeeds and the asset stays `importing`, and every later run of it
  fails. A crash in the middle of an import has the same effect.
- An upload that is a duplicate creates a processing job without a run; it stays
  `queued`.

Uploads:

- `storage/promote.py:111` says that the database transaction was rolled back
  when `rollback_promote` is called. Each row is committed by then
  (`db/assets.py:2022`), so an error after the move leaves an asset without its
  file, and later uploads of the content are answered as duplicates of it. This
  is why `DuplicateIsKept` leaves out assets that a fault has hit.
- The callback that reports a duplicate raises before the staged file would be
  deleted, and `_cleanup_staging_dir` has no callers, so staged files of
  duplicates stay.
- The endpoints and the lookup take an upload without a project, but its inbox item needs one (`schemas/storage.py:167`,
  `db/inbox.py:410`), so it fails with its file staged.
- `change_asset_status` knows the trash (`deleted`), and the CHECK of migration
  0026 (`0026_project_backends_and_related.py:224-230`) has narrowed the status to
  active and archived, so the change to it always fails.

Memories:

- A smart merge replaces the text of an edit that came in between
  (`AtomicMemory!Reword` allows it any text for that reason), and a merge of
  several memories at once reports success for all and merges the first: all
  have the same idempotency key (`db/memories.py:1130`).
- `rebuild-fts` and `rebuild-vector` read and write in a transaction that locks
  nothing, the second with a call of the embedding model before its commit
  (`api/routes/memory/memory_index.py:212-259, 271-334`). An edit in between
  leaves the old text ready next to the new one, or instead of it; two rebuilds
  at the same time can leave everything stale. `rebuild-fts` of an entry makes
  whatever text the entry has ready again, while the docstring
  (`memory_index.py:178-180`) says that the text comes from the live memory. All
  of them take an `index_text` from the caller. `IndexIsCurrent` records such
  memories in `misbuilt`; their next edit puts them right.
- `approve_memory`, `reject_memory` and their batches write the actions `approve`
  and `reject`, which the CHECK on `memory_versions.action` refuses.
- `delete_memory` takes a merged memory as well, and `restore_memory` then makes
  it active again although its text is in another one.
- `activate_memory` does not look at the status of the candidate.

Extraction of memories (not modelled):

- `memory_consumer.py` calls `create_pipeline_run` without its context, a
  TypeError. Were it called right, all candidates of an extraction would share
  one idempotency key (`db/memory_candidates.py`) and only the first be stored.
- The endpoints that approve and reject candidates
  (`api/routes/memory/memory_candidates.py:189-275`) never commit.

## 8. Left out

- Outbox: the LIMIT of the sweeps (they may pick any subset instead), the exact
  backoff, `failure_class`, audit rows.
- Reviews: targets other than dead letters (nothing follows their verdict but
  rows that nobody reads, except the confirmation of a restore), the events
  `created`, `claimed`, `expired` and `batch_*` (the consumer does nothing with
  them, or does not take them), and dead letters of review events themselves.
- Gateway: five of the six kinds of limit, which the same query compares; the
  resolution of bindings, the access log of the vault, and the call states that
  `_execute` never sets (`cancelled`, `dead_letter`).
- Pipeline runs: definitions of pipelines and the reading endpoints, `skip` steps
  of the import, the contents of documents, retries of jobs by users.
- Uploads: assets made without a file, those of the bulk import
  (`import_v2.py`) among them, edits of their metadata, the items that the
  watcher and the import tool insert directly, cold storage.
- Memories: titles, sensitivity and scores (`update_quality_score` has no
  callers; decay and emotion change no version), relations other than
  `merged_into`, embeddings, and approval and rejection, which always fail.
- Extraction: it cannot get to its candidates in this commit (see 7).
- Event log: nobody appends.
- Clocks: the lease uses one tick for Redis and the workers; drift between them
  is part of `MaxIter`.

## 9. Plan

Done: the worker (lease, outbox and both together), reviews, gateway, pipeline
runs, uploads, memories, each proved; abstract specifications of the outbox, the
reviews, the pipeline runs and the memories, each implemented. What would come
next:

1. An abstract specification of the gateway (a call with its cost, made or not)
   and of the uploads (a content with its file), and the refinements.
2. `PipelineRun` over `Outbox` in place of `EventLifecycle`, as `Dispatch` is
   over `Lease`.
3. `MemoryExtract`, once the consumer gets to its candidates.
4. The restore drill: backup, verification and live restore with its review.
