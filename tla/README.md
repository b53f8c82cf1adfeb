# Jobby: a TLA+ model of the job pipeline

Jobby accepts jobs over HTTP, stores each of them as a document in MongoDB, publishes it to a
Pulsar topic and runs a registered handler for it. Three long-running processes cooperate through
nothing but the `job_metadata` collection and the topic. This directory models those processes,
checks them with TLC and proves part of what is checked with TLAPS.

## 1. Inventory

| Part (source) | State it keeps | Operations | Hard behaviour | What makes it correct |
|---|---|---|---|---|
| Status vocabulary (`internal/jobs/metadata/interface.go`, `model.go`) | `dispatchStatus`, `executionStatus`, the display alias `status`, timestamps, `retryCount`, `dispatchAttempts`, `errors` | `NewJobMetadata`, `Validate`, `CanTransitionTo`, `DisplayStatus` | two owners move two fields of one document; `status` is written by both | the sub-states move along `CanTransitionTo`, each by its owner; stored documents stay valid |
| Store writer (`mongodb/mongo_writer.go`) | the collection | one `UpdateOne` per call, conditional on one status field or on the id alone | a call that fails may have been applied | a filter that does not match changes nothing |
| Queries (`mongodb/mongo_reader.go`, `mongo_queries.go`, `GetJobStats`) | none | list with limit and skip, count, stats by display status | the status filter names one pair of sub-states; pages and stats are several queries over jobs that move | a status query finds every job that has the status; pages and stats leave no job out that was there all along |
| Metadata service (`service/metadata_service.go`, `enqueue_service.go`) | none | `CreateJob`, `MarkJobDispatched`, `RecordDispatchAttempt`, `MarkJobDispatchFailed`, `StartJob`, `CompleteJob`, `FailJob`, `CancelJob`, `RetryJob` | read, decide, write in separate calls; `RetryJob` is three writes | terminal states are final; a retry is counted before it is granted |
| Dispatch worker (`dispatch/handler.go`, `worker.go`, `mongodb/pending.go`) | the batch it fetched, the projection it works on | `HandleDispatch`, `pollOnce` | two goroutines handle the same job on stale projections; crash between publish and confirm | at-least-once publish; no job forgotten; given up exactly after `MaxAttempts` errors |
| Change stream (`mongodb/stream.go`, `resume_token.go`) | cursor, resume token on disk and its temporary file | `Run`, `runOnce`, `Save`, `Load` | crash before, between and after the steps of `Save`; stream opened without a token; a token the server refuses | replays, never silent loss; the file is always readable; the stream comes back |
| Dispatcher process (`dispatchruntime`, `cmd/jobs-dispatcher`) | the clients it owns, two goroutines, one context | `New`, `Run`, `Close` | death, signal and restart at any point; `Run` does not wait for the stream goroutine | only the token survives; a cancelled process ends; nobody at work meets a closed client |
| Producer (`pulsar/producer.go`, `client.go`, `dispatch_publisher.go`) | a producer per topic under a mutex, the producers tracked for `Close` | `Publish`, `producerForTopic`, both `Close` | `Send` times out though the message was stored; two goroutines meet a new topic; `Close` against a publish under way | an error never means "not published"; one producer a topic, known to `Close` |
| Consumer (`pulsar/consumer.go`, `cmd/jobs-executor`) | its subscriptions, a loop for each, one context | `NewPulsarJobConsumer`, `Run`, `consumeLoop`, `handleMessage`, `Close` | redelivery, lost acks; SIGTERM cancels the calls of the handlers it waits for | every message is settled, and while its subscription is open; a job not started keeps its message |
| Executor (`executor/service.go`, `registry.go`) | none | `ExecuteJob`, `Run` | duplicate messages on several executors, crash while running | one run per claim; completion implies success |
| HTTP API and CLI (`http/jobs_handler.go`, `cmd/jobs-server`, `cmd/jobs-cli`) | none | the service calls above | concurrent requests, request dies between two writes | as for the service |
| Topic resolver, configuration, migrations, seed generator | files, indexes | start-up work | none | not modelled |

How they interact: `CreateJob` inserts a document. The insert event reaches the dispatcher's stream
goroutine; its poll loop finds the same document by query. Both call `HandleDispatch`, which
publishes and then confirms (or counts the failed attempt). A message wakes an executor loop, which
claims the document, runs the handler and writes the outcome, then acks or nacks. API clients
cancel, fail and retry whatever document they like at any time.

The hazards this gives rise to are listed in `PROJECT.json`, each at its line with the properties
that watch it.

## 2. Modules

```
JobStatus ── JobStore ──┬── Broker ──┬── Dispatcher ─────┐
    │                   │            ├── Executor ──┬────┼── Jobby ── RetryHistory
    │                   │            │              └── ExecutorProcess
    │                   ├── JobApi ──┼───────────────────┘
    │                   └── JobQueries
    └── JobLifecycle (abstract, of Jobby)
DispatchSaga (abstract, of Dispatcher) ── RetriedSaga (abstract, of RetryHistory)
DispatcherProcess (on its own)
```

* `JobStatus`: the enumerations, the two `CanTransitionTo` relations, `DisplayStatus`,
  `StatusToSubFields`.
* `JobStore`: `jobs`, the collection. Each write of `MongoJobsWriter` is an operator from document
  to document with its filter inside; a miss returns the document unchanged. `Write` is one answered
  call, `WriteFails` an error whose write may have been applied, `CallFails` a failed read or broker
  call. `Validate` is `JobMetadataModel.Validate` on the fields kept.
* `Broker`: the topic as the number of deliverable messages of each job (Shared subscription,
  no order, equal payloads). External: modelled from how `pulsar/` uses it.
* `Dispatcher`: `CreateJob`; `HandleDispatch` as one action per external call (`PublishOK`,
  `PublishError`, `MarkJobDispatched`, `RecordDispatchAttempt`, `MarkJobDispatchFailed`), run by the
  goroutines `"stream"` and `"poll"` on the projection in `call[g]`; `StreamOpen`, `StreamNext`,
  `SaveToken`, `StreamError`; `PollFetch`, `PollNext`; `DispatcherCrash`, which keeps only `token`.
* `Executor`: the consumer loops. `Receive`, `StartJob` (the claim), `RunHandler`, `CompleteJob` and
  `CompleteMiss` (its second read), `FailJobRead` and `FailJobWrite` (which also serve the rejected
  jobs), `WorkerKilled`. Ack and nack are part of the last step of the call.
  Checked on its own, the component has clients that cancel and fail jobs in one step (`ClientWrites`).
* `ExecutorProcess`, around `Executor`: `cmd/jobs-executor` from its first subscription to its exit.
  `Subscribe`, `SubscribeFails`, `StartLoops`; the loop of each subscription (`CheckContext`,
  `ReceiveMessage`, `ReceiveError`, `HandleMessage`, which is one step of `ExecuteJob`); `Signal`, and
  then `RunSeesCancel`, `RunReturns` and the deferred calls; `Restart`. Under the cancelled context
  every store call fails (`CancelledCall`), applied or not.
* `DispatcherProcess`: `cmd/jobs-dispatcher` as a process. `PulsarJobProducer.Publish` step by step for
  either goroutine (`Lookup` under the mutex, `CreateProducer`, `ProducerCreated`, `Track`, `Send` and
  the errors); the reconnect loop of the stream and `Save` step by step; the poll loop with its batch;
  `CloseProducer`, `ClosePulsar`, `CloseTracked`, `CloseClient`, `Disconnect`; `Signal`, `Crash`,
  `NewFails`, `Restart`; `TokenExpires`. Of a job it keeps the topic: what `HandleDispatch` writes is
  `Dispatcher`'s.
* `JobApi`: `CancelJob`, `FailJob`, `RetryJob` as reads and writes of concurrent clients.
* `Jobby`: the three components around one collection and one topic.
* `JobQueries`: the readers that need more than one query, over writes of `JobStore` that come on any
  job at any time: a client that pages through `ListJobs` (`ListBegin`, one `ListPage` a request), and
  `GetJobStats` (`StatsBegin`, one `StatsCount` a status).
* `DispatchSaga`: what `docs/architecture/job-saga.md` promises of persist, publish, confirm:
  a job is confirmed once, as `dispatched` only after a publish, as `dispatch_failed` only after
  `MaxAttempts` failed publishes.
* `RetryHistory`: `Jobby` with a memory of what happened to each job since it was created or last
  reset: its messages (`sent`), its publish errors (`errors`), whether a goroutine was about to confirm
  it at that reset (`overtaken`), whether one had read its attempts before it (`stale`). No step depends
  on the four.
* `RetriedSaga`: `DispatchSaga` with the reset of `RetryJob` (`Reopen`), after which no message sent and
  no error met before counts. An attempt under way at the reset may still end the new dispatch on the
  strength of the old one (`EndLate`).
* `JobLifecycle`: the two sub-states of a job, each moving along its `CanTransitionTo`, and
  `RetryJob` alone taking a failed job back to the start.
* `MCDispatcher`, `MCExecutor`, `MCExecutorProcess`, `MCDispatcherProcess`, `MCJobby`, `MCRetryHistory`,
  `MCQueries`: sets, symmetry and a view for TLC.
* `JobStoreProofs`, `DispatcherProofs`, `DispatcherProcessProofs`, `ExecutorProofs`,
  `ExecutorProcessProofs`, `JobbyProofs`, `RefinementProofs`, `QueryProofs`: theorems.

### Abstractions

* Names, payloads, tags, priority, topic, the `metadata` field, log entries, `dispatchedAt`,
  `dispatchLastError` influence no transition and are left out. `Enqueue` always sets a topic, so the
  missing-topic branches of `HandleDispatch` and of the stream are not reachable from it. A timestamp
  is whether it is set; the `errors` array is the set of error types in it.
* Jobs are numbered by `createdAt`; they may be inserted in any order. `JobQueries`, where the order of
  a listing matters, gives every job any `createdAt`, shared ones included, and lets a query return
  jobs with one `createdAt` in any order.
* `JobQueries` drops the checks that the other processes make before they write (`CancelJob`,
  `RetryJob`), so it allows more moves than the system makes; what holds there holds of the system.
  Names, tags, priority and `createdAt` filters select on fields that no write of the model changes.
* A store call is atomic (one document). An error of a call may come before or after its effect.
  A request or a goroutine whose context is cancelled, or whose server dies, between two calls behaves
  as one whose next call fails; that is how API crashes are covered.
* Nothing happens between the return of `ExecuteJob` and `Ack`, so they are one step. A lost ack
  (`AckLost`) puts the message back, which is also what a crash between the two does.
* In `Dispatcher` the resume token is the index of its event and `Save` is one step; in
  `DispatcherProcess` it is a file that is absent, torn or whole, and `Save` is three. A token that the
  server refuses makes the stream fail for ever, which is for `Dispatcher` the system with
  `Goroutines = {"poll"}`, the form in which most composed runs check it.
* In `ExecutorProcess` the store and the broker are healthy and the cancelled context alone makes calls
  fail; in `Executor` calls fail and workers die at any time, and no one shuts down. Any loop may
  receive the message of any job: a deployment with several replicas, or one topic, is covered.
* A goroutine whose client is nil panics (`CreatePanics`), and a panic ends the process. Reading
  `c.client` without the mutex is a data race with `Close`: the read sees the client or nil.
* `published`, `pubErrors`, `unseen`, `runs`, `succeeded`, `abandoned` are history variables: no
  guard reads them, except that `pubErrors` carries the bound on publish errors.
* `abandoned` marks a job whose message was settled, or whose run died, while the worker did not know
  an outcome to be written. `ExecuteJob` acks after a failed `FailJob`, and a redelivered message
  after a claim is a duplicate, so these are the jobs that the code can leave `running`. A job that no
  handler accepts never runs: it is `abandoned` when its `FailJob` failed, at the read, before the
  write or after it, and the message was acked all the same (`RejectionLost`).

## 3. Runs

| Run | Question | Instance | States |
|---|---|---|---|
| `dispatcher` | Does the dispatcher implement the saga, are attempt counts and the token sound, is every job picked up? | 2 jobs, both goroutines, batch of 1, 2 attempts, 2 publish errors a job, 1 failed call, 1 outage | 509 000 |
| `dispatcher_process` | Do two goroutines share one producer a topic, is the token file always readable, does the stream come back, does every step of a cancelled process bring it nearer to its end? | 2 topics, batches of up to 2, 3 producers, 2 exits (crash, panic or signal) | 50 000 |
| `executor` | One run per claim, completion only after success, owner of a running job, no message redelivered without a fault, every message settled? | 2 jobs (1 accepted, 1 rejected), 1 or 2 messages each, 2 workers, clients cancelling and failing, 2 failed calls, 1 kill | 65 000 |
| `executor_process` | What does SIGTERM at any step of `ExecuteJob` close, lose, put off or leave hanging? | 2 jobs, 2 workers, 2 exits, at most 4 failed calls | 485 000 |
| `jobby_runs` | Do runs stay paid for when requests race with each other and with the workers, and which reset loses a job? | 1 job, 2 workers, 2 clients making any call, `MaxRetries` 1, 1 failed call, 1 kill | 2 320 000 |
| `jobby_lifecycle` | Do the stored sub-states move along `CanTransitionTo`, each by its owner, and does the dispatcher earn every outcome anew after a reset? | 1 job, both goroutines, 2 workers, 1 client failing and retrying, 1 publish error, 1 failed call | 1 600 000 |
| `jobby_ends` | Is a dispatched job always on its way, every document valid, every message accounted for, every job finished? | 1 job, both goroutines, 2 workers, 1 client cancelling and failing, 1 publish error, 1 failed call, 1 kill | 311 000 |
| `queries` | Does paging, or `GetJobStats`, miss a job that is there all the time? | 3 jobs, `createdAt` of 1 or 2 each, confirmed and retried, pages of 1, 2 or all, both orders, with and without a filter, 1 failed call | 1 664 000 |

Why the bounds are enough for the questions. Two jobs and a batch of one make the poll's limit and
order matter; two attempts and two errors reach the give-up and the attempt before it; one outage
places a crash between any two steps of `HandleDispatch`, or a reopened stream with or without a
token. Two workers and two messages are a duplicate delivery in flight; one kill is the redelivery of
a claimed job; two clients are a race of two `RetryJob` or of `RetryJob` with `CancelJob`. Jobs
interact only through the poll batch and the workers, which the two-job component runs have; the
composed runs therefore use one job. Two topics and both goroutines are a meeting on one topic and a
publish to another while the mutex is held; three producers are one for each topic and one that a
race would add (`MaxProducers` bounds the producers of one process, `MaxBatch` the projections of one
poll). Two exits (`MaxExits`) are a first process that dies or is told to stop anywhere and a second
one that meets what it left and is told to stop as well. `MaxRetries` bounds the check of `RetryJob`
(two requests may still both pass it), `MaxFaults`, `MaxOutages`, `MaxKills` and `MaxPublishErrors`
bound failures; no other counter needs one. Deadlock is checked in `queries`, whose client may always
begin again. Elsewhere it is not: with the bounds spent, every job finished and no request under way
the system really has nothing to do. `jobby_runs` and `jobby_lifecycle` use symmetry of workers and of
clients: what they check is an invariant or an initial predicate with a step relation, names no worker
and no client, and needs no liveness. `jobby_lifecycle` identifies states that agree on `ReadVars`: it
leaves out `published`, `runs`, `succeeded`, `abandoned` and `unseen`, which no guard, no change of
another variable and no refinement mapping depends on (of `published` only whether a step raises it).

### Properties

* `ImplementsSaga`: the refinement of `DispatchSaga` by the dispatcher.
* `ImplementsRetriedSaga`: the dispatcher, among executors and clients, refines `RetriedSaga`: after a
  reset a confirm needs a message published since, and a give-up `MaxAttempts` errors since. The
  exceptions are the attempts under way at the reset: a goroutine between publish and confirm, and one
  that holds a projection with the old attempts. Without either exception TLC finds a counterexample:
  the first is `jobby_lost_retry`, the second a retried job given up at once.
* `RetriedInFlight`: how far that loss reaches. A job that was reset, and dispatched again without a
  message on its way, was about to be confirmed at its last reset, with nothing published since. No
  other interleaving of retries, double resets included, loses a job.
* `AttemptsNeverOverstated`: stale counts written by either goroutine never exceed the errors seen.
* `TokenNeverAhead`: the token on disk is never past an event that nobody tried to publish.
* `NoJobForgotten` (liveness): a created job leaves `pending_dispatch` or uses up its attempts, though
  the stream may skip it and older jobs may fill the batch.
* `ProducersKnown`: until `Run` returns, the open, the cached and the tracked producers agree: two
  goroutines that meet a new topic share one producer, and `Close` will find it.
* `TokenFileReadable`: wherever in `Save` the process dies, the token on file can be decoded.
* `NilClientOnlyForLateStream`: only the stream goroutine of a cancelled process, for which `Run` does
  not wait, can publish after `Close` has set the client to nil.
* `StreamRecovers` (liveness): the change stream is open again and again, unless the server refuses
  the token on file or the process is told to stop.
* `ShutdownCompletes` (liveness, of both processes): a cancelled process exits. No goroutine keeps the
  mutex that `Close` needs, no consumer loop misses the cancelled context.
* `ShutdownAdvances` (action property, of both processes): the variant behind it. Each step of a
  cancelled executor process reduces the steps that `main` and its loops have left, and none adds to
  them; in the dispatcher each step of `main` does, whatever the stream goroutine, for which `Run` does
  not wait, does meanwhile. No loop takes another message or batch, no failed call is tried again.
* `RunsCounted`: handler runs of a job are at most 1 + `retryCount`.
* `CompletedAfterSuccess`: a completed job has a run whose handler returned nil, though not necessarily
  its last run: an earlier success vouches for a job that was retried.
* `RunningHasOwner`: a running job has a worker that owes it an outcome, unless it is `abandoned`.
* `RedeliveredAfterFault` (action property): only a failed call or a death puts a message back. That
  `CompleteJob` finds the job cancelled or failed by a client does not: `isTerminalConflict` acks.
* `EveryMessageSettles` (liveness): in the end no message is left in the topic, and every job is
  terminal or `abandoned`.
* `HandledWhileOpen`: nothing is closed under a message in hand, whenever SIGTERM comes.
* `NotStartedHasMessage`: shutdowns, cancelled calls and duplicates never lose the last message of a
  job that has not started, except of one that no handler accepts and whose `FailJob` failed, at its
  read or at its write: `ExecuteJob` acks that message nevertheless (`executor/service.go:34-56`).
* `ImplementsLifecycle`: the refinement of `JobLifecycle` by the whole system. It is checked with one
  client that does not cancel; with a cancelling client the run `jobby_cancel_race` breaks it, and
  with two retrying clients the double reset does.
* `TerminalIsFinal`: a terminal execution status is left by the retry of a failed job only. It follows
  from `ImplementsLifecycle` where that holds; with a cancelling client it is what
  `jobby_cancel_race` breaks.
* `DispatchedInFlight`: without retries, a dispatched job that has not started has a message on its way,
  with the same exception as `NotStartedHasMessage`. It cannot arise in `jobby_ends`, whose job is
  accepted, and is needed by the theorem, which speaks of any jobs.
* `MessagesAccounted` (action property): in the whole system the topic grows only by a publish, a failed
  call or a death. With retries it would not hold: a worker whose job was reset under its handler nacks
  the message, because `not_started` is no terminal conflict.
* `DocumentsValid`: `Validate` holds of every stored document although only `CreateJob` calls it.
* `EveryJobEnds` (liveness): every job reaches a terminal state or `dispatch_failed`, except where the
  code cannot get it there: it is `abandoned`, or it used up its attempts and the dispatcher died
  before `MarkJobDispatchFailed`.
* `PagesMissNothing`: a job slips between two pages only if another job left the filter meanwhile, or
  if it shares its `createdAt`. Both exceptions are needed: without either, TLC finds the job missed.
  Inserts may repeat jobs, never hide one. Three jobs are a tie, a page boundary inside it, and one more.
* `StatsMissNobody`: the seven counts follow the order in which jobs move, so a job that stays listable
  and is not retried is counted at least once (and perhaps twice: `Total` may exceed the jobs).
  The run has two of the statuses at work, the proof all seven and every write.

### Fairness

The poll loop is weakly fair: `runPoll` polls at start and on every tick for as long as the process
lives, and `compose.yml:130` restarts it when it dies. A worker is weakly fair: `consumeLoop` receives
in a loop, handlers are assumed to return, and `compose.yml:149` restarts executors. Nothing is
assumed of clients or of the arrival of jobs. Failures are finitely many.

In the two processes `main` and the goroutines are weakly fair, as the Go scheduler is, and so is
`Restart`, by the same restart policy. `Receive` returns with a message or with the error of a done
context, so one of the two happens; outside a shutdown an error is never forced. Two goroutines and
`Close` compete for the producer's `sync.Mutex`, which hands itself to a waiter that starves: taking it
(`Lookup`, `CloseProducer`) is strongly fair. `StreamOpen` is strongly fair: a server that knows the
token lets `Watch` succeed in the end. No fairness makes a refused token good again.

### What the code does that its documents do not say

Each of these is a run with `expect: violation`.

* `jobby_lost_retry`: the confirm of an earlier publish can reach a job that was failed and retried
  meanwhile; the retried job becomes `dispatched` with nothing published, and is never picked up.
* `jobby_cancel_race`: `CancelJob` overwrites an outcome written after its read.
* `jobby_stale_status`: `MarkDispatchedIfPending` after a fast execution leaves `status` at
  `dispatched` next to `executionStatus: completed`; a client that polls `status` waits for ever.
* `executor_shutdown`: a handler that returns after SIGTERM cannot record its outcome, because
  `ExecuteJob` writes it with the cancelled context (`executor/service.go:78`, `:89`); the next process
  acks the redelivered message as a duplicate, and the job stays `running`.

Also seen while modelling, without a run of their own:

* A job without a handler whose `FailJob` fails, even at its read, with nothing written, is acked and
  stays `not_started` for good (`executor/service.go:34-56`); a shutdown is enough to make it fail.
* A goroutine that fetched a job with its attempts used up but for one, before the job was failed and
  retried, gives the retried job up after one error (the exception `stale`).
* A run that outlives the reset of its job can complete it for another run that has claimed it since:
  the filter of `CompleteIfRunning` knows no runs. No property here catches it.
* A job that starts before its confirm, or after `dispatch_failed`, is displayed as running and found
  by no status query.
* Dying between the last `RecordDispatchAttempt` and `MarkJobDispatchFailed` leaves the job
  `pending_dispatch` where no poll looks (the exception of `EveryJobEnds`).
* The redelivered message of a dead worker is acked as a duplicate and the job stays `running`
  (`abandoned`).
* The stream goroutine for which `Run` does not wait can look its producer up after `Close`, and
  then calls a nil client: `pulsar/client.go:36` reads what `:87` has set (`CreatePanics`).
* A resume token that the server refuses is never dropped: `Watch` fails with it for ever, in a loop
  without back-off, in every later process too. The poll loop still picks every job up.
* A second `RetryJob` that read `failed` early resets a job that was retried and completed in between.
* A `RetryJob` whose reset was picked up at once clears the `startedAt` of the new run, so that
  `DocumentsValid` fails with `Calls` set to fail and retry.
* `MarkDispatchFailedIfPending` always notes `retryAttempt` 0.
* A handler with an old projection sets `dispatchAttempts` back, so that a job may be tried more often
  than `MaxAttempts`.
* `GetDispatchedJobs`, documented as the jobs that await pickup, would return running and finished
  jobs as well, but has no caller.

## 4. Proofs

TLAPS proves, for every value of the constants that satisfies the modules' named assumptions
(`JobStoreAssumption`, `DispatcherAssumption`, `ExecutorAssumption`, `JobApiAssumption`,
`JobQueriesAssumption`, `ProcessAssumption`, `DispatcherProcessAssumption`: bounds are naturals,
`NoJob` is no job, at least one attempt, a batch of at least one, finitely many clients and workers,
and for the executor process enough failed calls for every loop of every cancelled process):

| Theorem (module) | Statement |
|---|---|
| `FilteredWritesIdempotent` (`JobStoreProofs`) | each filtered status write made twice is that write made once |
| `OwnersCommute` (`JobStoreProofs`) | the dispatcher's writes and the executors' writes on one document commute on every field but `status` |
| `StatusQueriesAgree` (`JobStoreProofs`) | `StatusToSubFields` finds a job under no status but its `DisplayStatus`, and misses it exactly if it started before its confirm |
| `DispatcherTypeCorrect` (`DispatcherProofs`) | `DispatcherSpec => []DispatcherTypeOK` |
| `AttemptsCorrect` (`DispatcherProofs`) | `DispatcherSpec => []AttemptsNeverOverstated` |
| `TokenCorrect` (`DispatcherProofs`) | `DispatcherSpec => []TokenNeverAhead` |
| `BatchOfOldest` (`DispatcherProofs`) | the batch of `ListPendingDispatch`, of any pending jobs and any limit: no larger than the limit, full or complete, never with a job younger than one it leaves out, and with the oldest |
| `DispatcherImplementsSaga` (`RefinementProofs`) | `DispatcherSpec => ImplementsSaga` |
| `SystemImplementsRetriedSaga` (`RefinementProofs`) | `HistorySpec => ImplementsRetriedSaga` |
| `RetriedInFlightCorrect` (`RefinementProofs`) | `HistorySpec => []RetriedInFlight` |
| `SystemImplementsSaga` (`RefinementProofs`) | if no client retries, `Spec => ImplementsSaga` |
| `DispatcherProcessTypeCorrect`, `ProducersKnownCorrect`, `NilClientCorrect`, `TokenFileCorrect` (`DispatcherProcessProofs`) | `ProcessSpec => []I` for `I` each of `ProcessTypeOK`, `ProducersKnown`, `NilClientOnlyForLateStream`, `TokenFileReadable` |
| `ShutdownAdvancesCorrect` (`DispatcherProcessProofs`, `ExecutorProcessProofs`) | `ProcessSpec => ShutdownAdvances`, of each process |
| `ExecutorTypeCorrect`, `RunsCorrect`, `CompletionCorrect`, `OwnerCorrect` (`ExecutorProofs`) | `ExecutorSpec => []I` for `I` each of `ExecutorTypeOK`, `RunsCounted`, `CompletedAfterSuccess`, `RunningHasOwner` |
| `RedeliveryCorrect` (`ExecutorProofs`) | `ExecutorSpec => RedeliveredAfterFault` |
| `ProcessImplementsExecutor` (`ExecutorProcessProofs`) | `ProcessSpec => ExecutorSpec` |
| `ProcessKeepsExecutors` (`ExecutorProcessProofs`) | `ProcessSpec => /\ [](RunsCounted /\ CompletedAfterSuccess /\ RunningHasOwner) /\ RedeliveredAfterFault` |
| `ProcessTypeCorrect`, `HandledWhileOpenCorrect`, `MessageKept` (`ExecutorProcessProofs`) | `ProcessSpec => []I` for `I` each of `ProcessTypeOK`, `HandledWhileOpen`, `NotStartedHasMessage` |
| `SystemTypeCorrect`, `SystemRunsCorrect`, `SystemCompletionCorrect`, `SystemOwnerCorrect`, `SystemAttemptsCorrect`, `SystemTokenCorrect` (`JobbyProofs`) | `Spec => []I` for `I` each of `TypeOK`, `RunsCounted`, `CompletedAfterSuccess`, `RunningHasOwner`, `AttemptsNeverOverstated`, `TokenNeverAhead` |
| `DispatchedInFlightCorrect`, `DocumentsValidCorrect` (`JobbyProofs`) | if no client retries, `Spec => []I` for `I` each of `DispatchedInFlight`, `DocumentsValid` |
| `MessagesAccountedCorrect` (`JobbyProofs`) | if no client retries, `Spec => MessagesAccounted` |
| `QuietIsSettled` (`JobbyProofs`) | if no client retries, `Spec => [](Quiet => NoneWaiting)`: with an empty topic and idle workers, every dispatched job is terminal or `abandoned` |
| `SystemImplementsLifecycle`, `SystemTerminalIsFinal` (`RefinementProofs`) | if no client cancels, and clients retry only where there is a single one of them, `Spec => ImplementsLifecycle` and `Spec => TerminalIsFinal` |
| `QueryTypeCorrect`, `PagesCorrect`, `StatsCorrect` (`QueryProofs`) | `QuerySpec => []I` for `I` each of `QueryTypeOK`, `PagesMissNothing`, `StatsMissNobody` |

The extra assumptions of the composition are needed: `jobby_lost_retry` is a retry that breaks
`DispatchedInFlight`, `jobby_cancel_race` a cancel that makes an outcome not final, and two retrying
clients leave the lifecycle by a double reset. `RetriedInFlightCorrect` and `SystemImplementsRetriedSaga` allow
all of these and say what is left. The theorems state how far the findings reach: without
cancels and overlapping retries a terminal status is final, and without retries the saga, the messages
in flight and the documents are as the documents of the repository say.

The arguments:

* `JobStoreProofs` shows once that every write maps documents to documents and that a call, answered
  or not, keeps the collection typed (`WriteType`). The type invariants follow action by action.
* `AttemptsNeverOverstated` is stated over documents, fetched projections and calls at once, which
  makes it inductive on top of the type invariant.
* `TokenNeverAhead` is not inductive, because `SaveToken` saves the cursor's position. `TokenInv` adds
  that every event up to the cursor was handled or skipped, except the last while the goroutine still
  has it in hand.
* The saga refinement needs to know why a goroutine is at its program counter: `CallsJustified` says
  that one about to confirm has published and one about to give up has seen `MaxAttempts` errors (by
  `AttemptsNeverOverstated`). Then every step is a step of the saga or a stutter.
* `BatchOfOldest`: the jobs older than a job are finitely many, and their number, its rank, differs from
  job to job (`RankGrows`); the batch is the jobs of rank below the limit, so the rank maps it one to one
  into `0..(BatchSize - 1)`. A job left out that has no older one left out (`OldestExists`) has all its
  elders in the batch, which is then full.
* `ShutdownAdvances` needs the type invariant and the phases (a loop is where `main` says it can be);
  then each action is compared with the table of steps left. It holds of every behaviour; that the
  steps are taken is the fairness of `ShutdownCompletes`.
* `RedeliveredAfterFault`: the one nack without a failed call would be that of a completion which finds
  its job neither running nor terminal. `ClaimsStand` excludes it: a job with a worker past its claim
  has left `not_started`, one whose completion missed is terminal, and without a retry both stay so.
* `ExecInv` joins the executors' properties, and holds although clients cancel and fail jobs at any
  moment (`ClientWrites`): a job not yet claimed still holds one run it has not spent (`RunsPaid`); a
  worker about to complete has seen success (`SuccessSeen`); a running job is abandoned or some worker
  past its claim has not yet found its completion missing (`RunningOwned`), because such a worker may
  nack a job that others run; a message names a job of the collection (`MessagesOfJobs`).
* `ProcessImplementsExecutor` maps every step of the executor process to a step of `Executor` or to a
  stutter: a call under the cancelled context is a call that fails. What holds of `Executor` then holds
  of the process. `LoopsInsideRun` and `OpenInsideRun` say in which phase of `main` loops and clients
  exist; `HandledWhileOpen` follows, and `MessageKept` adds that a claimable job keeps a message in the
  topic or in hand through each step (`StaysOnItsWay`).
* In `DispatcherProcess`, `Phases` says which clients and goroutines exist in which phase of `main`, and
  `Producers` why the producers agree: the mutex is held exactly at the steps between a miss and
  its caching (`MutexByPc`), the miss stands meanwhile (`MissStands`), the new producer is in hand
  (`ToTrack`), and until the clients are closed everything cached is open (`CachedLive`).
  The token file needs one more fact: `Save` renames only a temporary file that is whole
  (`WholeRenamed`).
* `SystemRunsCorrect` counts credits (`RunsFunded`): the runs of a job, plus one while it can be
  claimed, plus the requests between the two writes of `RetryJob` (`Granted`), are at most
  1 + `retryCount`. The increment grants a credit, the reset turns it into a claimable job, the claim
  spends it; a request that dies in between lets it lapse. This covers retries that race.
* `TokenNeverAhead` and `AttemptsNeverOverstated` hold in the composition because no write of executors
  or clients raises a count or is an event (`OthersWrites`); a reset lowers the count to 0.
  `MessagesAccounted` follows from `ClaimsStand` as in the executors, `QuietIsSettled` from
  `DispatchedInFlight` and `RunningHasOwner` together.
* With retries what a goroutine knows is out of date after a reset, so `CallsJustified` is of no use
  there. `HistoryInv` says what it knows of the time since the reset: one about to confirm has sent a
  message since or its job is `overtaken` (`SendsCounted`); the attempts in the document, in a fetched
  projection and in a call are at most the errors since, unless the job is `stale` (`ErrorsCounted`); and
  a message sent since is on its way, or its job was claimed, ended or rejected (`SentOnItsWay`).
  `SystemImplementsRetriedSaga` and `RetriedInFlightCorrect` follow from it, without any assumption on
  clients. A step that is no reset keeps it as in the dispatcher; a reset starts all counts at zero and
  puts every job with an attempt under way among the exceptions (`ResetStep`).
* `FlightInv`, without retries, adds to `DispatchedInFlight` the goroutine about to confirm: it has
  published, so its job has a message on its way or has started.
* `LifecycleInv`: without a cancelling client no request is between the read and the write of a cancel
  (`NoCancelUnderWay`), and with one client that retries, or none, a job that is about to be reset is still
  failed (`ResetsFailed`), so that every write moves a sub-state along `CanTransitionTo`.
* `StatsMissNobody` speaks of the answer; `StatsInv` adds that while the call counts, a job it has not
  met is still ahead of it: the rank of its status in `StatOrder` is not below the next one to count.
  Every write but `RetryPatch` raises the rank or keeps it (`RankGrows`).
* `PagesMissNothing` speaks of the end of the listing; `PagesInv` adds that before it, a job not yet
  shown has not been skipped (`NotSkipped`): at least as many matching jobs sort before it as the next
  page skips. A query may return tied jobs in any order, but the place of a job with a `createdAt` of
  its own is the same in each of them: one behind the jobs ahead of it (`PlaceOfUnique`).

Only model-checked: the liveness properties `NoJobForgotten`, `EveryMessageSettles`, `EveryJobEnds`,
`StreamRecovers` and `ShutdownCompletes`, which need fairness and `ENABLED` and are out of the prover's
reach. What is proved of them is the safety part: `ShutdownAdvances` for `ShutdownCompletes`,
`BatchOfOldest` for the poll behind `NoJobForgotten`, `QuietIsSettled` for the end state of `EveryJobEnds`,
`RedeliveredAfterFault` for `EveryMessageSettles`.

## 5. Not modelled

* Configuration, HTTP binding and JSON, CLI output, the seed generator, the topic file lookup: start-up
  work or pure input and output.
* Migrations and index checks run once, before the processes start, and share no state with them but
  the collection's schema. Two remarks from reading them: migration 006 drops and recreates indexes in
  separate calls, and its directory's README lists the migrations up to 005 only.
* `GetLogs` filters, sorts and pages as `List` does and has no module of its own. Log entries are best
  effort and nothing that decides reads them.
* `SetStatus`, `AddError`, `JobStatus.CanTransitionTo` and `Delete` have no caller outside tests.

## 6. Plan

Built so far, in this order: `JobStatus`, `JobStore`, `Broker`, `Dispatcher` with `DispatchSaga`,
`Executor`, `JobApi`, `Jobby` with `JobLifecycle`, then the component proofs, `JobQueries` with its
proof, the two processes `ExecutorProcess` and `DispatcherProcess` with theirs, the proofs about the
composition, and the saga, the shutdown variants and the messages proved for all of them.

Left:

1. The mapping of service errors to HTTP status codes, as a table checked against the errors the
   service can return in each state.
2. `DispatcherProcess` composed with `Dispatcher`, so that a panic of the late stream goroutine or a
   publish cut off by `Close` meets the job's document, as `ExecutorProcess` does for the executor.
3. The migration that splits `status` into two sub-states, over the documents it may meet and with a
   crash between its calls.
4. Proofs: under which retries `DocumentsValid` and `MessagesAccounted` still hold, as
   `RetriedInFlight` says for the messages in flight.
