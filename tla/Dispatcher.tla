----------------------------- MODULE Dispatcher -----------------------------
(***************************************************************************)
(* cmd/jobs-dispatcher: the change-stream goroutine and the poll loop of   *)
(* one DispatchWorker, both running DispatchHandler.HandleDispatch on a    *)
(* projection of the job taken earlier, plus the API's persist step that   *)
(* feeds them.                                                             *)
(*                                                                         *)
(* HandleDispatch is a publish to Pulsar followed by one or two            *)
(* conditional writes.  Each of these calls is a step of its own, so the   *)
(* two goroutines, the executors and the API clients interleave between    *)
(* any two of them, and the process can die there.                         *)
(***************************************************************************)
EXTENDS Broker, Sequences, FiniteSets

CONSTANTS
  Goroutines,        \* triggers at work: "stream", "poll"; a change stream that
                     \* cannot be opened leaves the poll loop alone
  MaxAttempts,       \* DISPATCH_MAX_ATTEMPTS
  BatchSize,         \* DISPATCH_POLL_BATCH_SIZE
  PersistToken,      \* is DISPATCH_STREAM_MONGODB_RESUME_TOKEN_PATH set?
  MaxPublishErrors,  \* bound: publish calls of one job that return an error
  MaxOutages         \* bound: crashes of the process and cursor errors

ASSUME DispatcherAssumption ==
  /\ Goroutines \subseteq {"stream", "poll"}
  /\ MaxAttempts \in Nat \ {0}
  /\ BatchSize \in Nat \ {0}
  /\ PersistToken \in BOOLEAN
  /\ MaxPublishErrors \in Nat
  /\ MaxOutages \in Nat

VARIABLES
  events,      \* insert events of job_metadata, in oplog order
  cursor,      \* the change stream: is it open, and the last event delivered
  token,       \* index of the event whose resume token is on disk, 0 if none
  fetched,     \* projections of the current poll batch still to be handled
  call,        \* the HandleDispatch call of each goroutine
  outages,     \* outages so far
  \* History: what the goroutines have done so far, read by properties only.
  published,   \* messages of each job that reached the topic
  pubErrors,   \* publish calls of each job that returned an error
  unseen       \* events the change stream skipped by opening after them

streamVars == <<events, cursor, token>>
historyVars == <<published, pubErrors, unseen>>
dispatcherVars == <<streamVars, fetched, call, outages, historyVars>>

\* JobDispatchProjection, the part the handler reads.
Projection == [job : Jobs, attempts : Nat]

CallPcs == {"idle", "publish", "confirm", "record", "giveup", "save"}

NoCall == [pc |-> "idle", job |-> NoJob, attempts |-> 0]

Closed == [open |-> FALSE, pos |-> 0]

DispatcherTypeOK ==
  /\ StoreTypeOK
  /\ BrokerTypeOK
  /\ events \in Seq(Jobs)
  /\ \A i \in 1..Len(events) : events[i] \in DOMAIN jobs
  /\ cursor \in [open : BOOLEAN, pos : 0..Len(events)]
  /\ token \in 0..Len(events)
  /\ fetched \subseteq Projection
  /\ \A p \in fetched : p.job \in DOMAIN jobs
  /\ call \in [Goroutines -> [pc : CallPcs, job : Jobs \cup {NoJob}, attempts : Nat]]
  /\ \A g \in Goroutines :
       call[g].pc \in {"publish", "confirm", "record", "giveup"} => call[g].job \in DOMAIN jobs
  /\ outages \in 0..MaxOutages
  /\ published \in [Jobs -> Nat]
  /\ pubErrors \in [Jobs -> Nat]
  /\ unseen \subseteq Nat

DispatcherInit ==
  /\ events = <<>>
  /\ cursor = Closed
  /\ token = 0
  /\ fetched = {}
  /\ call = [g \in Goroutines |-> NoCall]
  /\ outages = 0
  /\ published = [j \in Jobs |-> 0]
  /\ pubErrors = [j \in Jobs |-> 0]
  /\ unseen = {}

-----------------------------------------------------------------------------
(***************************************************************************)
(* Persist: EnqueueService.Enqueue resolves the topic and CreateJob        *)
(* inserts the document, which is also the insert event of the change      *)
(* stream.  The log entry written after it is best effort.                 *)
(***************************************************************************)
CreateJob(j) ==
  /\ j \notin DOMAIN jobs
  /\ jobs' = [k \in DOMAIN jobs \cup {j} |-> IF k = j THEN NewJobMetadata ELSE jobs[k]]
  /\ events' = Append(events, j)
  /\ UNCHANGED <<faults, queue, cursor, token, fetched, call, outages, historyVars>>

-----------------------------------------------------------------------------
(* HandleDispatch, one action per external call. *)

Goto(g, pc) == call' = [call EXCEPT ![g].pc = pc]

\* The handler returned (its error, if any, is only logged): the stream
\* goroutine goes on to save the resume token, the poll loop to the next job.
Return(g) ==
  call' = [call EXCEPT ![g] =
             IF g = "stream" THEN [NoCall EXCEPT !.pc = "save"] ELSE NoCall]

Handle(g, j, attempts) ==
  call' = [call EXCEPT ![g] = [pc |-> "publish", job |-> j, attempts |-> attempts]]

Delivered(j) ==
  /\ Enqueue(j)
  /\ published' = [published EXCEPT ![j] = @ + 1]

PublishOK(g) ==
  LET j == call[g].job IN
  /\ call[g].pc = "publish"
  /\ Delivered(j)
  /\ Goto(g, "confirm")
  /\ UNCHANGED <<jobs, faults, streamVars, fetched, outages, pubErrors, unseen>>

\* Mutant: a publish error is logged and the handler confirms all the same.
PublishErrorSwallowed(g) ==
  LET j == call[g].job IN
  /\ call[g].pc = "publish"
  /\ pubErrors[j] < MaxPublishErrors
  /\ pubErrors' = [pubErrors EXCEPT ![j] = @ + 1]
  /\ Goto(g, "confirm")
  /\ UNCHANGED <<jobs, faults, queue, streamVars, fetched, outages, published, unseen>>

\* Send returned an error; after a send timeout the broker may nevertheless
\* have stored the message.
PublishError(g) ==
  LET j == call[g].job IN
  /\ call[g].pc = "publish"
  /\ pubErrors[j] < MaxPublishErrors
  /\ pubErrors' = [pubErrors EXCEPT ![j] = @ + 1]
  /\ Delivered(j) \/ UNCHANGED <<queue, published>>
  /\ call' = [call EXCEPT ![g].pc = "record", ![g].attempts = @ + 1]
  /\ UNCHANGED <<jobs, faults, streamVars, fetched, outages, unseen>>

MarkJobDispatched(g) ==
  LET j == call[g].job
      d == MarkDispatchedIfPending(jobs[j]) IN
  /\ call[g].pc = "confirm"
  /\ Write(j, d) \/ WriteFails(j, d)
  /\ Return(g)
  /\ UNCHANGED <<queue, streamVars, fetched, outages, historyVars>>

RecordDispatchAttempt(g) ==
  LET j == call[g].job
      d == RecordDispatchAttemptIfPending(jobs[j], call[g].attempts) IN
  /\ call[g].pc = "record"
  /\ \/ /\ Write(j, d)
        /\ IF call[g].attempts >= MaxAttempts THEN Goto(g, "giveup") ELSE Return(g)
     \/ /\ WriteFails(j, d)
        /\ Return(g)
  /\ UNCHANGED <<queue, streamVars, fetched, outages, historyVars>>

MarkJobDispatchFailed(g) ==
  LET j == call[g].job
      d == MarkDispatchFailedIfPending(jobs[j]) IN
  /\ call[g].pc = "giveup"
  /\ Write(j, d) \/ WriteFails(j, d)
  /\ Return(g)
  /\ UNCHANGED <<queue, streamVars, fetched, outages, historyVars>>

HandlerStep(g) ==
  \/ PublishOK(g)
  \/ PublishError(g)
  \/ MarkJobDispatched(g)
  \/ RecordDispatchAttempt(g)
  \/ MarkJobDispatchFailed(g)

-----------------------------------------------------------------------------
(* StreamWatcher.runOnce. *)

\* Mutant: the stream resumes one event after the one that follows the token.
StreamOpenLate ==
  /\ ~cursor.open
  /\ call["stream"].pc = "idle"
  /\ cursor' = [open |-> TRUE, pos |-> IF token # 0 THEN token + 1 ELSE Len(events)]
  /\ unseen' = IF token # 0 THEN unseen ELSE unseen \cup 1..Len(events)
  /\ UNCHANGED <<jobs, faults, queue, events, token, fetched, call, outages, published, pubErrors>>

\* Load the token and open the stream after it; without a token the stream
\* starts at the present and earlier events are never delivered.
StreamOpen ==
  /\ ~cursor.open
  /\ call["stream"].pc = "idle"
  /\ cursor' = [open |-> TRUE, pos |-> IF token # 0 THEN token ELSE Len(events)]
  /\ unseen' = IF token # 0 THEN unseen ELSE unseen \cup 1..Len(events)
  /\ UNCHANGED <<jobs, faults, queue, events, token, fetched, call, outages, published, pubErrors>>

\* Mutant: the token is saved before the event is handled.
StreamNextSavesFirst ==
  /\ cursor.open
  /\ call["stream"].pc = "idle"
  /\ cursor.pos < Len(events)
  /\ cursor' = [cursor EXCEPT !.pos = @ + 1]
  /\ token' = IF PersistToken THEN cursor.pos + 1 ELSE token
  /\ Handle("stream", events[cursor.pos + 1], NewJobMetadata.dispatchAttempts)
  /\ UNCHANGED <<jobs, faults, queue, events, fetched, outages, historyVars>>

\* The event carries the document as it was inserted, so attempts is 0.
StreamNext ==
  /\ cursor.open
  /\ call["stream"].pc = "idle"
  /\ cursor.pos < Len(events)
  /\ cursor' = [cursor EXCEPT !.pos = @ + 1]
  /\ Handle("stream", events[cursor.pos + 1], NewJobMetadata.dispatchAttempts)
  /\ UNCHANGED <<jobs, faults, queue, events, token, fetched, outages, historyVars>>

\* After every event, whatever its handler returned.  A failed save is
\* logged; a Nop store keeps nothing.
SaveToken ==
  /\ call["stream"].pc = "save"
  /\ \/ /\ token' = IF PersistToken THEN cursor.pos ELSE token
        /\ UNCHANGED <<jobs, faults>>
     \/ /\ PersistToken
        /\ CallFails
        /\ UNCHANGED token
  /\ call' = [call EXCEPT !["stream"] = NoCall]
  /\ UNCHANGED <<queue, events, cursor, fetched, outages, historyVars>>

\* stream.Next ends with a cursor error: runOnce returns and Run calls it again.
StreamError ==
  /\ cursor.open
  /\ call["stream"].pc = "idle"
  /\ outages < MaxOutages
  /\ outages' = outages + 1
  /\ cursor' = Closed
  /\ UNCHANGED <<jobs, faults, queue, events, token, fetched, call, historyVars>>

-----------------------------------------------------------------------------
(* DispatchWorker.pollOnce. *)

\* Mutant: the query leaves out the jobs that have one attempt left.
PendingButLast ==
  {j \in DOMAIN jobs : /\ jobs[j].dispatchStatus = "pending_dispatch"
                       /\ jobs[j].dispatchAttempts + 1 < MaxAttempts}

Pending ==
  {j \in DOMAIN jobs : /\ jobs[j].dispatchStatus = "pending_dispatch"
                       /\ jobs[j].dispatchAttempts < MaxAttempts}

\* The first n of S in the order of createdAt, here that of the ids.
Oldest(S, n) == {j \in S : Cardinality({k \in S : k < j}) < n}

FetchPending ==
  {[job |-> j, attempts |-> jobs[j].dispatchAttempts] : j \in Oldest(Pending, BatchSize)}

PollFetch ==
  /\ call["poll"].pc = "idle"
  /\ fetched = {}
  /\ fetched' = FetchPending
  /\ UNCHANGED <<jobs, faults, queue, streamVars, call, outages, historyVars>>

PollNext ==
  /\ call["poll"].pc = "idle"
  /\ \E p \in fetched :
       /\ \A q \in fetched : p.job <= q.job
       /\ Handle("poll", p.job, p.attempts)
       /\ fetched' = fetched \ {p}
  /\ UNCHANGED <<jobs, faults, queue, streamVars, outages, historyVars>>

-----------------------------------------------------------------------------
\* The process dies and its supervisor restarts it: only the token survives.
DispatcherCrash ==
  /\ outages < MaxOutages
  /\ outages' = outages + 1
  /\ cursor' = Closed
  /\ fetched' = {}
  /\ call' = [g \in Goroutines |-> NoCall]
  /\ UNCHANGED <<jobs, faults, queue, events, token, historyVars>>

StreamStep == HandlerStep("stream") \/ StreamOpen \/ StreamNext \/ SaveToken
PollStep == HandlerStep("poll") \/ PollFetch \/ PollNext

DispatcherNext ==
  \/ \E j \in Jobs : CreateJob(j)
  \/ "stream" \in Goroutines /\ (StreamStep \/ StreamError)
  \/ "poll" \in Goroutines /\ PollStep
  \/ DispatcherCrash

(***************************************************************************)
(* The dispatcher on its own: nobody else writes the documents.  The poll  *)
(* loop is fair because the ticker keeps firing and the process is         *)
(* restarted whenever it dies; no fairness is assumed of the stream.       *)
(***************************************************************************)
dispatchVars == <<jobs, faults, queue, dispatcherVars>>

DispatcherAloneInit == StoreInit /\ BrokerInit /\ DispatcherInit

DispatcherSpec ==
  /\ DispatcherAloneInit
  /\ [][DispatcherNext]_dispatchVars

FairPoll == WF_dispatchVars("poll" \in Goroutines /\ PollStep)

FairDispatcherSpec == DispatcherSpec /\ FairPoll

-----------------------------------------------------------------------------
\* The dispatch status of every job, inserted or not.
DispatchOutcome ==
  [j \in Jobs |-> IF j \in DOMAIN jobs THEN jobs[j].dispatchStatus ELSE "none"]

(***************************************************************************)
(* The dispatcher implements the dispatch saga: whatever the interleaving  *)
(* of stream, poll, crashes and failed writes, a stale HandleDispatch call *)
(* never confirms a job that was confirmed before, never claims a publish  *)
(* that did not happen, and never gives up a job early.                    *)
(***************************************************************************)
Saga == INSTANCE DispatchSaga WITH
  outcome <- DispatchOutcome,
  sent <- published,
  errors <- pubErrors

ImplementsSaga == Saga!Spec

(***************************************************************************)
(* The attempts written by the handlers come from stale projections and    *)
(* overwrite each other, but they never exceed the publish errors seen.    *)
(***************************************************************************)
AttemptsNeverOverstated ==
  /\ \A j \in DOMAIN jobs : jobs[j].dispatchAttempts <= pubErrors[j]
  /\ \A p \in fetched : p.attempts <= pubErrors[p.job]
  /\ \A g \in Goroutines :
       call[g].pc # "idle" /\ call[g].pc # "save" => call[g].attempts <= pubErrors[call[g].job]

(***************************************************************************)
(* The resume token on disk never runs ahead of the handler: every event   *)
(* up to it was handed to HandleDispatch, or was skipped by a stream that     *)
(* opened without a token.  A crash may replay events, never lose one: the *)
(* token is saved only after the handler has called Publish.               *)
(***************************************************************************)
TokenNeverAhead ==
  \A i \in 1..token : i \in unseen \/ published[events[i]] + pubErrors[events[i]] > 0

(***************************************************************************)
(* Under the poll loop's fairness alone, a job leaves pending_dispatch, or *)
(* its attempts are used up (a crash or a failed write between             *)
(* RecordDispatchAttempt and MarkJobDispatchFailed leaves it there), even  *)
(* when the stream skips its event, when older jobs fill the poll batch,   *)
(* and when publishes keep failing.                                        *)
(***************************************************************************)
NoJobForgotten ==
  \A j \in Jobs :
    (j \in DOMAIN jobs) ~>
      /\ j \in DOMAIN jobs
      /\ \/ jobs[j].dispatchStatus # "pending_dispatch"
         \/ jobs[j].dispatchAttempts >= MaxAttempts
=============================================================================
