---------------------------- MODULE ExecutorProofs ----------------------------
(***************************************************************************)
(* Theorems about the executors on their own: the type invariant and the   *)
(* three safety properties, and the redelivery of messages, for any number *)
(* of jobs, workers, messages, failed calls and killed processes.          *)
(***************************************************************************)
EXTENDS Executor, JobStoreProofs

(***************************************************************************)
(* The inductive invariant.  A job that was never claimed still holds the  *)
(* run that its creation paid for; the claim spends it.  A worker about to *)
(* record success has seen the handler return nil.  A running job has an   *)
(* owner that has not found its completion missing: such a worker may nack *)
(* a job that others run, and counts for nothing.  A message always names  *)
(* a job of the collection, and a worker rejects only what no handler      *)
(* accepts.                                                                *)
(***************************************************************************)
MessagesOfJobs ==
  \A j \in Jobs : queue[j] > 0 => j \in DOMAIN jobs

RunsPaid ==
  \A j \in DOMAIN jobs :
    /\ runs[j] <= 1 + jobs[j].retryCount
    /\ Claimable(jobs[j]) => runs[j] <= jobs[j].retryCount

SuccessSeen ==
  \A w \in Workers : worker[w].pc = "complete" => worker[w].job \in succeeded

RejectsUnaccepted ==
  \A w \in Workers : worker[w].pc \in {"reject", "rejectWrite"} => worker[w].job \notin Accepted

Owning == Claiming \ {"completeMiss"}

RunningOwned ==
  \A j \in DOMAIN jobs :
    jobs[j].executionStatus = "running" =>
      \/ j \in abandoned
      \/ \E w \in Workers : worker[w].job = j /\ worker[w].pc \in Owning

ExecInv ==
  /\ ExecutorTypeOK
  /\ MessagesOfJobs
  /\ RunsPaid
  /\ RejectsUnaccepted
  /\ SuccessSeen
  /\ CompletedAfterSuccess
  /\ RunningOwned

-----------------------------------------------------------------------------
(* A worker inside ExecuteJob works on a job of the collection.            *)
LEMMA WorkersJob ==
  ASSUME ExecutorTypeOK, NEW w \in Workers, worker[w].pc # "idle"
  PROVE  /\ worker[w].job \in DOMAIN jobs
         /\ worker[w].job \in Jobs
         /\ jobs[worker[w].job] \in Document
         /\ MarkRunningIfDispatched(jobs[worker[w].job]) \in Document
         /\ CompleteIfRunning(jobs[worker[w].job]) \in Document
         /\ FailIfNotTerminal(jobs[worker[w].job]) \in Document
  <1>1. /\ worker[w].job \in DOMAIN jobs
        /\ worker[w].job \in Jobs
        /\ jobs[worker[w].job] \in Document
    BY DEF ExecutorTypeOK, StoreTypeOK
  <1> QED BY <1>1, ExecutionWritesType

(* Moving a worker on, or returning from ExecuteJob, keeps the workers     *)
(* well typed.                                                             *)
LEMMA WorkerType ==
  ASSUME ExecutorTypeOK, NEW w \in Workers, worker[w].pc # "idle",
         DOMAIN jobs' = DOMAIN jobs,
         Release(w) \/ \E pc \in WorkerPcs : WorkerGoto(w, pc)
  PROVE  /\ worker' \in [Workers -> [pc : WorkerPcs, job : Jobs \cup {NoJob}]]
         /\ \A v \in Workers : worker'[v].pc # "idle" => worker'[v].job \in DOMAIN jobs'
  <1>1. CASE Release(w)
    BY <1>1 DEF Release, NoWork, ExecutorTypeOK, WorkerPcs
  <1>2. CASE \E pc \in WorkerPcs : WorkerGoto(w, pc)
    BY <1>2 DEF WorkerGoto, ExecutorTypeOK
  <1> QED BY <1>1, <1>2

(* A message handed back, or not, keeps the topic well typed. *)
LEMMA QueueType ==
  ASSUME BrokerTypeOK, NEW j \in Jobs, Enqueue(j) \/ UNCHANGED queue
  PROVE  BrokerTypeOK'
  BY DEF BrokerTypeOK, Enqueue

(* What every step of a busy worker does to the collection, the topic and  *)
(* the worker itself: at most one of the executor's three writes, on the   *)
(* worker's job.                                                           *)
LEMMA BusyStep ==
  ASSUME ExecutorTypeOK, NEW w \in Workers, worker[w].pc # "idle",
         WorkerStep(w) \/ WorkerKilled(w)
  PROVE  LET j == worker[w].job
             d == jobs[j] IN
         /\ \/ jobs' = jobs
            \/ \E e \in {MarkRunningIfDispatched(d), CompleteIfRunning(d), FailIfNotTerminal(d)} :
                 jobs' = [jobs EXCEPT ![j] = e]
         /\ faults' \in 0..MaxFaults
         /\ Enqueue(j) \/ UNCHANGED queue
         /\ Release(w) \/ \E pc \in WorkerPcs : WorkerGoto(w, pc)
  <1> DEFINE j == worker[w].job
             d == jobs[j]
             Goal == /\ \/ jobs' = jobs
                        \/ \E e \in {MarkRunningIfDispatched(d), CompleteIfRunning(d), FailIfNotTerminal(d)} :
                             jobs' = [jobs EXCEPT ![j] = e]
                     /\ faults' \in 0..MaxFaults
                     /\ Enqueue(j) \/ UNCHANGED queue
                     /\ Release(w) \/ \E pc \in WorkerPcs : WorkerGoto(w, pc)
  <1>1. StoreTypeOK /\ faults \in 0..MaxFaults
    BY DEF ExecutorTypeOK, StoreTypeOK
  <1>2. Fault => faults' \in 0..MaxFaults
    BY <1>1, FaultType
  <1> USE DEF Write, WriteFails, CallFails, Acked, AckLost, Nacked, WorkerPcs
  <1>3. CASE StartJob(w)
    BY <1>1, <1>2, <1>3 DEF StartJob
  <1>4. CASE RunHandler(w)
    BY <1>1, <1>4 DEF RunHandler
  <1>5. CASE CompleteJob(w)
    BY <1>1, <1>2, <1>5 DEF CompleteJob
  <1>6. CASE CompleteMiss(w)
    BY <1>1, <1>2, <1>6 DEF CompleteMiss
  <1>7. CASE FailJobRead(w)
    BY <1>1, <1>2, <1>7 DEF FailJobRead
  <1>8. CASE FailJobWrite(w)
    BY <1>1, <1>2, <1>8 DEF FailJobWrite
  <1>9. CASE WorkerKilled(w)
    BY <1>1, <1>9 DEF WorkerKilled
  <1>10. ~Receive(w)
    BY DEF Receive
  <1> QED
    BY <1>3, <1>4, <1>5, <1>6, <1>7, <1>8, <1>9, <1>10 DEF WorkerStep

(* Every step of a worker keeps the executors well typed. *)
LEMMA ExecutorNextType ==
  ASSUME ExecutorTypeOK, MessagesOfJobs,
         NEW w \in Workers, WorkerStep(w) \/ WorkerKilled(w)
  PROVE  ExecutorTypeOK' /\ MessagesOfJobs' /\ DOMAIN jobs' = DOMAIN jobs
  <1> DEFINE j == worker[w].job
  <1>1. CASE Receive(w)
    <2>1. PICK i \in Jobs :
            /\ Dequeue(i)
            /\ worker' = [worker EXCEPT ![w] =
                            [pc |-> IF i \in Accepted THEN "start" ELSE "reject", job |-> i]]
      BY <1>1 DEF Receive
    <2>4. i \in DOMAIN jobs
      BY <2>1 DEF Dequeue, MessagesOfJobs
    <2>2. BrokerTypeOK' /\ \A k \in Jobs : queue'[k] > 0 => queue[k] > 0
      BY <2>1 DEF Dequeue, BrokerTypeOK, ExecutorTypeOK
    <2>3. /\ worker' \in [Workers -> [pc : WorkerPcs, job : Jobs \cup {NoJob}]]
          /\ \A v \in Workers : worker'[v].pc # "idle" => worker'[v].job \in DOMAIN jobs
      BY <2>1, <2>4 DEF ExecutorTypeOK, WorkerPcs
    <2> QED
      BY <1>1, <2>2, <2>3 DEF Receive, ExecutorTypeOK, StoreTypeOK, MessagesOfJobs
  <1>2. CASE ~Receive(w)
    <2>1. worker[w].pc # "idle"
      BY <1>2 DEF WorkerStep, WorkerKilled, StartJob, RunHandler, CompleteJob, CompleteMiss,
                  FailJobRead, FailJobWrite
    <2>2. j \in DOMAIN jobs /\ j \in Jobs
      BY <2>1, WorkersJob
    <2>3. StoreTypeOK' /\ DOMAIN jobs' = DOMAIN jobs
      <3>1. PICK e \in Document : jobs' \in {jobs, [jobs EXCEPT ![j] = e]}
        BY <2>1, BusyStep, WorkersJob
      <3> QED
        BY <2>1, <2>2, <3>1, BusyStep, UpdateType DEF ExecutorTypeOK
    <2>4. BrokerTypeOK'
      BY <2>1, <2>2, BusyStep, QueueType DEF ExecutorTypeOK
    <2>5. /\ worker' \in [Workers -> [pc : WorkerPcs, job : Jobs \cup {NoJob}]]
          /\ \A v \in Workers : worker'[v].pc # "idle" => worker'[v].job \in DOMAIN jobs'
      BY <2>1, <2>3, BusyStep, WorkerType
    <2>6. runs' \in [Jobs -> Nat]
      <3>1. runs' = runs \/ runs' = [runs EXCEPT ![j] = @ + 1]
        BY <1>2 DEF WorkerStep, WorkerKilled, StartJob, RunHandler, CompleteJob, CompleteMiss,
                    FailJobRead, FailJobWrite
      <3> QED BY <2>2, <3>1 DEF ExecutorTypeOK
    <2>7. kills' \in 0..MaxKills
      <3>1. kills' = kills \/ (kills < MaxKills /\ kills' = kills + 1)
        BY <1>2 DEF WorkerStep, WorkerKilled, StartJob, RunHandler, CompleteJob, CompleteMiss,
                    FailJobRead, FailJobWrite
      <3> QED BY <3>1, ExecutorAssumption DEF ExecutorTypeOK
    <2>8. succeeded' \in {succeeded, succeeded \cup {j}}
      BY <1>2 DEF WorkerStep, WorkerKilled, StartJob, RunHandler, CompleteJob, CompleteMiss,
                  FailJobRead, FailJobWrite
    <2>9. abandoned' \in {abandoned, abandoned \cup {j}, abandoned \ {j}}
      BY <1>2 DEF WorkerStep, WorkerKilled, StartJob, RunHandler, CompleteJob, CompleteMiss,
                  FailJobRead, FailJobWrite, Abandon
    <2>10. MessagesOfJobs'
      BY <2>1, <2>2, <2>3, BusyStep DEF Enqueue, MessagesOfJobs, ExecutorTypeOK, BrokerTypeOK
    <2> QED
      BY <2>2, <2>3, <2>4, <2>5, <2>6, <2>7, <2>8, <2>9, <2>10 DEF ExecutorTypeOK
  <1> QED BY <1>1, <1>2

(* The executors start well typed: the collection holds every job,         *)
(* dispatched and never claimed.                                           *)
LEMMA ExecutorInitInv ==
  ASSUME ExecutorsAloneInit
  PROVE  ExecInv
  <1>1. /\ MarkDispatchedIfPending(NewJobMetadata) \in Document
        /\ MarkDispatchedIfPending(NewJobMetadata).executionStatus = "not_started"
        /\ MarkDispatchedIfPending(NewJobMetadata).retryCount = 0
    BY NewJobMetadataType, DispatchWritesType DEF MarkDispatchedIfPending, NewJobMetadata
  <1>2. StoreTypeOK
    BY <1>1, JobStoreAssumption DEF ExecutorsAloneInit, StoreTypeOK
  <1>3. BrokerTypeOK
    BY DEF ExecutorsAloneInit, BrokerTypeOK
  <1>4. \A w \in Workers : worker[w].pc = "idle"
    BY DEF ExecutorsAloneInit, ExecutorInit, NoWork
  <1>5. ExecutorTypeOK
    BY <1>2, <1>3, <1>4, ExecutorAssumption DEF ExecutorsAloneInit, ExecutorInit, ExecutorTypeOK, NoWork, WorkerPcs
  <1>6. \A j \in DOMAIN jobs :
          runs[j] = 0 /\ jobs[j].retryCount = 0 /\ jobs[j].executionStatus = "not_started"
    BY <1>1 DEF ExecutorsAloneInit, ExecutorInit
  <1> QED
    BY <1>4, <1>5, <1>6 DEF ExecutorsAloneInit, ExecInv, MessagesOfJobs, RunsPaid, RejectsUnaccepted,
                            SuccessSeen, CompletedAfterSuccess, RunningOwned

-----------------------------------------------------------------------------
(* No step of a worker counts a retry, gives a claimed job back, or brings *)
(* a terminal job back to life.                                            *)
LEMMA DocumentsAdvance ==
  ASSUME ExecutorTypeOK, NEW w \in Workers, WorkerStep(w) \/ WorkerKilled(w),
         NEW k \in DOMAIN jobs
  PROVE  /\ jobs'[k].retryCount = jobs[k].retryCount
         /\ Claimable(jobs'[k]) => Claimable(jobs[k])
         /\ jobs[k].executionStatus \in TerminalExecution
              => jobs'[k].executionStatus = jobs[k].executionStatus
         /\ worker[w].job # k => jobs'[k] = jobs[k]
  <1>1. CASE worker[w].pc = "idle"
    BY <1>1 DEF WorkerStep, WorkerKilled, Receive, StartJob, RunHandler, CompleteJob, CompleteMiss,
                FailJobRead, FailJobWrite
  <1>2. CASE worker[w].pc # "idle"
    <2> DEFINE j == worker[w].job
    <2>1. j \in DOMAIN jobs /\ jobs[j] \in Document
      BY <1>2, WorkersJob
    <2>2. \/ jobs' = jobs
          \/ \E e \in {MarkRunningIfDispatched(jobs[j]), CompleteIfRunning(jobs[j]), FailIfNotTerminal(jobs[j])} :
               jobs' = [jobs EXCEPT ![j] = e]
      BY <1>2, BusyStep
    <2>3. ASSUME NEW e \in {MarkRunningIfDispatched(jobs[j]), CompleteIfRunning(jobs[j]), FailIfNotTerminal(jobs[j])}
          PROVE  /\ e.retryCount = jobs[j].retryCount
                 /\ Claimable(e) => Claimable(jobs[j])
                 /\ jobs[j].executionStatus \in TerminalExecution
                      => e.executionStatus = jobs[j].executionStatus
      BY <2>1 DEF MarkRunningIfDispatched, CompleteIfRunning, FailIfNotTerminal, Claimable,
                  TerminalExecution, Document
    <2>4. jobs \in [DOMAIN jobs -> Document]
      BY DEF ExecutorTypeOK, StoreTypeOK
    <2> QED BY <2>1, <2>2, <2>3, <2>4
  <1> QED BY <1>1, <1>2

(* A step of one worker leaves the others where they are. *)
LEMMA OtherWorkers ==
  ASSUME ExecutorTypeOK, NEW w \in Workers, WorkerStep(w) \/ WorkerKilled(w),
         NEW v \in Workers, v # w
  PROVE  worker'[v] = worker[v]
  BY DEF ExecutorTypeOK, WorkerStep, WorkerKilled, Receive, StartJob, RunHandler, CompleteJob, CompleteMiss,
         FailJobRead, FailJobWrite, Acked, AckLost, Nacked, Release, WorkerGoto

(* Only the claim starts a run, and it spends the not_started of its job.  *)
LEMMA RunStarts ==
  ASSUME ExecutorTypeOK, NEW w \in Workers, WorkerStep(w) \/ WorkerKilled(w)
  PROVE  \/ runs' = runs
         \/ LET j == worker[w].job IN
            /\ j \in DOMAIN jobs /\ j \in Jobs
            /\ Claimable(jobs[j]) /\ ~Claimable(jobs'[j])
            /\ runs' = [runs EXCEPT ![j] = @ + 1]
  <1> DEFINE j == worker[w].job
  <1>1. ASSUME worker[w].pc = "start", Claimable(jobs[j]),
               Write(j, MarkRunningIfDispatched(jobs[j])),
               runs' = [runs EXCEPT ![j] = @ + 1]
        PROVE  j \in DOMAIN jobs /\ j \in Jobs /\ ~Claimable(jobs'[j])
    <2>1. j \in DOMAIN jobs /\ j \in Jobs /\ jobs[j] \in Document
      BY <1>1, WorkersJob
    <2>2. ~Claimable(jobs'[j])
      BY <1>1, <2>1 DEF Write, MarkRunningIfDispatched, Claimable, Document, ExecutorTypeOK, StoreTypeOK
    <2> QED BY <2>1, <2>2
  <1> QED
    BY <1>1 DEF WorkerStep, WorkerKilled, Receive, StartJob, RunHandler, CompleteJob, CompleteMiss,
                FailJobRead, FailJobWrite

(* A step of a worker keeps every run paid. *)
LEMMA StepRunsPaid ==
  ASSUME ExecInv, NEW w \in Workers, WorkerStep(w) \/ WorkerKilled(w)
  PROVE  RunsPaid'
  <1> DEFINE j == worker[w].job
  <1>1. ExecutorTypeOK /\ RunsPaid /\ DOMAIN jobs' = DOMAIN jobs
    BY ExecutorNextType DEF ExecInv
  <1> SUFFICES ASSUME NEW k \in DOMAIN jobs
               PROVE  /\ runs'[k] <= 1 + jobs'[k].retryCount
                      /\ Claimable(jobs'[k]) => runs'[k] <= jobs'[k].retryCount
    BY <1>1 DEF RunsPaid
  <1>2. /\ jobs'[k].retryCount = jobs[k].retryCount
        /\ Claimable(jobs'[k]) => Claimable(jobs[k])
    BY <1>1, DocumentsAdvance
  <1>3. CASE runs' = runs
    BY <1>1, <1>2, <1>3 DEF RunsPaid
  <1>4. CASE /\ j \in DOMAIN jobs /\ j \in Jobs
             /\ Claimable(jobs[j]) /\ ~Claimable(jobs'[j])
             /\ runs' = [runs EXCEPT ![j] = @ + 1]
    <2>1. runs[j] \in Nat /\ runs'[j] = runs[j] + 1 /\ (k # j => runs'[k] = runs[k])
      BY <1>1, <1>4 DEF ExecutorTypeOK
    <2>2. runs[j] <= jobs[j].retryCount /\ jobs[j].retryCount \in Nat
      BY <1>1, <1>4 DEF RunsPaid, ExecutorTypeOK, StoreTypeOK, Document
    <2> QED BY <1>1, <1>2, <1>4, <2>1, <2>2 DEF RunsPaid
  <1> QED BY <1>1, <1>3, <1>4, RunStarts

(* A worker comes to reject a message only by receiving one of a job that  *)
(* is not accepted.                                                        *)
LEMMA StepRejects ==
  ASSUME ExecutorTypeOK, RejectsUnaccepted, NEW w \in Workers, WorkerStep(w) \/ WorkerKilled(w)
  PROVE  RejectsUnaccepted'
  <1>1. ASSUME NEW v \in Workers, v # w, worker'[v].pc \in {"reject", "rejectWrite"}
        PROVE  worker'[v].job \notin Accepted
    BY <1>1, OtherWorkers DEF RejectsUnaccepted
  <1>2. ASSUME worker'[w].pc \in {"reject", "rejectWrite"}
        PROVE  worker'[w].job \notin Accepted
    <2>1. CASE Receive(w)
      BY <1>2, <2>1 DEF Receive, ExecutorTypeOK
    <2>2. CASE ~Receive(w)
      BY <1>2, <2>2 DEF WorkerStep, WorkerKilled, StartJob, RunHandler, CompleteJob, CompleteMiss, FailJobRead,
         FailJobWrite, Acked, AckLost, Nacked, Release, NoWork, WorkerGoto, ExecutorTypeOK, RejectsUnaccepted
    <2> QED BY <2>1, <2>2
  <1> QED BY <1>1, <1>2 DEF RejectsUnaccepted

(* A worker that records success saw its handler return nil, and nothing   *)
(* else completes a job.                                                   *)
LEMMA StepSuccess ==
  ASSUME ExecutorTypeOK, MessagesOfJobs, SuccessSeen, CompletedAfterSuccess,
         NEW w \in Workers, WorkerStep(w) \/ WorkerKilled(w)
  PROVE  SuccessSeen' /\ CompletedAfterSuccess'
  <1> DEFINE j == worker[w].job
  <1>1. /\ ExecutorTypeOK /\ SuccessSeen /\ CompletedAfterSuccess
        /\ DOMAIN jobs' = DOMAIN jobs
    BY ExecutorNextType
  <1>2. succeeded \subseteq succeeded'
    BY DEF WorkerStep, WorkerKilled, Receive, StartJob, RunHandler, CompleteJob, CompleteMiss,
           FailJobRead, FailJobWrite
  <1>3. SuccessSeen'
    <2>1. ASSUME NEW v \in Workers, v # w, worker'[v].pc = "complete"
          PROVE  worker'[v].job \in succeeded'
      BY <1>1, <1>2, <2>1, OtherWorkers DEF SuccessSeen
    <2>2. ASSUME worker'[w].pc = "complete"
          PROVE  worker'[w].job \in succeeded'
      BY <1>1, <2>2 DEF WorkerStep, WorkerKilled, Receive, StartJob, RunHandler, CompleteJob, CompleteMiss,
         FailJobRead, FailJobWrite, Acked, AckLost, Nacked, Release, NoWork, WorkerGoto, ExecutorTypeOK
    <2> QED BY <2>1, <2>2 DEF SuccessSeen
  <1>4. CompletedAfterSuccess'
    <2> SUFFICES ASSUME NEW k \in DOMAIN jobs, jobs'[k].executionStatus = "completed"
                 PROVE  k \in succeeded'
      BY <1>1 DEF CompletedAfterSuccess
    <2>1. CASE jobs[k].executionStatus = "completed"
      BY <1>1, <1>2, <2>1 DEF CompletedAfterSuccess
    <2>2. CASE jobs[k].executionStatus # "completed"
      <3>1. k = j /\ worker[w].pc # "idle"
        <4>1. worker[w].pc = "idle" => jobs' = jobs
          BY DEF WorkerStep, WorkerKilled, Receive, StartJob, RunHandler, CompleteJob, CompleteMiss,
                 FailJobRead, FailJobWrite
        <4> QED BY <1>1, <2>2, <4>1, DocumentsAdvance
      <3>2. j \in DOMAIN jobs /\ jobs[j] \in Document /\ jobs \in [DOMAIN jobs -> Document]
        BY <1>1, <3>1, WorkersJob DEF ExecutorTypeOK, StoreTypeOK
      <3>3. \/ worker[w].pc = "complete"
            \/ jobs' \in {jobs, [jobs EXCEPT ![j] = MarkRunningIfDispatched(jobs[j])],
                                [jobs EXCEPT ![j] = FailIfNotTerminal(jobs[j])]}
        BY <3>1 DEF WorkerStep, WorkerKilled, Receive, StartJob, RunHandler, CompleteJob, CompleteMiss,
           FailJobRead, FailJobWrite, Write, WriteFails, CallFails
      <3>4. MarkRunningIfDispatched(jobs[j]).executionStatus = "completed"
              => jobs[j].executionStatus = "completed"
        BY <3>2 DEF MarkRunningIfDispatched, Document
      <3>5. FailIfNotTerminal(jobs[j]).executionStatus = "completed"
              => jobs[j].executionStatus = "completed"
        BY <3>2 DEF FailIfNotTerminal, Document
      <3>6. worker[w].pc = "complete"
        BY <2>2, <3>1, <3>2, <3>3, <3>4, <3>5
      <3> QED BY <1>1, <1>2, <3>1, <3>6 DEF SuccessSeen
    <2> QED BY <2>1, <2>2
  <1> QED BY <1>3, <1>4

(* A worker gives its job up only when the job does not run, or is abandoned. *)
LEMMA GivesUpClaim ==
  ASSUME ExecutorTypeOK, NEW w \in Workers, WorkerStep(w) \/ WorkerKilled(w),
         worker[w].pc \in Owning
  PROVE  \/ worker'[w].pc \in Owning /\ worker'[w].job = worker[w].job
         \/ worker[w].job \in abandoned'
         \/ jobs'[worker[w].job].executionStatus # "running"
  <1> DEFINE j == worker[w].job
  <1>1. j \in DOMAIN jobs /\ jobs[j] \in Document /\ jobs \in [DOMAIN jobs -> Document]
    BY WorkersJob DEF Owning, Claiming, ExecutorTypeOK, StoreTypeOK
  <1>2. CompleteIfRunning(jobs[j]).executionStatus # "running"
    BY <1>1 DEF CompleteIfRunning, Document
  <1>3. FailIfNotTerminal(jobs[j]).executionStatus # "running"
    BY <1>1 DEF FailIfNotTerminal, Document
  <1>4. CASE RunHandler(w)
    BY <1>1, <1>4 DEF RunHandler, WorkerGoto, Owning, Claiming, ExecutorTypeOK
  <1>5. CASE CompleteJob(w)
    BY <1>1, <1>2, <1>5 DEF CompleteJob, Write, Abandon
  <1>6. CASE FailJobRead(w)
    BY <1>1, <1>6 DEF FailJobRead, WorkerGoto, Owning, Claiming, ExecutorTypeOK, Abandon
  <1>7. CASE FailJobWrite(w)
    BY <1>1, <1>3, <1>7 DEF FailJobWrite, Write, Abandon
  <1>8. CASE WorkerKilled(w)
    BY <1>8 DEF WorkerKilled, Abandon, Owning
  <1>9. ~Receive(w) /\ ~StartJob(w) /\ ~CompleteMiss(w)
    BY DEF Receive, StartJob, CompleteMiss, Owning, Claiming
  <1> QED BY <1>4, <1>5, <1>6, <1>7, <1>8, <1>9 DEF WorkerStep

(* A job that starts to run in a step is claimed by the worker that makes  *)
(* it, or abandoned by the step.                                           *)
LEMMA StartsRun ==
  ASSUME ExecutorTypeOK, NEW w \in Workers, WorkerStep(w) \/ WorkerKilled(w),
         NEW k \in DOMAIN jobs,
         jobs[k].executionStatus # "running", jobs'[k].executionStatus = "running"
  PROVE  \/ k \in abandoned'
         \/ worker'[w].job = k /\ worker'[w].pc \in Owning
  <1> DEFINE j == worker[w].job
  <1>1. jobs \in [DOMAIN jobs -> Document] /\ jobs' # jobs
    BY DEF ExecutorTypeOK, StoreTypeOK
  <1>2. k = j
    BY <1>1, DocumentsAdvance
  <1>3. CompleteIfRunning(jobs[j]).executionStatus = "running" => jobs[j].executionStatus = "running"
    BY <1>1, <1>2 DEF CompleteIfRunning, Document
  <1>4. FailIfNotTerminal(jobs[j]).executionStatus = "running" => jobs[j].executionStatus = "running"
    BY <1>1, <1>2 DEF FailIfNotTerminal, Document
  <1>5. StartJob(w)
    BY <1>1, <1>2, <1>3, <1>4 DEF WorkerStep, WorkerKilled, Receive, RunHandler, CompleteJob, CompleteMiss,
       FailJobRead, FailJobWrite, Write, WriteFails, CallFails
  <1>6. CASE WorkerGoto(w, "run")
    BY <1>1, <1>2, <1>6 DEF WorkerGoto, Owning, Claiming, ExecutorTypeOK
  <1>7. CASE abandoned' = IF jobs' # jobs THEN abandoned \cup {j} ELSE abandoned
    BY <1>1, <1>2, <1>7
  <1> QED
    BY <1>1, <1>5, <1>6, <1>7 DEF StartJob, CallFails

(* Only the worker that claims a job clears its abandoned mark. *)
LEMMA AbandonedCleared ==
  ASSUME ExecutorTypeOK, NEW w \in Workers, WorkerStep(w) \/ WorkerKilled(w),
         NEW k \in abandoned, k \notin abandoned'
  PROVE  /\ worker'[w].job = k /\ worker'[w].pc \in Owning
         /\ ~Claimable(jobs'[k])
  <1> DEFINE j == worker[w].job
  <1>1. /\ k = j /\ worker[w].pc = "start"
        /\ Write(j, MarkRunningIfDispatched(jobs[j]))
        /\ WorkerGoto(w, "run")
    BY DEF WorkerStep, WorkerKilled, Receive, StartJob, RunHandler, CompleteJob, CompleteMiss, FailJobRead,
           FailJobWrite, Abandon
  <1>2. worker'[w].job = k /\ worker'[w].pc \in Owning
    BY <1>1 DEF WorkerGoto, Owning, Claiming, ExecutorTypeOK
  <1>3. j \in DOMAIN jobs /\ jobs[j] \in Document
    BY <1>1, WorkersJob
  <1>4. ~Claimable(jobs'[k])
    BY <1>1, <1>3 DEF Write, MarkRunningIfDispatched, Claimable, Document, ExecutorTypeOK, StoreTypeOK
  <1> QED BY <1>2, <1>4

(* A running job keeps an owner, or is abandoned. *)
LEMMA StepOwner ==
  ASSUME ExecutorTypeOK, MessagesOfJobs, RunningOwned,
         NEW w \in Workers, WorkerStep(w) \/ WorkerKilled(w)
  PROVE  RunningOwned'
  <1>1. DOMAIN jobs' = DOMAIN jobs
    BY ExecutorNextType
  <1> SUFFICES ASSUME NEW k \in DOMAIN jobs, jobs'[k].executionStatus = "running"
               PROVE  \/ k \in abandoned'
                      \/ \E v \in Workers : worker'[v].job = k /\ worker'[v].pc \in Owning
    BY <1>1 DEF RunningOwned
  <1>2. CASE jobs[k].executionStatus # "running"
    BY <1>2, StartsRun
  <1>3. CASE jobs[k].executionStatus = "running" /\ k \in abandoned
    BY <1>1, <1>3, AbandonedCleared
  <1>4. CASE jobs[k].executionStatus = "running" /\ k \notin abandoned
    <2>1. PICK v \in Workers : worker[v].job = k /\ worker[v].pc \in Owning
      BY <1>1, <1>4 DEF RunningOwned
    <2>2. CASE v = w
      BY <2>1, <2>2, GivesUpClaim
    <2>3. CASE v # w
      BY <1>1, <2>1, <2>3, OtherWorkers
    <2> QED BY <2>2, <2>3
  <1> QED BY <1>2, <1>3, <1>4

(* A worker that owns a job has claimed it. *)
LEMMA RunningOwnedHasOwner ==
  ASSUME RunningOwned
  PROVE  RunningHasOwner
  BY DEF RunningOwned, RunningHasOwner, Owning

(***************************************************************************)
(* A message that is to start a job: no step of a worker takes the last    *)
(* one of a job that has not started.  The worker holds the job itself,    *)
(* writes it, hands it back, or fails to record that it rejects it.        *)
(***************************************************************************)
OnItsWay(k) == jobs[k].executionStatus = "not_started" => HasMessage(k) \/ k \in RejectionLost

LEMMA StaysOnItsWay ==
  ASSUME ExecutorTypeOK, MessagesOfJobs, RejectsUnaccepted,
         NEW w \in Workers, WorkerStep(w) \/ WorkerKilled(w),
         NEW k \in DOMAIN jobs, OnItsWay(k)
  PROVE  OnItsWay(k)'
  <1> DEFINE i == worker[w].job
  <1>1. /\ DOMAIN jobs' = DOMAIN jobs
        /\ jobs \in [DOMAIN jobs -> Document] /\ DOMAIN jobs \subseteq Jobs
        /\ queue \in [Jobs -> Nat] /\ queue' \in [Jobs -> Nat]
    BY ExecutorNextType DEF ExecutorTypeOK, StoreTypeOK, BrokerTypeOK
  <1> SUFFICES ASSUME jobs'[k].executionStatus = "not_started"
               PROVE  queue'[k] > 0 \/ k \in RejectionLost' \/ \E v \in Workers : Holds(v, k)'
    BY DEF OnItsWay, HasMessage
  <1>2. jobs[k].executionStatus = "not_started"
    BY DocumentsAdvance DEF Claimable
  <1>3. CASE \E v \in Workers : v # w /\ Holds(v, k)
    BY <1>3, OtherWorkers DEF Holds
  <1>4. k \in RejectionLost => k \in RejectionLost'
    BY AbandonedCleared DEF Claimable, RejectionLost
  <1>5. CASE Receive(w)
    <2>1. PICK j \in Jobs :
            /\ Dequeue(j)
            /\ worker' = [worker EXCEPT ![w] =
                            [pc |-> IF j \in Accepted THEN "start" ELSE "reject", job |-> j]]
      BY <1>5 DEF Receive
    <2>2. worker[w].pc = "idle"
      BY <1>5 DEF Receive
    <2>3. CASE j = k
      BY <2>1, <2>3 DEF ExecutorTypeOK, Holds
    <2>4. CASE j # k
      <3>1. queue'[k] = queue[k]
        BY <1>1, <2>1, <2>4 DEF Dequeue
      <3> QED BY <1>2, <1>3, <1>4, <2>2, <3>1 DEF OnItsWay, HasMessage, Holds
    <2> QED BY <2>3, <2>4
  <1>6. CASE ~Receive(w)
    <2>1. worker[w].pc # "idle"
      BY <1>6 DEF WorkerStep, WorkerKilled, StartJob, RunHandler, CompleteJob, CompleteMiss, FailJobRead,
                  FailJobWrite
    <2>2. i \in DOMAIN jobs /\ i \in Jobs /\ jobs[i] \in Document
      BY <1>1, <2>1, WorkersJob
    <2>3. queue[k] > 0 => queue'[k] > 0
      BY <1>1, <2>1, <2>2, BusyStep DEF Enqueue
    <2>4. Enqueue(k) => queue'[k] > 0
      BY <1>1 DEF Enqueue
    <2>5. CASE Holds(w, k)
      <3>1. CASE StartJob(w)
        <4>1. MarkRunningIfDispatched(jobs[k]).executionStatus # "not_started"
          BY <2>2, <2>5 DEF MarkRunningIfDispatched, Claimable, Document, Holds
        <4>2. ~Write(k, MarkRunningIfDispatched(jobs[k]))
          BY <1>1, <4>1 DEF Write
        <4> QED BY <1>2, <2>4, <2>5, <3>1, <4>2 DEF StartJob, Claimable, Nacked, Holds
      <3>2. CASE FailJobRead(w)
        <4>1. worker[w].pc = "reject" /\ k \notin Accepted
          BY <2>5, <3>2 DEF FailJobRead, Holds, RejectsUnaccepted
        <4> QED BY <2>5, <3>2, <4>1 DEF FailJobRead, WorkerGoto, Abandon, ExecutorTypeOK, Holds, RejectionLost
      <3>3. CASE FailJobWrite(w)
        <4>1. FailIfNotTerminal(jobs[k]).executionStatus # "not_started"
          BY <2>2, <2>5 DEF FailIfNotTerminal, Document, ExecutionStatuses, TerminalExecution, Holds
        <4>2. k \notin Accepted
          BY <2>5, <3>3 DEF FailJobWrite, Holds, RejectsUnaccepted
        <4> QED BY <1>1, <2>2, <2>5, <3>3, <4>1, <4>2 DEF FailJobWrite, Write, Abandon, Holds, RejectionLost
      <3>4. CASE WorkerKilled(w)
        BY <2>4, <2>5, <3>4 DEF WorkerKilled, Nacked, Holds
      <3> QED
        BY <1>6, <2>5, <3>1, <3>2, <3>3, <3>4 DEF WorkerStep, RunHandler, CompleteJob, CompleteMiss, Holds
    <2> QED BY <1>2, <1>3, <1>4, <2>3, <2>5 DEF OnItsWay, HasMessage
  <1> QED BY <1>5, <1>6

(***************************************************************************)
(* Why nothing is nacked for ever.  As long as nobody retries a job, its   *)
(* document does not go back to not_started behind a claim, and a worker   *)
(* whose completion missed finds a terminal document, which it acks.       *)
(***************************************************************************)
ClaimsStand ==
  \A w \in Workers :
    /\ worker[w].pc \in Claiming => jobs[worker[w].job].executionStatus # "not_started"
    /\ worker[w].pc = "completeMiss" => jobs[worker[w].job].executionStatus \in TerminalExecution

(* A document that keeps its claim in a step keeps it for every worker     *)
(* that the step leaves where it was.                                      *)
LEMMA ClaimKept ==
  ASSUME ExecutorTypeOK, ClaimsStand, NEW v \in Workers, worker'[v] = worker[v],
         \A k \in DOMAIN jobs :
           /\ jobs[k].executionStatus # "not_started" => jobs'[k].executionStatus # "not_started"
           /\ jobs[k].executionStatus \in TerminalExecution => jobs'[k].executionStatus \in TerminalExecution
  PROVE  /\ worker'[v].pc \in Claiming => jobs'[worker'[v].job].executionStatus # "not_started"
         /\ worker'[v].pc = "completeMiss" => jobs'[worker'[v].job].executionStatus \in TerminalExecution
  <1>1. worker[v].pc \in Claiming => worker[v].job \in DOMAIN jobs
    BY DEF ExecutorTypeOK, Claiming
  <1>2. "completeMiss" \in Claiming
    BY DEF Claiming
  <1> QED BY <1>1, <1>2 DEF ClaimsStand

(* Every step of a worker keeps the claims. *)
LEMMA StepClaimsStand ==
  ASSUME ExecutorTypeOK, ClaimsStand, NEW w \in Workers, WorkerStep(w) \/ WorkerKilled(w)
  PROVE  ClaimsStand'
  <1> DEFINE j == worker[w].job
  <1>1. \A k \in DOMAIN jobs :
          /\ jobs[k].executionStatus # "not_started" => jobs'[k].executionStatus # "not_started"
          /\ jobs[k].executionStatus \in TerminalExecution => jobs'[k].executionStatus \in TerminalExecution
    BY DocumentsAdvance DEF Claimable
  <1>2. ASSUME NEW v \in Workers, v # w
        PROVE  worker'[v] = worker[v]
    BY <1>2, OtherWorkers
  <1>3. /\ worker'[w].pc \in Claiming => jobs'[worker'[w].job].executionStatus # "not_started"
        /\ worker'[w].pc = "completeMiss" => jobs'[worker'[w].job].executionStatus \in TerminalExecution
    <2>1. worker \in [Workers -> [pc : WorkerPcs, job : Jobs \cup {NoJob}]]
      BY DEF ExecutorTypeOK
    <2>2. worker[w].pc # "idle" => j \in DOMAIN jobs /\ jobs[j] \in Document /\ jobs \in [DOMAIN jobs -> Document]
      BY WorkersJob DEF ExecutorTypeOK, StoreTypeOK
    <2>3. Release(w) => worker'[w].pc \notin Claiming /\ worker'[w].pc # "completeMiss"
      BY <2>1 DEF Release, NoWork, Claiming
    <2>4. \A pc \in WorkerPcs : WorkerGoto(w, pc) => worker'[w].pc = pc /\ worker'[w].job = j
      BY <2>1 DEF WorkerGoto
    <2> USE DEF WorkerPcs
    <2>5. CASE Receive(w)
      BY <2>1, <2>5 DEF Receive, Claiming
    <2>6. CASE StartJob(w)
      <3>1. CASE Write(j, MarkRunningIfDispatched(jobs[j])) /\ Claimable(jobs[j]) /\ WorkerGoto(w, "run")
        <4>1. jobs'[j].executionStatus = "running"
          BY <2>2, <2>6, <3>1 DEF StartJob, Write, MarkRunningIfDispatched, Document
        <4> QED BY <2>4, <3>1, <4>1
      <3> QED BY <2>3, <2>6, <3>1 DEF StartJob, Acked, AckLost, Nacked
    <2>7. CASE RunHandler(w)
      <3>1. worker[w].pc = "run" /\ jobs' = jobs /\ (WorkerGoto(w, "complete") \/ WorkerGoto(w, "fail"))
        BY <2>7 DEF RunHandler
      <3> QED BY <2>4, <3>1 DEF ClaimsStand, Claiming
    <2>8. CASE CompleteJob(w)
      <3>1. CASE /\ jobs[j].executionStatus # "running" /\ WorkerGoto(w, "completeMiss") /\ UNCHANGED jobs
        <4>1. jobs[j].executionStatus \in TerminalExecution
          BY <2>2, <2>8, <3>1 DEF CompleteJob, ClaimsStand, Claiming, Document, ExecutionStatuses, TerminalExecution
        <4> QED BY <2>4, <3>1, <4>1 DEF TerminalExecution
      <3> QED BY <2>3, <2>8, <3>1 DEF CompleteJob, Acked, AckLost, Nacked
    <2>9. CASE FailJobRead(w)
      <3>1. CASE WorkerGoto(w, "failWrite") /\ worker[w].pc = "fail" /\ UNCHANGED jobs
        BY <2>4, <3>1 DEF ClaimsStand, Claiming
      <3>2. CASE WorkerGoto(w, "rejectWrite")
        BY <2>4, <3>2 DEF Claiming
      <3> QED BY <2>3, <2>9, <3>1, <3>2 DEF FailJobRead, Acked
    <2>10. CASE CompleteMiss(w) \/ FailJobWrite(w) \/ WorkerKilled(w)
      BY <2>3, <2>10 DEF CompleteMiss, FailJobWrite, WorkerKilled, Acked, AckLost, Nacked
    <2> QED BY <2>5, <2>6, <2>7, <2>8, <2>9, <2>10 DEF WorkerStep
  <1> QED BY <1>1, <1>2, <1>3, ClaimKept DEF ClaimsStand

(* A worker hands a message back only in a step in which a call fails, or  *)
(* dies with it.                                                           *)
LEMMA HandsBackAfterFault ==
  ASSUME ExecutorTypeOK, ClaimsStand, NEW w \in Workers, WorkerStep(w) \/ WorkerKilled(w),
         NEW k \in Jobs, queue'[k] > queue[k]
  PROVE  faults' > faults \/ kills' > kills
  <1>1. faults \in Nat /\ kills \in Nat /\ queue \in [Jobs -> Nat]
    BY ExecutorAssumption, JobStoreAssumption DEF ExecutorTypeOK, StoreTypeOK, BrokerTypeOK
  <1>2. Fault => faults' > faults
    BY <1>1 DEF Fault
  <1>3. ~UNCHANGED queue
    BY <1>1
  <1>4. CASE Receive(w)
    BY <1>1, <1>4 DEF Receive, Dequeue
  <1>5. CASE StartJob(w) \/ CompleteJob(w) \/ FailJobRead(w) \/ FailJobWrite(w)
    BY <1>2, <1>3, <1>5 DEF StartJob, CompleteJob, FailJobRead, FailJobWrite, Acked, WriteFails, CallFails
  <1>6. CASE CompleteMiss(w)
    BY <1>2, <1>3, <1>6 DEF CompleteMiss, ClaimsStand, Acked, CallFails
  <1>7. CASE WorkerKilled(w)
    BY <1>1, <1>7 DEF WorkerKilled
  <1>8. ~RunHandler(w)
    BY <1>3 DEF RunHandler
  <1> QED BY <1>4, <1>5, <1>6, <1>7, <1>8 DEF WorkerStep

(* What a client cancels or fails was not given back to the workers: the   *)
(* document is terminal afterwards, if it was not already.                 *)
LEMMA StepClient ==
  ASSUME ExecInv, NEW i \in Jobs, i \in DOMAIN jobs, ClientWrites(i)
  PROVE  ExecInv'
  <1>1. ExecutorTypeOK /\ StoreTypeOK /\ jobs \in [DOMAIN jobs -> Document] /\ jobs[i] \in Document
    BY DEF ExecInv, ExecutorTypeOK, StoreTypeOK
  <1>2. PICK e \in {CancelPatch(jobs[i]), FailIfNotTerminal(jobs[i])} : jobs' = [jobs EXCEPT ![i] = e]
    BY DEF ClientWrites
  <1>3. UNCHANGED <<faults, queue, worker, kills, runs, succeeded, abandoned>>
    BY DEF ClientWrites, executorVars
  <1>4. /\ e \in Document
        /\ e.executionStatus \in TerminalExecution
        /\ e.executionStatus = "completed" => jobs[i].executionStatus = "completed"
        /\ e.retryCount = jobs[i].retryCount
    <2>1. CASE e = CancelPatch(jobs[i])
      BY <1>1, <2>1, ApiWritesType DEF CancelPatch, Document, TerminalExecution
    <2>2. CASE e = FailIfNotTerminal(jobs[i])
      BY <1>1, <2>2, ExecutionWritesType DEF FailIfNotTerminal, Document, ExecutionStatuses, TerminalExecution
    <2> QED BY <1>2, <2>1, <2>2
  <1>5. StoreTypeOK' /\ DOMAIN jobs' = DOMAIN jobs
    BY <1>1, <1>2, <1>3, <1>4, UpdateType DEF StoreTypeOK
  <1>6. ExecutorTypeOK' /\ MessagesOfJobs'
    BY <1>1, <1>3, <1>5 DEF ExecInv, ExecutorTypeOK, BrokerTypeOK, MessagesOfJobs
  <1>7. ASSUME NEW k \in DOMAIN jobs
        PROVE  /\ jobs'[k].retryCount = jobs[k].retryCount
               /\ jobs'[k] = jobs[k] \/ jobs'[k].executionStatus \in TerminalExecution
               /\ jobs'[k].executionStatus = "completed" => jobs[k].executionStatus = "completed"
    BY <1>1, <1>2, <1>4
  <1>8. RunsPaid'
    BY <1>3, <1>5, <1>7 DEF ExecInv, RunsPaid, Claimable, TerminalExecution
  <1>9. SuccessSeen' /\ CompletedAfterSuccess'
    BY <1>3, <1>5, <1>7 DEF ExecInv, SuccessSeen, CompletedAfterSuccess
  <1>10. RunningOwned'
    BY <1>3, <1>5, <1>7 DEF ExecInv, RunningOwned, TerminalExecution
  <1>11. RejectsUnaccepted'
    BY <1>3 DEF ExecInv, RejectsUnaccepted
  <1> QED BY <1>6, <1>8, <1>9, <1>10, <1>11 DEF ExecInv

-----------------------------------------------------------------------------
(* ExecInv holds in every reachable state of the executors.  That the      *)
(* collection holds every job is part of the induction.                    *)
LEMMA ExecInvHolds == ExecutorSpec => []ExecInv
  <1> DEFINE Inv == ExecInv /\ DOMAIN jobs = Jobs
  <1>1. ExecutorsAloneInit => Inv
    BY ExecutorInitInv DEF ExecutorsAloneInit
  <1>2. Inv /\ [ExecutorsAloneNext]_execVars => Inv'
    <2> SUFFICES ASSUME Inv, [ExecutorsAloneNext]_execVars
                 PROVE  Inv'
      OBVIOUS
    <2>1. CASE ExecutorNext
      <3>1. PICK w \in Workers : WorkerStep(w) \/ WorkerKilled(w)
        BY <2>1 DEF ExecutorNext
      <3> QED
        BY <3>1, ExecutorNextType, StepRunsPaid, StepRejects, StepSuccess, StepOwner DEF ExecInv
    <2>2. CASE \E j \in Jobs : ClientWrites(j)
      <3>1. PICK j \in Jobs : ClientWrites(j)
        BY <2>2
      <3>2. DOMAIN jobs' = DOMAIN jobs
        BY <3>1 DEF ClientWrites
      <3> QED BY <3>1, <3>2, StepClient
    <2>3. CASE UNCHANGED execVars
      BY <2>3 DEF execVars, executorVars, ExecInv, ExecutorTypeOK, StoreTypeOK, BrokerTypeOK, MessagesOfJobs,
         RunsPaid, RejectsUnaccepted, SuccessSeen, CompletedAfterSuccess, RunningOwned
    <2> QED BY <2>1, <2>2, <2>3 DEF ExecutorsAloneNext
  <1>3. Inv => ExecInv
    OBVIOUS
  <1> QED BY <1>1, <1>2, <1>3, PTL DEF ExecutorSpec

(* Every reachable state of the executors is well typed. *)
THEOREM ExecutorTypeCorrect == ExecutorSpec => []ExecutorTypeOK
  <1>1. ExecInv => ExecutorTypeOK
    BY DEF ExecInv
  <1> QED BY <1>1, ExecInvHolds, PTL

(***************************************************************************)
(* Whatever messages are duplicated, workers killed, calls lost and jobs   *)
(* cancelled or failed meanwhile, a job that nobody retries runs its       *)
(* handler at most once.                                                   *)
(***************************************************************************)
THEOREM RunsCorrect == ExecutorSpec => []RunsCounted
  <1>1. ExecInv => RunsCounted
    BY DEF ExecInv, RunsPaid, RunsCounted
  <1> QED BY <1>1, ExecInvHolds, PTL

(* StartJob, Registry.Run and CompleteJob: a job is never reported         *)
(* completed unless a run of its handler returned nil.                     *)
THEOREM CompletionCorrect == ExecutorSpec => []CompletedAfterSuccess
  <1>1. ExecInv => CompletedAfterSuccess
    BY DEF ExecInv
  <1> QED BY <1>1, ExecInvHolds, PTL

(* The executor loses no running job: its claimant still owes an outcome,  *)
(* or it died, or could not write the outcome.                             *)
THEOREM OwnerCorrect == ExecutorSpec => []RunningHasOwner
  <1>1. ExecInv => RunningHasOwner
    BY RunningOwnedHasOwner DEF ExecInv
  <1> QED BY <1>1, ExecInvHolds, PTL

(***************************************************************************)
(* Whatever clients cancel and fail under the workers, and however often   *)
(* messages were duplicated, a message comes back to the topic only for a  *)
(* failed call or a dead worker: nothing is nacked in a circle.            *)
(***************************************************************************)
THEOREM RedeliveryCorrect == ExecutorSpec => RedeliveredAfterFault
  <1> DEFINE Redelivered ==
        \A j \in Jobs : queue'[j] > queue[j] => faults' > faults \/ kills' > kills
  <1>1. ExecutorsAloneInit => ClaimsStand
    BY DEF ExecutorsAloneInit, ExecutorInit, NoWork, ClaimsStand, Claiming
  <1>2. ExecInv /\ ClaimsStand /\ [ExecutorsAloneNext]_execVars => ClaimsStand'
    <2> SUFFICES ASSUME ExecInv, ClaimsStand, [ExecutorsAloneNext]_execVars
                 PROVE  ClaimsStand'
      OBVIOUS
    <2>1. ExecutorTypeOK
      BY DEF ExecInv
    <2>2. CASE ExecutorNext
      BY <2>1, <2>2, StepClaimsStand DEF ExecutorNext
    <2>3. ASSUME NEW i \in Jobs, ClientWrites(i)
          PROVE  ClaimsStand'
      <3>1. worker' = worker
        BY <2>3 DEF ClientWrites, executorVars
      <3>2. ASSUME NEW k \in DOMAIN jobs, jobs[k].executionStatus # "not_started"
            PROVE  /\ jobs'[k].executionStatus # "not_started"
                   /\ jobs[k].executionStatus \in TerminalExecution
                        => jobs'[k].executionStatus \in TerminalExecution
        <4>1. jobs[k] \in Document /\ jobs \in [DOMAIN jobs -> Document]
          BY <2>1 DEF ExecutorTypeOK, StoreTypeOK
        <4>2. jobs'[k] \in {jobs[k], CancelPatch(jobs[k]), FailIfNotTerminal(jobs[k])}
          BY <2>3, <4>1 DEF ClientWrites
        <4> QED BY <3>2, <4>1, <4>2 DEF CancelPatch, FailIfNotTerminal, Document, TerminalExecution
      <3>3. "not_started" \notin TerminalExecution
        BY DEF TerminalExecution
      <3>4. \A k \in DOMAIN jobs :
              /\ jobs[k].executionStatus # "not_started" => jobs'[k].executionStatus # "not_started"
              /\ jobs[k].executionStatus \in TerminalExecution
                   => jobs'[k].executionStatus \in TerminalExecution
        BY <3>2, <3>3
      <3> QED BY <2>1, <3>1, <3>4, ClaimKept DEF ClaimsStand
    <2>4. CASE UNCHANGED execVars
      BY <2>4 DEF execVars, executorVars, ClaimsStand
    <2> QED BY <2>2, <2>3, <2>4 DEF ExecutorsAloneNext
  <1>3. ExecInv /\ ClaimsStand /\ [ExecutorsAloneNext]_execVars => [Redelivered]_queue
    <2> SUFFICES ASSUME ExecInv, ClaimsStand, [ExecutorsAloneNext]_execVars, queue' # queue
                 PROVE  Redelivered
      OBVIOUS
    <2>1. ExecutorNext
      BY DEF ExecutorsAloneNext, ClientWrites, execVars
    <2> QED BY <2>1, HandsBackAfterFault DEF ExecInv, ExecutorNext
  <1> QED BY <1>1, <1>2, <1>3, ExecInvHolds, PTL DEF ExecutorSpec, RedeliveredAfterFault
=============================================================================
