----------------------------- MODULE JobbyProofs -----------------------------
(***************************************************************************)
(* Theorems about the whole system, with any number of jobs, workers and   *)
(* clients: the type invariant and the executors' safety properties hold   *)
(* of it too, although its clients retry jobs, the dispatcher's hold under *)
(* all other writers, and without retries every dispatched job is in       *)
(* flight, every message accounted for and every document valid.           *)
(***************************************************************************)
EXTENDS Jobby, DispatcherProofs, ExecutorProofs, FiniteSetTheorems

(***************************************************************************)
(* The inductive invariant.  What pays for runs is now a credit: a job has *)
(* 1 + retryCount of them, has spent one on every run, holds one while it  *)
(* can be claimed, and has granted one to every request that counted its   *)
(* retry and has not reset the job yet.                                    *)
(***************************************************************************)
Granted(j) == {c \in Clients : client[c].pc = "reset" /\ client[c].job = j}

Unspent(d) == IF Claimable(d) THEN 1 ELSE 0

RunsFunded ==
  /\ \A j \in DOMAIN jobs :
       runs[j] + Cardinality(Granted(j)) + Unspent(jobs[j]) <= 1 + jobs[j].retryCount
  /\ \A j \in Jobs \ DOMAIN jobs : runs[j] = 0

JobbyInv ==
  /\ TypeOK
  /\ MessagesOfJobs
  /\ RunsFunded
  /\ RejectsUnaccepted
  /\ SuccessSeen
  /\ CompletedAfterSuccess
  /\ RunningOwned

-----------------------------------------------------------------------------
(* The dispatcher's part. *)

(* What a write of HandleDispatch leaves alone. *)
SameExecution(d, e) ==
  /\ e.executionStatus = d.executionStatus
  /\ e.startedAt = d.startedAt
  /\ e.completedAt = d.completedAt
  /\ e.retryCount = d.retryCount
  /\ d.errors \subseteq e.errors

LEMMA DispatchWritesKeep ==
  ASSUME NEW d \in Document, NEW n \in Nat,
         NEW e \in {MarkDispatchedIfPending(d), RecordDispatchAttemptIfPending(d, n),
                    MarkDispatchFailedIfPending(d)}
  PROVE  SameExecution(d, e)
  <1> USE DEF Document, SameExecution
  <1>1. CASE e = MarkDispatchedIfPending(d)
    BY <1>1 DEF MarkDispatchedIfPending
  <1>2. CASE e = RecordDispatchAttemptIfPending(d, n)
    BY <1>2 DEF RecordDispatchAttemptIfPending
  <1>3. CASE e = MarkDispatchFailedIfPending(d)
    BY <1>3 DEF MarkDispatchFailedIfPending
  <1> QED BY <1>1, <1>2, <1>3

(* Only a goroutine at its confirm makes a job dispatched. *)
LEMMA HandlerWrites ==
  ASSUME DispatcherTypeOK, NEW g \in Goroutines, HandlerStep(g)
  PROVE  /\ DOMAIN jobs' = DOMAIN jobs
         /\ \A k \in DOMAIN jobs :
              /\ SameExecution(jobs[k], jobs'[k])
              /\ jobs'[k].dispatchStatus = "dispatched" =>
                   \/ jobs[k].dispatchStatus = "dispatched"
                   \/ call[g].pc = "confirm" /\ call[g].job = k
         /\ Enqueue(call[g].job) \/ UNCHANGED queue
  <1> DEFINE j == call[g].job
             d == jobs[j]
             n == call[g].attempts
  <1>1. call[g].pc \in {"publish", "confirm", "record", "giveup"}
    BY DEF HandlerStep, PublishOK, PublishError, MarkJobDispatched, RecordDispatchAttempt,
           MarkJobDispatchFailed
  <1>2. j \in DOMAIN jobs /\ d \in Document /\ n \in Nat /\ jobs \in [DOMAIN jobs -> Document]
    BY <1>1, HandledJob DEF DispatcherTypeOK, StoreTypeOK
  <1>3. \/ jobs' = jobs
        \/ jobs' = [jobs EXCEPT ![j] = MarkDispatchedIfPending(d)] /\ call[g].pc = "confirm"
        \/ jobs' = [jobs EXCEPT ![j] = RecordDispatchAttemptIfPending(d, n)]
        \/ jobs' = [jobs EXCEPT ![j] = MarkDispatchFailedIfPending(d)]
    BY DEF HandlerStep, PublishOK, PublishError, MarkJobDispatched, RecordDispatchAttempt,
           MarkJobDispatchFailed, Write, WriteFails
  <1>4. Enqueue(j) \/ UNCHANGED queue
    BY DEF HandlerStep, PublishOK, PublishError, MarkJobDispatched, RecordDispatchAttempt,
           MarkJobDispatchFailed, Delivered
  <1>5. ASSUME NEW k \in DOMAIN jobs PROVE SameExecution(jobs[k], jobs[k])
    BY DEF SameExecution
  <1>6. RecordDispatchAttemptIfPending(d, n).dispatchStatus = d.dispatchStatus
    BY <1>2 DEF RecordDispatchAttemptIfPending, Document
  <1>7. MarkDispatchFailedIfPending(d).dispatchStatus = "dispatched" => d.dispatchStatus = "dispatched"
    BY <1>2 DEF MarkDispatchFailedIfPending, Document
  <1>8. /\ SameExecution(d, MarkDispatchedIfPending(d))
        /\ SameExecution(d, RecordDispatchAttemptIfPending(d, n))
        /\ SameExecution(d, MarkDispatchFailedIfPending(d))
    BY <1>2, DispatchWritesKeep
  <1> QED BY <1>2, <1>3, <1>4, <1>5, <1>6, <1>7, <1>8

(* A step of the dispatcher inserts a new document, or changes one in      *)
(* fields that are not the executors'; it takes no message away.           *)
LEMMA DispatcherWrites ==
  ASSUME DispatcherTypeOK, DispatcherNext
  PROVE  /\ DOMAIN jobs \subseteq DOMAIN jobs'
         /\ \A k \in DOMAIN jobs :
              /\ SameExecution(jobs[k], jobs'[k])
              /\ jobs'[k].dispatchStatus = "dispatched" =>
                   \/ jobs[k].dispatchStatus = "dispatched"
                   \/ \E g \in Goroutines : call[g].pc = "confirm" /\ call[g].job = k
         /\ \A k \in DOMAIN jobs' \ DOMAIN jobs : jobs'[k] = NewJobMetadata
         /\ \A k \in Jobs :
              /\ queue[k] > 0 => queue'[k] > 0
              /\ queue'[k] > 0 => queue[k] > 0 \/ k \in DOMAIN jobs
  <1>1. ASSUME NEW k \in DOMAIN jobs PROVE SameExecution(jobs[k], jobs[k])
    BY DEF SameExecution
  <1>2. CASE \E j \in Jobs : CreateJob(j)
    BY <1>1, <1>2 DEF CreateJob
  <1>3. CASE \E g \in Goroutines : HandlerStep(g)
    <2>1. PICK g \in Goroutines : HandlerStep(g)
      BY <1>3
    <2>2. call[g].pc \in {"publish", "confirm", "record", "giveup"}
      BY <2>1 DEF HandlerStep, PublishOK, PublishError, MarkJobDispatched, RecordDispatchAttempt,
                  MarkJobDispatchFailed
    <2>3. call[g].job \in DOMAIN jobs /\ queue \in [Jobs -> Nat]
      BY <2>2, HandledJob DEF DispatcherTypeOK, BrokerTypeOK
    <2>4. \A k \in Jobs : (queue[k] > 0 => queue'[k] > 0) /\ (queue'[k] > 0 => queue[k] > 0 \/ k \in DOMAIN jobs)
      BY <2>1, <2>3, HandlerWrites DEF Enqueue
    <2> QED BY <2>1, <2>4, HandlerWrites
  <1>4. CASE UNCHANGED <<jobs, queue>>
    BY <1>1, <1>4
  <1> QED
    BY <1>2, <1>3, <1>4 DEF DispatcherNext, StreamStep, PollStep, StreamOpen, StreamNext, SaveToken,
                            StreamError, PollFetch, PollNext, DispatcherCrash, CallFails

(* The dispatcher's part keeps the invariant: what it inserts starts with  *)
(* the one run that its creation pays for.                                 *)
LEMMA DispatcherPartInv ==
  ASSUME JobbyInv, DispatcherPart
  PROVE  JobbyInv'
  <1>1. /\ DispatcherTypeOK /\ ExecutorTypeOK /\ ApiTypeOK /\ DispatcherNext
        /\ UNCHANGED <<worker, kills, runs, succeeded, abandoned, client>>
    BY DEF JobbyInv, TypeOK, DispatcherPart, executorVars
  <1>2. DispatcherTypeOK' /\ DOMAIN jobs \subseteq DOMAIN jobs'
    BY <1>1, DispatcherNextType, DispatcherWrites
  <1>3. TypeOK'
    BY <1>1, <1>2 DEF TypeOK, DispatcherTypeOK, ExecutorTypeOK, ApiTypeOK
  <1>4. MessagesOfJobs'
    BY <1>1, <1>2, DispatcherWrites DEF JobbyInv, MessagesOfJobs
  <1>5. \A k \in DOMAIN jobs : SameExecution(jobs[k], jobs'[k])
    BY <1>1, DispatcherWrites
  <1>6. \A k \in DOMAIN jobs' \ DOMAIN jobs : jobs'[k] = NewJobMetadata
    BY <1>1, DispatcherWrites
  <1>7. RunsFunded'
    <2>1. \A k \in DOMAIN jobs' : Granted(k)' = Granted(k)
      BY <1>1 DEF Granted
    <2>2. ASSUME NEW k \in DOMAIN jobs
          PROVE  runs'[k] + Cardinality(Granted(k)') + Unspent(jobs'[k]) <= 1 + jobs'[k].retryCount
      BY <1>1, <1>2, <1>5, <2>1, <2>2 DEF SameExecution, JobbyInv, RunsFunded, Unspent, Claimable
    <2>3. ASSUME NEW k \in DOMAIN jobs', k \notin DOMAIN jobs
          PROVE  runs'[k] + Cardinality(Granted(k)') + Unspent(jobs'[k]) <= 1 + jobs'[k].retryCount
      <3>1. Granted(k)' = {}
        BY <1>1, <2>1, <2>3 DEF Granted, ApiTypeOK
      <3>2. Cardinality(Granted(k)') = 0
        BY <3>1, FS_EmptySet
      <3>3. k \in Jobs
        BY <1>2, <2>3 DEF DispatcherTypeOK, StoreTypeOK
      <3>4. runs'[k] = 0 /\ jobs'[k] = NewJobMetadata
        BY <1>1, <1>6, <2>3, <3>3 DEF JobbyInv, RunsFunded
      <3> QED BY <3>2, <3>4 DEF NewJobMetadata, Unspent, Claimable
    <2>4. \A k \in Jobs \ DOMAIN jobs' : runs'[k] = 0
      BY <1>1, <1>2 DEF JobbyInv, RunsFunded
    <2> QED BY <2>2, <2>3, <2>4 DEF RunsFunded
  <1>8. NewJobMetadata.executionStatus = "not_started"
    BY DEF NewJobMetadata
  <1>9. RejectsUnaccepted' /\ SuccessSeen' /\ CompletedAfterSuccess' /\ RunningOwned'
    BY <1>1, <1>5, <1>6, <1>8 DEF JobbyInv, RejectsUnaccepted, SuccessSeen, CompletedAfterSuccess, RunningOwned, SameExecution
  <1> QED BY <1>3, <1>4, <1>7, <1>9 DEF JobbyInv

-----------------------------------------------------------------------------
(* The executors' part. *)
LEMMA ExecutorPartInv ==
  ASSUME JobbyInv, ExecutorPart
  PROVE  JobbyInv'
  <1>1. /\ DispatcherTypeOK /\ ExecutorTypeOK /\ ApiTypeOK /\ MessagesOfJobs
        /\ RejectsUnaccepted /\ SuccessSeen /\ CompletedAfterSuccess /\ RunningOwned
        /\ UNCHANGED <<dispatcherVars, client>>
    BY DEF JobbyInv, TypeOK, ExecutorPart
  <1>2. PICK w \in Workers : WorkerStep(w) \/ WorkerKilled(w)
    BY DEF ExecutorPart, ExecutorNext
  <1>3. ExecutorTypeOK' /\ MessagesOfJobs' /\ DOMAIN jobs' = DOMAIN jobs
    BY <1>1, <1>2, ExecutorNextType
  <1>4. DispatcherTypeOK'
    BY <1>1, <1>3 DEF dispatcherVars, streamVars, historyVars, DispatcherTypeOK, ExecutorTypeOK
  <1>5. ApiTypeOK'
    BY <1>1, <1>3 DEF ApiTypeOK
  <1>6. RejectsUnaccepted' /\ SuccessSeen' /\ CompletedAfterSuccess' /\ RunningOwned'
    BY <1>1, <1>2, StepRejects, StepSuccess, StepOwner
  <1>7. RunsFunded'
    <2> DEFINE j == worker[w].job
    <2>1. \A k \in DOMAIN jobs : Granted(k)' = Granted(k)
      BY <1>1 DEF Granted
    <2>2. ASSUME NEW k \in DOMAIN jobs
          PROVE  /\ Cardinality(Granted(k)) \in Nat
                 /\ jobs[k].retryCount \in Nat /\ runs[k] \in Nat
                 /\ jobs'[k].retryCount = jobs[k].retryCount
                 /\ Claimable(jobs'[k]) => Claimable(jobs[k])
      <3>1. IsFiniteSet(Granted(k))
        BY JobApiAssumption, FS_Subset DEF Granted
      <3>2. Cardinality(Granted(k)) \in Nat
        BY <3>1, FS_CardinalityType
      <3>3. jobs[k].retryCount \in Nat /\ runs[k] \in Nat
        BY <1>1 DEF ExecutorTypeOK, StoreTypeOK, Document
      <3> QED BY <1>1, <1>2, <3>2, <3>3, DocumentsAdvance
    <2>3. CASE runs' = runs
      BY <1>3, <2>1, <2>2, <2>3 DEF JobbyInv, RunsFunded, Unspent
    <2>4. CASE /\ j \in DOMAIN jobs /\ j \in Jobs
               /\ Claimable(jobs[j]) /\ ~Claimable(jobs'[j])
               /\ runs' = [runs EXCEPT ![j] = @ + 1]
      <3>1. runs \in [Jobs -> Nat]
        BY <1>1 DEF ExecutorTypeOK
      <3>2. ASSUME NEW k \in DOMAIN jobs
            PROVE  runs'[k] + Cardinality(Granted(k)') + Unspent(jobs'[k]) <= 1 + jobs'[k].retryCount
        <4>1. runs[k] + Cardinality(Granted(k)) + Unspent(jobs[k]) <= 1 + jobs[k].retryCount
          BY DEF JobbyInv, RunsFunded
        <4>2. CASE k = j
          <5>1. runs'[k] = runs[k] + 1 /\ Unspent(jobs[k]) = 1 /\ Unspent(jobs'[k]) = 0
            BY <2>4, <3>1, <4>2 DEF Unspent
          <5> QED BY <2>1, <2>2, <4>1, <5>1
        <4>3. CASE k # j
          <5>1. runs'[k] = runs[k] /\ Unspent(jobs'[k]) <= Unspent(jobs[k])
            BY <2>2, <2>4, <3>1, <4>3 DEF Unspent
          <5>2. Unspent(jobs'[k]) \in Nat /\ Unspent(jobs[k]) \in Nat
            BY DEF Unspent
          <5> QED BY <2>1, <2>2, <4>1, <5>1, <5>2
        <4> QED BY <4>2, <4>3
      <3>3. \A k \in Jobs \ DOMAIN jobs : runs'[k] = 0
        BY <2>4, <3>1 DEF JobbyInv, RunsFunded
      <3> QED BY <1>3, <3>2, <3>3 DEF RunsFunded
    <2> QED BY <1>1, <1>2, <2>3, <2>4, RunStarts
  <1> QED BY <1>3, <1>4, <1>5, <1>6, <1>7 DEF JobbyInv, TypeOK

-----------------------------------------------------------------------------
(* The clients' part. *)

(* A request under way is for a job of the collection, and every patch of  *)
(* the service makes a document of its document.                           *)
LEMMA ClientsJob ==
  ASSUME StoreTypeOK, ApiTypeOK, NEW c \in Clients, client[c].pc # "idle"
  PROVE  LET j == client[c].job
             d == jobs[j] IN
         /\ j \in DOMAIN jobs /\ j \in Jobs /\ d \in Document
         /\ CancelPatch(d) \in Document
         /\ FailIfNotTerminal(d) \in Document
         /\ IncrementRetryCount(d) \in Document
         /\ RetryPatch(d) \in Document
         /\ ClearJobExecutionTimestamps(d) \in Document
  <1>1. client[c].job \in DOMAIN jobs /\ client[c].job \in Jobs /\ jobs[client[c].job] \in Document
    BY DEF StoreTypeOK, ApiTypeOK
  <1> QED BY <1>1, ApiWritesType, ExecutionWritesType

(* What a write of a request does, answered or not. *)
LEMMA StepEffect ==
  ASSUME StoreTypeOK, ApiTypeOK, NEW c \in Clients,
         NEW pc \in ClientPcs \ {"idle"}, NEW next \in ClientPcs,
         NEW d \in Document, Step(c, pc, d, next)
  PROVE  /\ client[c].pc = pc
         /\ StoreTypeOK' /\ ApiTypeOK' /\ DOMAIN jobs' = DOMAIN jobs
         /\ \/ /\ jobs' = [jobs EXCEPT ![client[c].job] = d]
               /\ next # "idle"
               /\ client' = [client EXCEPT ![c].pc = next]
            \/ /\ jobs' = [jobs EXCEPT ![client[c].job] = d]
               /\ client' = [client EXCEPT ![c] = NoRequest]
            \/ /\ jobs' = jobs
               /\ client' = [client EXCEPT ![c] = NoRequest]
  <1>1. client[c].pc = pc
    BY DEF Step
  <1>2. client[c].job \in DOMAIN jobs
    BY <1>1, ClientsJob
  <1>3. Write(client[c].job, d) \/ WriteFails(client[c].job, d)
    BY DEF Step
  <1>4. StoreTypeOK' /\ DOMAIN jobs' = DOMAIN jobs
    BY <1>2, <1>3, WriteType
  <1>5. \/ /\ jobs' = [jobs EXCEPT ![client[c].job] = d]
           /\ next # "idle"
           /\ client' = [client EXCEPT ![c].pc = next]
        \/ /\ jobs' = [jobs EXCEPT ![client[c].job] = d]
           /\ client' = [client EXCEPT ![c] = NoRequest]
        \/ /\ jobs' = jobs
           /\ client' = [client EXCEPT ![c] = NoRequest]
    BY DEF Step, Write, WriteFails, Proceed, Respond
  <1>6. ApiTypeOK'
    <2>1. client' \in {[client EXCEPT ![c].pc = next], [client EXCEPT ![c] = NoRequest]}
      BY <1>5
    <2>2. CASE client' = [client EXCEPT ![c].pc = next]
      BY <1>2, <1>4, <2>2 DEF ApiTypeOK
    <2>3. CASE client' = [client EXCEPT ![c] = NoRequest]
      BY <1>4, <2>3 DEF ApiTypeOK, NoRequest, ClientPcs
    <2> QED BY <2>1, <2>2, <2>3
  <1> QED BY <1>1, <1>4, <1>5, <1>6

(* The reads that a call begins with leave the collection alone. *)
LEMMA RequestType ==
  ASSUME StoreTypeOK, ApiTypeOK, NEW c \in Clients, CancelRead(c) \/ FailRead(c) \/ RetryRead(c)
  PROVE  /\ UNCHANGED <<jobs, faults>> /\ StoreTypeOK' /\ ApiTypeOK'
         /\ client[c].pc = "idle"
         /\ \E pc \in {"cancel", "fail", "increment"}, j \in DOMAIN jobs :
              client' = [client EXCEPT ![c] = [pc |-> pc, job |-> j]]
  <1>1. UNCHANGED <<jobs, faults>> /\ client[c].pc = "idle"
    BY DEF CancelRead, FailRead, RetryRead, Request
  <1>2. \E pc \in {"cancel", "fail", "increment"}, j \in DOMAIN jobs :
          client' = [client EXCEPT ![c] = [pc |-> pc, job |-> j]]
    BY DEF CancelRead, FailRead, RetryRead, Request
  <1>3. StoreTypeOK' /\ ApiTypeOK'
    BY <1>1, <1>2 DEF StoreTypeOK, ApiTypeOK, ClientPcs
  <1> QED BY <1>1, <1>2, <1>3

(* The patches of the service: none of them completes a job or makes it    *)
(* run, only the counted retry raises retryCount, only the reset makes a   *)
(* job claimable.                                                          *)
LEMMA PatchEffects ==
  ASSUME NEW d \in Document
  PROVE  /\ \A e \in {CancelPatch(d), FailIfNotTerminal(d), IncrementRetryCount(d), RetryPatch(d),
                      ClearJobExecutionTimestamps(d)} :
              e.executionStatus \in {"completed", "running"} => e.executionStatus = d.executionStatus
         /\ \A e \in {CancelPatch(d), FailIfNotTerminal(d), ClearJobExecutionTimestamps(d)} :
              e.retryCount = d.retryCount /\ Unspent(e) <= Unspent(d)
         /\ IncrementRetryCount(d).retryCount = d.retryCount + 1
         /\ Unspent(IncrementRetryCount(d)) = Unspent(d)
         /\ RetryPatch(d).retryCount = d.retryCount
         /\ Unspent(RetryPatch(d)) = 1
         /\ Unspent(d) \in {0, 1}
  <1> USE DEF Document, Unspent, Claimable
  <1>1. \A e \in {CancelPatch(d), FailIfNotTerminal(d), IncrementRetryCount(d), RetryPatch(d),
                  ClearJobExecutionTimestamps(d)} :
          e.executionStatus \in {"completed", "running"} => e.executionStatus = d.executionStatus
    BY DEF CancelPatch, FailIfNotTerminal, IncrementRetryCount, RetryPatch, ClearJobExecutionTimestamps
  <1>2. CancelPatch(d).retryCount = d.retryCount /\ Unspent(CancelPatch(d)) = 0
    BY DEF CancelPatch
  <1>3. FailIfNotTerminal(d).retryCount = d.retryCount /\ Unspent(FailIfNotTerminal(d)) = 0
    BY DEF FailIfNotTerminal
  <1>4. /\ ClearJobExecutionTimestamps(d).retryCount = d.retryCount
        /\ Unspent(ClearJobExecutionTimestamps(d)) = Unspent(d)
    BY DEF ClearJobExecutionTimestamps
  <1>5. /\ IncrementRetryCount(d).retryCount = d.retryCount + 1
        /\ Unspent(IncrementRetryCount(d)) = Unspent(d)
    BY DEF IncrementRetryCount
  <1>6. RetryPatch(d).retryCount = d.retryCount /\ Unspent(RetryPatch(d)) = 1
    BY DEF RetryPatch
  <1> QED BY <1>1, <1>2, <1>3, <1>4, <1>5, <1>6

(* The write of a request, as one of the five patches. *)
LEMMA RequestWrite ==
  ASSUME StoreTypeOK, ApiTypeOK, NEW c \in Clients,
         \/ CancelWrite(c) \/ FailWrite(c) \/ RetryIncrement(c) \/ RetryReset(c) \/ RetryClear(c)
  PROVE  LET j == client[c].job
             d == jobs[j] IN
         /\ j \in DOMAIN jobs /\ j \in Jobs /\ d \in Document
         /\ StoreTypeOK' /\ ApiTypeOK' /\ DOMAIN jobs' = DOMAIN jobs
         /\ \/ jobs' = jobs
            \/ \E e \in {CancelPatch(d), FailIfNotTerminal(d), IncrementRetryCount(d), RetryPatch(d),
                         ClearJobExecutionTimestamps(d)} :
                 jobs' = [jobs EXCEPT ![j] = e]
  <1>1. client[c].pc # "idle"
    BY DEF CancelWrite, FailWrite, RetryIncrement, RetryReset, RetryClear, Step
  <1>2. client[c].job \in DOMAIN jobs /\ client[c].job \in Jobs /\ jobs[client[c].job] \in Document
    BY <1>1, ClientsJob
  <1> DEFINE j == client[c].job
             d == jobs[j]
             Effect(e) == /\ StoreTypeOK' /\ ApiTypeOK' /\ DOMAIN jobs' = DOMAIN jobs
                          /\ jobs' = jobs \/ jobs' = [jobs EXCEPT ![j] = e]
  <1>3. ASSUME NEW pc \in ClientPcs \ {"idle"}, NEW next \in ClientPcs, NEW e \in Document,
               Step(c, pc, e, next)
        PROVE  Effect(e)
    BY <1>3, StepEffect
  <1>4. /\ CancelPatch(d) \in Document /\ FailIfNotTerminal(d) \in Document
        /\ IncrementRetryCount(d) \in Document /\ RetryPatch(d) \in Document
        /\ ClearJobExecutionTimestamps(d) \in Document
    BY <1>1, ClientsJob
  <1>5. /\ "idle" \in ClientPcs /\ "reset" \in ClientPcs /\ "clear" \in ClientPcs
        /\ "cancel" \in ClientPcs /\ "fail" \in ClientPcs /\ "increment" \in ClientPcs
    BY DEF ClientPcs
  <1> HIDE DEF Effect
  <1>6. \/ Effect(CancelPatch(d)) \/ Effect(FailIfNotTerminal(d)) \/ Effect(IncrementRetryCount(d))
        \/ Effect(RetryPatch(d)) \/ Effect(ClearJobExecutionTimestamps(d))
    <2>1. CASE CancelWrite(c)
      BY <1>3, <1>4, <1>5, <2>1 DEF CancelWrite
    <2>2. CASE FailWrite(c)
      BY <1>3, <1>4, <1>5, <2>2 DEF FailWrite
    <2>3. CASE RetryIncrement(c)
      BY <1>3, <1>4, <1>5, <2>3 DEF RetryIncrement
    <2>4. CASE RetryReset(c)
      BY <1>3, <1>4, <1>5, <2>4 DEF RetryReset
    <2>5. CASE RetryClear(c)
      BY <1>3, <1>4, <1>5, <2>5 DEF RetryClear
    <2> QED BY <2>1, <2>2, <2>3, <2>4, <2>5
  <1> QED BY <1>2, <1>6 DEF Effect

(* The credits of a job through the step of a request: the counted retry   *)
(* grants one, or loses it if its answer is lost, and the reset hands it   *)
(* to the document.                                                        *)
LEMMA RequestFunds ==
  ASSUME StoreTypeOK, ApiTypeOK, NEW c \in Clients, ClientStep(c), NEW k \in DOMAIN jobs
  PROVE  /\ Cardinality(Granted(k)) \in Nat /\ Cardinality(Granted(k)') \in Nat
         /\ Cardinality(Granted(k)') + Unspent(jobs'[k]) + jobs[k].retryCount
              <= Cardinality(Granted(k)) + Unspent(jobs[k]) + jobs'[k].retryCount
  <1> DEFINE j == client[c].job
             d == jobs[k]
  <1>1. /\ d \in Document /\ jobs \in [DOMAIN jobs -> Document] /\ d.retryCount \in Nat
        /\ client \in [Clients -> [pc : ClientPcs, job : Jobs \cup {NoJob}]]
        /\ Unspent(d) \in {0, 1}
    BY DEF StoreTypeOK, ApiTypeOK, Document, Unspent
  <1>2. IsFiniteSet(Granted(k)) /\ IsFiniteSet(Granted(k)')
    BY JobApiAssumption, FS_Subset DEF Granted
  <1>3. Cardinality(Granted(k)) \in Nat /\ Cardinality(Granted(k)') \in Nat
    BY <1>2, FS_CardinalityType
  <1>4. ASSUME Granted(k)' = Granted(k),
               \/ jobs'[k] = d
               \/ jobs'[k] \in {CancelPatch(d), FailIfNotTerminal(d), ClearJobExecutionTimestamps(d),
                                IncrementRetryCount(d)}
        PROVE  Cardinality(Granted(k)') + Unspent(jobs'[k]) + d.retryCount
                 <= Cardinality(Granted(k)) + Unspent(d) + jobs'[k].retryCount
    <2>1. Unspent(jobs'[k]) <= Unspent(d) /\ jobs'[k].retryCount \in {d.retryCount, d.retryCount + 1}
      BY <1>1, <1>4, PatchEffects
    <2>2. Unspent(jobs'[k]) \in {0, 1}
      BY DEF Unspent
    <2> QED BY <1>1, <1>3, <1>4, <2>1, <2>2
  <1>5. CASE CancelRead(c) \/ FailRead(c) \/ RetryRead(c)
    <2>1. Granted(k)' = Granted(k)
      BY <1>1, <1>5, RequestType DEF Granted
    <2> QED BY <1>4, <1>5, <2>1, RequestType, <1>3
  <1>6. CASE CancelWrite(c) \/ FailWrite(c) \/ RetryClear(c)
    <2>1. /\ client[c].pc \in {"cancel", "fail", "clear"}
          /\ client' = [client EXCEPT ![c] = NoRequest]
      BY <1>6, ClientsJob DEF CancelWrite, FailWrite, RetryClear, Step, Respond
    <2>2. Granted(k)' = Granted(k)
      BY <1>1, <2>1 DEF Granted, NoRequest
    <2>3. j \in DOMAIN jobs
      BY <2>1, ClientsJob
    <2>4. jobs'[k] = d \/ jobs'[k] \in {CancelPatch(d), FailIfNotTerminal(d), ClearJobExecutionTimestamps(d)}
      BY <1>1, <1>6, <2>3 DEF CancelWrite, FailWrite, RetryClear, Step, Write, WriteFails
    <2> QED BY <1>3, <1>4, <2>2, <2>4
  <1>7. CASE RetryIncrement(c)
    <2>1. client[c].pc = "increment" /\ j \in DOMAIN jobs /\ IncrementRetryCount(jobs[j]) \in Document
      BY <1>7, ClientsJob DEF RetryIncrement, Step
    <2>2. \/ /\ jobs' = [jobs EXCEPT ![j] = IncrementRetryCount(jobs[j])]
             /\ client' = [client EXCEPT ![c].pc = "reset"]
          \/ /\ jobs' \in {jobs, [jobs EXCEPT ![j] = IncrementRetryCount(jobs[j])]}
             /\ client' = [client EXCEPT ![c] = NoRequest]
      BY <1>7 DEF RetryIncrement, Step, Write, WriteFails, Proceed, Respond
    <2>3. CASE client' = [client EXCEPT ![c] = NoRequest]
      <3>1. Granted(k)' = Granted(k)
        BY <1>1, <2>1, <2>3 DEF Granted, NoRequest
      <3>2. jobs'[k] = d \/ jobs'[k] = IncrementRetryCount(d)
        BY <1>1, <2>1, <2>2
      <3> QED BY <1>3, <1>4, <3>1, <3>2
    <2>4. CASE /\ jobs' = [jobs EXCEPT ![j] = IncrementRetryCount(jobs[j])]
               /\ client' = [client EXCEPT ![c].pc = "reset"]
      <3>1. CASE k # j
        <4>1. Granted(k)' = Granted(k)
          BY <1>1, <2>1, <2>4, <3>1 DEF Granted
        <4> QED BY <1>1, <1>3, <1>4, <2>4, <3>1, <4>1
      <3>2. CASE k = j
        <4>1. Granted(k)' = Granted(k) \cup {c} /\ c \notin Granted(k)
          BY <1>1, <2>1, <2>4, <3>2 DEF Granted
        <4>2. Cardinality(Granted(k)') = Cardinality(Granted(k)) + 1
          BY <1>2, <4>1, FS_AddElement
        <4>3. jobs'[k] = IncrementRetryCount(d)
          BY <1>1, <2>1, <2>4, <3>2
        <4>4. jobs'[k].retryCount = d.retryCount + 1 /\ Unspent(jobs'[k]) = Unspent(d)
          BY <1>1, <4>3, PatchEffects
        <4> QED BY <1>1, <1>3, <4>2, <4>4
      <3> QED BY <3>1, <3>2
    <2> QED BY <2>2, <2>3, <2>4
  <1>8. CASE RetryReset(c)
    <2>1. client[c].pc = "reset" /\ j \in DOMAIN jobs
      BY <1>8, ClientsJob DEF RetryReset, Step
    <2>2. /\ jobs' \in {jobs, [jobs EXCEPT ![j] = RetryPatch(jobs[j])]}
          /\ client' \in {[client EXCEPT ![c].pc = "clear"], [client EXCEPT ![c] = NoRequest]}
      BY <1>8 DEF RetryReset, Step, Write, WriteFails, Proceed, Respond
    <2>3. CASE k # j
      <3>1. Granted(k)' = Granted(k)
        BY <1>1, <2>1, <2>2, <2>3 DEF Granted, NoRequest
      <3>2. jobs'[k] = d
        BY <1>1, <2>2, <2>3
      <3> QED BY <1>3, <1>4, <3>1, <3>2
    <2>4. CASE k = j
      <3>1. Granted(k)' = Granted(k) \ {c} /\ c \in Granted(k)
        BY <1>1, <2>1, <2>2, <2>4 DEF Granted, NoRequest
      <3>2. Cardinality(Granted(k)') = Cardinality(Granted(k)) - 1
        BY <1>2, <3>1, FS_RemoveElement
      <3>3. jobs'[k] = d \/ jobs'[k] = RetryPatch(d)
        BY <1>1, <2>1, <2>2, <2>4
      <3>4. jobs'[k].retryCount = d.retryCount /\ Unspent(jobs'[k]) \in {0, 1} /\ Unspent(d) \in {0, 1}
        BY <1>1, <3>3, PatchEffects DEF Unspent
      <3> QED BY <1>1, <1>3, <3>2, <3>4
    <2> QED BY <2>3, <2>4
  <1> QED BY <1>3, <1>5, <1>6, <1>7, <1>8 DEF ClientStep

(* The clients' part keeps the invariant. *)
LEMMA ApiPartInv ==
  ASSUME JobbyInv, ApiPart
  PROVE  JobbyInv'
  <1>1. /\ DispatcherTypeOK /\ ExecutorTypeOK /\ ApiTypeOK /\ StoreTypeOK
        /\ UNCHANGED <<queue, dispatcherVars, executorVars>>
    BY DEF JobbyInv, TypeOK, DispatcherTypeOK, ApiPart
  <1>2. PICK c \in Clients : ClientStep(c)
    BY DEF ApiPart, ApiNext
  <1>3. /\ StoreTypeOK' /\ ApiTypeOK' /\ DOMAIN jobs' = DOMAIN jobs
        /\ \A k \in DOMAIN jobs :
             jobs'[k].executionStatus \in {"completed", "running"}
               => jobs'[k].executionStatus = jobs[k].executionStatus
    <2>1. CASE CancelRead(c) \/ FailRead(c) \/ RetryRead(c)
      BY <1>1, <2>1, RequestType
    <2>2. CASE CancelWrite(c) \/ FailWrite(c) \/ RetryIncrement(c) \/ RetryReset(c) \/ RetryClear(c)
      <3>1. jobs \in [DOMAIN jobs -> Document]
        BY <1>1 DEF StoreTypeOK
      <3> QED BY <1>1, <2>2, <3>1, RequestWrite, PatchEffects
    <2> QED BY <1>2, <2>1, <2>2 DEF ClientStep
  <1>4. TypeOK' /\ MessagesOfJobs'
    BY <1>1, <1>3 DEF JobbyInv, TypeOK, DispatcherTypeOK, ExecutorTypeOK, BrokerTypeOK, MessagesOfJobs,
                      dispatcherVars, streamVars, historyVars, executorVars
  <1>5. RejectsUnaccepted' /\ SuccessSeen' /\ CompletedAfterSuccess' /\ RunningOwned'
    BY <1>1, <1>3 DEF JobbyInv, RejectsUnaccepted, SuccessSeen, CompletedAfterSuccess, RunningOwned, executorVars
  <1>6. RunsFunded'
    <2>1. runs' = runs
      BY <1>1 DEF executorVars
    <2>2. ASSUME NEW k \in DOMAIN jobs
          PROVE  runs'[k] + Cardinality(Granted(k)') + Unspent(jobs'[k]) <= 1 + jobs'[k].retryCount
      <3>1. runs[k] \in Nat /\ jobs[k].retryCount \in Nat /\ jobs'[k].retryCount \in Nat
        BY <1>1, <1>3 DEF ExecutorTypeOK, StoreTypeOK, Document
      <3>2. Unspent(jobs[k]) \in Nat /\ Unspent(jobs'[k]) \in Nat
        BY DEF Unspent
      <3>3. runs[k] + Cardinality(Granted(k)) + Unspent(jobs[k]) <= 1 + jobs[k].retryCount
        BY DEF JobbyInv, RunsFunded
      <3> QED BY <1>1, <1>2, <2>1, <3>1, <3>2, <3>3, RequestFunds
    <2> QED BY <1>3, <2>1, <2>2 DEF RunsFunded, JobbyInv
  <1> QED BY <1>4, <1>5, <1>6 DEF JobbyInv

-----------------------------------------------------------------------------
(* JobbyInv holds in every reachable state of the system. *)
LEMMA JobbyInvHolds == Spec => []JobbyInv
  <1>1. Init => JobbyInv
    <2> SUFFICES ASSUME Init
                 PROVE  JobbyInv
      OBVIOUS
    <2>1. DispatcherTypeOK
      BY DispatcherInitType DEF Init, DispatcherAloneInit
    <2>2. DOMAIN jobs = {} /\ \A w \in Workers : worker[w].pc = "idle"
      BY DEF Init, StoreInit, ExecutorInit, NoWork
    <2>3. ExecutorTypeOK
      BY <2>1, ExecutorAssumption
      DEF Init, ExecutorInit, ExecutorTypeOK, DispatcherTypeOK, NoWork, WorkerPcs
    <2>4. ApiTypeOK
      BY DEF Init, ApiInit, ApiTypeOK, NoRequest, ClientPcs
    <2> QED
      BY <2>1, <2>2, <2>3, <2>4 DEF Init, BrokerInit, ExecutorInit, JobbyInv, TypeOK, MessagesOfJobs, RunsFunded,
         RejectsUnaccepted, SuccessSeen, CompletedAfterSuccess, RunningOwned
  <1>2. JobbyInv /\ [Next]_vars => JobbyInv'
    <2> SUFFICES ASSUME JobbyInv, [Next]_vars
                 PROVE  JobbyInv'
      OBVIOUS
    <2>1. CASE Next
      BY <2>1, DispatcherPartInv, ExecutorPartInv, ApiPartInv DEF Next
    <2>2. CASE UNCHANGED vars
      BY <2>2 DEF vars, dispatcherVars, streamVars, historyVars, executorVars, JobbyInv, TypeOK,
         DispatcherTypeOK, ExecutorTypeOK, ApiTypeOK, StoreTypeOK, BrokerTypeOK, MessagesOfJobs,
         RunsFunded, Granted, RejectsUnaccepted, SuccessSeen, CompletedAfterSuccess, RunningOwned
    <2> QED BY <2>1, <2>2
  <1> QED BY <1>1, <1>2, PTL DEF Spec

(* The composition keeps every component well typed: no client or worker   *)
(* takes a document away under a goroutine that works on it.               *)
THEOREM SystemTypeCorrect == Spec => []TypeOK
  <1>1. JobbyInv => TypeOK
    BY DEF JobbyInv
  <1> QED BY <1>1, JobbyInvHolds, PTL

(***************************************************************************)
(* RetryJob counts before it resets: however its three writes interleave   *)
(* with those of other requests, of HandleDispatch and of ExecuteJob, and  *)
(* whichever of them fail, no handler runs that was not paid for.          *)
(***************************************************************************)
THEOREM SystemRunsCorrect == Spec => []RunsCounted
  <1>1. JobbyInv => RunsCounted
    <2> SUFFICES ASSUME JobbyInv, NEW k \in DOMAIN jobs
                 PROVE  runs[k] <= 1 + jobs[k].retryCount
      BY DEF RunsCounted
    <2>1. IsFiniteSet(Granted(k))
      BY JobApiAssumption, FS_Subset DEF Granted
    <2>2. Cardinality(Granted(k)) \in Nat
      BY <2>1, FS_CardinalityType
    <2>3. Unspent(jobs[k]) \in Nat /\ runs[k] \in Nat /\ jobs[k].retryCount \in Nat
      BY DEF JobbyInv, TypeOK, ExecutorTypeOK, StoreTypeOK, Document, Unspent
    <2>4. runs[k] + Cardinality(Granted(k)) + Unspent(jobs[k]) <= 1 + jobs[k].retryCount
      BY DEF JobbyInv, RunsFunded
    <2> QED BY <2>2, <2>3, <2>4
  <1> QED BY <1>1, JobbyInvHolds, PTL

(* A retried, cancelled or failed job is still completed only by a run of  *)
(* its handler that returned nil.                                          *)
THEOREM SystemCompletionCorrect == Spec => []CompletedAfterSuccess
  <1>1. JobbyInv => CompletedAfterSuccess
    BY DEF JobbyInv
  <1> QED BY <1>1, JobbyInvHolds, PTL

(* A job that was retried while an old run of it was still at work has an  *)
(* owner all the same.                                                     *)
THEOREM SystemOwnerCorrect == Spec => []RunningHasOwner
  <1>1. JobbyInv => RunningHasOwner
    BY RunningOwnedHasOwner DEF JobbyInv
  <1> QED BY <1>1, JobbyInvHolds, PTL

-----------------------------------------------------------------------------
(***************************************************************************)
(* Without retries.  A goroutine about to confirm has put a message on its *)
(* way, and no other part of the system takes it away from a job that has  *)
(* not started.  With retries this fails: the job may be reset between the *)
(* publish and the confirm.                                                *)
(***************************************************************************)
NoRetryUnderWay == \A c \in Clients : client[c].pc \in {"idle", "cancel", "fail"}

DispatchedOnTheirWay ==
  \A j \in DOMAIN jobs : jobs[j].dispatchStatus = "dispatched" => OnItsWay(j)

ConfirmsOnTheirWay ==
  \A g \in Goroutines, j \in DOMAIN jobs :
    call[g].pc = "confirm" /\ call[g].job = j => OnItsWay(j)

FlightInv == NoRetryUnderWay /\ DispatchedOnTheirWay /\ ConfirmsOnTheirWay /\ DocumentsValid

(* The writes of executors and of CancelJob keep a document valid and its  *)
(* dispatch status as it is.                                               *)
LEMMA ExecutionWritesValid ==
  ASSUME NEW d \in Document, Validate(d),
         NEW e \in {MarkRunningIfDispatched(d), CompleteIfRunning(d), FailIfNotTerminal(d), CancelPatch(d)}
  PROVE  Validate(e) /\ e.dispatchStatus = d.dispatchStatus
  <1> USE DEF Document, Validate, DisplayStatus, DispatchPhase, DispatchStatuses, ExecutionStatuses
  <1>1. CASE e = MarkRunningIfDispatched(d)
    BY <1>1 DEF MarkRunningIfDispatched, Claimable
  <1>2. CASE e = CompleteIfRunning(d)
    BY <1>2 DEF CompleteIfRunning
  <1>3. CASE e = FailIfNotTerminal(d)
    BY <1>3 DEF FailIfNotTerminal
  <1>4. CASE e = CancelPatch(d)
    BY <1>4 DEF CancelPatch
  <1> QED BY <1>1, <1>2, <1>3, <1>4

(* So do those of HandleDispatch, but for the dispatch status. *)
LEMMA DispatchWritesValid ==
  ASSUME NEW d \in Document, NEW e \in Document, Validate(d), SameExecution(d, e)
  PROVE  Validate(e)
  BY DEF Document, Validate, SameExecution, DisplayStatus, DispatchPhase, DispatchStatuses, ExecutionStatuses

(* A goroutine comes to its confirm by a publish alone. *)
LEMMA ConfirmComes ==
  ASSUME DispatcherTypeOK, DispatcherNext, NEW g \in Goroutines, call'[g].pc = "confirm"
  PROVE  PublishOK(g) \/ (call[g].pc = "confirm" /\ call'[g].job = call[g].job)
  <1>1. call \in [Goroutines -> [pc : CallPcs, job : Jobs \cup {NoJob}, attempts : Nat]]
    BY DEF DispatcherTypeOK
  <1>3. ASSUME NEW h \in Goroutines, HandlerStep(h), h # g
        PROVE  call'[g] = call[g]
    BY <1>1, <1>3 DEF HandlerStep, PublishOK, PublishError, MarkJobDispatched, RecordDispatchAttempt,
       MarkJobDispatchFailed, Goto, Return
  <1>4. PublishError(g) => call'[g].pc = "record"
    BY <1>1 DEF PublishError
  <1>5. MarkJobDispatched(g) \/ RecordDispatchAttempt(g) \/ MarkJobDispatchFailed(g)
          => call'[g].pc \in {"giveup", "save", "idle"}
    BY <1>1 DEF MarkJobDispatched, RecordDispatchAttempt, MarkJobDispatchFailed, Goto, Return, NoCall
  <1>6. CASE \E j \in Jobs : CreateJob(j)
    <2>1. call' = call
      BY <1>6 DEF CreateJob
    <2> QED BY <2>1
  <1>7. CASE DispatcherCrash
    <2>1. call'[g] = NoCall
      BY <1>7 DEF DispatcherCrash
    <2> QED BY <2>1 DEF NoCall
  <1>8. CASE StreamOpen \/ StreamNext \/ SaveToken \/ StreamError
    BY <1>1, <1>8 DEF StreamOpen, StreamNext, SaveToken, StreamError, Handle, NoCall
  <1>9. CASE PollFetch \/ PollNext
    BY <1>1, <1>9 DEF PollFetch, PollNext, Handle
  <1> QED
    BY <1>3, <1>4, <1>5, <1>6, <1>7, <1>8, <1>9
    DEF DispatcherNext, StreamStep, PollStep, HandlerStep

(* A publish has put a message on its way.                                 *)
LEMMA ConfirmAfterPublish ==
  ASSUME DispatcherTypeOK, DispatcherNext, NEW g \in Goroutines, call'[g].pc = "confirm"
  PROVE  \/ call[g].pc = "confirm" /\ call'[g].job = call[g].job
         \/ call'[g].job \in DOMAIN jobs /\ queue'[call'[g].job] > 0
  <1>1. call \in [Goroutines -> [pc : CallPcs, job : Jobs \cup {NoJob}, attempts : Nat]]
    BY DEF DispatcherTypeOK
  <1>2. CASE PublishOK(g)
    <2>1. call[g].pc = "publish" /\ Delivered(call[g].job) /\ Goto(g, "confirm")
      BY <1>2 DEF PublishOK
    <2>2. call'[g].job = call[g].job
      BY <1>1, <2>1 DEF Goto
    <2>3. call[g].job \in DOMAIN jobs /\ call[g].job \in Jobs
      BY <2>1, HandledJob
    <2>4. queue'[call[g].job] > 0
      BY <2>1, <2>3 DEF Delivered, Enqueue, DispatcherTypeOK, BrokerTypeOK
    <2> QED BY <2>2, <2>3, <2>4
  <1> QED BY <1>2, ConfirmComes

(* The dispatcher's part keeps what is on its way on its way. *)
LEMMA DispatcherPartFlight ==
  ASSUME JobbyInv, FlightInv, DispatcherPart
  PROVE  FlightInv'
  <1>1. /\ DispatcherTypeOK /\ DispatcherNext /\ DispatcherTypeOK'
        /\ UNCHANGED <<worker, abandoned, client>>
    BY DispatcherNextType DEF JobbyInv, TypeOK, DispatcherPart, executorVars
  <1>2. /\ DOMAIN jobs \subseteq DOMAIN jobs' /\ DOMAIN jobs \subseteq Jobs
        /\ jobs \in [DOMAIN jobs -> Document] /\ jobs' \in [DOMAIN jobs' -> Document]
    BY <1>1, DispatcherWrites DEF DispatcherTypeOK, StoreTypeOK
  <1>3. ASSUME NEW k \in DOMAIN jobs, OnItsWay(k)
        PROVE  OnItsWay(k)'
    BY <1>1, <1>2, <1>3, DispatcherWrites DEF OnItsWay, HasMessage, Holds, RejectionLost, SameExecution
  <1>4. NoRetryUnderWay'
    BY <1>1 DEF FlightInv, NoRetryUnderWay
  <1>5. DispatchedOnTheirWay'
    <2> SUFFICES ASSUME NEW k \in DOMAIN jobs', jobs'[k].dispatchStatus = "dispatched"
                 PROVE  OnItsWay(k)'
      BY DEF DispatchedOnTheirWay
    <2>1. NewJobMetadata.dispatchStatus # "dispatched"
      BY DEF NewJobMetadata
    <2>2. k \in DOMAIN jobs
      BY <1>1, <2>1, DispatcherWrites
    <2>3. OnItsWay(k)
      BY <1>1, <2>2, DispatcherWrites DEF FlightInv, DispatchedOnTheirWay, ConfirmsOnTheirWay
    <2> QED BY <1>3, <2>2, <2>3
  <1>6. ConfirmsOnTheirWay'
    <2> SUFFICES ASSUME NEW g \in Goroutines, NEW k \in DOMAIN jobs',
                        call'[g].pc = "confirm", call'[g].job = k
                 PROVE  OnItsWay(k)'
      BY DEF ConfirmsOnTheirWay
    <2>1. CASE call[g].pc = "confirm" /\ call[g].job = k
      <3>1. k \in DOMAIN jobs
        BY <1>1, <2>1, HandledJob
      <3>2. OnItsWay(k)
        BY <2>1, <3>1 DEF FlightInv, ConfirmsOnTheirWay
      <3> QED BY <1>3, <3>1, <3>2
    <2>2. CASE queue'[k] > 0
      BY <2>2 DEF OnItsWay, HasMessage
    <2> QED BY <1>1, <2>1, <2>2, ConfirmAfterPublish
  <1>7. DocumentsValid'
    <2>1. Validate(NewJobMetadata)
      BY DEF Validate, NewJobMetadata
    <2>2. ASSUME NEW k \in DOMAIN jobs PROVE Validate(jobs'[k])
      <3>1. jobs[k] \in Document /\ jobs'[k] \in Document /\ Validate(jobs[k]) /\ SameExecution(jobs[k], jobs'[k])
        BY <1>1, <1>2, DispatcherWrites DEF FlightInv, DocumentsValid
      <3> QED BY <3>1, DispatchWritesValid
    <2> QED BY <1>1, <2>1, <2>2, DispatcherWrites DEF DocumentsValid
  <1> QED BY <1>4, <1>5, <1>6, <1>7 DEF FlightInv

(* So does the executors' part. *)
LEMMA ExecutorPartFlight ==
  ASSUME JobbyInv, FlightInv, ExecutorPart
  PROVE  FlightInv'
  <1>1. /\ DispatcherTypeOK /\ ExecutorTypeOK /\ MessagesOfJobs
        /\ UNCHANGED <<call, client>>
    BY DEF JobbyInv, TypeOK, ExecutorPart, dispatcherVars
  <1>2. PICK w \in Workers : WorkerStep(w) \/ WorkerKilled(w)
    BY DEF ExecutorPart, ExecutorNext
  <1>3. DOMAIN jobs' = DOMAIN jobs /\ jobs \in [DOMAIN jobs -> Document]
    BY <1>1, <1>2, ExecutorNextType DEF ExecutorTypeOK, StoreTypeOK
  <1>4. ASSUME NEW k \in DOMAIN jobs
        PROVE  Validate(jobs'[k]) /\ jobs'[k].dispatchStatus = jobs[k].dispatchStatus
    <2>1. Validate(jobs[k]) /\ jobs[k] \in Document
      BY <1>3 DEF FlightInv, DocumentsValid
    <2>2. \/ jobs'[k] = jobs[k]
          \/ jobs'[k] \in {MarkRunningIfDispatched(jobs[k]), CompleteIfRunning(jobs[k]),
                           FailIfNotTerminal(jobs[k])}
      <3>1. CASE worker[w].pc = "idle"
        BY <1>2, <3>1 DEF WorkerStep, WorkerKilled, Receive, StartJob, RunHandler, CompleteJob,
                          CompleteMiss, FailJobRead, FailJobWrite
      <3>2. CASE worker[w].pc # "idle"
        BY <1>1, <1>2, <1>3, <3>2, BusyStep
      <3> QED BY <3>1, <3>2
    <2> QED BY <2>1, <2>2, ExecutionWritesValid
  <1>5. ASSUME NEW k \in DOMAIN jobs, OnItsWay(k)
        PROVE  OnItsWay(k)'
    BY <1>1, <1>2, <1>5, StaysOnItsWay DEF JobbyInv
  <1>6. NoRetryUnderWay' /\ DocumentsValid'
    BY <1>1, <1>3, <1>4 DEF FlightInv, NoRetryUnderWay, DocumentsValid
  <1>7. DispatchedOnTheirWay'
    <2> SUFFICES ASSUME NEW k \in DOMAIN jobs, jobs'[k].dispatchStatus = "dispatched"
                 PROVE  OnItsWay(k)'
      BY <1>3 DEF DispatchedOnTheirWay
    <2> QED BY <1>4, <1>5 DEF FlightInv, DispatchedOnTheirWay
  <1>8. ConfirmsOnTheirWay'
    <2> SUFFICES ASSUME NEW g \in Goroutines, NEW k \in DOMAIN jobs,
                        call[g].pc = "confirm", call[g].job = k
                 PROVE  OnItsWay(k)'
      BY <1>1, <1>3 DEF ConfirmsOnTheirWay
    <2>1. OnItsWay(k)
      BY DEF FlightInv, ConfirmsOnTheirWay
    <2> QED BY <1>5, <2>1
  <1> QED BY <1>6, <1>7, <1>8 DEF FlightInv

(* So does the clients' part, which only cancels and fails jobs. *)
LEMMA ApiPartFlight ==
  ASSUME "retry" \notin Calls, JobbyInv, FlightInv, ApiPart
  PROVE  FlightInv'
  <1>1. /\ DispatcherTypeOK /\ ApiTypeOK /\ StoreTypeOK
        /\ UNCHANGED <<queue, call, worker, abandoned>>
    BY DEF JobbyInv, TypeOK, DispatcherTypeOK, ApiPart, dispatcherVars, executorVars
  <1>2. PICK c \in Clients : ClientStep(c)
    BY DEF ApiPart, ApiNext
  <1>3. jobs \in [DOMAIN jobs -> Document] /\ client \in [Clients -> [pc : ClientPcs, job : Jobs \cup {NoJob}]]
    BY <1>1 DEF StoreTypeOK, ApiTypeOK
  <1>4. CancelRead(c) \/ CancelWrite(c) \/ FailRead(c) \/ FailWrite(c)
    <2>1. client[c].pc \in {"idle", "cancel", "fail"}
      BY DEF FlightInv, NoRetryUnderWay
    <2> QED BY <1>2, <2>1 DEF ClientStep, RetryRead, RetryIncrement, RetryReset, RetryClear, Step
  <1>5. NoRetryUnderWay'
    BY <1>3, <1>4 DEF FlightInv, NoRetryUnderWay, CancelRead, CancelWrite, FailRead, FailWrite, Request, Step,
                      Respond, NoRequest
  <1>6. /\ DOMAIN jobs' = DOMAIN jobs
        /\ \A k \in DOMAIN jobs :
             jobs'[k] = jobs[k] \/ jobs'[k] \in {CancelPatch(jobs[k]), FailIfNotTerminal(jobs[k])}
    <2>1. CASE CancelRead(c) \/ FailRead(c)
      BY <2>1 DEF CancelRead, FailRead
    <2>2. CASE CancelWrite(c) \/ FailWrite(c)
      BY <1>3, <2>2 DEF CancelWrite, FailWrite, Step, Write, WriteFails
    <2> QED BY <1>4, <2>1, <2>2
  <1>7. ASSUME NEW k \in DOMAIN jobs
        PROVE  /\ Validate(jobs'[k]) /\ jobs'[k].dispatchStatus = jobs[k].dispatchStatus
               /\ OnItsWay(k) => OnItsWay(k)'
    <2>1. Validate(jobs[k]) /\ jobs[k] \in Document
      BY <1>3 DEF FlightInv, DocumentsValid
    <2>2. CancelPatch(jobs[k]).executionStatus # "not_started"
      BY <2>1 DEF CancelPatch, Document
    <2>3. FailIfNotTerminal(jobs[k]).executionStatus # "not_started"
      BY <2>1 DEF FailIfNotTerminal, Document
    <2>4. OnItsWay(k) => OnItsWay(k)'
      BY <1>1, <1>6, <2>2, <2>3 DEF OnItsWay, HasMessage, Holds, RejectionLost
    <2>5. CASE jobs'[k] = jobs[k]
      BY <2>1, <2>4, <2>5
    <2>6. CASE jobs'[k] \in {CancelPatch(jobs[k]), FailIfNotTerminal(jobs[k])}
      BY <2>1, <2>4, <2>6, ExecutionWritesValid
    <2> QED BY <1>6, <2>5, <2>6
  <1>8. DispatchedOnTheirWay' /\ DocumentsValid'
    <2>1. ASSUME NEW k \in DOMAIN jobs', jobs'[k].dispatchStatus = "dispatched"
          PROVE  OnItsWay(k)'
      BY <1>6, <1>7, <2>1 DEF FlightInv, DispatchedOnTheirWay
    <2> QED BY <1>6, <1>7, <2>1 DEF DispatchedOnTheirWay, DocumentsValid
  <1>9. ConfirmsOnTheirWay'
    <2> SUFFICES ASSUME NEW g \in Goroutines, NEW k \in DOMAIN jobs,
                        call[g].pc = "confirm", call[g].job = k
                 PROVE  OnItsWay(k)'
      BY <1>1, <1>6 DEF ConfirmsOnTheirWay
    <2>1. OnItsWay(k)
      BY DEF FlightInv, ConfirmsOnTheirWay
    <2> QED BY <1>7, <2>1
  <1> QED BY <1>5, <1>8, <1>9 DEF FlightInv

(* FlightInv holds of the system without retries. *)
LEMMA FlightInvHolds ==
  ASSUME "retry" \notin Calls
  PROVE  Spec => []FlightInv
  <1>1. Init => FlightInv
    BY DEF Init, StoreInit, DispatcherInit, ApiInit, NoRequest, NoCall, FlightInv, NoRetryUnderWay,
       DispatchedOnTheirWay, ConfirmsOnTheirWay, DocumentsValid
  <1>2. JobbyInv /\ FlightInv /\ [Next]_vars => FlightInv'
    <2> SUFFICES ASSUME JobbyInv, FlightInv, [Next]_vars
                 PROVE  FlightInv'
      OBVIOUS
    <2>1. CASE Next
      BY <2>1, DispatcherPartFlight, ExecutorPartFlight, ApiPartFlight DEF Next
    <2>2. CASE UNCHANGED vars
      BY <2>2 DEF vars, dispatcherVars, executorVars, FlightInv, NoRetryUnderWay, DispatchedOnTheirWay,
         ConfirmsOnTheirWay, DocumentsValid, OnItsWay, HasMessage, Holds, RejectionLost
    <2> QED BY <2>1, <2>2
  <1> QED BY <1>1, <1>2, JobbyInvHolds, PTL DEF Spec

(***************************************************************************)
(* Publish before confirm, and settle after the claim: as long as no job   *)
(* is retried, one that is dispatched and has not started has a message on *)
(* its way to a worker, whoever crashes, cancels or fails jobs meanwhile;  *)
(* only the rejection of a job without a handler, if it cannot be          *)
(* recorded, takes the last message away.                                  *)
(***************************************************************************)
THEOREM DispatchedInFlightCorrect ==
  ASSUME "retry" \notin Calls
  PROVE  Spec => []DispatchedInFlight
  <1>1. FlightInv => DispatchedInFlight
    BY DEF FlightInv, DispatchedOnTheirWay, OnItsWay, DispatchedInFlight
  <1> QED BY <1>1, FlightInvHolds, PTL

(* Every write of MongoJobsWriter but those of RetryJob keeps a document   *)
(* one that Validate accepts, in every interleaving of the three writers.  *)
THEOREM DocumentsValidCorrect ==
  ASSUME "retry" \notin Calls
  PROVE  Spec => []DocumentsValid
  <1>1. FlightInv => DocumentsValid
    BY DEF FlightInv
  <1> QED BY <1>1, FlightInvHolds, PTL

-----------------------------------------------------------------------------
(* The dispatcher among the others. *)

SameDispatch(d, e) == e.dispatchStatus = d.dispatchStatus /\ e.dispatchAttempts = d.dispatchAttempts

(* Executors and clients leave the dispatcher's fields of every document   *)
(* alone, but for the reset of a retry.                                    *)
LEMMA OthersWrites ==
  ASSUME JobbyInv, ExecutorPart \/ ApiPart
  PROVE  /\ UNCHANGED dispatcherVars
         /\ DOMAIN jobs' = DOMAIN jobs
         /\ \/ \A k \in DOMAIN jobs : SameDispatch(jobs[k], jobs'[k])
            \/ \E c \in Clients :
                 /\ client[c].pc = "reset" /\ client[c].job \in DOMAIN jobs
                 /\ jobs' = [jobs EXCEPT ![client[c].job] = RetryPatch(jobs[client[c].job])]
  <1>1. /\ ExecutorTypeOK /\ ApiTypeOK /\ StoreTypeOK /\ jobs \in [DOMAIN jobs -> Document]
        /\ UNCHANGED dispatcherVars
    BY DEF JobbyInv, TypeOK, DispatcherTypeOK, StoreTypeOK, ExecutorPart, ApiPart
  <1>2. ASSUME NEW j \in DOMAIN jobs,
               NEW e \in {MarkRunningIfDispatched(jobs[j]), CompleteIfRunning(jobs[j]),
                          FailIfNotTerminal(jobs[j]), CancelPatch(jobs[j]),
                          IncrementRetryCount(jobs[j]), ClearJobExecutionTimestamps(jobs[j])}
        PROVE  SameDispatch(jobs[j], e)
    <2>1. jobs[j] \in Document
      BY <1>1
    <2> QED
      BY <1>2, <2>1 DEF Document, SameDispatch, MarkRunningIfDispatched, CompleteIfRunning, FailIfNotTerminal,
         CancelPatch, IncrementRetryCount, ClearJobExecutionTimestamps
  <1>3. ASSUME NEW j \in DOMAIN jobs, NEW e,
               SameDispatch(jobs[j], e), jobs' = [jobs EXCEPT ![j] = e]
        PROVE  \A k \in DOMAIN jobs : SameDispatch(jobs[k], jobs'[k])
    BY <1>3 DEF SameDispatch
  <1>4. jobs' = jobs => \A k \in DOMAIN jobs : SameDispatch(jobs[k], jobs'[k])
    BY DEF SameDispatch
  <1>5. CASE ExecutorPart
    <2>1. PICK w \in Workers : WorkerStep(w) \/ WorkerKilled(w)
      BY <1>5 DEF ExecutorPart, ExecutorNext
    <2>2. CASE worker[w].pc = "idle"
      <3>1. jobs' = jobs
        BY <2>1, <2>2 DEF WorkerStep, WorkerKilled, Receive, StartJob, RunHandler, CompleteJob, CompleteMiss,
                          FailJobRead, FailJobWrite
      <3> QED BY <1>1, <1>4, <3>1
    <2>3. CASE worker[w].pc # "idle"
      <3> DEFINE j == worker[w].job
                 d == jobs[j]
      <3>1. j \in DOMAIN jobs
        BY <1>1, <2>3, WorkersJob
      <3>2. \/ jobs' = jobs
            \/ \E e \in {MarkRunningIfDispatched(d), CompleteIfRunning(d), FailIfNotTerminal(d)} :
                 jobs' = [jobs EXCEPT ![j] = e]
        BY <1>1, <2>1, <2>3, BusyStep
      <3> HIDE DEF SameDispatch
      <3> QED BY <1>1, <1>2, <1>3, <1>4, <3>1, <3>2
    <2> QED BY <2>2, <2>3
  <1>6. CASE ApiPart
    <2>1. PICK c \in Clients : ClientStep(c)
      BY <1>6 DEF ApiPart, ApiNext
    <2>2. CASE CancelRead(c) \/ FailRead(c) \/ RetryRead(c)
      BY <1>1, <1>4, <2>2, RequestType
    <2>3. CASE CancelWrite(c) \/ FailWrite(c) \/ RetryIncrement(c) \/ RetryReset(c) \/ RetryClear(c)
      <3> DEFINE j == client[c].job
                 d == jobs[j]
      <3>1. j \in DOMAIN jobs /\ DOMAIN jobs' = DOMAIN jobs
        BY <1>1, <2>3, RequestWrite
      <3>2. \/ jobs' = jobs
            \/ \E e \in {CancelPatch(d), FailIfNotTerminal(d), IncrementRetryCount(d),
                         ClearJobExecutionTimestamps(d)} :
                 jobs' = [jobs EXCEPT ![j] = e]
            \/ client[c].pc = "reset" /\ jobs' = [jobs EXCEPT ![j] = RetryPatch(d)]
        BY <2>3 DEF CancelWrite, FailWrite, RetryIncrement, RetryReset, RetryClear, Step, Write, WriteFails
      <3> QED BY <1>1, <1>2, <1>3, <1>4, <3>1, <3>2
    <2> QED BY <2>1, <2>2, <2>3 DEF ClientStep
  <1> QED BY <1>5, <1>6

(* A retry starts the attempts of a job at 0 again: no part of the system  *)
(* overstates them.                                                        *)
LEMMA NextAttempts ==
  ASSUME JobbyInv, AttemptsNeverOverstated, Next
  PROVE  AttemptsNeverOverstated'
  <1>1. DispatcherTypeOK
    BY DEF JobbyInv, TypeOK
  <1>2. CASE DispatcherPart
    BY <1>1, <1>2, DispatcherNextAttempts DEF DispatcherPart
  <1>3. CASE ExecutorPart \/ ApiPart
    <2>1. UNCHANGED <<fetched, call, pubErrors>> /\ DOMAIN jobs' = DOMAIN jobs
      BY <1>3, OthersWrites DEF dispatcherVars, historyVars
    <2>2. ASSUME NEW k \in DOMAIN jobs
          PROVE  jobs'[k].dispatchAttempts <= pubErrors[k]
      <3>1. jobs[k].dispatchAttempts <= pubErrors[k] /\ pubErrors[k] \in Nat /\ jobs[k] \in Document
        BY <1>1 DEF AttemptsNeverOverstated, DispatcherTypeOK, StoreTypeOK
      <3>2. RetryPatch(jobs[k]).dispatchAttempts = 0
        BY <3>1 DEF RetryPatch, Document
      <3>3. jobs'[k].dispatchAttempts \in {jobs[k].dispatchAttempts, 0}
        BY <1>3, <3>2, OthersWrites DEF SameDispatch
      <3> QED BY <3>1, <3>3
    <2> QED BY <2>1, <2>2 DEF AttemptsNeverOverstated
  <1> QED BY <1>2, <1>3 DEF Next

(***************************************************************************)
(* The attempts that HandleDispatch writes from a stale projection are     *)
(* still errors really seen when executors and clients write the same      *)
(* documents, and when RetryJob sets the count back under a handler.       *)
(***************************************************************************)
THEOREM SystemAttemptsCorrect == Spec => []AttemptsNeverOverstated
  <1>1. Init => AttemptsNeverOverstated
    BY DEF Init, StoreInit, DispatcherInit, NoCall, AttemptsNeverOverstated
  <1>2. JobbyInv /\ AttemptsNeverOverstated /\ [Next]_vars => AttemptsNeverOverstated'
    <2> SUFFICES ASSUME JobbyInv, AttemptsNeverOverstated, [Next]_vars
                 PROVE  AttemptsNeverOverstated'
      OBVIOUS
    <2>1. CASE Next
      BY <2>1, NextAttempts
    <2>2. CASE UNCHANGED vars
      BY <2>2 DEF vars, dispatcherVars, historyVars, AttemptsNeverOverstated
    <2> QED BY <2>1, <2>2
  <1> QED BY <1>1, <1>2, JobbyInvHolds, PTL DEF Spec

(***************************************************************************)
(* The resume token is still behind the handler in the whole system: no    *)
(* write of an executor or a client is an event, and none of them touches  *)
(* the stream.                                                             *)
(***************************************************************************)
THEOREM SystemTokenCorrect == Spec => []TokenNeverAhead
  <1>1. Init => TokenInv
    <2> SUFFICES ASSUME Init
                 PROVE  TokenInv
      OBVIOUS
    <2>1. token = 0 /\ cursor.pos = 0
      BY DEF Init, DispatcherInit, Closed
    <2>2. DispatcherTypeOK
      BY DispatcherInitType DEF Init, DispatcherAloneInit
    <2> QED BY <2>1, <2>2 DEF TokenInv, TokenNeverAhead, CursorInv
  <1>2. JobbyInv /\ JobbyInv' /\ TokenInv /\ [Next]_vars => TokenInv'
    <2> SUFFICES ASSUME JobbyInv, JobbyInv', TokenInv, [Next]_vars
                 PROVE  TokenInv'
      OBVIOUS
    <2>1. DispatcherTypeOK'
      BY DEF JobbyInv, TypeOK
    <2>2. CASE DispatcherPart
      <3>1. TokenNeverAhead' /\ CursorInv'
        BY <2>2, HandlerStepToken, StreamStepToken, CreateJobToken, OtherStepToken
        DEF DispatcherPart, DispatcherNext, StreamStep, PollStep
      <3> QED BY <2>1, <3>1 DEF TokenInv
    <2>3. CASE UNCHANGED dispatcherVars
      BY <2>1, <2>3 DEF dispatcherVars, streamVars, historyVars, TokenInv, TokenNeverAhead, CursorInv, Covered,
         InHand
    <2>4. UNCHANGED vars => UNCHANGED dispatcherVars
      BY DEF vars
    <2> QED BY <2>2, <2>3, <2>4, OthersWrites DEF Next
  <1>3. TokenInv => TokenNeverAhead
    BY DEF TokenInv
  <1> QED BY <1>1, <1>2, <1>3, JobbyInvHolds, PTL DEF Spec

-----------------------------------------------------------------------------
(* Messages, without retries. *)

(* The claims of workers stand in the whole system: the dispatcher leaves  *)
(* executions alone, and clients that do not retry only end them.          *)
LEMMA NextClaimsStand ==
  ASSUME "retry" \notin Calls, JobbyInv, FlightInv, ClaimsStand, Next
  PROVE  ClaimsStand'
  <1>1. DispatcherTypeOK /\ ExecutorTypeOK /\ StoreTypeOK /\ ApiTypeOK /\ jobs \in [DOMAIN jobs -> Document]
    BY DEF JobbyInv, TypeOK, DispatcherTypeOK, StoreTypeOK
  <1>2. ASSUME worker' = worker,
               \A k \in DOMAIN jobs :
                 \/ jobs'[k].executionStatus = jobs[k].executionStatus
                 \/ jobs'[k].executionStatus \in TerminalExecution
        PROVE  ClaimsStand'
    <2>1. \A k \in DOMAIN jobs :
            /\ jobs[k].executionStatus # "not_started" => jobs'[k].executionStatus # "not_started"
            /\ jobs[k].executionStatus \in TerminalExecution => jobs'[k].executionStatus \in TerminalExecution
      BY <1>2 DEF TerminalExecution
    <2> QED BY <1>1, <1>2, <2>1, ClaimKept DEF ClaimsStand
  <1>3. CASE DispatcherPart
    BY <1>1, <1>2, <1>3, DispatcherWrites DEF DispatcherPart, executorVars, SameExecution
  <1>4. CASE ExecutorPart
    BY <1>1, <1>4, StepClaimsStand DEF ExecutorPart, ExecutorNext
  <1>5. CASE ApiPart
    <2>1. PICK c \in Clients : ClientStep(c)
      BY <1>5 DEF ApiPart, ApiNext
    <2>2. CancelRead(c) \/ CancelWrite(c) \/ FailRead(c) \/ FailWrite(c)
      <3>1. client[c].pc \in {"idle", "cancel", "fail"}
        BY DEF FlightInv, NoRetryUnderWay
      <3> QED BY <2>1, <3>1 DEF ClientStep, RetryRead, RetryIncrement, RetryReset, RetryClear, Step
    <2>3. \A k \in DOMAIN jobs :
            jobs'[k] = jobs[k] \/ jobs'[k] \in {CancelPatch(jobs[k]), FailIfNotTerminal(jobs[k])}
      <3>1. CASE CancelRead(c) \/ FailRead(c)
        BY <3>1 DEF CancelRead, FailRead
      <3>2. CASE CancelWrite(c) \/ FailWrite(c)
        BY <1>1, <3>2 DEF CancelWrite, FailWrite, Step, Write, WriteFails
      <3> QED BY <2>2, <3>1, <3>2
    <2>4. ASSUME NEW k \in DOMAIN jobs
          PROVE  /\ CancelPatch(jobs[k]).executionStatus \in TerminalExecution
                 /\ \/ FailIfNotTerminal(jobs[k]) = jobs[k]
                    \/ FailIfNotTerminal(jobs[k]).executionStatus \in TerminalExecution
      BY <1>1 DEF CancelPatch, FailIfNotTerminal, Document, TerminalExecution
    <2>5. worker' = worker
      BY <1>5 DEF ApiPart, executorVars
    <2> QED BY <1>2, <2>3, <2>4, <2>5
  <1> QED BY <1>3, <1>4, <1>5 DEF Next

(* The dispatcher adds a message only as one of its publishes.             *)
LEMMA DispatcherMessages ==
  ASSUME DispatcherTypeOK, DispatcherNext, NEW k \in Jobs, queue'[k] > queue[k]
  PROVE  published'[k] > published[k]
  <1>1. queue \in [Jobs -> Nat] /\ published \in [Jobs -> Nat]
    BY DEF DispatcherTypeOK, BrokerTypeOK
  <1>2. ~UNCHANGED queue
    BY <1>1
  <1>3. PICK g \in Goroutines : HandlerStep(g)
    BY <1>2 DEF DispatcherNext, StreamStep, PollStep, CreateJob, StreamOpen, StreamNext, SaveToken, StreamError,
                PollFetch, PollNext, DispatcherCrash
  <1>4. call[g].pc = "publish" /\ Delivered(call[g].job)
    BY <1>2, <1>3 DEF HandlerStep, PublishOK, PublishError, MarkJobDispatched, RecordDispatchAttempt,
                      MarkJobDispatchFailed
  <1>5. call[g].job \in Jobs
    BY <1>4, HandledJob
  <1>6. k = call[g].job
    BY <1>1, <1>4, <1>5 DEF Delivered, Enqueue
  <1> QED BY <1>1, <1>4, <1>5, <1>6 DEF Delivered

(***************************************************************************)
(* However duplicates, dead workers, cancelled and failed jobs interleave, *)
(* the topic grows only by a publish, a failed call or a death: without    *)
(* retries no message circulates for ever.  A retry breaks this: a worker  *)
(* whose job is reset under it nacks the message it has already run.       *)
(***************************************************************************)
THEOREM MessagesAccountedCorrect ==
  ASSUME "retry" \notin Calls
  PROVE  Spec => MessagesAccounted
  <1>1. Init => ClaimsStand
    BY DEF Init, ExecutorInit, NoWork, ClaimsStand, Claiming
  <1>2. JobbyInv /\ FlightInv /\ ClaimsStand /\ [Next]_vars => ClaimsStand'
    <2> SUFFICES ASSUME JobbyInv, FlightInv, ClaimsStand, [Next]_vars
                 PROVE  ClaimsStand'
      OBVIOUS
    <2>1. CASE Next
      BY <2>1, NextClaimsStand
    <2>2. CASE UNCHANGED vars
      BY <2>2 DEF vars, executorVars, ClaimsStand
    <2> QED BY <2>1, <2>2
  <1> DEFINE Accounted ==
               \A j \in Jobs :
                 queue'[j] > queue[j] => published'[j] > published[j] \/ faults' > faults \/ kills' > kills
  <1>3. JobbyInv /\ ClaimsStand /\ [Next]_vars => [Accounted]_queue
    <2> SUFFICES ASSUME JobbyInv, ClaimsStand, [Next]_vars, ~UNCHANGED queue,
                        NEW k \in Jobs, queue'[k] > queue[k]
                 PROVE  published'[k] > published[k] \/ faults' > faults \/ kills' > kills
      OBVIOUS
    <2>1. DispatcherTypeOK /\ ExecutorTypeOK
      BY DEF JobbyInv, TypeOK
    <2>2. CASE DispatcherPart
      BY <2>1, <2>2, DispatcherMessages DEF DispatcherPart
    <2>3. CASE ExecutorPart
      BY <2>1, <2>3, HandsBackAfterFault DEF ExecutorPart, ExecutorNext
    <2> QED BY <2>2, <2>3 DEF Next, ApiPart, vars
  <1> QED BY <1>1, <1>2, <1>3, JobbyInvHolds, FlightInvHolds, PTL DEF Spec, MessagesAccounted

(* No message and no worker is on its way to a job; no dispatched job      *)
(* needs one.                                                              *)
Quiet == (\A j \in Jobs : queue[j] = 0) /\ (\A w \in Workers : worker[w].pc = "idle")

NoneWaiting ==
  \A j \in DOMAIN jobs :
    jobs[j].dispatchStatus = "dispatched" =>
      jobs[j].executionStatus \in TerminalExecution \/ j \in abandoned

(***************************************************************************)
(* When the topic is empty and every worker idle, a dispatched job has an  *)
(* outcome, or its outcome could not be written: as long as nobody         *)
(* retries, no job waits for a message that will not come.                 *)
(***************************************************************************)
THEOREM QuietIsSettled ==
  ASSUME "retry" \notin Calls
  PROVE  Spec => [](Quiet => NoneWaiting)
  <1>1. JobbyInv /\ DispatchedInFlight /\ RunningHasOwner => (Quiet => NoneWaiting)
    <2> SUFFICES ASSUME JobbyInv, DispatchedInFlight, RunningHasOwner, Quiet,
                        NEW k \in DOMAIN jobs, jobs[k].dispatchStatus = "dispatched"
                 PROVE  jobs[k].executionStatus \in TerminalExecution \/ k \in abandoned
      BY DEF NoneWaiting
    <2>1. k \in Jobs /\ jobs[k] \in Document
      BY DEF JobbyInv, TypeOK, DispatcherTypeOK, StoreTypeOK
    <2>2. CASE jobs[k].executionStatus = "not_started"
      BY <2>1, <2>2 DEF DispatchedInFlight, HasMessage, Holds, Quiet, RejectionLost
    <2>3. CASE jobs[k].executionStatus = "running"
      BY <2>3 DEF RunningHasOwner, Quiet, Claiming
    <2> QED BY <2>1, <2>2, <2>3 DEF Document, ExecutionStatuses, TerminalExecution
  <1> QED BY <1>1, JobbyInvHolds, DispatchedInFlightCorrect, SystemOwnerCorrect, PTL
=============================================================================
