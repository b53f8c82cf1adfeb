--------------------------- MODULE RefinementProofs ---------------------------
(***************************************************************************)
(* The refinements.  The dispatcher, alone and inside the system,          *)
(* implements the dispatch saga, with the mapping of Dispatcher!Saga: the  *)
(* outcome of a job is its stored dispatchStatus, and the publishes are    *)
(* counted as they happen.  The system implements the life cycle, with the *)
(* mapping of Jobby!Lifecycle: the two stored sub-states.  With retries,   *)
(* what the dispatcher did for a job is counted from its last reset, with  *)
(* the memory that RetryHistory adds to the system.                        *)
(***************************************************************************)
EXTENDS JobbyProofs, RetryHistory

(***************************************************************************)
(* What a goroutine about to confirm or to give up a job knows of it: a    *)
(* publish happened, or the errors reached the limit.  It learned this in  *)
(* an earlier step, and no other process can make it false since.          *)
(***************************************************************************)
CallsJustified ==
  \A g \in Goroutines :
    /\ call[g].pc = "confirm" => published[call[g].job] > 0
    /\ call[g].pc = "giveup" => call[g].attempts >= MaxAttempts

SagaInv == DispatcherTypeOK /\ AttemptsNeverOverstated /\ CallsJustified

(* CallsJustified is kept by every step of the dispatcher. *)
LEMMA DispatcherNextJustified ==
  ASSUME SagaInv, DispatcherNext
  PROVE  CallsJustified'
  <1> USE DEF SagaInv
  <1>1. ASSUME NEW g \in Goroutines, HandlerStep(g), NEW h \in Goroutines, h # g
        PROVE  /\ call'[h] = call[h]
               /\ call[h].pc = "confirm" => published'[call[h].job] > 0
    <2>1. call'[h] = call[h]
      BY <1>1 DEF HandlerStep, PublishOK, PublishError, MarkJobDispatched, RecordDispatchAttempt,
                  MarkJobDispatchFailed, Goto, Return, DispatcherTypeOK
    <2>2. \/ published' = published
          \/ call[g].job \in Jobs /\ published' = [published EXCEPT ![call[g].job] = @ + 1]
      BY <1>1, HandledJob
      DEF HandlerStep, PublishOK, PublishError, MarkJobDispatched, RecordDispatchAttempt,
          MarkJobDispatchFailed, Delivered, historyVars
    <2>3. ASSUME call[h].pc = "confirm" PROVE published'[call[h].job] > 0
      <3>1. call[h].job \in Jobs /\ published[call[h].job] > 0
        BY <2>3, HandledJob DEF CallsJustified
      <3> QED BY <2>2, <3>1 DEF DispatcherTypeOK
    <2> QED BY <2>1, <2>3
  <1>2. ASSUME NEW g \in Goroutines, HandlerStep(g)
        PROVE  /\ call'[g].pc = "confirm" => published'[call'[g].job] > 0
               /\ call'[g].pc = "giveup" => call'[g].attempts >= MaxAttempts
    <2>1. CASE PublishOK(g)
      <3>1. call[g].job \in Jobs
        BY <2>1, HandledJob DEF PublishOK
      <3> QED BY <2>1, <3>1 DEF PublishOK, Delivered, Goto, DispatcherTypeOK
    <2>2. CASE PublishError(g)
      BY <2>2 DEF PublishError, DispatcherTypeOK
    <2>3. ASSUME Return(g) PROVE call'[g].pc \in {"idle", "save"}
      BY <2>3 DEF Return, NoCall, DispatcherTypeOK
    <2>4. CASE MarkJobDispatched(g) \/ MarkJobDispatchFailed(g)
      BY <2>3, <2>4 DEF MarkJobDispatched, MarkJobDispatchFailed
    <2>5. CASE RecordDispatchAttempt(g)
      <3>1. Return(g) \/ (Goto(g, "giveup") /\ call[g].attempts >= MaxAttempts)
        BY <2>5 DEF RecordDispatchAttempt
      <3>2. CASE Goto(g, "giveup") /\ call[g].attempts >= MaxAttempts
        BY <3>2 DEF Goto, DispatcherTypeOK
      <3> QED BY <2>3, <3>1, <3>2
    <2> QED BY <1>2, <2>1, <2>2, <2>4, <2>5 DEF HandlerStep
  <1>3. ASSUME NEW g \in Goroutines, HandlerStep(g)
        PROVE  CallsJustified'
    BY <1>1, <1>2, <1>3 DEF CallsJustified
  <1>4. ASSUME published' = published,
               \A g \in Goroutines : call'[g] = call[g] \/ call'[g].pc \in {"idle", "publish"}
        PROVE  CallsJustified'
    BY <1>4 DEF CallsJustified
  <1>5. CASE \E j \in Jobs : CreateJob(j)
    BY <1>4, <1>5 DEF CreateJob, historyVars
  <1>6. ASSUME "stream" \in Goroutines, StreamOpen \/ StreamNext \/ SaveToken \/ StreamError
        PROVE  CallsJustified'
    <2>1. /\ published' = published
          /\ \/ call' = call
             \/ call' = [call EXCEPT !["stream"] = NoCall]
             \/ Handle("stream", events[cursor.pos + 1], 0)
      BY <1>6 DEF StreamOpen, StreamNext, SaveToken, StreamError, NewJobMetadata, historyVars
    <2>2. \A g \in Goroutines : call'[g] = call[g] \/ call'[g].pc \in {"idle", "publish"}
      BY <2>1 DEF Handle, NoCall, DispatcherTypeOK
    <2> QED BY <1>4, <2>1, <2>2
  <1>7. ASSUME "poll" \in Goroutines, PollFetch \/ PollNext
        PROVE  CallsJustified'
    <2>1. /\ published' = published
          /\ call' = call \/ \E p \in fetched : Handle("poll", p.job, p.attempts)
      BY <1>7 DEF PollFetch, PollNext, historyVars
    <2>2. \A g \in Goroutines : call'[g] = call[g] \/ call'[g].pc \in {"idle", "publish"}
      BY <2>1 DEF Handle, DispatcherTypeOK
    <2> QED BY <1>4, <2>1, <2>2
  <1>8. CASE DispatcherCrash
    BY <1>4, <1>8 DEF DispatcherCrash, NoCall, historyVars
  <1> QED BY <1>3, <1>5, <1>6, <1>7, <1>8 DEF DispatcherNext, StreamStep, PollStep

-----------------------------------------------------------------------------
(* A write that leaves the dispatch status of a job alone is a stuttering  *)
(* step of the saga, any other write a change of that job's outcome.       *)
LEMMA WriteOutcome ==
  ASSUME StoreTypeOK, NEW j \in DOMAIN jobs, NEW d \in Document,
         Write(j, d) \/ WriteFails(j, d)
  PROVE  \/ DispatchOutcome' = DispatchOutcome
         \/ DispatchOutcome' = [DispatchOutcome EXCEPT ![j] = d.dispatchStatus]
  <1>1. /\ DOMAIN jobs' = DOMAIN jobs
        /\ jobs' \in {jobs, [jobs EXCEPT ![j] = d]}
    BY WriteType
  <1>2. CASE jobs' = jobs
    BY <1>2 DEF DispatchOutcome
  <1>3. CASE jobs' = [jobs EXCEPT ![j] = d]
    BY <1>1, <1>3 DEF DispatchOutcome, StoreTypeOK
  <1> QED BY <1>1, <1>2, <1>3

(* What a step of HandleDispatch means for the outcome of its job: nothing *)
(* but a publish, or that the job is confirmed or given up.                *)
LEMMA HandlerOutcome ==
  ASSUME DispatcherTypeOK, NEW g \in Goroutines, HandlerStep(g)
  PROVE  LET j == call[g].job IN
         /\ j \in DOMAIN jobs /\ j \in Jobs /\ DispatchOutcome[j] # "none"
         /\ \/ /\ UNCHANGED DispatchOutcome /\ call[g].pc = "publish"
               /\ \/ published' = [published EXCEPT ![j] = @ + 1] /\ UNCHANGED pubErrors
                  \/ pubErrors' = [pubErrors EXCEPT ![j] = @ + 1] /\ UNCHANGED published
                  \/ published' = [published EXCEPT ![j] = @ + 1] /\ pubErrors' = [pubErrors EXCEPT ![j] = @ + 1]
            \/ UNCHANGED <<DispatchOutcome, published, pubErrors>>
            \/ /\ DispatchOutcome[j] = "pending_dispatch" /\ UNCHANGED <<published, pubErrors>>
               /\ \/ /\ call[g].pc = "confirm"
                     /\ DispatchOutcome' = [DispatchOutcome EXCEPT ![j] = "dispatched"]
                  \/ /\ call[g].pc = "giveup"
                     /\ DispatchOutcome' = [DispatchOutcome EXCEPT ![j] = "dispatch_failed"]
  <1> DEFINE j == call[g].job
  <1>0. /\ j \in DOMAIN jobs /\ j \in Jobs /\ jobs[j] \in Document
        /\ call[g].attempts \in Nat /\ StoreTypeOK
    <2>1. call[g].pc \in {"publish", "confirm", "record", "giveup"}
      BY DEF HandlerStep, PublishOK, PublishError, MarkJobDispatched,
             RecordDispatchAttempt, MarkJobDispatchFailed
    <2> QED BY <2>1, HandledJob DEF DispatcherTypeOK
  <1>a. /\ DispatchOutcome[j] = jobs[j].dispatchStatus
        /\ DispatchOutcome[j] # "none"
    BY <1>0 DEF DispatchOutcome, Document, DispatchStatuses
  <1>b. [DispatchOutcome EXCEPT ![j] = DispatchOutcome[j]] = DispatchOutcome
    BY <1>0 DEF DispatchOutcome
  <1>1. CASE PublishOK(g)
    BY <1>0, <1>a, <1>1 DEF PublishOK, Delivered, DispatchOutcome
  <1>2. CASE PublishError(g)
    BY <1>0, <1>a, <1>2 DEF PublishError, Delivered, DispatchOutcome
  <1>3. CASE MarkJobDispatched(g)
    <2> DEFINE d == MarkDispatchedIfPending(jobs[j])
    <2>1. d \in Document /\ UNCHANGED <<published, pubErrors>> /\ call[g].pc = "confirm"
      BY <1>0, <1>3, DispatchWritesType DEF MarkJobDispatched, historyVars
    <2>2. \/ UNCHANGED DispatchOutcome
          \/ DispatchOutcome' = [DispatchOutcome EXCEPT ![j] = d.dispatchStatus]
      BY <1>0, <1>3, <2>1, WriteOutcome DEF MarkJobDispatched
    <2>3. \/ DispatchOutcome[j] = "pending_dispatch" /\ d.dispatchStatus = "dispatched"
          \/ d.dispatchStatus = DispatchOutcome[j]
      BY <1>0, <1>a DEF MarkDispatchedIfPending, Document
    <2> QED BY <1>0, <1>a, <1>b, <2>1, <2>2, <2>3
  <1>4. CASE RecordDispatchAttempt(g)
    <2> DEFINE d == RecordDispatchAttemptIfPending(jobs[j], call[g].attempts)
    <2>1. d \in Document /\ UNCHANGED <<published, pubErrors>>
      BY <1>0, <1>4, DispatchWritesType DEF RecordDispatchAttempt, historyVars
    <2>2. d.dispatchStatus = DispatchOutcome[j]
      BY <1>0, <1>a DEF RecordDispatchAttemptIfPending, Document
    <2>3. \/ UNCHANGED DispatchOutcome
          \/ DispatchOutcome' = [DispatchOutcome EXCEPT ![j] = d.dispatchStatus]
      BY <1>0, <1>4, <2>1, WriteOutcome DEF RecordDispatchAttempt
    <2> QED BY <1>0, <1>a, <1>b, <2>1, <2>2, <2>3
  <1>5. CASE MarkJobDispatchFailed(g)
    <2> DEFINE d == MarkDispatchFailedIfPending(jobs[j])
    <2>1. d \in Document /\ UNCHANGED <<published, pubErrors>> /\ call[g].pc = "giveup"
      BY <1>0, <1>5, DispatchWritesType DEF MarkJobDispatchFailed, historyVars
    <2>2. \/ UNCHANGED DispatchOutcome
          \/ DispatchOutcome' = [DispatchOutcome EXCEPT ![j] = d.dispatchStatus]
      BY <1>0, <1>5, <2>1, WriteOutcome DEF MarkJobDispatchFailed
    <2>3. \/ DispatchOutcome[j] = "pending_dispatch" /\ d.dispatchStatus = "dispatch_failed"
          \/ d.dispatchStatus = DispatchOutcome[j]
      BY <1>0, <1>a DEF MarkDispatchFailedIfPending, Document
    <2> QED BY <1>0, <1>a, <1>b, <2>1, <2>2, <2>3
  <1> QED BY <1>1, <1>2, <1>3, <1>4, <1>5 DEF HandlerStep

(* The other steps of the dispatcher insert a job, or touch no outcome.    *)
LEMMA OtherOutcome ==
  ASSUME DispatcherNext, \A g \in Goroutines : ~HandlerStep(g)
  PROVE  /\ UNCHANGED <<published, pubErrors>>
         /\ \/ UNCHANGED <<jobs, DispatchOutcome>>
            \/ \E j \in Jobs :
                 /\ CreateJob(j) /\ DispatchOutcome[j] = "none"
                 /\ DispatchOutcome' = [DispatchOutcome EXCEPT ![j] = "pending_dispatch"]
  <1>1. ASSUME NEW j \in Jobs, CreateJob(j)
        PROVE  /\ UNCHANGED <<published, pubErrors>> /\ DispatchOutcome[j] = "none"
               /\ DispatchOutcome' = [DispatchOutcome EXCEPT ![j] = "pending_dispatch"]
    BY <1>1 DEF CreateJob, historyVars, DispatchOutcome, NewJobMetadata
  <1>2. ASSUME StreamOpen \/ StreamNext \/ SaveToken \/ StreamError \/ PollFetch \/ PollNext \/ DispatcherCrash
        PROVE  UNCHANGED <<jobs, published, pubErrors>>
    BY <1>2 DEF StreamOpen, StreamNext, SaveToken, StreamError, PollFetch, PollNext, CallFails,
                DispatcherCrash, historyVars
  <1>3. UNCHANGED jobs => UNCHANGED DispatchOutcome
    BY DEF DispatchOutcome
  <1> QED BY <1>1, <1>2, <1>3 DEF DispatcherNext, StreamStep, PollStep

(* Every step of the dispatcher is a step of the saga or a stutter.        *)
LEMMA DispatcherSimulation ==
  ASSUME SagaInv, [DispatcherNext]_dispatchVars
  PROVE  [Saga!SagaNext]_(Saga!sagaVars)
  <1>1. CASE UNCHANGED dispatchVars
    BY <1>1 DEF dispatchVars, dispatcherVars, historyVars, Saga!sagaVars, DispatchOutcome
  <1>2. CASE DispatcherNext /\ \A g \in Goroutines : ~HandlerStep(g)
    BY <1>2, OtherOutcome DEF Saga!SagaNext, Saga!Persist, Saga!sagaVars
  <1>3. ASSUME NEW g \in Goroutines, HandlerStep(g)
        PROVE  [Saga!SagaNext]_(Saga!sagaVars)
    <2> DEFINE j == call[g].job
    <2>1. DispatcherTypeOK /\ j \in Jobs
      BY <1>3, HandlerOutcome DEF SagaInv
    <2>2. call[g].pc = "confirm" => published[j] > 0
      BY DEF SagaInv, CallsJustified
    <2>3. call[g].pc = "giveup" => pubErrors[j] >= MaxAttempts
      <3>1. pubErrors[j] \in Nat /\ call[g].attempts \in Nat
        BY <2>1 DEF DispatcherTypeOK
      <3> QED BY <3>1, DispatcherAssumption DEF SagaInv, CallsJustified, AttemptsNeverOverstated
    <2> QED
      BY <1>3, <2>1, <2>2, <2>3, HandlerOutcome DEF Saga!SagaNext, Saga!Publish, Saga!Confirm, Saga!sagaVars
  <1> QED BY <1>1, <1>2, <1>3 DEF DispatcherNext, StreamStep, PollStep

(***************************************************************************)
(* For any jobs, limits, faults and outages, the dispatcher implements the *)
(* dispatch saga: a job is confirmed at most once, as dispatched only      *)
(* after a publish, as dispatch_failed only after MaxAttempts errors.      *)
(***************************************************************************)
THEOREM DispatcherImplementsSaga == DispatcherSpec => ImplementsSaga
  <1>1. DispatcherAloneInit => SagaInv
    <2> SUFFICES ASSUME DispatcherAloneInit
                 PROVE  SagaInv
      OBVIOUS
    <2>1. AttemptsNeverOverstated /\ CallsJustified
      BY DEF DispatcherAloneInit, StoreInit, DispatcherInit, NoCall, AttemptsNeverOverstated, CallsJustified
    <2> QED BY <2>1, DispatcherInitType DEF SagaInv
  <1>2. SagaInv /\ [DispatcherNext]_dispatchVars => SagaInv'
    <2> SUFFICES ASSUME SagaInv, [DispatcherNext]_dispatchVars
                 PROVE  SagaInv'
      OBVIOUS
    <2>1. CASE DispatcherNext
      BY <2>1, DispatcherNextType, DispatcherNextAttempts, DispatcherNextJustified DEF SagaInv
    <2>2. CASE UNCHANGED dispatchVars
      BY <2>2 DEF dispatchVars, dispatcherVars, streamVars, historyVars, SagaInv, DispatcherTypeOK,
                  StoreTypeOK, BrokerTypeOK, AttemptsNeverOverstated, CallsJustified
    <2> QED BY <2>1, <2>2
  <1>3. DispatcherAloneInit => Saga!SagaInit
    BY DEF DispatcherAloneInit, StoreInit, DispatcherInit, Saga!SagaInit, DispatchOutcome
  <1>4. SagaInv /\ [DispatcherNext]_dispatchVars => [Saga!SagaNext]_(Saga!sagaVars)
    BY DispatcherSimulation
  <1> QED
    BY <1>1, <1>2, <1>3, <1>4, PTL DEF DispatcherSpec, ImplementsSaga, Saga!Spec

-----------------------------------------------------------------------------
(* The saga inside the whole system. *)

(* SagaInv holds in every reachable state of the system. *)
LEMMA SystemSagaInv == Spec => []SagaInv
  <1>1. Init => CallsJustified
    BY DEF Init, DispatcherInit, NoCall, CallsJustified
  <1>2. JobbyInv /\ AttemptsNeverOverstated /\ CallsJustified /\ [Next]_vars => CallsJustified'
    <2> SUFFICES ASSUME JobbyInv, AttemptsNeverOverstated, CallsJustified, [Next]_vars
                 PROVE  CallsJustified'
      OBVIOUS
    <2>1. CASE DispatcherPart
      BY <2>1, DispatcherNextJustified DEF SagaInv, JobbyInv, TypeOK, DispatcherPart
    <2>2. CASE UNCHANGED dispatcherVars
      BY <2>2 DEF dispatcherVars, historyVars, CallsJustified
    <2>3. UNCHANGED vars => UNCHANGED dispatcherVars
      BY DEF vars
    <2> QED BY <2>1, <2>2, <2>3, OthersWrites DEF Next
  <1>3. JobbyInv /\ AttemptsNeverOverstated /\ CallsJustified => SagaInv
    BY DEF JobbyInv, TypeOK, SagaInv
  <1> QED BY <1>1, <1>2, <1>3, JobbyInvHolds, SystemAttemptsCorrect, PTL DEF Spec

(***************************************************************************)
(* Without retries nobody but the dispatcher moves an outcome: the saga    *)
(* holds of the system as it holds of the dispatcher alone, and a job is   *)
(* confirmed at most once.                                                 *)
(***************************************************************************)
THEOREM SystemImplementsSaga ==
  ASSUME "retry" \notin Calls
  PROVE  Spec => ImplementsSaga
  <1>1. Init => Saga!SagaInit
    BY DEF Init, StoreInit, DispatcherInit, Saga!SagaInit, DispatchOutcome
  <1>2. JobbyInv /\ FlightInv /\ SagaInv /\ [Next]_vars => [Saga!SagaNext]_(Saga!sagaVars)
    <2> SUFFICES ASSUME JobbyInv, FlightInv, SagaInv, [Next]_vars
                 PROVE  [Saga!SagaNext]_(Saga!sagaVars)
      OBVIOUS
    <2>1. CASE DispatcherPart
      BY <2>1, DispatcherSimulation DEF DispatcherPart
    <2>2. CASE ExecutorPart \/ ApiPart
      <3>1. UNCHANGED <<published, pubErrors>> /\ DOMAIN jobs' = DOMAIN jobs
        BY <2>2, OthersWrites DEF dispatcherVars, historyVars
      <3>2. \A k \in DOMAIN jobs : jobs'[k].dispatchStatus = jobs[k].dispatchStatus
        BY <2>2, OthersWrites DEF SameDispatch, FlightInv, NoRetryUnderWay
      <3>3. DispatchOutcome' = DispatchOutcome
        BY <3>1, <3>2 DEF DispatchOutcome
      <3> QED BY <3>1, <3>3 DEF Saga!sagaVars
    <2>3. CASE UNCHANGED vars
      BY <2>3 DEF vars, dispatcherVars, historyVars, Saga!sagaVars, DispatchOutcome
    <2> QED BY <2>1, <2>2, <2>3 DEF Next
  <1> QED
    BY <1>1, <1>2, JobbyInvHolds, FlightInvHolds, SystemSagaInv, PTL DEF Spec, ImplementsSaga, Saga!Spec

-----------------------------------------------------------------------------
(***************************************************************************)
(* The life cycle.  A single client that does not cancel leaves a job that *)
(* it is about to reset failed; with a second one that retries, or with    *)
(* one that cancels, another writer may move the job between the check and *)
(* the write.                                                              *)
(***************************************************************************)
LifecycleMove(d, e) ==
  \/ e.dispatchStatus = d.dispatchStatus /\ e.executionStatus = d.executionStatus
  \/ /\ e.dispatchStatus \in DispatchCanTransitionTo[d.dispatchStatus]
     /\ e.executionStatus = d.executionStatus
  \/ /\ e.dispatchStatus = d.dispatchStatus
     /\ e.executionStatus \in ExecutionCanTransitionTo[d.executionStatus]
  \/ /\ d.executionStatus = "failed"
     /\ e.dispatchStatus = "pending_dispatch" /\ e.executionStatus = "not_started"

NoCancelUnderWay == \A c \in Clients : client[c].pc # "cancel"

ResetsFailed ==
  \A c \in Clients :
    client[c].pc \in {"increment", "reset"} => jobs[client[c].job].executionStatus = "failed"

LifecycleInv == NoCancelUnderWay /\ ResetsFailed

(* A document that moves as the relations allow is a step of its job.      *)
LEMMA MoveIsStep ==
  ASSUME StoreTypeOK, NEW j \in DOMAIN jobs, NEW e \in Document,
         jobs' = [jobs EXCEPT ![j] = e], LifecycleMove(jobs[j], e)
  PROVE  [Lifecycle!LifecycleNext]_(Lifecycle!lifecycleVars)
  <1> DEFINE d == jobs[j]
  <1>1. j \in Jobs /\ d \in Document /\ DOMAIN jobs' = DOMAIN jobs
    BY DEF StoreTypeOK
  <1>2. /\ DispatchOutcome' = [DispatchOutcome EXCEPT ![j] = e.dispatchStatus]
        /\ ExecutionOutcome' = [ExecutionOutcome EXCEPT ![j] = e.executionStatus]
    BY <1>1 DEF DispatchOutcome, ExecutionOutcome, StoreTypeOK
  <1>3. /\ DispatchOutcome[j] = d.dispatchStatus /\ DispatchOutcome[j] # "none"
        /\ ExecutionOutcome[j] = d.executionStatus /\ ExecutionOutcome[j] # "none"
    BY <1>1 DEF DispatchOutcome, ExecutionOutcome, Document, DispatchStatuses, ExecutionStatuses
  <1>4. /\ e.dispatchStatus = d.dispatchStatus => UNCHANGED DispatchOutcome
        /\ e.executionStatus = d.executionStatus => UNCHANGED ExecutionOutcome
    BY <1>1, <1>2, <1>3 DEF DispatchOutcome, ExecutionOutcome
  <1>5. /\ Lifecycle!DispatchCanTransitionTo = DispatchCanTransitionTo
        /\ Lifecycle!ExecutionCanTransitionTo = ExecutionCanTransitionTo
    BY DEF Lifecycle!DispatchCanTransitionTo, DispatchCanTransitionTo, Lifecycle!DispatchStatuses,
           DispatchStatuses, Lifecycle!ExecutionCanTransitionTo, ExecutionCanTransitionTo,
           Lifecycle!ExecutionStatuses, ExecutionStatuses
  <1>6. CASE e.dispatchStatus = d.dispatchStatus /\ e.executionStatus = d.executionStatus
    BY <1>4, <1>6 DEF Lifecycle!lifecycleVars
  <1>7. CASE /\ e.dispatchStatus \in DispatchCanTransitionTo[d.dispatchStatus]
             /\ e.executionStatus = d.executionStatus
    <2>1. Lifecycle!Dispatch(j)
      BY <1>2, <1>3, <1>4, <1>5, <1>7 DEF Lifecycle!Dispatch
    <2> QED BY <1>1, <2>1 DEF Lifecycle!LifecycleNext
  <1>8. CASE /\ e.dispatchStatus = d.dispatchStatus
             /\ e.executionStatus \in ExecutionCanTransitionTo[d.executionStatus]
    <2>1. Lifecycle!Execute(j)
      BY <1>2, <1>3, <1>4, <1>5, <1>8 DEF Lifecycle!Execute
    <2> QED BY <1>1, <2>1 DEF Lifecycle!LifecycleNext
  <1>9. CASE /\ d.executionStatus = "failed"
             /\ e.dispatchStatus = "pending_dispatch" /\ e.executionStatus = "not_started"
    <2>1. Lifecycle!Retry(j)
      BY <1>2, <1>3, <1>9 DEF Lifecycle!Retry, Lifecycle!Begin
    <2> QED BY <1>1, <2>1 DEF Lifecycle!LifecycleNext
  <1> QED BY <1>6, <1>7, <1>8, <1>9 DEF LifecycleMove

(* Every filtered write, and the reset of a failed job, moves a document   *)
(* as the relations allow.                                                 *)
LEMMA WritesMove ==
  ASSUME NEW d \in Document, NEW n \in Nat
  PROVE  /\ \A e \in {MarkDispatchedIfPending(d), RecordDispatchAttemptIfPending(d, n),
                      MarkDispatchFailedIfPending(d), MarkRunningIfDispatched(d), CompleteIfRunning(d),
                      FailIfNotTerminal(d), IncrementRetryCount(d), ClearJobExecutionTimestamps(d)} :
              LifecycleMove(d, e)
         /\ d.executionStatus = "failed" => LifecycleMove(d, RetryPatch(d))
  <1> USE DEF Document, LifecycleMove
  <1>1. /\ DispatchCanTransitionTo["pending_dispatch"] = {"dispatched", "dispatch_failed"}
        /\ ExecutionCanTransitionTo["not_started"] = {"running", "failed", "cancelled"}
        /\ ExecutionCanTransitionTo["running"] = {"completed", "failed", "cancelled"}
    BY DEF DispatchCanTransitionTo, ExecutionCanTransitionTo, DispatchStatuses, ExecutionStatuses
  <1>2. LifecycleMove(d, MarkDispatchedIfPending(d))
    BY <1>1 DEF MarkDispatchedIfPending
  <1>3. LifecycleMove(d, RecordDispatchAttemptIfPending(d, n))
    BY DEF RecordDispatchAttemptIfPending
  <1>4. LifecycleMove(d, MarkDispatchFailedIfPending(d))
    BY <1>1 DEF MarkDispatchFailedIfPending
  <1>5. LifecycleMove(d, MarkRunningIfDispatched(d))
    BY <1>1 DEF MarkRunningIfDispatched, Claimable
  <1>6. LifecycleMove(d, CompleteIfRunning(d))
    BY <1>1 DEF CompleteIfRunning
  <1>7. LifecycleMove(d, FailIfNotTerminal(d))
    BY <1>1 DEF FailIfNotTerminal
  <1>8. LifecycleMove(d, IncrementRetryCount(d)) /\ LifecycleMove(d, ClearJobExecutionTimestamps(d))
    BY DEF IncrementRetryCount, ClearJobExecutionTimestamps
  <1>9. d.executionStatus = "failed" => LifecycleMove(d, RetryPatch(d))
    BY DEF RetryPatch
  <1> HIDE DEF LifecycleMove
  <1> QED BY <1>2, <1>3, <1>4, <1>5, <1>6, <1>7, <1>8, <1>9

(* The outcomes are functions of the collection. *)
LEMMA SameDocumentsStutter ==
  ASSUME jobs' = jobs
  PROVE  UNCHANGED Lifecycle!lifecycleVars
  BY DEF Lifecycle!lifecycleVars, DispatchOutcome, ExecutionOutcome

(* An insert creates its job, a write of HandleDispatch moves it.          *)
LEMMA DispatcherLifecycle ==
  ASSUME DispatcherTypeOK, DispatcherNext
  PROVE  [Lifecycle!LifecycleNext]_(Lifecycle!lifecycleVars)
  <1>1. ASSUME NEW j \in Jobs, CreateJob(j)
        PROVE  Lifecycle!LifecycleNext
    <2>1. DispatchOutcome[j] = "none"
      BY <1>1 DEF CreateJob, DispatchOutcome
    <2>2. DispatchOutcome' = [DispatchOutcome EXCEPT ![j] = "pending_dispatch"]
      BY <1>1 DEF CreateJob, DispatchOutcome, NewJobMetadata
    <2>3. ExecutionOutcome' = [ExecutionOutcome EXCEPT ![j] = "not_started"]
      BY <1>1 DEF CreateJob, ExecutionOutcome, NewJobMetadata
    <2>4. Lifecycle!Create(j)
      BY <2>1, <2>2, <2>3 DEF Lifecycle!Create, Lifecycle!Begin
    <2> QED BY <2>4 DEF Lifecycle!LifecycleNext
  <1>2. ASSUME NEW g \in Goroutines, HandlerStep(g)
        PROVE  [Lifecycle!LifecycleNext]_(Lifecycle!lifecycleVars)
    <2> DEFINE j == call[g].job
               d == jobs[j]
               n == call[g].attempts
    <2>1. j \in DOMAIN jobs /\ d \in Document /\ n \in Nat /\ StoreTypeOK
      <3>1. call[g].pc \in {"publish", "confirm", "record", "giveup"}
        BY <1>2 DEF HandlerStep, PublishOK, PublishError, MarkJobDispatched, RecordDispatchAttempt,
                    MarkJobDispatchFailed
      <3> QED BY <3>1, HandledJob DEF DispatcherTypeOK
    <2>2. \/ jobs' = jobs
          \/ \E e \in {MarkDispatchedIfPending(d), RecordDispatchAttemptIfPending(d, n),
                       MarkDispatchFailedIfPending(d)} : jobs' = [jobs EXCEPT ![j] = e]
      BY <1>2 DEF HandlerStep, PublishOK, PublishError, MarkJobDispatched, RecordDispatchAttempt,
                  MarkJobDispatchFailed, Write, WriteFails
    <2>3. CASE jobs' = jobs
      BY <2>3, SameDocumentsStutter
    <2>4. ASSUME NEW e \in {MarkDispatchedIfPending(d), RecordDispatchAttemptIfPending(d, n),
                            MarkDispatchFailedIfPending(d)},
                 jobs' = [jobs EXCEPT ![j] = e]
          PROVE  [Lifecycle!LifecycleNext]_(Lifecycle!lifecycleVars)
      <3>1. e \in Document /\ LifecycleMove(d, e)
        BY <2>1, DispatchWritesType, WritesMove
      <3> QED BY <2>1, <2>4, <3>1, MoveIsStep
    <2> QED BY <2>2, <2>3, <2>4
  <1>3. ASSUME StreamOpen \/ StreamNext \/ SaveToken \/ StreamError \/ PollFetch \/ PollNext
               \/ DispatcherCrash
        PROVE  jobs' = jobs
    BY <1>3 DEF StreamOpen, StreamNext, SaveToken, StreamError, PollFetch, PollNext, CallFails,
                DispatcherCrash
  <1> QED
    BY <1>1, <1>2, <1>3, SameDocumentsStutter DEF DispatcherNext, StreamStep, PollStep

(* A write of a worker moves the execution of its job. *)
LEMMA ExecutorLifecycle ==
  ASSUME ExecutorTypeOK, ExecutorNext
  PROVE  [Lifecycle!LifecycleNext]_(Lifecycle!lifecycleVars)
  <1>1. PICK w \in Workers : WorkerStep(w) \/ WorkerKilled(w)
    BY DEF ExecutorNext
  <1>2. CASE worker[w].pc = "idle"
    <2>1. jobs' = jobs
      BY <1>1, <1>2 DEF WorkerStep, WorkerKilled, Receive, StartJob, RunHandler, CompleteJob, CompleteMiss,
                        FailJobRead, FailJobWrite
    <2> QED BY <2>1, SameDocumentsStutter
  <1>3. CASE worker[w].pc # "idle"
    <2> DEFINE j == worker[w].job
               d == jobs[j]
    <2>1. j \in DOMAIN jobs /\ d \in Document /\ StoreTypeOK
      BY <1>3, WorkersJob DEF ExecutorTypeOK
    <2>2. \/ jobs' = jobs
          \/ \E e \in {MarkRunningIfDispatched(d), CompleteIfRunning(d), FailIfNotTerminal(d)} :
               jobs' = [jobs EXCEPT ![j] = e]
      BY <1>1, <1>3, BusyStep
    <2>3. ASSUME NEW e \in {MarkRunningIfDispatched(d), CompleteIfRunning(d), FailIfNotTerminal(d)},
                 jobs' = [jobs EXCEPT ![j] = e]
          PROVE  [Lifecycle!LifecycleNext]_(Lifecycle!lifecycleVars)
      <3>1. e \in Document /\ LifecycleMove(d, e)
        BY <2>1, ExecutionWritesType, WritesMove
      <3> QED BY <2>1, <2>3, <3>1, MoveIsStep
    <2> QED BY <2>2, <2>3, SameDocumentsStutter
  <1> QED BY <1>2, <1>3

(* A write of a client that does not cancel moves its job, or resets it    *)
(* from failed.                                                            *)
LEMMA ApiLifecycle ==
  ASSUME StoreTypeOK, ApiTypeOK, LifecycleInv, NEW c \in Clients, ClientStep(c)
  PROVE  [Lifecycle!LifecycleNext]_(Lifecycle!lifecycleVars)
  <1> DEFINE j == client[c].job
             d == jobs[j]
  <1>1. CASE CancelRead(c) \/ FailRead(c) \/ RetryRead(c)
    BY <1>1, RequestType, SameDocumentsStutter
  <1>2. CASE FailWrite(c) \/ RetryIncrement(c) \/ RetryReset(c) \/ RetryClear(c)
    <2>1. client[c].pc # "idle"
      BY <1>2 DEF FailWrite, RetryIncrement, RetryReset, RetryClear, Step
    <2>2. /\ j \in DOMAIN jobs /\ d \in Document
          /\ FailIfNotTerminal(d) \in Document /\ IncrementRetryCount(d) \in Document
          /\ RetryPatch(d) \in Document /\ ClearJobExecutionTimestamps(d) \in Document
      BY <2>1, ClientsJob
    <2>3. \/ jobs' = jobs
          \/ \E e \in {FailIfNotTerminal(d), IncrementRetryCount(d), ClearJobExecutionTimestamps(d)} :
               jobs' = [jobs EXCEPT ![j] = e]
          \/ client[c].pc = "reset" /\ jobs' = [jobs EXCEPT ![j] = RetryPatch(d)]
      BY <1>2 DEF FailWrite, RetryIncrement, RetryReset, RetryClear, Step, Write, WriteFails
    <2>4. \A e \in {FailIfNotTerminal(d), IncrementRetryCount(d), ClearJobExecutionTimestamps(d)} :
            e \in Document /\ LifecycleMove(d, e)
      BY <2>2, WritesMove
    <2>5. client[c].pc = "reset" => LifecycleMove(d, RetryPatch(d))
      BY <2>2, WritesMove DEF LifecycleInv, ResetsFailed
    <2> QED BY <2>2, <2>3, <2>4, <2>5, MoveIsStep, SameDocumentsStutter
  <1>3. ~CancelWrite(c)
    BY DEF CancelWrite, Step, LifecycleInv, NoCancelUnderWay
  <1> QED BY <1>1, <1>2, <1>3 DEF ClientStep

(* Without a cancelling client there is no cancel under way. *)
LEMMA NextNoCancel ==
  ASSUME "cancel" \notin Calls, ApiTypeOK, NoCancelUnderWay, Next
  PROVE  NoCancelUnderWay'
  <1>1. client \in [Clients -> [pc : ClientPcs, job : Jobs \cup {NoJob}]]
    BY DEF ApiTypeOK
  <1>2. CASE DispatcherPart \/ ExecutorPart
    BY <1>2 DEF DispatcherPart, ExecutorPart, NoCancelUnderWay
  <1>3. CASE ApiPart
    <2>1. PICK c \in Clients : ClientStep(c)
      BY <1>3 DEF ApiPart, ApiNext
    <2>2. ~CancelRead(c) /\ ~CancelWrite(c)
      BY DEF CancelRead, CancelWrite, Step, NoCancelUnderWay
    <2>3. CASE FailRead(c) \/ RetryRead(c)
      BY <1>1, <2>3 DEF FailRead, RetryRead, Request, NoCancelUnderWay
    <2>4. CASE FailWrite(c) \/ RetryIncrement(c) \/ RetryReset(c) \/ RetryClear(c)
      <3>1. client' \in {[client EXCEPT ![c].pc = "reset"], [client EXCEPT ![c].pc = "clear"],
                         [client EXCEPT ![c] = NoRequest]}
        BY <2>4 DEF FailWrite, RetryIncrement, RetryReset, RetryClear, Step, Proceed, Respond
      <3> QED BY <1>1, <3>1 DEF NoCancelUnderWay, NoRequest
    <2> QED BY <2>1, <2>2, <2>3, <2>4 DEF ClientStep
  <1> QED BY <1>2, <1>3 DEF Next

(* Nobody but the client that read it moves a failed job. *)
LEMMA NextResetsFailed ==
  ASSUME "cancel" \notin Calls, \A c, d \in Clients : c = d,
         JobbyInv, LifecycleInv, Next
  PROVE  ResetsFailed'
  <1>1. DispatcherTypeOK /\ ExecutorTypeOK /\ StoreTypeOK /\ ApiTypeOK
    BY DEF JobbyInv, TypeOK, DispatcherTypeOK
  <1>2. ASSUME UNCHANGED client,
               \A k \in DOMAIN jobs : jobs[k].executionStatus = "failed" => jobs'[k].executionStatus = "failed"
        PROVE  ResetsFailed'
    BY <1>1, <1>2 DEF LifecycleInv, ResetsFailed, ApiTypeOK
  <1>3. CASE DispatcherPart
    BY <1>1, <1>2, <1>3, DispatcherWrites DEF DispatcherPart, SameExecution
  <1>4. CASE ExecutorPart
    BY <1>1, <1>2, <1>4, DocumentsAdvance DEF ExecutorPart, ExecutorNext, TerminalExecution
  <1>5. CASE ApiPart
    <2>1. PICK c \in Clients : ClientStep(c)
      BY <1>5 DEF ApiPart, ApiNext
    <2> DEFINE j == client[c].job
    <2>2. client \in [Clients -> [pc : ClientPcs, job : Jobs \cup {NoJob}]]
      BY <1>1 DEF ApiTypeOK
    <2>3. ~CancelRead(c) /\ ~CancelWrite(c)
      BY DEF CancelRead, CancelWrite, Step, LifecycleInv, NoCancelUnderWay
    <2>4. CASE FailRead(c) \/ RetryRead(c)
      BY <2>2, <2>4 DEF FailRead, RetryRead, Request, LifecycleInv, ResetsFailed
    <2>5. CASE RetryIncrement(c)
      <3>1. client[c].pc = "increment" /\ j \in DOMAIN jobs /\ jobs[j] \in Document
        BY <1>1, <2>5, ClientsJob DEF RetryIncrement, Step
      <3>2. jobs[j].executionStatus = "failed"
        BY <3>1 DEF LifecycleInv, ResetsFailed
      <3>3. jobs' \in {jobs, [jobs EXCEPT ![j] = IncrementRetryCount(jobs[j])]}
        BY <2>5 DEF RetryIncrement, Step, Write, WriteFails
      <3>4. jobs'[j].executionStatus = "failed"
        BY <3>1, <3>2, <3>3 DEF IncrementRetryCount, Document
      <3>5. client' \in {[client EXCEPT ![c].pc = "reset"], [client EXCEPT ![c] = NoRequest]}
        BY <2>5 DEF RetryIncrement, Step, Proceed, Respond
      <3> QED BY <2>2, <3>4, <3>5 DEF LifecycleInv, ResetsFailed, NoRequest
    <2>6. CASE FailWrite(c) \/ RetryReset(c) \/ RetryClear(c)
      <3>1. client' \in {[client EXCEPT ![c].pc = "clear"], [client EXCEPT ![c] = NoRequest]}
        BY <2>6 DEF FailWrite, RetryReset, RetryClear, Step, Proceed, Respond
      <3> QED BY <2>2, <3>1 DEF LifecycleInv, ResetsFailed, NoRequest
    <2> QED BY <2>1, <2>3, <2>4, <2>5, <2>6 DEF ClientStep
  <1> QED BY <1>3, <1>4, <1>5 DEF Next

(* LifecycleInv holds of a system without cancelling clients whose retries *)
(* come one at a time, or not at all.                                      *)
LEMMA LifecycleInvHolds ==
  ASSUME "cancel" \notin Calls, "retry" \notin Calls \/ \A c, d \in Clients : c = d
  PROVE  Spec => []LifecycleInv
  <1>1. Init => NoCancelUnderWay /\ ResetsFailed
    BY DEF Init, ApiInit, NoRequest, NoCancelUnderWay, ResetsFailed
  <1>2. JobbyInv /\ NoCancelUnderWay /\ [Next]_vars => NoCancelUnderWay'
    BY NextNoCancel DEF JobbyInv, TypeOK, vars, NoCancelUnderWay
  <1>3. Spec => []NoCancelUnderWay
    BY <1>1, <1>2, JobbyInvHolds, PTL DEF Spec
  <1>4. CASE "retry" \notin Calls
    <2>1. FlightInv /\ NoCancelUnderWay => LifecycleInv
      BY DEF FlightInv, NoRetryUnderWay, LifecycleInv, ResetsFailed
    <2> QED BY <1>3, <1>4, <2>1, FlightInvHolds, PTL
  <1>5. CASE \A c, d \in Clients : c = d
    <2>1. JobbyInv /\ NoCancelUnderWay /\ ResetsFailed /\ [Next]_vars => ResetsFailed'
      <3> SUFFICES ASSUME JobbyInv, NoCancelUnderWay, ResetsFailed, [Next]_vars
                   PROVE  ResetsFailed'
        OBVIOUS
      <3>1. CASE Next
        BY <1>5, <3>1, NextResetsFailed DEF LifecycleInv
      <3>2. CASE UNCHANGED vars
        BY <3>2 DEF vars, ResetsFailed
      <3> QED BY <3>1, <3>2
    <2>2. NoCancelUnderWay /\ ResetsFailed => LifecycleInv
      BY DEF LifecycleInv
    <2> QED BY <1>1, <1>3, <2>1, <2>2, JobbyInvHolds, PTL DEF Spec
  <1> QED BY <1>4, <1>5

(* Under it every step of the system is one of the life cycle.             *)
LEMMA NextLifecycle ==
  ASSUME JobbyInv, LifecycleInv, [Next]_vars
  PROVE  [Lifecycle!LifecycleNext]_(Lifecycle!lifecycleVars)
  <1>1. DispatcherTypeOK /\ ExecutorTypeOK /\ StoreTypeOK /\ ApiTypeOK
    BY DEF JobbyInv, TypeOK, DispatcherTypeOK
  <1>2. CASE DispatcherPart
    BY <1>1, <1>2, DispatcherLifecycle DEF DispatcherPart
  <1>3. CASE ExecutorPart
    BY <1>1, <1>3, ExecutorLifecycle DEF ExecutorPart
  <1>4. CASE ApiPart
    BY <1>1, <1>4, ApiLifecycle DEF ApiPart, ApiNext
  <1>5. CASE UNCHANGED vars
    BY <1>5, SameDocumentsStutter DEF vars
  <1> QED BY <1>2, <1>3, <1>4, <1>5 DEF Next

(***************************************************************************)
(* The stored sub-states of every job move along CanTransitionTo, each     *)
(* moved by its owner, and back only by the retry of a failed job, as long *)
(* as no request cancels and retries do not overlap with other requests;   *)
(* no assumption is made on workers, goroutines, crashes and failed calls. *)
(***************************************************************************)
THEOREM SystemImplementsLifecycle ==
  ASSUME "cancel" \notin Calls, "retry" \notin Calls \/ \A c, d \in Clients : c = d
  PROVE  Spec => ImplementsLifecycle
  <1>1. Init => Lifecycle!LifecycleInit
    BY DEF Init, StoreInit, Lifecycle!LifecycleInit, DispatchOutcome, ExecutionOutcome
  <1>2. JobbyInv /\ LifecycleInv /\ [Next]_vars => [Lifecycle!LifecycleNext]_(Lifecycle!lifecycleVars)
    BY NextLifecycle
  <1> QED
    BY <1>1, <1>2, JobbyInvHolds, LifecycleInvHolds, PTL DEF Spec, ImplementsLifecycle, Lifecycle!Spec

(* A step of the life cycle leaves a terminal execution of a created job   *)
(* alone, or resets a failed one.                                          *)
LEMMA LifecycleKeepsTerminal ==
  ASSUME [Lifecycle!LifecycleNext]_(Lifecycle!lifecycleVars), NEW j \in Jobs,
         DispatchOutcome[j] # "none", ExecutionOutcome[j] \in TerminalExecution
  PROVE  \/ (ExecutionOutcome')[j] = ExecutionOutcome[j]
         \/ ExecutionOutcome[j] = "failed" /\ (ExecutionOutcome')[j] = "not_started"
  <1>1. ExecutionCanTransitionTo[ExecutionOutcome[j]] = {}
    BY DEF TerminalExecution, ExecutionCanTransitionTo, ExecutionStatuses
  <1>2. \A s : \A i \in Jobs :
          ExecutionOutcome' = [ExecutionOutcome EXCEPT ![i] = s] =>
            (ExecutionOutcome')[j] = IF i = j THEN s ELSE ExecutionOutcome[j]
    <2>1. DOMAIN ExecutionOutcome = Jobs
      BY DEF ExecutionOutcome
    <2> QED BY <2>1
  <1>3. CASE UNCHANGED Lifecycle!lifecycleVars
    BY <1>3 DEF Lifecycle!lifecycleVars
  <1>4. ASSUME NEW i \in Jobs,
               Lifecycle!Create(i) \/ Lifecycle!Retry(i) \/ Lifecycle!Dispatch(i) \/ Lifecycle!Execute(i)
        PROVE  \/ (ExecutionOutcome')[j] = ExecutionOutcome[j]
               \/ ExecutionOutcome[j] = "failed" /\ (ExecutionOutcome')[j] = "not_started"
    <2>1. CASE Lifecycle!Create(i) \/ Lifecycle!Retry(i)
      BY <1>2, <2>1 DEF Lifecycle!Create, Lifecycle!Retry, Lifecycle!Begin
    <2>2. CASE Lifecycle!Dispatch(i)
      BY <2>2 DEF Lifecycle!Dispatch
    <2>3. CASE Lifecycle!Execute(i)
      <3>1. PICK s \in ExecutionCanTransitionTo[ExecutionOutcome[i]] :
              ExecutionOutcome' = [ExecutionOutcome EXCEPT ![i] = s]
        BY <2>3 DEF Lifecycle!Execute, Lifecycle!ExecutionCanTransitionTo, Lifecycle!ExecutionStatuses,
           ExecutionCanTransitionTo, ExecutionStatuses
      <3>2. i # j
        BY <1>1, <3>1
      <3> QED BY <1>2, <3>1, <3>2
    <2> QED BY <1>4, <2>1, <2>2, <2>3
  <1> QED BY <1>3, <1>4 DEF Lifecycle!LifecycleNext

(***************************************************************************)
(* Under the same hypothesis a terminal execution status is final but for  *)
(* the retry of a failed job.  A CancelJob that checked before another     *)
(* writer finished the job breaks this, and so does a second RetryJob.     *)
(***************************************************************************)
THEOREM SystemTerminalIsFinal ==
  ASSUME "cancel" \notin Calls, "retry" \notin Calls \/ \A c, d \in Clients : c = d
  PROVE  Spec => TerminalIsFinal
  <1> DEFINE Final ==
               \A j \in DOMAIN jobs :
                 jobs[j].executionStatus \in TerminalExecution =>
                   \/ jobs'[j].executionStatus = jobs[j].executionStatus
                   \/ jobs[j].executionStatus = "failed" /\ jobs'[j].executionStatus = "not_started"
  <1>1. JobbyInv /\ LifecycleInv /\ [Next]_vars => [Final]_jobs
    <2> SUFFICES ASSUME JobbyInv, LifecycleInv, [Next]_vars,
                        NEW j \in DOMAIN jobs, jobs[j].executionStatus \in TerminalExecution
                 PROVE  \/ jobs'[j].executionStatus = jobs[j].executionStatus
                        \/ jobs[j].executionStatus = "failed" /\ jobs'[j].executionStatus = "not_started"
      OBVIOUS
    <2>1. j \in Jobs /\ jobs[j] \in Document /\ DispatcherTypeOK
      BY DEF JobbyInv, TypeOK, DispatcherTypeOK, StoreTypeOK
    <2>2. j \in DOMAIN jobs'
      BY <2>1, DispatcherWrites, OthersWrites DEF Next, DispatcherPart, vars
    <2>3. /\ DispatchOutcome[j] = jobs[j].dispatchStatus
          /\ ExecutionOutcome[j] = jobs[j].executionStatus
          /\ (ExecutionOutcome')[j] = jobs'[j].executionStatus
      BY <2>1, <2>2 DEF DispatchOutcome, ExecutionOutcome
    <2>4. DispatchOutcome[j] # "none"
      BY <2>1, <2>3 DEF Document, DispatchStatuses
    <2>5. [Lifecycle!LifecycleNext]_(Lifecycle!lifecycleVars)
      BY NextLifecycle
    <2> QED BY <2>1, <2>3, <2>4, <2>5, LifecycleKeepsTerminal
  <1> QED BY <1>1, JobbyInvHolds, LifecycleInvHolds, PTL DEF Spec, TerminalIsFinal
-----------------------------------------------------------------------------
(***************************************************************************)
(* Retries.  The memory of RetryHistory says what may be relied on after a *)
(* reset: a message sent since is still on its way while the job has not   *)
(* started, a goroutine at its confirm has sent one since or was overtaken *)
(* by the reset, and so was, or has, the dispatch status it wrote; the     *)
(* attempts of a job, in its document, in a projection or in a call, are   *)
(* errors met since, unless they were read before the reset.               *)
(***************************************************************************)
HistoryTypeOK ==
  /\ sent \in [Jobs -> Nat] /\ errors \in [Jobs -> Nat]
  /\ overtaken \subseteq Jobs /\ stale \subseteq Jobs

SentSince(j) == sent[j] > 0 \/ j \in overtaken

SentOnItsWay ==
  /\ \A j \in DOMAIN jobs : sent[j] > 0 => OnItsWay(j)
  /\ \A j \in Jobs \ DOMAIN jobs : sent[j] = 0

SendsCounted ==
  /\ \A j \in DOMAIN jobs : jobs[j].dispatchStatus = "dispatched" => SentSince(j)
  /\ \A g \in Goroutines : call[g].pc = "confirm" => SentSince(call[g].job)

MetSince(j, n) == j \in stale \/ n <= errors[j]

ErrorsCounted ==
  /\ \A j \in DOMAIN jobs : MetSince(j, jobs[j].dispatchAttempts)
  /\ \A p \in fetched : MetSince(p.job, p.attempts)
  /\ \A g \in Goroutines :
       call[g].pc \in {"publish", "record", "giveup"} => MetSince(call[g].job, call[g].attempts)

HistoryInv == HistoryTypeOK /\ SentOnItsWay /\ SendsCounted /\ ErrorsCounted

(* The step of a reset that changes the document changes nothing else but  *)
(* the requests, and is the reset of one job.                              *)
LEMMA ResetStep ==
  ASSUME JobbyInv, Next, NEW j \in Jobs, Reopened(j)
  PROVE  /\ j \in DOMAIN jobs /\ jobs[j] \in Document /\ DOMAIN jobs' = DOMAIN jobs
         /\ jobs' = [jobs EXCEPT ![j] = RetryPatch(jobs[j])]
         /\ UNCHANGED <<queue, dispatcherVars, executorVars>>
         /\ \A k \in Jobs : Reopened(k) <=> k = j
  <1>1. StoreTypeOK /\ ApiTypeOK /\ jobs \in [DOMAIN jobs -> Document]
    BY DEF JobbyInv, TypeOK, DispatcherTypeOK, StoreTypeOK
  <1>2. ASSUME NEW k \in Jobs, Reopened(k)
        PROVE  /\ k \in DOMAIN jobs /\ jobs[k] \in Document
               /\ jobs' = [jobs EXCEPT ![k] = RetryPatch(jobs[k])] /\ jobs' # jobs
               /\ client' # client
    <2>1. PICK c \in Clients : client[c].job = k /\ RetryReset(c) /\ jobs' # jobs
      BY <1>2 DEF Reopened
    <2>2. client[c].pc = "reset"
      BY <2>1 DEF RetryReset, Step
    <2>3. k \in DOMAIN jobs /\ jobs[k] \in Document
      BY <1>1, <2>1, <2>2, ClientsJob
    <2>4. jobs' = [jobs EXCEPT ![k] = RetryPatch(jobs[k])]
      BY <2>1 DEF RetryReset, Step, Write, WriteFails
    <2>5. client'[c].pc \in {"clear", "idle"}
      BY <1>1, <2>1, <2>2 DEF RetryReset, Step, Proceed, Respond, NoRequest, ApiTypeOK
    <2> QED BY <2>1, <2>2, <2>3, <2>4, <2>5
  <1>3. ApiPart
    BY <1>2 DEF Next, DispatcherPart, ExecutorPart
  <1>4. ASSUME NEW k \in Jobs, Reopened(k)
        PROVE  k = j
    BY <1>1, <1>2, <1>4
  <1> QED BY <1>1, <1>2, <1>3, <1>4 DEF ApiPart

(* Any other step of executors and clients leaves the dispatcher's fields  *)
(* alone and lets no job begin again.                                      *)
LEMMA OthersKeep ==
  ASSUME JobbyInv, ExecutorPart \/ ApiPart, \A j \in Jobs : ~Reopened(j)
  PROVE  /\ UNCHANGED dispatcherVars /\ DOMAIN jobs' = DOMAIN jobs
         /\ \A k \in DOMAIN jobs :
              /\ SameDispatch(jobs[k], jobs'[k])
              /\ OnItsWay(k) => OnItsWay(k)'
  <1>1. /\ ExecutorTypeOK /\ StoreTypeOK /\ ApiTypeOK /\ MessagesOfJobs /\ RejectsUnaccepted
        /\ jobs \in [DOMAIN jobs -> Document] /\ DOMAIN jobs \subseteq Jobs
    BY DEF JobbyInv, TypeOK, DispatcherTypeOK, StoreTypeOK
  <1>2. UNCHANGED dispatcherVars /\ DOMAIN jobs' = DOMAIN jobs
    BY OthersWrites
  <1>3. CASE ExecutorPart
    <2>1. PICK w \in Workers : WorkerStep(w) \/ WorkerKilled(w)
      BY <1>3 DEF ExecutorPart, ExecutorNext
    <2>2. client' = client
      BY <1>3 DEF ExecutorPart
    <2>3. \A k \in DOMAIN jobs : OnItsWay(k) => OnItsWay(k)'
      BY <1>1, <2>1, StaysOnItsWay
    <2>4. CASE worker[w].pc = "idle"
      <3>1. jobs' = jobs
        BY <2>1, <2>4 DEF WorkerStep, WorkerKilled, Receive, StartJob, RunHandler, CompleteJob, CompleteMiss,
                          FailJobRead, FailJobWrite
      <3> QED BY <1>2, <2>3, <3>1 DEF SameDispatch
    <2>5. CASE worker[w].pc # "idle"
      <3> DEFINE j == worker[w].job
                 d == jobs[j]
      <3>1. j \in DOMAIN jobs /\ d \in Document
        BY <1>1, <2>5, WorkersJob
      <3>2. \/ jobs' = jobs
            \/ \E e \in {MarkRunningIfDispatched(d), CompleteIfRunning(d), FailIfNotTerminal(d)} :
                 jobs' = [jobs EXCEPT ![j] = e]
        BY <1>1, <2>1, <2>5, BusyStep
      <3>3. \A e \in {MarkRunningIfDispatched(d), CompleteIfRunning(d), FailIfNotTerminal(d)} : SameDispatch(d, e)
        <4>1. SameDispatch(d, MarkRunningIfDispatched(d))
          BY <3>1 DEF Document, SameDispatch, MarkRunningIfDispatched
        <4>2. SameDispatch(d, CompleteIfRunning(d))
          BY <3>1 DEF Document, SameDispatch, CompleteIfRunning
        <4>3. SameDispatch(d, FailIfNotTerminal(d))
          BY <3>1 DEF Document, SameDispatch, FailIfNotTerminal
        <4> QED BY <4>1, <4>2, <4>3
      <3>4. \A k \in DOMAIN jobs : SameDispatch(jobs[k], jobs[k])
        BY DEF SameDispatch
      <3> HIDE DEF d
      <3>5. \A k \in DOMAIN jobs : SameDispatch(jobs[k], jobs'[k])
        BY <3>1, <3>2, <3>3, <3>4 DEF d
      <3> QED BY <1>2, <2>3, <3>5
    <2> QED BY <2>4, <2>5
  <1>4. CASE ApiPart
    <2>1. PICK c \in Clients : ClientStep(c)
      BY <1>4 DEF ApiPart, ApiNext
    <2>2. UNCHANGED <<queue, worker, abandoned>>
      BY <1>4 DEF ApiPart, executorVars
    <2> DEFINE j == client[c].job
               d == jobs[j]
               Patches == {CancelPatch(d), FailIfNotTerminal(d), IncrementRetryCount(d),
                           ClearJobExecutionTimestamps(d)}
    <2>3. \/ jobs' = jobs
          \/ j \in DOMAIN jobs /\ d \in Document /\ \E e \in Patches : jobs' = [jobs EXCEPT ![j] = e]
      <3>1. CASE CancelRead(c) \/ FailRead(c) \/ RetryRead(c)
        BY <1>1, <3>1, RequestType
      <3>2. CASE CancelWrite(c) \/ FailWrite(c) \/ RetryIncrement(c) \/ RetryClear(c)
        <4>1. j \in DOMAIN jobs /\ d \in Document
          BY <1>1, <3>2, RequestWrite
        <4>2. jobs' = jobs \/ \E e \in Patches : jobs' = [jobs EXCEPT ![j] = e]
          BY <3>2 DEF CancelWrite, FailWrite, RetryIncrement, RetryClear, Step, Write, WriteFails
        <4> QED BY <4>1, <4>2
      <3>3. CASE RetryReset(c)
        <4>1. j \in Jobs
          BY <1>1, <3>3, RequestWrite
        <4> QED BY <3>3, <4>1 DEF Reopened
      <3> QED BY <2>1, <3>1, <3>2, <3>3 DEF ClientStep
    <2>4. ASSUME d \in Document, NEW e \in Patches
          PROVE  /\ SameDispatch(d, e)
                 /\ e.executionStatus = "not_started" => d.executionStatus = "not_started"
      BY <2>4 DEF Document, SameDispatch, CancelPatch, FailIfNotTerminal, IncrementRetryCount,
                  ClearJobExecutionTimestamps
    <2>5. ASSUME NEW k \in DOMAIN jobs
          PROVE  /\ SameDispatch(jobs[k], jobs'[k])
                 /\ jobs'[k].executionStatus = "not_started" => jobs[k].executionStatus = "not_started"
      <3>1. SameDispatch(jobs[k], jobs[k])
        BY DEF SameDispatch
      <3> HIDE DEF d, Patches
      <3>2. CASE jobs' = jobs
        BY <3>1, <3>2
      <3>3. ASSUME d \in Document, NEW e \in Patches, jobs' = [jobs EXCEPT ![j] = e], j \in DOMAIN jobs
            PROVE  /\ SameDispatch(jobs[k], jobs'[k])
                   /\ jobs'[k].executionStatus = "not_started" => jobs[k].executionStatus = "not_started"
        BY <2>4, <3>1, <3>3 DEF d
      <3> QED BY <2>3, <3>2, <3>3
    <2>6. \A k \in DOMAIN jobs : OnItsWay(k) => OnItsWay(k)'
      BY <2>2, <2>5 DEF OnItsWay, HasMessage, Holds, RejectionLost
    <2> QED BY <1>2, <2>5, <2>6
  <1> QED BY <1>3, <1>4

(* Remember, when no job is reset: it counts what is published.            *)
LEMMA RememberCounts ==
  ASSUME DispatcherTypeOK, HistoryTypeOK, Remember, \A j \in Jobs : ~Reopened(j)
  PROVE  /\ UNCHANGED <<overtaken, stale>>
         /\ UNCHANGED published => UNCHANGED sent
         /\ UNCHANGED pubErrors => UNCHANGED errors
         /\ \A j \in Jobs : published' = [published EXCEPT ![j] = @ + 1] => sent' = [sent EXCEPT ![j] = @ + 1]
         /\ \A j \in Jobs : pubErrors' = [pubErrors EXCEPT ![j] = @ + 1] => errors' = [errors EXCEPT ![j] = @ + 1]
  <1>1. /\ published \in [Jobs -> Nat] /\ pubErrors \in [Jobs -> Nat]
        /\ sent \in [Jobs -> Nat] /\ errors \in [Jobs -> Nat]
        /\ overtaken \subseteq Jobs /\ stale \subseteq Jobs
    BY DEF DispatcherTypeOK, HistoryTypeOK
  <1>2. /\ sent' = [j \in Jobs |-> sent[j] + (published'[j] - published[j])]
        /\ errors' = [j \in Jobs |-> errors[j] + (pubErrors'[j] - pubErrors[j])]
    BY DEF Remember
  <1>3. overtaken' = overtaken /\ stale' = stale
    BY <1>1 DEF Remember
  <1>4. UNCHANGED published => UNCHANGED sent
    BY <1>1, <1>2
  <1>5. UNCHANGED pubErrors => UNCHANGED errors
    BY <1>1, <1>2
  <1>6. ASSUME NEW j \in Jobs, published' = [published EXCEPT ![j] = @ + 1]
        PROVE  sent' = [sent EXCEPT ![j] = @ + 1]
    <2>1. \A k \in Jobs : sent'[k] = IF k = j THEN sent[k] + 1 ELSE sent[k]
      BY <1>1, <1>2, <1>6
    <2> QED BY <1>1, <1>2, <2>1
  <1>7. ASSUME NEW j \in Jobs, pubErrors' = [pubErrors EXCEPT ![j] = @ + 1]
        PROVE  errors' = [errors EXCEPT ![j] = @ + 1]
    <2>1. \A k \in Jobs : errors'[k] = IF k = j THEN errors[k] + 1 ELSE errors[k]
      BY <1>1, <1>2, <1>7
    <2> QED BY <1>1, <1>2, <2>1
  <1> QED BY <1>3, <1>4, <1>5, <1>6, <1>7

(* The reset of a job keeps HistoryInv: it forgets the job's messages and  *)
(* errors, and remembers who was still at work on them.                    *)
LEMMA ResetHistory ==
  ASSUME JobbyInv, HistoryInv, Next, Remember, NEW j \in Jobs, Reopened(j)
  PROVE  HistoryInv'
  <1>1. /\ j \in DOMAIN jobs /\ jobs[j] \in Document /\ DOMAIN jobs' = DOMAIN jobs
        /\ jobs' = [jobs EXCEPT ![j] = RetryPatch(jobs[j])]
        /\ UNCHANGED <<queue, fetched, call, published, pubErrors, worker, abandoned>>
        /\ \A k \in Jobs : Reopened(k) <=> k = j
    BY ResetStep DEF dispatcherVars, historyVars, executorVars
  <1>2. /\ DispatcherTypeOK /\ HistoryTypeOK /\ DOMAIN jobs \subseteq Jobs
        /\ published \in [Jobs -> Nat] /\ pubErrors \in [Jobs -> Nat]
        /\ sent \in [Jobs -> Nat] /\ errors \in [Jobs -> Nat]
    BY DEF JobbyInv, TypeOK, HistoryInv, HistoryTypeOK, DispatcherTypeOK, StoreTypeOK
  <1>3. /\ sent' = [sent EXCEPT ![j] = 0] /\ errors' = [errors EXCEPT ![j] = 0]
        /\ overtaken' \subseteq Jobs /\ stale' \subseteq Jobs
        /\ \A k \in Jobs : k # j => (k \in overtaken' <=> k \in overtaken) /\ (k \in stale' <=> k \in stale)
        /\ j \in overtaken' <=> ToConfirm(j)
        /\ j \in stale' <=> AttemptsRead(j)
    <2>1. /\ \A k \in Jobs : sent'[k] = IF k = j THEN 0 ELSE sent[k]
          /\ \A k \in Jobs : errors'[k] = IF k = j THEN 0 ELSE errors[k]
          /\ sent' = [k \in Jobs |-> sent'[k]] /\ errors' = [k \in Jobs |-> errors'[k]]
      BY <1>1, <1>2 DEF Remember
    <2>2. overtaken' \subseteq Jobs /\ stale' \subseteq Jobs
      BY DEF Remember
    <2>3. ASSUME NEW k \in Jobs
          PROVE  /\ k \in overtaken' <=> IF k = j THEN ToConfirm(j) ELSE k \in overtaken
                 /\ k \in stale' <=> IF k = j THEN AttemptsRead(j) ELSE k \in stale
      <3>1. Reopened(k) <=> k = j
        BY <1>1
      <3> QED BY <3>1 DEF Remember
    <2>4. sent' = [sent EXCEPT ![j] = 0] /\ errors' = [errors EXCEPT ![j] = 0]
      BY <1>2, <2>1
    <2> QED BY <1>1, <1>2, <2>2, <2>3, <2>4
  <1>4. HistoryTypeOK'
    BY <1>2, <1>3 DEF HistoryTypeOK
  <1>5. /\ RetryPatch(jobs[j]).dispatchStatus = "pending_dispatch"
        /\ RetryPatch(jobs[j]).dispatchAttempts = 0
    BY <1>1 DEF RetryPatch, Document
  <1>6. SentOnItsWay'
    <2>1. ASSUME NEW k \in DOMAIN jobs, sent'[k] > 0
          PROVE  OnItsWay(k)'
      <3>1. k # j /\ k \in Jobs /\ sent[k] > 0
        BY <1>2, <1>3, <2>1
      <3> QED BY <1>1, <3>1 DEF HistoryInv, SentOnItsWay, OnItsWay, HasMessage, Holds, RejectionLost
    <2> QED BY <1>1, <1>2, <1>3, <2>1 DEF HistoryInv, SentOnItsWay
  <1>7. SendsCounted'
    <2>1. ASSUME NEW k \in Jobs, k # j PROVE SentSince(k)' = SentSince(k)
      BY <1>2, <1>3, <2>1 DEF SentSince
    <2>2. ASSUME NEW k \in DOMAIN jobs, jobs'[k].dispatchStatus = "dispatched"
          PROVE  SentSince(k)'
      <3>1. k # j /\ k \in Jobs /\ jobs'[k] = jobs[k]
        BY <1>1, <1>2, <1>5, <2>2
      <3> QED BY <2>1, <2>2, <3>1 DEF HistoryInv, SendsCounted
    <2>3. ASSUME NEW g \in Goroutines, call[g].pc = "confirm"
          PROVE  SentSince(call[g].job)'
      <3>1. call[g].job \in Jobs
        BY <1>2, <2>3, HandledJob
      <3>2. call[g].job = j => SentSince(j)'
        BY <1>3, <2>3 DEF ToConfirm, SentSince
      <3> QED BY <1>1, <2>1, <2>3, <3>1, <3>2 DEF HistoryInv, SendsCounted
    <2> QED BY <1>1, <2>2, <2>3 DEF SendsCounted, SentSince
  <1>8. ErrorsCounted'
    <2>1. ASSUME NEW k \in Jobs, k # j, NEW n, MetSince(k, n) PROVE MetSince(k, n)'
      BY <1>2, <1>3, <2>1 DEF MetSince
    <2>2. \A n : AttemptsRead(j) => MetSince(j, n)'
      BY <1>3 DEF MetSince
    <2>3. ASSUME NEW k \in DOMAIN jobs
          PROVE  MetSince(k, jobs[k].dispatchAttempts)'
      <3>1. CASE k = j
        BY <1>1, <1>2, <1>3, <1>5, <3>1 DEF MetSince
      <3>2. CASE k # j
        <4>1. jobs'[k] = jobs[k] /\ k \in Jobs
          BY <1>1, <1>2, <3>2
        <4> QED BY <1>2, <1>3, <3>2, <4>1 DEF HistoryInv, ErrorsCounted, MetSince
      <3> QED BY <3>1, <3>2
    <2>4. ASSUME NEW p \in fetched
          PROVE  MetSince(p.job, p.attempts)'
      <3>1. p.job \in Jobs
        BY <1>2 DEF DispatcherTypeOK, Projection
      <3>2. p.job = j => AttemptsRead(j)
        BY DEF AttemptsRead
      <3> QED BY <2>1, <2>2, <3>1, <3>2 DEF HistoryInv, ErrorsCounted
    <2>5. ASSUME NEW g \in Goroutines, call[g].pc \in {"publish", "record", "giveup"}
          PROVE  MetSince(call[g].job, call[g].attempts)'
      <3>1. call[g].job \in Jobs
        BY <1>2, <2>5, HandledJob
      <3>2. call[g].job = j => AttemptsRead(j)
        BY <2>5 DEF AttemptsRead
      <3> QED BY <1>1, <2>1, <2>2, <2>5, <3>1, <3>2 DEF HistoryInv, ErrorsCounted
    <2> QED BY <1>1, <2>3, <2>4, <2>5 DEF ErrorsCounted, MetSince
  <1> QED BY <1>4, <1>6, <1>7, <1>8 DEF HistoryInv

(* Where the attempts of a dispatcher's step come from. *)
Counting == {"publish", "record", "giveup"}

LEMMA HandlerAttempts ==
  ASSUME DispatcherTypeOK, NEW g \in Goroutines, HandlerStep(g)
  PROVE  LET j == call[g].job IN
         /\ DOMAIN jobs' = DOMAIN jobs /\ fetched' = fetched
         /\ \A h \in Goroutines : h # g => call'[h] = call[h]
         /\ \A k \in DOMAIN jobs :
              \/ jobs'[k].dispatchAttempts = jobs[k].dispatchAttempts
              \/ k = j /\ call[g].pc = "record" /\ jobs'[k].dispatchAttempts = call[g].attempts
         /\ call'[g].pc \in Counting =>
              /\ call[g].pc \in Counting /\ call'[g].job = j
              /\ \/ call'[g].attempts = call[g].attempts
                 \/ /\ call'[g].attempts = call[g].attempts + 1
                    /\ pubErrors' = [pubErrors EXCEPT ![j] = @ + 1]
  <1> DEFINE j == call[g].job
             d == jobs[j]
             n == call[g].attempts
  <1>0. call[g].pc \in {"publish", "confirm", "record", "giveup"}
    BY DEF HandlerStep, PublishOK, PublishError, MarkJobDispatched, RecordDispatchAttempt,
           MarkJobDispatchFailed
  <1>1. /\ j \in DOMAIN jobs /\ d \in Document /\ n \in Nat
        /\ call \in [Goroutines -> [pc : CallPcs, job : Jobs \cup {NoJob}, attempts : Nat]]
    BY <1>0, HandledJob DEF DispatcherTypeOK
  <1>2. ASSUME NEW e, e.dispatchAttempts = d.dispatchAttempts, Write(j, e) \/ WriteFails(j, e)
        PROVE  DOMAIN jobs' = DOMAIN jobs /\ \A k \in DOMAIN jobs : jobs'[k].dispatchAttempts = jobs[k].dispatchAttempts
    BY <1>2 DEF Write, WriteFails
  <1>3. ASSUME Return(g) PROVE call'[g].pc \notin Counting /\ \A h \in Goroutines : h # g => call'[h] = call[h]
    BY <1>1, <1>3 DEF Return, NoCall, Counting
  <1>4. CASE PublishOK(g)
    BY <1>1, <1>4 DEF PublishOK, Goto, Counting
  <1>5. CASE PublishError(g)
    <2>1. /\ jobs' = jobs /\ fetched' = fetched /\ call[g].pc = "publish"
          /\ pubErrors' = [pubErrors EXCEPT ![j] = @ + 1]
          /\ call' = [call EXCEPT ![g].pc = "record", ![g].attempts = @ + 1]
      BY <1>5 DEF PublishError
    <2>2. call'[g].job = j /\ call'[g].attempts = n + 1 /\ \A h \in Goroutines : h # g => call'[h] = call[h]
      BY <1>1, <2>1
    <2> QED BY <2>1, <2>2 DEF Counting
  <1>6. CASE MarkJobDispatched(g)
    <2>1. MarkDispatchedIfPending(d).dispatchAttempts = d.dispatchAttempts
      BY <1>1 DEF MarkDispatchedIfPending, Document
    <2> QED BY <1>2, <1>3, <1>6, <2>1 DEF MarkJobDispatched
  <1>7. CASE MarkJobDispatchFailed(g)
    <2>1. MarkDispatchFailedIfPending(d).dispatchAttempts = d.dispatchAttempts
      BY <1>1 DEF MarkDispatchFailedIfPending, Document
    <2> QED BY <1>2, <1>3, <1>7, <2>1 DEF MarkJobDispatchFailed
  <1>8. CASE RecordDispatchAttempt(g)
    <2> DEFINE e == RecordDispatchAttemptIfPending(d, n)
    <2>1. e.dispatchAttempts \in {d.dispatchAttempts, n}
      BY <1>1 DEF RecordDispatchAttemptIfPending, Document
    <2>2. call[g].pc = "record" /\ fetched' = fetched /\ jobs' \in {jobs, [jobs EXCEPT ![j] = e]}
      BY <1>8 DEF RecordDispatchAttempt, Write, WriteFails
    <2>3. /\ DOMAIN jobs' = DOMAIN jobs
          /\ \A k \in DOMAIN jobs :
               \/ jobs'[k].dispatchAttempts = jobs[k].dispatchAttempts
               \/ k = j /\ jobs'[k].dispatchAttempts = n
      BY <1>1, <2>1, <2>2
    <2>4. Return(g) \/ Goto(g, "giveup")
      BY <1>8 DEF RecordDispatchAttempt
    <2>5. ASSUME Goto(g, "giveup")
          PROVE  call'[g].job = j /\ call'[g].attempts = n /\ \A h \in Goroutines : h # g => call'[h] = call[h]
      BY <1>1, <2>5 DEF Goto
    <2> QED BY <1>3, <2>2, <2>3, <2>4, <2>5 DEF Counting
  <1> QED BY <1>4, <1>5, <1>6, <1>7, <1>8 DEF HandlerStep

LEMMA OtherAttempts ==
  ASSUME DispatcherTypeOK, DispatcherNext, \A g \in Goroutines : ~HandlerStep(g)
  PROVE  /\ \A k \in DOMAIN jobs' :
              (k \in DOMAIN jobs /\ jobs'[k] = jobs[k]) \/ jobs'[k].dispatchAttempts = 0
         /\ \A p \in fetched' :
              p \in fetched \/ (p.job \in DOMAIN jobs /\ p.attempts = jobs[p.job].dispatchAttempts)
         /\ \A g \in Goroutines : call'[g].pc \in Counting =>
              \/ call'[g] = call[g]
              \/ call'[g].attempts = 0 /\ call'[g].job \in Jobs
              \/ \E p \in fetched : call'[g].job = p.job /\ call'[g].attempts = p.attempts
  <1>1. call \in [Goroutines -> [pc : CallPcs, job : Jobs \cup {NoJob}, attempts : Nat]]
    BY DEF DispatcherTypeOK
  <1>2. CASE \E j \in Jobs : CreateJob(j)
    BY <1>2 DEF CreateJob, NewJobMetadata
  <1>3. CASE "stream" \in Goroutines /\ StreamNext
    <2> DEFINE j == events[cursor.pos + 1]
    <2>1. call' = [call EXCEPT !["stream"] = [pc |-> "publish", job |-> j, attempts |-> 0]]
      BY <1>3 DEF StreamNext, Handle, NewJobMetadata
    <2>2. Len(events) \in Nat /\ cursor.pos \in 0..Len(events) /\ cursor.pos < Len(events)
      BY <1>3, LenProperties DEF StreamNext, DispatcherTypeOK
    <2>3. cursor.pos + 1 \in 1..Len(events)
      BY <2>2
    <2>4. j \in Jobs
      BY <2>3 DEF DispatcherTypeOK, StoreTypeOK
    <2>5. jobs' = jobs /\ fetched' = fetched
      BY <1>3 DEF StreamNext
    <2> QED BY <1>1, <2>1, <2>4, <2>5
  <1>4. CASE "stream" \in Goroutines /\ (StreamOpen \/ SaveToken \/ StreamError)
    <2>1. /\ jobs' = jobs /\ fetched' = fetched
          /\ call' = call \/ call' = [call EXCEPT !["stream"] = NoCall]
      BY <1>4 DEF StreamOpen, SaveToken, StreamError, CallFails
    <2> QED BY <1>1, <2>1 DEF NoCall, Counting
  <1>5. CASE "poll" \in Goroutines /\ PollFetch
    BY <1>5, FetchPendingType DEF PollFetch, DispatcherTypeOK
  <1>6. CASE "poll" \in Goroutines /\ PollNext
    <2>1. PICK p \in fetched : Handle("poll", p.job, p.attempts) /\ fetched' = fetched \ {p}
      BY <1>6 DEF PollNext
    <2>2. call' = [call EXCEPT !["poll"] = [pc |-> "publish", job |-> p.job, attempts |-> p.attempts]]
      BY <2>1 DEF Handle
    <2>3. jobs' = jobs
      BY <1>6 DEF PollNext
    <2> QED BY <1>1, <2>1, <2>2, <2>3
  <1>7. CASE DispatcherCrash
    BY <1>7 DEF DispatcherCrash, NoCall, Counting
  <1> QED BY <1>2, <1>3, <1>4, <1>5, <1>6, <1>7 DEF DispatcherNext, StreamStep, PollStep

(* The dispatcher keeps HistoryInv. *)
LEMMA DispatcherHistory ==
  ASSUME JobbyInv, HistoryInv, DispatcherPart, Remember, \A j \in Jobs : ~Reopened(j)
  PROVE  HistoryInv'
  <1> DEFINE Since(k) == sent'[k] > 0 \/ k \in overtaken'
             Met(k, n) == k \in stale' \/ n <= errors'[k]
  <1>1. /\ DispatcherTypeOK /\ DispatcherNext /\ HistoryTypeOK /\ DispatcherTypeOK'
        /\ UNCHANGED <<worker, abandoned>> /\ DOMAIN jobs \subseteq Jobs
        /\ queue \in [Jobs -> Nat] /\ fetched \subseteq Projection
    BY DispatcherNextType
    DEF JobbyInv, TypeOK, HistoryInv, DispatcherPart, executorVars, DispatcherTypeOK, StoreTypeOK, BrokerTypeOK
  <1>2. DOMAIN jobs \subseteq DOMAIN jobs' /\ DOMAIN jobs' \subseteq Jobs
    BY <1>1, DispatcherWrites DEF DispatcherTypeOK, StoreTypeOK
  <1>3. overtaken' = overtaken /\ stale' = stale
    BY <1>1, RememberCounts
  <1>4. /\ sent' = sent \/ \E g \in Goroutines : /\ HandlerStep(g) /\ call[g].pc = "publish"
                                                /\ sent' = [sent EXCEPT ![call[g].job] = @ + 1]
        /\ errors' = errors \/ \E g \in Goroutines : errors' = [errors EXCEPT ![call[g].job] = @ + 1]
    <2>1. CASE \A g \in Goroutines : ~HandlerStep(g)
      BY <1>1, <2>1, OtherOutcome, RememberCounts
    <2>2. ASSUME NEW g \in Goroutines, HandlerStep(g)
          PROVE  /\ sent' = sent \/ (call[g].pc = "publish" /\ sent' = [sent EXCEPT ![call[g].job] = @ + 1])
                 /\ errors' = errors \/ errors' = [errors EXCEPT ![call[g].job] = @ + 1]
      BY <1>1, <2>2, HandlerOutcome, RememberCounts
    <2> QED BY <2>1, <2>2
  <1>5. /\ sent \in [Jobs -> Nat] /\ errors \in [Jobs -> Nat]
        /\ sent' \in [Jobs -> Nat] /\ errors' \in [Jobs -> Nat]
        /\ \A k \in Jobs : sent[k] <= sent'[k] /\ errors[k] <= errors'[k]
    BY <1>1, <1>4 DEF HistoryTypeOK
  <1>6. HistoryTypeOK'
    BY <1>1, <1>3, <1>5 DEF HistoryTypeOK
  <1>7. ASSUME NEW k \in DOMAIN jobs, OnItsWay(k)
        PROVE  OnItsWay(k)'
    BY <1>1, <1>2, <1>7, DispatcherWrites DEF OnItsWay, HasMessage, Holds, RejectionLost, SameExecution
  <1>8. ASSUME NEW k \in Jobs, sent'[k] # sent[k]
        PROVE  k \in DOMAIN jobs /\ queue'[k] > 0
    <2>1. PICK g \in Goroutines : /\ HandlerStep(g) /\ call[g].pc = "publish"
                                  /\ sent' = [sent EXCEPT ![call[g].job] = @ + 1]
      BY <1>4, <1>8
    <2>2. call[g].job = k
      BY <1>5, <1>8, <2>1
    <2>3. k \in DOMAIN jobs
      BY <1>1, <2>1, <2>2, HandledJob
    <2>4. published' = published => sent' = sent
      BY <1>1, RememberCounts
    <2>5. Delivered(k)
      BY <1>8, <2>1, <2>2, <2>4 DEF HandlerStep, PublishOK, PublishError, MarkJobDispatched,
         RecordDispatchAttempt, MarkJobDispatchFailed
    <2> QED BY <1>1, <2>3, <2>5 DEF Delivered, Enqueue
  <1>9. SentOnItsWay'
    <2>1. ASSUME NEW k \in DOMAIN jobs', sent'[k] > 0
          PROVE  OnItsWay(k)'
      <3>1. CASE sent'[k] # sent[k]
        BY <1>2, <1>8, <3>1 DEF OnItsWay, HasMessage
      <3>2. CASE sent'[k] = sent[k]
        BY <1>2, <1>7, <2>1, <3>2 DEF HistoryInv, SentOnItsWay
      <3> QED BY <3>1, <3>2
    <2>2. ASSUME NEW k \in Jobs \ DOMAIN jobs' PROVE sent'[k] = 0
      BY <1>2, <1>8 DEF HistoryInv, SentOnItsWay
    <2> QED BY <2>1, <2>2 DEF SentOnItsWay
  <1>10. ASSUME NEW k \in Jobs, SentSince(k) PROVE Since(k)
    BY <1>3, <1>5, <1>10 DEF SentSince
  <1>11. SendsCounted'
    <2>1. ASSUME NEW g \in Goroutines, call'[g].pc = "confirm"
          PROVE  Since(call'[g].job)
      <3>1. CASE call[g].pc = "confirm" /\ call'[g].job = call[g].job
        <4>1. call[g].job \in Jobs
          BY <1>1, <3>1, HandledJob
        <4> QED BY <1>10, <3>1, <4>1 DEF HistoryInv, SendsCounted
      <3>2. CASE ~(call[g].pc = "confirm" /\ call'[g].job = call[g].job)
        <4>1. PublishOK(g)
          BY <1>1, <2>1, <3>2, ConfirmComes
        <4>2. /\ published' = [published EXCEPT ![call[g].job] = @ + 1] /\ call[g].job \in Jobs
              /\ call'[g].job = call[g].job
          BY <1>1, <4>1, HandledJob DEF PublishOK, Delivered, Goto, DispatcherTypeOK
        <4>3. sent' = [sent EXCEPT ![call[g].job] = @ + 1]
          BY <1>1, <4>2, RememberCounts
        <4> QED BY <1>5, <4>2, <4>3 DEF SentSince
      <3> QED BY <3>1, <3>2
    <2>2. ASSUME NEW k \in DOMAIN jobs', jobs'[k].dispatchStatus = "dispatched"
          PROVE  Since(k)
      <3>1. k \in DOMAIN jobs
        BY <1>1, <2>2, DispatcherWrites DEF NewJobMetadata
      <3>2. \/ jobs[k].dispatchStatus = "dispatched"
            \/ \E g \in Goroutines : call[g].pc = "confirm" /\ call[g].job = k
        BY <1>1, <2>2, <3>1, DispatcherWrites
      <3>3. SentSince(k)
        BY <3>1, <3>2 DEF HistoryInv, SendsCounted
      <3> QED BY <1>1, <1>10, <3>1, <3>3
    <2> QED BY <2>1, <2>2 DEF SendsCounted, SentSince
  <1>12. ASSUME NEW k \in Jobs, NEW n \in Nat, MetSince(k, n) PROVE Met(k, n)
    BY <1>3, <1>5, <1>12 DEF MetSince
  <1>13. ErrorsCounted'
    <2>1. ASSUME NEW k \in DOMAIN jobs
          PROVE  k \in Jobs /\ jobs[k].dispatchAttempts \in Nat /\ MetSince(k, jobs[k].dispatchAttempts)
      BY <1>1 DEF HistoryInv, ErrorsCounted, DispatcherTypeOK, StoreTypeOK, Document
    <2>2. ASSUME NEW p \in fetched
          PROVE  p.job \in Jobs /\ p.attempts \in Nat /\ MetSince(p.job, p.attempts)
      BY <1>1 DEF HistoryInv, ErrorsCounted, Projection
    <2>3. ASSUME NEW g \in Goroutines, call[g].pc \in Counting
          PROVE  call[g].job \in Jobs /\ call[g].attempts \in Nat /\ MetSince(call[g].job, call[g].attempts)
      BY <1>1, <2>3, HandledJob DEF HistoryInv, ErrorsCounted, Counting
    <2>4. ASSUME NEW k \in Jobs PROVE Met(k, 0)
      BY <1>5 DEF MetSince
    <2>5. CASE \A g \in Goroutines : ~HandlerStep(g)
      <3>1. ASSUME NEW k \in DOMAIN jobs' PROVE Met(k, jobs'[k].dispatchAttempts)
        <4>1. (k \in DOMAIN jobs /\ jobs'[k] = jobs[k]) \/ jobs'[k].dispatchAttempts = 0
          BY <1>1, <2>5, OtherAttempts
        <4> QED BY <1>2, <1>12, <2>1, <2>4, <4>1 DEF MetSince
      <3>2. ASSUME NEW p \in fetched' PROVE Met(p.job, p.attempts)
        <4>1. p \in fetched \/ (p.job \in DOMAIN jobs /\ p.attempts = jobs[p.job].dispatchAttempts)
          BY <1>1, <2>5, OtherAttempts
        <4> QED BY <1>12, <2>1, <2>2, <4>1
      <3>3. ASSUME NEW g \in Goroutines, call'[g].pc \in Counting
            PROVE  Met(call'[g].job, call'[g].attempts)
        <4>1. \/ call'[g] = call[g]
              \/ call'[g].attempts = 0 /\ call'[g].job \in Jobs
              \/ \E p \in fetched : call'[g].job = p.job /\ call'[g].attempts = p.attempts
          BY <1>1, <2>5, <3>3, OtherAttempts
        <4>2. CASE call'[g] = call[g]
          BY <1>12, <2>3, <3>3, <4>2 DEF MetSince
        <4>3. CASE call'[g].attempts = 0 /\ call'[g].job \in Jobs
          BY <2>4, <4>3 DEF MetSince
        <4>4. CASE \E p \in fetched : call'[g].job = p.job /\ call'[g].attempts = p.attempts
          BY <1>12, <2>2, <4>4 DEF MetSince
        <4> QED BY <4>1, <4>2, <4>3, <4>4
      <3> QED BY <3>1, <3>2, <3>3 DEF ErrorsCounted, MetSince, Counting
    <2>6. ASSUME NEW g \in Goroutines, HandlerStep(g)
          PROVE  ErrorsCounted'
      <3> DEFINE j == call[g].job
      <3>1. ASSUME NEW k \in DOMAIN jobs' PROVE Met(k, jobs'[k].dispatchAttempts)
        <4>1. /\ k \in DOMAIN jobs
              /\ \/ jobs'[k].dispatchAttempts = jobs[k].dispatchAttempts
                 \/ k = j /\ call[g].pc = "record" /\ jobs'[k].dispatchAttempts = call[g].attempts
          BY <1>1, <2>6, HandlerAttempts
        <4>2. CASE jobs'[k].dispatchAttempts = jobs[k].dispatchAttempts
          BY <1>12, <2>1, <4>1, <4>2 DEF MetSince
        <4>3. CASE k = j /\ call[g].pc = "record" /\ jobs'[k].dispatchAttempts = call[g].attempts
          BY <1>12, <2>3, <4>3 DEF MetSince, Counting
        <4> QED BY <4>1, <4>2, <4>3
      <3>2. ASSUME NEW p \in fetched' PROVE Met(p.job, p.attempts)
        BY <1>1, <1>12, <2>2, <2>6, HandlerAttempts
      <3>3. ASSUME NEW h \in Goroutines, call'[h].pc \in Counting
            PROVE  Met(call'[h].job, call'[h].attempts)
        <4>1. CASE h # g
          <5>1. call'[h] = call[h]
            BY <1>1, <2>6, <4>1, HandlerAttempts
          <5> QED BY <1>12, <2>3, <3>3, <5>1 DEF MetSince
        <4>2. CASE h = g
          <5>1. /\ call[g].pc \in Counting /\ call'[g].job = j
                /\ \/ call'[g].attempts = call[g].attempts
                   \/ /\ call'[g].attempts = call[g].attempts + 1
                      /\ pubErrors' = [pubErrors EXCEPT ![j] = @ + 1]
            BY <1>1, <2>6, <3>3, <4>2, HandlerAttempts
          <5>2. j \in Jobs /\ call[g].attempts \in Nat /\ MetSince(j, call[g].attempts)
            BY <2>3, <5>1
          <5>3. CASE call'[g].attempts = call[g].attempts
            BY <1>12, <4>2, <5>1, <5>2, <5>3 DEF MetSince
          <5>4. CASE /\ call'[g].attempts = call[g].attempts + 1
                     /\ pubErrors' = [pubErrors EXCEPT ![j] = @ + 1]
            <6>1. errors' = [errors EXCEPT ![j] = @ + 1]
              BY <1>1, <5>2, <5>4, RememberCounts
            <6>2. errors'[j] = errors[j] + 1
              BY <1>5, <5>2, <6>1
            <6>3. call[g].attempts <= errors[j] => call[g].attempts + 1 <= errors'[j]
              BY <1>5, <5>2, <6>2
            <6> QED BY <1>3, <4>2, <5>1, <5>2, <5>4, <6>3 DEF MetSince
          <5> QED BY <5>1, <5>3, <5>4
        <4> QED BY <4>1, <4>2
      <3> QED BY <3>1, <3>2, <3>3 DEF ErrorsCounted, MetSince, Counting
    <2> QED BY <2>5, <2>6
  <1> QED BY <1>6, <1>9, <1>11, <1>13 DEF HistoryInv

(* Executors and clients that reset nothing keep HistoryInv. *)
LEMMA OthersHistory ==
  ASSUME JobbyInv, HistoryInv, ExecutorPart \/ ApiPart, Remember, \A j \in Jobs : ~Reopened(j)
  PROVE  HistoryInv'
  <1>1. /\ UNCHANGED dispatcherVars /\ DOMAIN jobs' = DOMAIN jobs
        /\ \A k \in DOMAIN jobs : SameDispatch(jobs[k], jobs'[k]) /\ (OnItsWay(k) => OnItsWay(k)')
    BY OthersKeep
  <1>2. UNCHANGED <<published, pubErrors, call, fetched>> /\ DispatcherTypeOK /\ HistoryTypeOK
    BY <1>1 DEF dispatcherVars, historyVars, JobbyInv, TypeOK, HistoryInv
  <1>3. UNCHANGED retryVars
    BY <1>2, RememberCounts DEF retryVars
  <1>4. HistoryTypeOK' /\ SentOnItsWay'
    BY <1>1, <1>3 DEF retryVars, HistoryInv, HistoryTypeOK, SentOnItsWay
  <1>5. SendsCounted' /\ ErrorsCounted'
    BY <1>1, <1>2, <1>3 DEF retryVars, HistoryInv, SendsCounted, SentSince, ErrorsCounted, MetSince, SameDispatch
  <1> QED BY <1>4, <1>5 DEF HistoryInv

LEMMA NextHistory ==
  ASSUME JobbyInv, HistoryInv, [HistoryNext]_<<vars, retryVars>>
  PROVE  HistoryInv'
  <1>1. CASE HistoryNext /\ \A j \in Jobs : ~Reopened(j)
    BY <1>1, DispatcherHistory, OthersHistory DEF HistoryNext, Next
  <1>2. CASE HistoryNext /\ \E j \in Jobs : Reopened(j)
    BY <1>2, ResetHistory DEF HistoryNext
  <1>3. CASE UNCHANGED <<vars, retryVars>>
    BY <1>3 DEF vars, dispatcherVars, historyVars, executorVars, retryVars, HistoryInv, HistoryTypeOK,
       SentOnItsWay, SendsCounted, ErrorsCounted, SentSince, MetSince, OnItsWay, HasMessage, Holds, RejectionLost
  <1> QED BY <1>1, <1>2, <1>3

(* The memory restrains nothing: what holds of the system holds with it.   *)
LEMMA HistoryInvHolds == HistorySpec => [](JobbyInv /\ SagaInv /\ HistoryInv)
  <1>1. HistorySpec => Spec
    <2>1. [HistoryNext]_<<vars, retryVars>> => [Next]_vars
      BY DEF HistoryNext
    <2> QED BY <2>1, PTL DEF HistorySpec, Spec
  <1>2. Init /\ HistoryInit => HistoryInv
    BY DEF Init, StoreInit, DispatcherInit, NoCall, HistoryInit, HistoryInv, HistoryTypeOK, SentOnItsWay,
       SendsCounted, ErrorsCounted
  <1>3. JobbyInv /\ HistoryInv /\ [HistoryNext]_<<vars, retryVars>> => HistoryInv'
    BY NextHistory
  <1> QED BY <1>1, <1>2, <1>3, JobbyInvHolds, SystemSagaInv, PTL DEF HistorySpec

(***************************************************************************)
(* How far a lost retry reaches, for any number of concurrent calls of any *)
(* kind: a job that is dispatched and has not started waits for a message  *)
(* that will not come only if HandleDispatch was between the publish and   *)
(* the confirm of an earlier dispatch when RetryJob last reset it.         *)
(***************************************************************************)
THEOREM RetriedInFlightCorrect == HistorySpec => []RetriedInFlight
  <1>1. JobbyInv /\ HistoryInv => RetriedInFlight
    <2> SUFFICES ASSUME JobbyInv, HistoryInv, NEW j \in DOMAIN jobs,
                        jobs[j].dispatchStatus = "dispatched", jobs[j].executionStatus = "not_started"
                 PROVE  HasMessage(j) \/ j \in RejectionLost \/ (j \in overtaken /\ sent[j] = 0)
      BY DEF RetriedInFlight
    <2>1. sent[j] \in Nat
      BY DEF JobbyInv, TypeOK, DispatcherTypeOK, StoreTypeOK, HistoryInv, HistoryTypeOK
    <2>2. sent[j] > 0 => HasMessage(j) \/ j \in RejectionLost
      BY DEF HistoryInv, SentOnItsWay, OnItsWay
    <2>3. SentSince(j)
      BY DEF HistoryInv, SendsCounted
    <2> QED BY <2>1, <2>2, <2>3 DEF SentSince
  <1> QED BY <1>1, HistoryInvHolds, PTL

(* A step of HandleDispatch is one of the saga, or a late end. *)
LEMMA HandlerRetried ==
  ASSUME JobbyInv, SagaInv, HistoryInv, Remember, \A j \in Jobs : ~Reopened(j),
         NEW g \in Goroutines, HandlerStep(g)
  PROVE  [Retried!RetriedNext]_(Retried!retriedVars)
  <1> DEFINE j == call[g].job
  <1>1. DispatcherTypeOK /\ HistoryTypeOK /\ j \in Jobs
    BY HandlerOutcome DEF SagaInv, HistoryInv
  <1>2. UNCHANGED <<overtaken, stale>>
    BY <1>1, RememberCounts
  <1>3. call[g].pc = "confirm" => sent[j] > 0 \/ j \in overtaken
    BY DEF HistoryInv, SendsCounted, SentSince
  <1>4. call[g].pc = "giveup" => errors[j] >= MaxAttempts \/ j \in stale
    <2>1. errors[j] \in Nat /\ call[g].attempts \in Nat
      BY <1>1 DEF HistoryTypeOK, DispatcherTypeOK
    <2> QED BY <2>1, DispatcherAssumption DEF SagaInv, CallsJustified, HistoryInv, ErrorsCounted, MetSince
  <1>5. ASSUME UNCHANGED DispatchOutcome, call[g].pc = "publish",
               \/ published' = [published EXCEPT ![j] = @ + 1] /\ UNCHANGED pubErrors
               \/ pubErrors' = [pubErrors EXCEPT ![j] = @ + 1] /\ UNCHANGED published
               \/ published' = [published EXCEPT ![j] = @ + 1] /\ pubErrors' = [pubErrors EXCEPT ![j] = @ + 1]
        PROVE  Retried!RetriedNext
    <2>1. \/ sent' = [sent EXCEPT ![j] = @ + 1] /\ UNCHANGED errors
          \/ errors' = [errors EXCEPT ![j] = @ + 1] /\ UNCHANGED sent
          \/ sent' = [sent EXCEPT ![j] = @ + 1] /\ errors' = [errors EXCEPT ![j] = @ + 1]
      BY <1>1, <1>5, RememberCounts
    <2>2. DispatchOutcome[j] # "none"
      BY <1>1, HandlerOutcome
    <2> QED BY <1>1, <1>2, <1>5, <2>1, <2>2 DEF Retried!RetriedNext, Retried!SagaNext, Retried!Publish
  <1>6. ASSUME UNCHANGED <<published, pubErrors>>
        PROVE  UNCHANGED retryVars
    BY <1>1, <1>6, RememberCounts DEF retryVars
  <1>7. CASE UNCHANGED <<DispatchOutcome, published, pubErrors>>
    BY <1>6, <1>7 DEF retryVars, Retried!retriedVars, Retried!sagaVars
  <1>8. CASE /\ DispatchOutcome[j] = "pending_dispatch" /\ UNCHANGED <<published, pubErrors>>
             /\ call[g].pc = "confirm" /\ DispatchOutcome' = [DispatchOutcome EXCEPT ![j] = "dispatched"]
    BY <1>1, <1>3, <1>6, <1>8
    DEF retryVars, Retried!RetriedNext, Retried!SagaNext, Retried!Confirm, Retried!EndLate
  <1>9. CASE /\ DispatchOutcome[j] = "pending_dispatch" /\ UNCHANGED <<published, pubErrors>>
             /\ call[g].pc = "giveup" /\ DispatchOutcome' = [DispatchOutcome EXCEPT ![j] = "dispatch_failed"]
    BY <1>1, <1>4, <1>6, <1>9
    DEF retryVars, Retried!RetriedNext, Retried!SagaNext, Retried!Confirm, Retried!EndLate
  <1> QED BY <1>1, <1>5, <1>7, <1>8, <1>9, HandlerOutcome

(* The reset opens the saga of its job anew. *)
LEMMA ResetRetried ==
  ASSUME JobbyInv, HistoryInv, Next, Remember, NEW j \in Jobs, Reopened(j)
  PROVE  Retried!Reopen(j)
  <1>1. /\ j \in DOMAIN jobs /\ jobs[j] \in Document /\ DOMAIN jobs' = DOMAIN jobs
        /\ jobs' = [jobs EXCEPT ![j] = RetryPatch(jobs[j])]
        /\ UNCHANGED <<published, pubErrors>>
        /\ \A k \in Jobs : Reopened(k) <=> k = j
    BY ResetStep DEF dispatcherVars, historyVars
  <1>2. /\ HistoryTypeOK /\ published \in [Jobs -> Nat] /\ pubErrors \in [Jobs -> Nat]
        /\ sent \in [Jobs -> Nat] /\ errors \in [Jobs -> Nat]
        /\ overtaken \subseteq Jobs /\ stale \subseteq Jobs
    BY DEF JobbyInv, TypeOK, HistoryInv, HistoryTypeOK, DispatcherTypeOK
  <1>3. sent' = [sent EXCEPT ![j] = 0] /\ errors' = [errors EXCEPT ![j] = 0]
    <2>1. /\ \A k \in Jobs : sent'[k] = IF k = j THEN 0 ELSE sent[k]
          /\ \A k \in Jobs : errors'[k] = IF k = j THEN 0 ELSE errors[k]
          /\ sent' = [k \in Jobs |-> sent'[k]] /\ errors' = [k \in Jobs |-> errors'[k]]
      BY <1>1, <1>2 DEF Remember
    <2> QED BY <1>2, <2>1
  <1>4. ASSUME NEW k \in Jobs
        PROVE  /\ k \in overtaken' <=> IF k = j THEN ToConfirm(j) ELSE k \in overtaken
               /\ k \in stale' <=> IF k = j THEN AttemptsRead(j) ELSE k \in stale
    <2>1. Reopened(k) <=> k = j
      BY <1>1
    <2> QED BY <2>1 DEF Remember
  <1>5. overtaken' \subseteq Jobs /\ stale' \subseteq Jobs
    BY DEF Remember
  <1>6. overtaken' = overtaken \ {j} \/ (overtaken' = overtaken \cup {j} /\ (sent[j] > 0 \/ j \in overtaken))
    <2>1. CASE ToConfirm(j)
      <3>1. sent[j] > 0 \/ j \in overtaken
        BY <2>1 DEF ToConfirm, HistoryInv, SendsCounted, SentSince
      <3> QED BY <1>2, <1>4, <1>5, <2>1, <3>1
    <2>2. CASE ~ToConfirm(j)
      BY <1>2, <1>4, <1>5, <2>2
    <2> QED BY <2>1, <2>2
  <1>7. stale' \in {stale \ {j}, stale \cup {j}}
    BY <1>2, <1>4, <1>5
  <1>8. RetryPatch(jobs[j]).dispatchStatus = "pending_dispatch"
    BY <1>1 DEF RetryPatch, Document
  <1>9. /\ DispatchOutcome' = [DispatchOutcome EXCEPT ![j] = "pending_dispatch"]
        /\ DispatchOutcome[j] # "none"
    BY <1>1, <1>8 DEF DispatchOutcome, Document, DispatchStatuses
  <1> QED BY <1>3, <1>6, <1>7, <1>9 DEF Retried!Reopen

(***************************************************************************)
(* Among executors, clients and their retries the dispatcher earns every   *)
(* outcome since the last reset: a confirm by a message, a give-up by      *)
(* MaxAttempts errors; only an attempt that a reset overtook may end the   *)
(* new dispatch for what was done in the old one.                          *)
(***************************************************************************)
THEOREM SystemImplementsRetriedSaga == HistorySpec => ImplementsRetriedSaga
  <1>1. Init /\ HistoryInit => Retried!RetriedInit
    BY DEF Init, StoreInit, HistoryInit, Retried!RetriedInit, Retried!SagaInit, DispatchOutcome
  <1>2. JobbyInv /\ SagaInv /\ HistoryInv /\ [HistoryNext]_<<vars, retryVars>>
          => [Retried!RetriedNext]_(Retried!retriedVars)
    <2> SUFFICES ASSUME JobbyInv, SagaInv, HistoryInv, [HistoryNext]_<<vars, retryVars>>
                 PROVE  [Retried!RetriedNext]_(Retried!retriedVars)
      OBVIOUS
    <2>1. CASE HistoryNext /\ \E j \in Jobs : Reopened(j)
      BY <2>1, ResetRetried DEF HistoryNext, Retried!RetriedNext
    <2>2. CASE HistoryNext /\ \A j \in Jobs : ~Reopened(j)
      <3>1. Next /\ Remember /\ DispatcherTypeOK /\ HistoryTypeOK
        BY <2>2 DEF HistoryNext, SagaInv, HistoryInv
      <3>2. CASE \E g \in Goroutines : HandlerStep(g)
        BY <2>2, <3>1, <3>2, HandlerRetried
      <3>3. CASE DispatcherPart /\ \A g \in Goroutines : ~HandlerStep(g)
        <4>1. UNCHANGED retryVars
          BY <2>2, <3>1, <3>3, OtherOutcome, RememberCounts DEF DispatcherPart, retryVars
        <4> QED
          BY <3>3, <4>1, OtherOutcome
          DEF DispatcherPart, retryVars, Retried!RetriedNext, Retried!SagaNext, Retried!Persist,
              Retried!retriedVars, Retried!sagaVars
      <3>4. CASE ExecutorPart \/ ApiPart
        <4>1. UNCHANGED <<published, pubErrors>> /\ DOMAIN jobs' = DOMAIN jobs
          BY <2>2, <3>4, OthersKeep DEF dispatcherVars, historyVars
        <4>2. UNCHANGED DispatchOutcome
          BY <2>2, <3>4, <4>1, OthersKeep DEF DispatchOutcome, SameDispatch
        <4>3. UNCHANGED retryVars
          BY <2>2, <3>1, <4>1, RememberCounts DEF retryVars
        <4> QED BY <4>2, <4>3 DEF retryVars, Retried!retriedVars, Retried!sagaVars
      <3> QED BY <3>1, <3>2, <3>3, <3>4 DEF Next
    <2>3. CASE UNCHANGED <<vars, retryVars>>
      BY <2>3 DEF vars, retryVars, Retried!retriedVars, Retried!sagaVars, DispatchOutcome
    <2> QED BY <2>1, <2>2, <2>3
  <1> QED
    BY <1>1, <1>2, HistoryInvHolds, PTL DEF HistorySpec, ImplementsRetriedSaga, Retried!RetriedSpec
=============================================================================
