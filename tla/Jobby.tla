-------------------------------- MODULE Jobby --------------------------------
(***************************************************************************)
(* The whole system: API clients, dispatcher and executors around one      *)
(* job_metadata collection and one topic.  Nothing but those two is shared *)
(* between the components.                                                 *)
(***************************************************************************)
EXTENDS Dispatcher, Executor, JobApi

vars == <<jobs, faults, queue, dispatcherVars, executorVars, client>>

TypeOK ==
  /\ DispatcherTypeOK
  /\ ExecutorTypeOK
  /\ ApiTypeOK

Init ==
  /\ StoreInit
  /\ BrokerInit
  /\ DispatcherInit
  /\ ExecutorInit
  /\ ApiInit

DispatcherPart ==
  /\ DispatcherNext
  /\ UNCHANGED <<executorVars, client>>

ExecutorPart ==
  /\ ExecutorNext
  /\ UNCHANGED <<dispatcherVars, client>>

ApiPart ==
  /\ ApiNext
  /\ UNCHANGED <<queue, dispatcherVars, executorVars>>

Next == DispatcherPart \/ ExecutorPart \/ ApiPart

Spec == Init /\ [][Next]_vars

(***************************************************************************)
(* The dispatcher's and the executors' loops keep going (see FairPoll and  *)
(* FairWorkers); requests come, and go, as they like.                      *)
(***************************************************************************)
FairSpec ==
  /\ Spec
  /\ WF_vars(DispatcherPart /\ PollStep)
  /\ \A w \in Workers : WF_vars(ExecutorPart /\ WorkerStep(w))

-----------------------------------------------------------------------------
\* The execution status of every job, inserted or not.
ExecutionOutcome ==
  [j \in Jobs |-> IF j \in DOMAIN jobs THEN jobs[j].executionStatus ELSE "none"]

(***************************************************************************)
(* The two status fields of a document move as the transition relations of *)
(* interface.go allow, each moved by its owner alone, and only RetryJob    *)
(* takes a job back, from failed: the system implements the life cycle.    *)
(***************************************************************************)
Lifecycle == INSTANCE JobLifecycle WITH
  dispatch <- DispatchOutcome,
  execution <- ExecutionOutcome

ImplementsLifecycle == Lifecycle!Spec

(***************************************************************************)
(* A dispatched job that has not started still has a message on its way to *)
(* a claim: in the topic, or in the hands of a worker that has not claimed *)
(* yet.  Otherwise no poll, no redelivery and no executor would ever look  *)
(* at the job again.  The exception is a job that no handler accepts and   *)
(* whose rejection could not be recorded: its message is acked.            *)
(***************************************************************************)
DispatchedInFlight ==
  \A j \in DOMAIN jobs :
    jobs[j].dispatchStatus = "dispatched" /\ jobs[j].executionStatus = "not_started" =>
      HasMessage(j) \/ j \in RejectionLost

(***************************************************************************)
(* The topic grows only by a publish, a failed call or a death: jobs that  *)
(* clients cancel or fail under a running handler leave no message behind  *)
(* that comes back for ever.                                               *)
(***************************************************************************)
MessagesAccounted ==
  [][\A j \in Jobs :
       queue'[j] > queue[j] => published'[j] > published[j] \/ faults' > faults \/ kills' > kills]_queue

(***************************************************************************)
(* The rules of JobMetadataModel.Validate hold of every stored document,   *)
(* although no write after CreateJob calls it.                             *)
(***************************************************************************)
DocumentsValid == \A j \in DOMAIN jobs : Validate(jobs[j])

(***************************************************************************)
(* An execution status that CanTransitionTo calls terminal is left by no   *)
(* step except the reset of a failed job.                                  *)
(***************************************************************************)
TerminalIsFinal ==
  [][\A j \in DOMAIN jobs :
       jobs[j].executionStatus \in TerminalExecution =>
         \/ jobs'[j].executionStatus = jobs[j].executionStatus
         \/ jobs[j].executionStatus = "failed" /\ jobs'[j].executionStatus = "not_started"]_jobs

(***************************************************************************)
(* The status field that GET /api/jobs/:id returns shows a terminal state  *)
(* once the execution is in it.                                            *)
(***************************************************************************)
StatusShowsTerminal ==
  \A j \in DOMAIN jobs :
    jobs[j].executionStatus \in TerminalExecution => jobs[j].status = jobs[j].executionStatus

(***************************************************************************)
(* End to end: every job that is created reaches a terminal execution      *)
(* status, or dispatch_failed, or is stuck for one of two known reasons:   *)
(* its attempts are used up while it is still pending, or its worker could *)
(* not write the outcome.                                                  *)
(***************************************************************************)
EveryJobEnds ==
  \A j \in Jobs :
    (j \in DOMAIN jobs) ~>
      /\ j \in DOMAIN jobs
      /\ \/ jobs[j].executionStatus \in TerminalExecution
         \/ jobs[j].dispatchStatus = "dispatch_failed"
         \/ jobs[j].dispatchStatus = "pending_dispatch" /\ jobs[j].dispatchAttempts >= MaxAttempts
         \/ j \in abandoned
=============================================================================
