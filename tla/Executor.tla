------------------------------ MODULE Executor ------------------------------
(***************************************************************************)
(* cmd/jobs-executor: the consumer loops of PulsarJobConsumer, each        *)
(* running ExecutorService.ExecuteJob on one message at a time and acking  *)
(* or nacking it with its result.  Loops of one process and of several     *)
(* processes share the subscription; a Worker is one of them.              *)
(***************************************************************************)
EXTENDS Broker

CONSTANTS
  Workers,     \* consumer loops
  Accepted,    \* jobs with a registered handler and a decodable payload
  MaxKills     \* bound: how many times a worker's process dies

ASSUME ExecutorAssumption ==
  /\ Accepted \subseteq Jobs
  /\ MaxKills \in Nat

VARIABLES
  worker,      \* the ExecuteJob call of each worker
  kills,       \* processes killed so far
  \* History, read by properties only.
  runs,        \* handler runs started for each job
  succeeded,   \* jobs some handler run of which returned nil
  abandoned    \* jobs whose message is settled, or whose run died, with no
               \* outcome known to be written

executorVars == <<worker, kills, runs, succeeded, abandoned>>

WorkerPcs ==
  {"idle", "start", "run", "complete", "completeMiss", "fail", "failWrite", "reject", "rejectWrite"}

\* The worker claimed its job and has not finished with it.
Claiming == {"run", "complete", "completeMiss", "fail", "failWrite"}

NoWork == [pc |-> "idle", job |-> NoJob]

ExecutorTypeOK ==
  /\ StoreTypeOK
  /\ BrokerTypeOK
  /\ worker \in [Workers -> [pc : WorkerPcs, job : Jobs \cup {NoJob}]]
  /\ \A w \in Workers : worker[w].pc # "idle" => worker[w].job \in DOMAIN jobs
  /\ kills \in 0..MaxKills
  /\ runs \in [Jobs -> Nat]
  /\ succeeded \subseteq Jobs
  /\ abandoned \subseteq Jobs

ExecutorInit ==
  /\ worker = [w \in Workers |-> NoWork]
  /\ kills = 0
  /\ runs = [j \in Jobs |-> 0]
  /\ succeeded = {}
  /\ abandoned = {}

-----------------------------------------------------------------------------
WorkerGoto(w, pc) == worker' = [worker EXCEPT ![w].pc = pc]

\* ExecuteJob returned: nil acks the message, an error nacks it.  Nothing
\* else happens between that return and the Ack, so it is part of the last
\* step of the call; an Ack that is lost leaves the message to be delivered
\* again, which is also what a crash between the two calls does.
Release(w) == worker' = [worker EXCEPT ![w] = NoWork]

Acked(w) ==
  /\ Release(w)
  /\ UNCHANGED queue

AckLost(w) ==
  /\ Release(w)
  /\ Enqueue(worker[w].job)

Nacked(w) ==
  /\ Release(w)
  /\ Enqueue(worker[w].job)

Abandon(w) == abandoned' = abandoned \cup {worker[w].job}

-----------------------------------------------------------------------------
(***************************************************************************)
(* handleMessage decodes the envelope (always well formed here: the        *)
(* dispatcher wrote it) and calls ExecuteJob, whose first three checks     *)
(* read only the message and the registry.                                 *)
(***************************************************************************)
Receive(w) ==
  /\ worker[w].pc = "idle"
  /\ \E j \in Jobs :
       /\ Dequeue(j)
       /\ worker' = [worker EXCEPT ![w] =
                       [pc |-> IF j \in Accepted THEN "start" ELSE "reject", job |-> j]]
  /\ UNCHANGED <<jobs, faults, kills, runs, succeeded, abandoned>>

\* Mutant: a duplicate delivery is nacked.
StartJobNacksDuplicates(w) ==
  LET j == worker[w].job
      d == MarkRunningIfDispatched(jobs[j]) IN
  /\ worker[w].pc = "start"
  /\ \/ /\ Claimable(jobs[j])
        /\ Write(j, d)
        /\ WorkerGoto(w, "run")
        /\ runs' = [runs EXCEPT ![j] = @ + 1]
        /\ abandoned' = abandoned \ {j}
        /\ UNCHANGED queue
     \/ /\ ~Claimable(jobs[j])
        /\ Nacked(w)
        /\ UNCHANGED <<jobs, faults, runs, abandoned>>
  /\ UNCHANGED <<kills, succeeded>>

\* Mutant: a claim that could not be written is acked.
StartJobAcksErrors(w) ==
  LET j == worker[w].job
      d == MarkRunningIfDispatched(jobs[j]) IN
  /\ worker[w].pc = "start"
  /\ \/ /\ Claimable(jobs[j])
        /\ Write(j, d)
        /\ WorkerGoto(w, "run")
        /\ runs' = [runs EXCEPT ![j] = @ + 1]
        /\ abandoned' = abandoned \ {j}
        /\ UNCHANGED queue
     \/ /\ WriteFails(j, d)
        /\ Acked(w)
        /\ UNCHANGED <<runs, abandoned>>
  /\ UNCHANGED <<kills, succeeded>>

\* StartJob: the claim.  A miss is a duplicate delivery and is acked.
StartJob(w) ==
  LET j == worker[w].job
      d == MarkRunningIfDispatched(jobs[j]) IN
  /\ worker[w].pc = "start"
  /\ \/ /\ Claimable(jobs[j])
        /\ Write(j, d)
        /\ WorkerGoto(w, "run")
        /\ runs' = [runs EXCEPT ![j] = @ + 1]
        /\ abandoned' = abandoned \ {j}
        /\ UNCHANGED queue
     \/ /\ ~Claimable(jobs[j])
        /\ \/ Acked(w) /\ UNCHANGED <<jobs, faults>>
           \/ AckLost(w) /\ CallFails
        /\ UNCHANGED <<runs, abandoned>>
     \/ /\ WriteFails(j, d)
        /\ Nacked(w)
        /\ abandoned' = IF jobs' # jobs THEN abandoned \cup {j} ELSE abandoned
        /\ UNCHANGED runs
  /\ UNCHANGED <<kills, succeeded>>

\* Mutant: the recovered panic is not turned into an error.
RunHandlerLosesPanic(w) ==
  /\ worker[w].pc = "run"
  /\ WorkerGoto(w, "complete")
  /\ succeeded' \in {succeeded, succeeded \cup {worker[w].job}}
  /\ UNCHANGED <<jobs, faults, queue, kills, runs, abandoned>>

\* Mutant: the error of the handler is logged and not recorded.
RunHandlerOnlyLogs(w) ==
  /\ worker[w].pc = "run"
  /\ \/ /\ WorkerGoto(w, "complete")
        /\ succeeded' = succeeded \cup {worker[w].job}
        /\ UNCHANGED queue
     \/ /\ Acked(w)
        /\ UNCHANGED succeeded
  /\ UNCHANGED <<jobs, faults, kills, runs, abandoned>>

\* Registry.Run: the handler returns nil, or an error, or panics (recovered
\* into an error).
RunHandler(w) ==
  /\ worker[w].pc = "run"
  /\ \/ /\ WorkerGoto(w, "complete")
        /\ succeeded' = succeeded \cup {worker[w].job}
     \/ /\ WorkerGoto(w, "fail")
        /\ UNCHANGED succeeded
  /\ UNCHANGED <<jobs, faults, queue, kills, runs, abandoned>>

\* CompleteJob with a nil result: the conditional write, and on a miss a
\* read that tells a terminal job (ack) from any other (nack).
CompleteJob(w) ==
  LET j == worker[w].job
      d == CompleteIfRunning(jobs[j]) IN
  /\ worker[w].pc = "complete"
  /\ \/ /\ jobs[j].executionStatus = "running"
        /\ \/ Acked(w) /\ Write(j, d)
           \/ AckLost(w) /\ Fault /\ jobs' = [jobs EXCEPT ![j] = d]
        /\ UNCHANGED abandoned
     \/ /\ jobs[j].executionStatus # "running"
        /\ WorkerGoto(w, "completeMiss")
        /\ UNCHANGED <<jobs, faults, queue, abandoned>>
     \/ /\ WriteFails(j, d)
        /\ Nacked(w)
        /\ Abandon(w)
  /\ UNCHANGED <<kills, runs, succeeded>>

CompleteMiss(w) ==
  LET j == worker[w].job IN
  /\ worker[w].pc = "completeMiss"
  /\ \/ /\ jobs[j].executionStatus \in TerminalExecution
        /\ Acked(w)
        /\ UNCHANGED <<jobs, faults>>
     \/ /\ jobs[j].executionStatus \in TerminalExecution
        /\ AckLost(w)
        /\ CallFails
     \/ /\ jobs[j].executionStatus \notin TerminalExecution
        /\ Nacked(w)
        /\ UNCHANGED <<jobs, faults>>
     \/ /\ Nacked(w)
        /\ CallFails
  /\ UNCHANGED <<kills, runs, succeeded, abandoned>>

(***************************************************************************)
(* FailJob reads the document (for the retryCount it notes in the error),  *)
(* then writes.  Whatever either call returns, ExecuteJob acks: after a    *)
(* failed call the message is gone and the job keeps the state it had.     *)
(***************************************************************************)
FailJobRead(w) ==
  /\ worker[w].pc \in {"fail", "reject"}
  /\ \/ /\ WorkerGoto(w, IF worker[w].pc = "fail" THEN "failWrite" ELSE "rejectWrite")
        /\ UNCHANGED <<jobs, faults, queue, abandoned>>
     \/ /\ CallFails
        /\ Acked(w)
        /\ Abandon(w)
  /\ UNCHANGED <<kills, runs, succeeded>>

FailJobWrite(w) ==
  LET j == worker[w].job
      d == FailIfNotTerminal(jobs[j]) IN
  /\ worker[w].pc \in {"failWrite", "rejectWrite"}
  /\ \/ /\ Acked(w)
        /\ Write(j, d)
        /\ UNCHANGED abandoned
     \/ /\ AckLost(w)
        /\ Fault
        /\ jobs' = [jobs EXCEPT ![j] = d]
        /\ UNCHANGED abandoned
     \/ /\ WriteFails(j, d)
        /\ Acked(w)
        /\ Abandon(w)
  /\ UNCHANGED <<kills, runs, succeeded>>

\* The process dies; its unacked message becomes deliverable again.
WorkerKilled(w) ==
  /\ worker[w].pc # "idle"
  /\ kills < MaxKills
  /\ kills' = kills + 1
  /\ Nacked(w)
  /\ IF worker[w].pc \in Claiming THEN Abandon(w) ELSE UNCHANGED abandoned
  /\ UNCHANGED <<jobs, faults, runs, succeeded>>

WorkerStep(w) ==
  \/ Receive(w)
  \/ StartJob(w)
  \/ RunHandler(w)
  \/ CompleteJob(w)
  \/ CompleteMiss(w)
  \/ FailJobRead(w)
  \/ FailJobWrite(w)

ExecutorNext == \E w \in Workers : WorkerStep(w) \/ WorkerKilled(w)

(***************************************************************************)
(* The executors on their own: every job dispatched, with one message or   *)
(* two (the dispatcher's duplicates), and clients that cancel and fail     *)
(* jobs.  A worker loop is fair: it receives while there are messages,     *)
(* handlers return, and a process that dies is restarted.                  *)
(***************************************************************************)
execVars == <<jobs, faults, queue, executorVars>>

ExecutorsAloneInit ==
  /\ jobs = [j \in Jobs |-> MarkDispatchedIfPending(NewJobMetadata)]
  /\ faults = 0
  /\ queue \in [Jobs -> 1..2]
  /\ ExecutorInit

\* The write of a client's CancelJob, whose check was made on an earlier
\* document, or of its FailJob.
ClientWrites(j) ==
  /\ jobs' \in {[jobs EXCEPT ![j] = CancelPatch(@)], [jobs EXCEPT ![j] = FailIfNotTerminal(@)]}
  /\ UNCHANGED <<faults, queue, executorVars>>

ExecutorsAloneNext == ExecutorNext \/ \E j \in Jobs : ClientWrites(j)

ExecutorSpec == ExecutorsAloneInit /\ [][ExecutorsAloneNext]_execVars

FairWorkers == \A w \in Workers : WF_execVars(WorkerStep(w))

FairExecutorSpec == ExecutorSpec /\ FairWorkers

-----------------------------------------------------------------------------
(***************************************************************************)
(* Every handler run is paid for: one for the creation of the job, one for *)
(* every increment of retryCount.  The claim (StartJob) consumes the       *)
(* not_started state that only CreateJob and the reset of RetryJob give,   *)
(* and RetryJob counts before it resets, so that neither duplicate         *)
(* messages, nor replayed stream events, nor concurrent or half-done       *)
(* retries can run a handler without it being counted.                     *)
(***************************************************************************)
RunsCounted ==
  \A j \in DOMAIN jobs : runs[j] <= 1 + jobs[j].retryCount

(***************************************************************************)
(* A job is completed only if some run of its handler returned nil.        *)
(***************************************************************************)
CompletedAfterSuccess ==
  \A j \in DOMAIN jobs : jobs[j].executionStatus = "completed" => j \in succeeded

(***************************************************************************)
(* A running job has a worker that claimed it and still owes it an         *)
(* outcome, unless that worker died or could not write the outcome.        *)
(***************************************************************************)
RunningHasOwner ==
  \A j \in DOMAIN jobs :
    jobs[j].executionStatus = "running" =>
      \/ j \in abandoned
      \/ \E w \in Workers : worker[w].job = j /\ worker[w].pc \in Claiming

\* The worker has a message of j and has neither claimed nor settled it.
Holds(w, j) == worker[w].job = j /\ worker[w].pc \in {"start", "reject", "rejectWrite"}

\* A message of j is in the topic or in such a worker's hands.
HasMessage(j) == queue[j] > 0 \/ \E w \in Workers : Holds(w, j)

\* Rejected jobs whose rejection was not recorded, for a failed read or write of
\* FailJob: ExecuteJob returns nil all the same, and the message is acked.
RejectionLost == abandoned \ Accepted

(***************************************************************************)
(* A message comes back to the topic only because a call failed or a       *)
(* worker died.  Nothing that a handler, a client or a duplicate does to   *)
(* a job makes the executors nack its message again and again.             *)
(***************************************************************************)
RedeliveredAfterFault ==
  [][\A j \in Jobs : queue'[j] > queue[j] => faults' > faults \/ kills' > kills]_queue

(***************************************************************************)
(* Every message is settled for good, and every job with a message ends in *)
(* a terminal state, unless a worker acked it, nacked it or died without   *)
(* knowing that its outcome was written.                                   *)
(***************************************************************************)
EveryMessageSettles ==
  \A j \in Jobs :
    <>[](/\ queue[j] = 0
         /\ jobs[j].executionStatus \in TerminalExecution \/ j \in abandoned)
=============================================================================
