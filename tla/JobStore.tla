------------------------------ MODULE JobStore ------------------------------
(***************************************************************************)
(* The job_metadata collection and the writes of MongoJobsWriter on it.    *)
(* Every write is one UpdateOne on one document, hence one atomic step; an *)
(* operator below maps the document before the write to the document after *)
(* it, and a filter that does not match leaves the document alone.         *)
(*                                                                         *)
(* A document keeps the fields that some decision or property reads.  A    *)
(* timestamp is abstracted to whether it is set, the errors array to the   *)
(* set of error types in it.  Names, payload, tags, topic, priority and    *)
(* metadata never influence a transition and are left out.                 *)
(***************************************************************************)
EXTENDS Naturals, JobStatus

CONSTANTS
  Jobs,       \* job ids; the dispatcher polls them in their order
  NoJob,      \* the "no job" value of an idle process
  MaxFaults   \* bound: how many store or broker calls may fail

ASSUME JobStoreAssumption ==
  /\ Jobs \subseteq Nat
  /\ NoJob \notin Jobs
  /\ MaxFaults \in Nat

VARIABLES
  jobs,       \* the collection: a function from the inserted ids to documents
  faults      \* failed calls so far

JobErrorTypes == {"execution", "dispatch"}

Document ==
  [dispatchStatus   : DispatchStatuses,
   executionStatus  : ExecutionStatuses,
   status           : JobStatuses,
   startedAt        : BOOLEAN,
   completedAt      : BOOLEAN,
   retryCount       : Nat,
   dispatchAttempts : Nat,
   errors           : SUBSET JobErrorTypes]

StoreTypeOK ==
  /\ DOMAIN jobs \subseteq Jobs
  /\ jobs \in [DOMAIN jobs -> Document]
  /\ faults \in 0..MaxFaults

StoreInit ==
  /\ jobs = [j \in {} |-> {}]
  /\ faults = 0

-----------------------------------------------------------------------------
(* The document NewJobMetadata builds and CreateJob inserts. *)
NewJobMetadata ==
  [dispatchStatus   |-> "pending_dispatch",
   executionStatus  |-> "not_started",
   status           |-> "pending_dispatch",
   startedAt        |-> FALSE,
   completedAt      |-> FALSE,
   retryCount       |-> 0,
   dispatchAttempts |-> 0,
   errors           |-> {}]

(* The dispatcher's writes, all filtered on dispatchStatus alone. *)
\* Mutant: the confirm is written to the other status field.
MarkDispatchedWrongField(d) ==
  IF d.dispatchStatus = "pending_dispatch"
  THEN [d EXCEPT !.executionStatus = "dispatched", !.status = "dispatched"]
  ELSE d

MarkDispatchedIfPending(d) ==
  IF d.dispatchStatus = "pending_dispatch"
  THEN [d EXCEPT !.dispatchStatus = "dispatched", !.status = "dispatched"]
  ELSE d

\* Mutant: the store counts the attempt that the handler counted already.
CountAttemptTwice(d, attempts) ==
  IF d.dispatchStatus = "pending_dispatch"
  THEN [d EXCEPT !.dispatchAttempts = attempts + 1]
  ELSE d

RecordDispatchAttemptIfPending(d, attempts) ==
  IF d.dispatchStatus = "pending_dispatch"
  THEN [d EXCEPT !.dispatchAttempts = attempts]
  ELSE d

\* Mutant: the filter on dispatchStatus is forgotten.
MarkDispatchFailedUnfiltered(d) ==
  [d EXCEPT !.dispatchStatus = "dispatch_failed", !.status = "dispatch_failed"]

MarkDispatchFailedIfPending(d) ==
  IF d.dispatchStatus = "pending_dispatch"
  THEN [d EXCEPT !.dispatchStatus = "dispatch_failed",
                 !.status = "dispatch_failed",
                 !.errors = @ \cup {"dispatch"}]
  ELSE d

(* The executor's writes, all filtered on executionStatus alone. *)
\* Mutant: a redelivered message restarts a running job.
ClaimableAgain(d) == d.executionStatus \in {"not_started", "running"}

Claimable(d) == d.executionStatus = "not_started"

MarkRunningIfDispatched(d) ==
  IF Claimable(d)
  THEN [d EXCEPT !.executionStatus = "running",
                 !.status = "running",
                 !.startedAt = TRUE]
  ELSE d

\* Mutant: the outcome is written to the other status field.
CompleteWrongField(d) ==
  IF d.executionStatus = "running"
  THEN [d EXCEPT !.dispatchStatus = "completed", !.completedAt = TRUE]
  ELSE d

CompleteIfRunning(d) ==
  IF d.executionStatus = "running"
  THEN [d EXCEPT !.executionStatus = "completed",
                 !.status = "completed",
                 !.completedAt = TRUE]
  ELSE d

\* Mutant: the filter on executionStatus is forgotten.
FailUnfiltered(d) ==
  [d EXCEPT !.executionStatus = "failed", !.status = "failed", !.completedAt = TRUE]

FailIfNotTerminal(d) ==
  IF d.executionStatus \in {"running", "not_started"}
  THEN [d EXCEPT !.executionStatus = "failed",
                 !.status = "failed",
                 !.completedAt = TRUE,
                 !.startedAt = TRUE,
                 !.errors = @ \cup {"execution"}]
  ELSE d

(* The writes of the service calls that patch a document by id only. *)
\* Mutant: a job cancelled before it started gets no startedAt.
CancelPatchKeepsStart(d) ==
  [d EXCEPT !.status = "cancelled", !.executionStatus = "cancelled", !.completedAt = TRUE]

CancelPatch(d) ==
  [d EXCEPT !.status = "cancelled",
            !.executionStatus = "cancelled",
            !.startedAt = TRUE,
            !.completedAt = TRUE]

IncrementRetryCount(d) == [d EXCEPT !.retryCount = @ + 1]

\* Mutant: the reset leaves the dispatch sub-state of the old run.
RetryPatchKeepsDispatched(d) ==
  [d EXCEPT !.status = "pending_dispatch", !.executionStatus = "not_started", !.dispatchAttempts = 0]

RetryPatch(d) ==
  [d EXCEPT !.status = "pending_dispatch",
            !.dispatchStatus = "pending_dispatch",
            !.executionStatus = "not_started",
            !.dispatchAttempts = 0]

ClearJobExecutionTimestamps(d) ==
  [d EXCEPT !.startedAt = FALSE, !.completedAt = FALSE]

-----------------------------------------------------------------------------
(* JobMetadataModel.Validate, the rules over the fields kept here. *)
Validate(d) ==
  /\ DisplayStatus(d.dispatchStatus, d.executionStatus) \in DispatchPhase
       => ~d.startedAt /\ ~d.completedAt
  /\ d.executionStatus = "running" => d.startedAt
  /\ d.executionStatus \in {"completed", "cancelled"} => d.startedAt /\ d.completedAt
  /\ d.executionStatus = "failed" => d.completedAt /\ d.errors # {}

-----------------------------------------------------------------------------
(* One store call, as a step of the process that makes it. *)
Write(j, d) ==
  /\ jobs' = [jobs EXCEPT ![j] = d]
  /\ UNCHANGED faults

Fault ==
  /\ faults < MaxFaults
  /\ faults' = faults + 1

\* The write returns an error.  The caller cannot know whether the server
\* applied it before the connection or the context died.
WriteFails(j, d) ==
  /\ Fault
  /\ jobs' \in {jobs, [jobs EXCEPT ![j] = d]}

\* A read (or a broker call) returns an error.
CallFails ==
  /\ Fault
  /\ UNCHANGED jobs
=============================================================================
