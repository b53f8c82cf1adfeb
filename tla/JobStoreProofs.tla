---------------------------- MODULE JobStoreProofs ----------------------------
(***************************************************************************)
(* Lemmas about the writes of JobStore: every one of them maps a document  *)
(* to a document, and a store call, failed or not, keeps the collection    *)
(* well typed and neither inserts nor deletes.                             *)
(***************************************************************************)
EXTENDS JobStore, TLAPS

(* The document CreateJob inserts is well typed. *)
LEMMA NewJobMetadataType == NewJobMetadata \in Document
  BY DEF NewJobMetadata, Document, DispatchStatuses, ExecutionStatuses, JobStatuses

(* The dispatcher's writes (MarkDispatchedIfPending and the two others of  *)
(* mongo_writer.go) map documents to documents.                            *)
LEMMA DispatchWritesType ==
  ASSUME NEW d \in Document
  PROVE  /\ MarkDispatchedIfPending(d) \in Document
         /\ \A n \in Nat : RecordDispatchAttemptIfPending(d, n) \in Document
         /\ MarkDispatchFailedIfPending(d) \in Document
  <1> USE DEF Document, DispatchStatuses, ExecutionStatuses, JobStatuses, JobErrorTypes
  <1>1. MarkDispatchedIfPending(d) \in Document
    BY DEF MarkDispatchedIfPending
  <1>2. \A n \in Nat : RecordDispatchAttemptIfPending(d, n) \in Document
    BY DEF RecordDispatchAttemptIfPending
  <1>3. MarkDispatchFailedIfPending(d) \in Document
    BY DEF MarkDispatchFailedIfPending
  <1> QED BY <1>1, <1>2, <1>3

(* The executor's writes map documents to documents. *)
LEMMA ExecutionWritesType ==
  ASSUME NEW d \in Document
  PROVE  /\ MarkRunningIfDispatched(d) \in Document
         /\ CompleteIfRunning(d) \in Document
         /\ FailIfNotTerminal(d) \in Document
  <1> USE DEF Document, DispatchStatuses, ExecutionStatuses, JobStatuses, JobErrorTypes
  <1>1. MarkRunningIfDispatched(d) \in Document
    BY DEF MarkRunningIfDispatched, Claimable
  <1>2. CompleteIfRunning(d) \in Document
    BY DEF CompleteIfRunning
  <1>3. FailIfNotTerminal(d) \in Document
    BY DEF FailIfNotTerminal
  <1> QED BY <1>1, <1>2, <1>3

(* The writes of CancelJob and RetryJob map documents to documents. *)
LEMMA ApiWritesType ==
  ASSUME NEW d \in Document
  PROVE  /\ CancelPatch(d) \in Document
         /\ IncrementRetryCount(d) \in Document
         /\ RetryPatch(d) \in Document
         /\ ClearJobExecutionTimestamps(d) \in Document
  <1> USE DEF Document, DispatchStatuses, ExecutionStatuses, JobStatuses
  <1>1. CancelPatch(d) \in Document
    BY DEF CancelPatch
  <1>2. IncrementRetryCount(d) \in Document
    BY DEF IncrementRetryCount
  <1>3. RetryPatch(d) \in Document
    BY DEF RetryPatch
  <1>4. ClearJobExecutionTimestamps(d) \in Document
    BY DEF ClearJobExecutionTimestamps
  <1> QED BY <1>1, <1>2, <1>3, <1>4

(* A failed call is counted within its bound. *)
LEMMA FaultType ==
  ASSUME StoreTypeOK, Fault
  PROVE  faults' \in 0..MaxFaults
  BY JobStoreAssumption DEF StoreTypeOK, Fault

(* Replacing one stored document keeps the collection well typed. *)
LEMMA UpdateType ==
  ASSUME StoreTypeOK, NEW j \in DOMAIN jobs, NEW d \in Document,
         jobs' \in {jobs, [jobs EXCEPT ![j] = d]},
         faults' \in 0..MaxFaults
  PROVE  StoreTypeOK' /\ DOMAIN jobs' = DOMAIN jobs
  BY DEF StoreTypeOK

(* One UpdateOne, answered or not, keeps the collection well typed. *)
LEMMA WriteType ==
  ASSUME StoreTypeOK, NEW j \in DOMAIN jobs, NEW d \in Document,
         Write(j, d) \/ WriteFails(j, d)
  PROVE  /\ StoreTypeOK'
         /\ DOMAIN jobs' = DOMAIN jobs
         /\ jobs' \in {jobs, [jobs EXCEPT ![j] = d]}
  <1>1. jobs' \in {jobs, [jobs EXCEPT ![j] = d]}
    BY DEF Write, WriteFails
  <1>2. faults' \in 0..MaxFaults
    BY FaultType DEF Write, WriteFails, StoreTypeOK
  <1> QED BY <1>1, <1>2, UpdateType

(* A call that fails without writing leaves the collection as it is. *)
LEMMA CallFailsType ==
  ASSUME StoreTypeOK, CallFails
  PROVE  StoreTypeOK' /\ jobs' = jobs
  BY FaultType DEF CallFails, StoreTypeOK

-----------------------------------------------------------------------------
(***************************************************************************)
(* What the writes are, whoever makes them in whatever order.              *)
(***************************************************************************)
(* The writes that a handler of a message or of an event may repeat: each  *)
(* is filtered on the status that it changes.  job-saga.md asks of them    *)
(* to be idempotent per jobId, and the second of two equal calls does      *)
(* change nothing.                                                         *)
THEOREM FilteredWritesIdempotent ==
  ASSUME NEW d \in Document, NEW n \in Nat
  PROVE  /\ MarkDispatchedIfPending(MarkDispatchedIfPending(d)) = MarkDispatchedIfPending(d)
         /\ RecordDispatchAttemptIfPending(RecordDispatchAttemptIfPending(d, n), n)
              = RecordDispatchAttemptIfPending(d, n)
         /\ MarkDispatchFailedIfPending(MarkDispatchFailedIfPending(d)) = MarkDispatchFailedIfPending(d)
         /\ MarkRunningIfDispatched(MarkRunningIfDispatched(d)) = MarkRunningIfDispatched(d)
         /\ CompleteIfRunning(CompleteIfRunning(d)) = CompleteIfRunning(d)
         /\ FailIfNotTerminal(FailIfNotTerminal(d)) = FailIfNotTerminal(d)
  <1> USE DEF Document
  <1>1. MarkDispatchedIfPending(MarkDispatchedIfPending(d)) = MarkDispatchedIfPending(d)
    BY DEF MarkDispatchedIfPending
  <1>2. RecordDispatchAttemptIfPending(RecordDispatchAttemptIfPending(d, n), n)
          = RecordDispatchAttemptIfPending(d, n)
    BY DEF RecordDispatchAttemptIfPending
  <1>3. MarkDispatchFailedIfPending(MarkDispatchFailedIfPending(d)) = MarkDispatchFailedIfPending(d)
    BY DEF MarkDispatchFailedIfPending
  <1>4. MarkRunningIfDispatched(MarkRunningIfDispatched(d)) = MarkRunningIfDispatched(d)
    BY DEF MarkRunningIfDispatched, Claimable
  <1>5. CompleteIfRunning(CompleteIfRunning(d)) = CompleteIfRunning(d)
    BY DEF CompleteIfRunning
  <1>6. FailIfNotTerminal(FailIfNotTerminal(d)) = FailIfNotTerminal(d)
    BY DEF FailIfNotTerminal
  <1> QED BY <1>1, <1>2, <1>3, <1>4, <1>5, <1>6

(***************************************************************************)
(* The dispatcher and the executors race on one document without a lock.   *)
(* Their writes commute on every field but one: whichever comes first, the *)
(* two sub-states, the timestamps, the attempts and the errors end the     *)
(* same.  The exception is status, which both of them write: the last      *)
(* writer wins (jobby_stale_status).                                       *)
(***************************************************************************)
SameButStatus(d, e) == [d EXCEPT !.status = e.status] = e

THEOREM OwnersCommute ==
  ASSUME NEW d \in Document, NEW n \in Nat
  PROVE  /\ SameButStatus(MarkDispatchedIfPending(MarkRunningIfDispatched(d)),
                          MarkRunningIfDispatched(MarkDispatchedIfPending(d)))
         /\ SameButStatus(MarkDispatchedIfPending(CompleteIfRunning(d)),
                          CompleteIfRunning(MarkDispatchedIfPending(d)))
         /\ SameButStatus(MarkDispatchedIfPending(FailIfNotTerminal(d)),
                          FailIfNotTerminal(MarkDispatchedIfPending(d)))
         /\ SameButStatus(RecordDispatchAttemptIfPending(MarkRunningIfDispatched(d), n),
                          MarkRunningIfDispatched(RecordDispatchAttemptIfPending(d, n)))
         /\ SameButStatus(RecordDispatchAttemptIfPending(CompleteIfRunning(d), n),
                          CompleteIfRunning(RecordDispatchAttemptIfPending(d, n)))
         /\ SameButStatus(RecordDispatchAttemptIfPending(FailIfNotTerminal(d), n),
                          FailIfNotTerminal(RecordDispatchAttemptIfPending(d, n)))
         /\ SameButStatus(MarkDispatchFailedIfPending(MarkRunningIfDispatched(d)),
                          MarkRunningIfDispatched(MarkDispatchFailedIfPending(d)))
         /\ SameButStatus(MarkDispatchFailedIfPending(CompleteIfRunning(d)),
                          CompleteIfRunning(MarkDispatchFailedIfPending(d)))
         /\ SameButStatus(MarkDispatchFailedIfPending(FailIfNotTerminal(d)),
                          FailIfNotTerminal(MarkDispatchFailedIfPending(d)))
  <1> USE DEF Document, SameButStatus
  <1>1. /\ SameButStatus(MarkDispatchedIfPending(MarkRunningIfDispatched(d)),
                         MarkRunningIfDispatched(MarkDispatchedIfPending(d)))
        /\ SameButStatus(MarkDispatchedIfPending(CompleteIfRunning(d)),
                         CompleteIfRunning(MarkDispatchedIfPending(d)))
    BY DEF MarkDispatchedIfPending, MarkRunningIfDispatched, Claimable, CompleteIfRunning
  <1>2. SameButStatus(MarkDispatchedIfPending(FailIfNotTerminal(d)),
                      FailIfNotTerminal(MarkDispatchedIfPending(d)))
    BY DEF MarkDispatchedIfPending, FailIfNotTerminal
  <1>3. /\ SameButStatus(RecordDispatchAttemptIfPending(MarkRunningIfDispatched(d), n),
                         MarkRunningIfDispatched(RecordDispatchAttemptIfPending(d, n)))
        /\ SameButStatus(RecordDispatchAttemptIfPending(CompleteIfRunning(d), n),
                         CompleteIfRunning(RecordDispatchAttemptIfPending(d, n)))
    BY DEF RecordDispatchAttemptIfPending, MarkRunningIfDispatched, Claimable, CompleteIfRunning
  <1>4. SameButStatus(RecordDispatchAttemptIfPending(FailIfNotTerminal(d), n),
                      FailIfNotTerminal(RecordDispatchAttemptIfPending(d, n)))
    BY DEF RecordDispatchAttemptIfPending, FailIfNotTerminal
  <1>5. /\ SameButStatus(MarkDispatchFailedIfPending(MarkRunningIfDispatched(d)),
                         MarkRunningIfDispatched(MarkDispatchFailedIfPending(d)))
        /\ SameButStatus(MarkDispatchFailedIfPending(CompleteIfRunning(d)),
                         CompleteIfRunning(MarkDispatchFailedIfPending(d)))
    BY DEF MarkDispatchFailedIfPending, MarkRunningIfDispatched, Claimable, CompleteIfRunning
  <1>6. SameButStatus(MarkDispatchFailedIfPending(FailIfNotTerminal(d)),
                      FailIfNotTerminal(MarkDispatchFailedIfPending(d)))
    BY DEF MarkDispatchFailedIfPending, FailIfNotTerminal
  <1> QED BY <1>1, <1>2, <1>3, <1>4, <1>5, <1>6

(***************************************************************************)
(* The list, count and stats queries look for one pair of sub-states       *)
(* (StatusToSubFields), the API shows DisplayStatus.  A query never finds  *)
(* a job under a status that is not displayed, hence no job under two; and *)
(* it finds every job that displays the status, except those that started  *)
(* or ended while their dispatchStatus was not dispatched.                 *)
(***************************************************************************)
THEOREM StatusQueriesAgree ==
  ASSUME NEW d \in Document
  PROVE  LET found(s) == StatusToSubFields(s) = [dispatch |-> d.dispatchStatus,
                                                 execution |-> d.executionStatus]
             shown == DisplayStatus(d.dispatchStatus, d.executionStatus)
         IN  /\ \A s \in JobStatuses : found(s) => s = shown
             /\ shown \in JobStatuses
             /\ found(shown) <=> d.executionStatus = "not_started" \/ d.dispatchStatus = "dispatched"
  BY DEF Document, StatusToSubFields, DisplayStatus, JobStatuses, DispatchStatuses, ExecutionStatuses
=============================================================================
