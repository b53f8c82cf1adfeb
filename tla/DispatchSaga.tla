---------------------------- MODULE DispatchSaga ----------------------------
(***************************************************************************)
(* What docs/architecture/job-saga.md promises of persist, publish and     *)
(* confirm, without goroutines, projections, streams, tokens or polls: a   *)
(* job is confirmed at most once, as dispatched only if a message of it    *)
(* was published, as dispatch_failed only if publishing failed MaxAttempts *)
(* times.  Publishing may be repeated at any time after the persist step.  *)
(***************************************************************************)
EXTENDS Naturals

CONSTANTS Jobs, MaxAttempts

VARIABLES
  outcome,   \* dispatch status of each job, "none" before the persist step
  sent,      \* messages published for each job
  errors     \* failed publish calls of each job

sagaVars == <<outcome, sent, errors>>

SagaInit ==
  /\ outcome = [j \in Jobs |-> "none"]
  /\ sent = [j \in Jobs |-> 0]
  /\ errors = [j \in Jobs |-> 0]

Persist(j) ==
  /\ outcome[j] = "none"
  /\ outcome' = [outcome EXCEPT ![j] = "pending_dispatch"]
  /\ UNCHANGED <<sent, errors>>

Publish(j) ==
  /\ outcome[j] # "none"
  /\ \/ sent' = [sent EXCEPT ![j] = @ + 1] /\ UNCHANGED errors
     \/ errors' = [errors EXCEPT ![j] = @ + 1] /\ UNCHANGED sent
     \/ sent' = [sent EXCEPT ![j] = @ + 1] /\ errors' = [errors EXCEPT ![j] = @ + 1]
  /\ UNCHANGED outcome

Confirm(j) ==
  /\ outcome[j] = "pending_dispatch"
  /\ \/ sent[j] > 0 /\ outcome' = [outcome EXCEPT ![j] = "dispatched"]
     \/ errors[j] >= MaxAttempts /\ outcome' = [outcome EXCEPT ![j] = "dispatch_failed"]
  /\ UNCHANGED <<sent, errors>>

SagaNext == \E j \in Jobs : Persist(j) \/ Publish(j) \/ Confirm(j)

Spec == SagaInit /\ [][SagaNext]_sagaVars
=============================================================================
