---------------------------- MODULE JobLifecycle ----------------------------
(***************************************************************************)
(* The life of a job as its two owners see it: the dispatch state and the  *)
(* execution state move independently of each other, each along its        *)
(* CanTransitionTo relation, and RetryJob alone takes a failed job back to *)
(* the start.                                                              *)
(***************************************************************************)
EXTENDS JobStatus

CONSTANTS Jobs

VARIABLES
  dispatch,    \* DispatchStatus of each job, "none" before it is created
  execution    \* ExecutionStatus of each job, "none" before it is created

lifecycleVars == <<dispatch, execution>>

LifecycleInit ==
  /\ dispatch = [j \in Jobs |-> "none"]
  /\ execution = [j \in Jobs |-> "none"]

Begin(j) ==
  /\ dispatch' = [dispatch EXCEPT ![j] = "pending_dispatch"]
  /\ execution' = [execution EXCEPT ![j] = "not_started"]

Create(j) == dispatch[j] = "none" /\ Begin(j)

Retry(j) == execution[j] = "failed" /\ Begin(j)

Dispatch(j) ==
  /\ dispatch[j] # "none"
  /\ \E s \in DispatchCanTransitionTo[dispatch[j]] : dispatch' = [dispatch EXCEPT ![j] = s]
  /\ UNCHANGED execution

Execute(j) ==
  /\ execution[j] # "none"
  /\ \E s \in ExecutionCanTransitionTo[execution[j]] : execution' = [execution EXCEPT ![j] = s]
  /\ UNCHANGED dispatch

LifecycleNext == \E j \in Jobs : Create(j) \/ Retry(j) \/ Dispatch(j) \/ Execute(j)

Spec == LifecycleInit /\ [][LifecycleNext]_lifecycleVars
=============================================================================
