----------------------------- MODULE RetriedSaga -----------------------------
(***************************************************************************)
(* DispatchSaga with RetryJob, which begins the saga of a job once more:   *)
(* no message sent and no error met before counts for the new dispatch.    *)
(* Only an attempt that was still under way when the job was reset may end *)
(* the new dispatch on the strength of the old one.                        *)
(***************************************************************************)
EXTENDS DispatchSaga

VARIABLES
  overtaken,  \* jobs reset before an attempt that published them confirmed
  stale       \* jobs reset before an attempt that counted their errors ended

retriedVars == <<sagaVars, overtaken, stale>>

RetriedInit == SagaInit /\ overtaken = {} /\ stale = {}

Reopen(j) ==
  /\ outcome[j] # "none"
  /\ outcome' = [outcome EXCEPT ![j] = "pending_dispatch"]
  /\ sent' = [sent EXCEPT ![j] = 0]
  /\ errors' = [errors EXCEPT ![j] = 0]
  /\ \/ overtaken' = overtaken \ {j}
     \/ overtaken' = overtaken \cup {j} /\ (sent[j] > 0 \/ j \in overtaken)
  /\ stale' \in {stale \ {j}, stale \cup {j}}

EndLate(j) ==
  /\ outcome[j] = "pending_dispatch"
  /\ \/ j \in overtaken /\ outcome' = [outcome EXCEPT ![j] = "dispatched"]
     \/ j \in stale /\ outcome' = [outcome EXCEPT ![j] = "dispatch_failed"]
  /\ UNCHANGED <<sent, errors, overtaken, stale>>

RetriedNext ==
  \/ SagaNext /\ UNCHANGED <<overtaken, stale>>
  \/ \E j \in Jobs : Reopen(j) \/ EndLate(j)

RetriedSpec == RetriedInit /\ [][RetriedNext]_retriedVars
=============================================================================
