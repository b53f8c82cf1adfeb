----------------------------- MODULE RetryHistory -----------------------------
(***************************************************************************)
(* The system with a memory: what happened to each job since it was        *)
(* created, or since RetryJob last reset it.  The variables added here     *)
(* record, and no step depends on them.                                    *)
(***************************************************************************)
EXTENDS Jobby

VARIABLES
  sent,        \* messages of each job published since then
  errors,      \* publish calls of each job that returned an error since then
  overtaken,   \* jobs that a goroutine was about to confirm at that reset
  stale        \* jobs whose attempts a goroutine had counted before that reset

retryVars == <<sent, errors, overtaken, stale>>

HistoryInit ==
  /\ sent = [j \in Jobs |-> 0]
  /\ errors = [j \in Jobs |-> 0]
  /\ overtaken = {}
  /\ stale = {}

\* This step is a write of RetryJob's reset that changed the document.
Reopened(j) == \E c \in Clients : client[c].job = j /\ RetryReset(c) /\ jobs' # jobs

ToConfirm(j) == \E g \in Goroutines : call[g].pc = "confirm" /\ call[g].job = j

\* A projection of j, or a call that has not recorded its attempt yet.
AttemptsRead(j) ==
  \/ \E g \in Goroutines : call[g].pc \in {"publish", "record", "giveup"} /\ call[g].job = j
  \/ \E p \in fetched : p.job = j

Remember ==
  /\ sent' = [j \in Jobs |-> IF Reopened(j) THEN 0 ELSE sent[j] + (published'[j] - published[j])]
  /\ errors' = [j \in Jobs |-> IF Reopened(j) THEN 0 ELSE errors[j] + (pubErrors'[j] - pubErrors[j])]
  /\ overtaken' = {j \in Jobs : IF Reopened(j) THEN ToConfirm(j) ELSE j \in overtaken}
  /\ stale' = {j \in Jobs : IF Reopened(j) THEN AttemptsRead(j) ELSE j \in stale}

HistoryNext == Next /\ Remember

HistorySpec ==
  /\ Init /\ HistoryInit
  /\ [][HistoryNext]_<<vars, retryVars>>

-----------------------------------------------------------------------------
(***************************************************************************)
(* How far a lost retry reaches (see DispatchedInFlight, which holds only  *)
(* without retries).  A job that was dispatched and has not started has a  *)
(* message on its way, however often it was retried, reset twice or reset  *)
(* while it ran, unless HandleDispatch was between the publish and the     *)
(* confirm of an earlier dispatch at the very moment of its last reset and *)
(* nothing was published since: then the late confirm matches the reset    *)
(* document, and nobody looks at the job again.                            *)
(***************************************************************************)
RetriedInFlight ==
  \A j \in DOMAIN jobs :
    jobs[j].dispatchStatus = "dispatched" /\ jobs[j].executionStatus = "not_started" =>
      \/ HasMessage(j) \/ j \in RejectionLost
      \/ j \in overtaken /\ sent[j] = 0

(***************************************************************************)
(* After a reset the dispatcher earns its outcome anew: a confirm needs a  *)
(* message published since, and a give-up MaxAttempts errors since, unless *)
(* an attempt was under way at the reset, which may confirm for a message  *)
(* sent before, or carry an older count of attempts into the document.     *)
(* Executors and clients touch no outcome.                                 *)
(***************************************************************************)
Retried == INSTANCE RetriedSaga WITH outcome <- DispatchOutcome

ImplementsRetriedSaga == Retried!RetriedSpec
=============================================================================
