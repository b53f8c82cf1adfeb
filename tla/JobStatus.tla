------------------------------ MODULE JobStatus ------------------------------
(***************************************************************************)
(* The status vocabulary of internal/jobs/metadata: the two sub-states a   *)
(* job document stores, the seven display statuses computed from them, and *)
(* the transition relations that CanTransitionTo states for each of them.  *)
(***************************************************************************)

DispatchStatuses == {"pending_dispatch", "dispatched", "dispatch_failed"}

ExecutionStatuses == {"not_started", "running", "completed", "failed", "cancelled"}

JobStatuses == DispatchStatuses \cup (ExecutionStatuses \ {"not_started"})

\* ExecutionStatus.IsTerminal
TerminalExecution == {"completed", "failed", "cancelled"}

\* JobStatus.IsDispatchPhase
DispatchPhase == DispatchStatuses

(***************************************************************************)
(* CanTransitionTo, one function per status type: the set of legal targets *)
(* of every status.                                                        *)
(***************************************************************************)
DispatchCanTransitionTo ==
  [s \in DispatchStatuses |->
     CASE s = "pending_dispatch" -> {"dispatched", "dispatch_failed"}
       [] s = "dispatch_failed"  -> {"pending_dispatch"}
       [] s = "dispatched"       -> {}]

ExecutionCanTransitionTo ==
  [s \in ExecutionStatuses |->
     CASE s = "not_started" -> {"running", "failed", "cancelled"}
       [] s = "running"     -> {"completed", "failed", "cancelled"}
       [] OTHER             -> {}]

\* CompositeStatus.DisplayStatus: execution wins once it left not_started.
DisplayStatus(dispatch, execution) ==
  IF execution = "not_started" THEN dispatch ELSE execution

\* statusToSubFields: the one pair of sub-states that the list, count and
\* stats queries look for when they are asked for a display status.
StatusToSubFields(status) ==
  IF status \in DispatchStatuses
  THEN [dispatch |-> status, execution |-> "not_started"]
  ELSE [dispatch |-> "dispatched", execution |-> status]
=============================================================================
