-------------------------- MODULE MCExecutorProcess --------------------------
(* Model values for the executor process. *)
EXTENDS ExecutorProcess, TLC

TwoJobs == {1, 2}
OneJob == {1}
=============================================================================
