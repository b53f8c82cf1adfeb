------------------------------ MODULE MCExecutor ------------------------------
(* Model values for the executors on their own. *)
EXTENDS Executor, TLC

TwoJobs == {1, 2}
OneJob == {1}

Symmetry == Permutations(Workers)
=============================================================================
