---------------------------- MODULE MCRetryHistory ----------------------------
(* Model values for the system with retries. *)
EXTENDS RetryHistory, TLC

OneJob == {1}
Poll == {"poll"}
StreamAndPoll == {"stream", "poll"}
FailAndRetry == {"fail", "retry"}
AllCalls == {"cancel", "fail", "retry"}

\* What steps and the refinements read: history without them is left out.
ReadVars ==
  <<jobs, faults, queue, streamVars, fetched, call, outages, pubErrors, worker, kills, client, retryVars>>

Symmetry == Permutations(Workers) \cup Permutations(Clients)
=============================================================================
