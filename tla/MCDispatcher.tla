----------------------------- MODULE MCDispatcher -----------------------------
(* Model values for the dispatcher on its own. *)
EXTENDS Dispatcher

OneJob == {1}
TwoJobs == {1, 2}
Poll == {"poll"}
StreamAndPoll == {"stream", "poll"}
=============================================================================
