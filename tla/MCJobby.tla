------------------------------- MODULE MCJobby -------------------------------
(* Model values for the composed system. *)
EXTENDS Jobby, TLC

OneJob == {1}
Poll == {"poll"}
StreamAndPoll == {"stream", "poll"}
NoCalls == {}
Cancel == {"cancel"}
CancelAndFail == {"cancel", "fail"}
FailAndRetry == {"fail", "retry"}
=============================================================================
