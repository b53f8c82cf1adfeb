------------------------------ MODULE MCQueries ------------------------------
(* Model values for the multi-query readers. *)
EXTENDS JobQueries

ThreeJobs == 1..3
TwoTimes == 1..2
AllOrSome == {{}, {"pending_dispatch", "dispatch_failed"}}
Pages == {0, 1, 2}
=============================================================================
