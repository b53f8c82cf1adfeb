----------------------------- MODULE JobQueries -----------------------------
(***************************************************************************)
(* The readers of job_metadata that need more than one query: a client     *)
(* that pages through ListJobs with limit and skip, and GetJobStats, which *)
(* counts the seven statuses one after another.  No query sees a snapshot  *)
(* of the previous one: jobs are created and move between two queries.     *)
(*                                                                         *)
(* The other processes are the writes of JobStore, each on any job at any  *)
(* time: more than Dispatcher, Executor and JobApi would do, because their *)
(* checks on documents read earlier are left out.  One reader is at work   *)
(* at a time; readers do not influence each other.                         *)
(***************************************************************************)
EXTENDS JobStore, Integers, SequencesExt

CONSTANTS
  Writes,    \* the writes that the other processes make, of WriteNames
  Filters,   \* sets of display statuses that the client asks for, {} for all
  Limits,    \* page sizes that the client asks for, 0 for no limit
  Times      \* createdAt values; two jobs may share one

WriteNames ==
  {"markDispatched", "markDispatchFailed", "markRunning", "complete", "fail", "cancel", "retry"}

ASSUME JobQueriesAssumption ==
  /\ IsFiniteSet(Jobs)
  /\ Writes \subseteq WriteNames
  /\ Filters \subseteq SUBSET JobStatuses
  /\ Limits \subseteq Int
  /\ Times \subseteq Nat

VARIABLES
  createdAt,   \* set by the creating server before its insert, hence not in
               \* the order of the inserts
  listing,     \* the pages fetched so far
  stats,       \* the counts of the GetJobStats call under way
  \* History: what happened meanwhile, read by properties only.
  shift,
  watch

queryVars == <<jobs, faults, createdAt, listing, stats, shift, watch>>

-----------------------------------------------------------------------------
SubFields(d) == [dispatch |-> d.dispatchStatus, execution |-> d.executionStatus]

(* buildListQuery: no statuses, no condition; otherwise one pair of         *)
(* sub-states for each status.                                             *)
MatchingIn(docs, statuses) ==
  {j \in DOMAIN docs :
     statuses = {} \/ \E s \in statuses : SubFields(docs[j]) = StatusToSubFields(s)}

Matching(statuses) == MatchingIn(jobs, statuses)

\* Mutant: the query has no sort.
Unsorted(S, desc) == SetToSeqs(S)

\* The orders in which a query may return S: jobs with the same createdAt
\* come in any order, and in another one the next time.
Sorted(S, desc) ==
  {order \in SetToSeqs(S) :
     \A i, k \in DOMAIN order :
       i < k => IF desc THEN createdAt[order[i]] >= createdAt[order[k]]
                        ELSE createdAt[order[i]] <= createdAt[order[k]]}

\* Limit and skip are ignored unless positive.
Page(order, limit, skip) ==
  LET rest == IF skip > 0 THEN SubSeq(order, skip + 1, Len(order)) ELSE order
  IN IF limit > 0 /\ limit < Len(rest) THEN SubSeq(rest, 1, limit) ELSE rest

-----------------------------------------------------------------------------
\* Mutant: the dispatched jobs are counted before the pending ones.
StatOrderSwapped ==
  <<"dispatched", "pending_dispatch", "dispatch_failed", "running", "completed", "failed", "cancelled">>

StatOrder ==
  <<"pending_dispatch", "dispatched", "dispatch_failed", "running", "completed", "failed", "cancelled">>

Counting == stats.next \in 1..Len(StatOrder)

StatsAnswered == stats.next = Len(StatOrder) + 1

ZeroStats == [next |-> 0, count |-> [s \in JobStatuses |-> 0]]

NoWatch == [listed |-> {}, retried |-> {}, counted |-> {}]

(* The client that lists: one ListJobs request for each page. *)
NoListing ==
  [pc |-> "idle", statuses |-> {}, desc |-> TRUE, limit |-> 0, skip |-> 0, found |-> {}]

NoShift == [steady |-> {}, lost |-> FALSE]

Idle == listing.pc # "page" /\ ~Counting

ListBegin ==
  /\ Idle
  /\ \E statuses \in Filters, desc \in BOOLEAN, limit \in Limits :
       /\ listing' = [pc |-> "page", statuses |-> statuses, desc |-> desc,
                      limit |-> limit, skip |-> 0, found |-> {}]
       /\ shift' = [steady |-> Matching(statuses), lost |-> FALSE]
  /\ stats' = ZeroStats
  /\ watch' = NoWatch
  /\ UNCHANGED <<jobs, faults, createdAt>>

ListPage ==
  /\ listing.pc = "page"
  /\ \E order \in Sorted(Matching(listing.statuses), listing.desc) :
       LET page == Page(order, listing.limit, listing.skip) IN
       listing' = [listing EXCEPT
         !.found = @ \cup ToSet(page),
         !.skip = @ + listing.limit,
         !.pc = IF listing.limit <= 0 \/ Len(page) < listing.limit THEN "done" ELSE "page"]
  /\ UNCHANGED <<jobs, faults, createdAt, stats, shift, watch>>

ListError ==
  /\ listing.pc = "page"
  /\ CallFails
  /\ listing' = NoListing
  /\ UNCHANGED <<createdAt, stats, shift, watch>>

-----------------------------------------------------------------------------
(* GetJobStats. *)

StatsBegin ==
  /\ Idle
  /\ stats' = [ZeroStats EXCEPT !.next = 1]
  /\ watch' = [NoWatch EXCEPT !.listed = Matching(JobStatuses)]
  /\ listing' = NoListing
  /\ shift' = NoShift
  /\ UNCHANGED <<jobs, faults, createdAt>>

CountJobs(s) == Cardinality(Matching({s}))

StatsCount ==
  LET s == StatOrder[stats.next] IN
  /\ Counting
  /\ stats' = [next |-> stats.next + 1, count |-> [stats.count EXCEPT ![s] = CountJobs(s)]]
  /\ watch' = [watch EXCEPT !.counted = @ \cup Matching({s})]
  /\ UNCHANGED <<jobs, faults, createdAt, listing, shift>>

StatsError ==
  /\ Counting
  /\ CallFails
  /\ stats' = ZeroStats
  /\ UNCHANGED <<createdAt, listing, shift, watch>>

-----------------------------------------------------------------------------
(* The other processes. *)
After(write, d) ==
  CASE write = "markDispatched"     -> MarkDispatchedIfPending(d)
    [] write = "markDispatchFailed" -> MarkDispatchFailedIfPending(d)
    [] write = "markRunning"        -> MarkRunningIfDispatched(d)
    [] write = "complete"           -> CompleteIfRunning(d)
    [] write = "fail"               -> FailIfNotTerminal(d)
    [] write = "cancel"             -> CancelPatch(d)
    [] write = "retry"              -> RetryPatch(d)

\* What the readers' histories note of a step of another process.
Noted(retried) ==
  /\ shift' = IF listing.pc = "page"
              THEN LET before == Matching(listing.statuses)
                       after == MatchingIn(jobs', listing.statuses)
                   IN [steady |-> shift.steady \cap after,
                       lost |-> shift.lost \/ ~(before \subseteq after)]
              ELSE shift
  /\ watch' = IF Counting
              THEN [watch EXCEPT !.listed = @ \cap MatchingIn(jobs', JobStatuses),
                                 !.retried = @ \cup retried]
              ELSE watch

JobInserted(j) ==
  /\ j \notin DOMAIN jobs
  /\ jobs' = [k \in DOMAIN jobs \cup {j} |-> IF k = j THEN NewJobMetadata ELSE jobs[k]]
  /\ Noted({})
  /\ UNCHANGED <<faults, createdAt, listing, stats>>

JobMoved(j) ==
  /\ j \in DOMAIN jobs
  /\ \E w \in Writes :
       /\ After(w, jobs[j]) # jobs[j]
       /\ Write(j, After(w, jobs[j]))
       /\ Noted(IF w = "retry" THEN {j} ELSE {})
  /\ UNCHANGED <<createdAt, listing, stats>>

-----------------------------------------------------------------------------
QueryInit ==
  /\ StoreInit
  /\ createdAt \in [Jobs -> Times]
  /\ listing = NoListing
  /\ stats = ZeroStats
  /\ shift = NoShift
  /\ watch = NoWatch

ListStep == ListBegin \/ ListPage \/ ListError

StatsStep == StatsBegin \/ StatsCount \/ StatsError

QueryNext ==
  \/ ListStep
  \/ StatsStep
  \/ \E j \in Jobs : JobInserted(j) \/ JobMoved(j)

QuerySpec == QueryInit /\ [][QueryNext]_queryVars

-----------------------------------------------------------------------------
QueryTypeOK ==
  /\ StoreTypeOK
  /\ createdAt \in [Jobs -> Times]
  /\ listing \in [pc : {"idle", "page", "done"}, statuses : SUBSET JobStatuses,
                  desc : BOOLEAN, limit : Int, skip : Int, found : SUBSET Jobs]
  /\ stats \in [next : 0..Len(StatOrder) + 1, count : [JobStatuses -> Nat]]
  /\ shift \in [steady : SUBSET Jobs, lost : BOOLEAN]
  /\ watch \in [listed : SUBSET Jobs, retried : SUBSET Jobs, counted : SUBSET Jobs]

\* No other job has the createdAt of j: its place in every order is certain.
UniqueTime(j) == \A k \in Jobs \ {j} : createdAt[k] # createdAt[j]

(***************************************************************************)
(* Paging with limit and skip misses nothing that was there all the time:  *)
(* jobs inserted meanwhile, anywhere in the order, only push others to     *)
(* later pages.  Two things can make a job slip between two pages, and the *)
(* property says that nothing else does: a job that leaves the filter, and *)
(* a createdAt shared with another job.                                    *)
(***************************************************************************)
PagesMissNothing ==
  listing.pc = "done" /\ ~shift.lost =>
    \A j \in shift.steady : UniqueTime(j) => j \in listing.found

(***************************************************************************)
(* GetJobStats counts the statuses in the order in which jobs go through   *)
(* them, so a job that moves while it counts may be counted twice, but     *)
(* never left out: whoever could be listed at every moment of the call and *)
(* was not retried is in at least one of the counts, and in Total.         *)
(***************************************************************************)
StatsMissNobody ==
  StatsAnswered => watch.listed \ watch.retried \subseteq watch.counted
=============================================================================
