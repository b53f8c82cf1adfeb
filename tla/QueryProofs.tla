----------------------------- MODULE QueryProofs -----------------------------
(***************************************************************************)
(* Theorems about the readers, for every set of jobs, every set of writes  *)
(* that go on meanwhile and every page size: GetJobStats leaves nobody     *)
(* out, paging with limit and skip misses nobody who stayed, and the types *)
(* of what the readers keep.                                               *)
(***************************************************************************)
EXTENDS JobQueries, JobStoreProofs, FiniteSetTheorems, SequenceTheorems

(***************************************************************************)
(* StatsMissNobody speaks of the answer only.  While the call counts, a    *)
(* job it has not met yet must still be ahead of it: the place of its      *)
(* status in StatOrder, its rank, is not below the next status to count.   *)
(* Every write but the retry raises the rank or keeps it.                  *)
(***************************************************************************)
Rank(d) ==
  IF d.executionStatus = "not_started"
  THEN IF d.dispatchStatus = "pending_dispatch" THEN 1
       ELSE IF d.dispatchStatus = "dispatched" THEN 2 ELSE 3
  ELSE IF d.executionStatus = "running" THEN 4
       ELSE IF d.executionStatus = "completed" THEN 5
       ELSE IF d.executionStatus = "failed" THEN 6 ELSE 7

Listable(d) == \E s \in JobStatuses : SubFields(d) = StatusToSubFields(s)

StillAhead ==
  \A j \in watch.listed \ watch.retried :
    /\ j \in DOMAIN jobs
    /\ Listable(jobs[j])
    /\ j \in watch.counted \/ Rank(jobs[j]) >= stats.next

StatsInv ==
  /\ StoreTypeOK
  /\ stats.next \in 0..8
  /\ Counting => StillAhead
  /\ StatsMissNobody

-----------------------------------------------------------------------------
LEMMA StatOrderLength == Len(StatOrder) = 7
  BY DEF StatOrder

(* A listable document of rank n is found by the n-th count. *)
LEMMA RankIsPlace ==
  ASSUME NEW d \in Document, Listable(d)
  PROVE  /\ Rank(d) \in 1..7
         /\ SubFields(d) = StatusToSubFields(StatOrder[Rank(d)])
  BY DEF Document, Listable, Rank, SubFields, StatusToSubFields, StatOrder,
         DispatchStatuses, ExecutionStatuses, JobStatuses

(* No write but the retry takes a document to a lower rank. *)
LEMMA RankGrows ==
  ASSUME NEW d \in Document, NEW w \in WriteNames \ {"retry"}
  PROVE  After(w, d) \in Document /\ Rank(After(w, d)) >= Rank(d)
  <1>1. CASE w = "markDispatched"
    <2>1. After(w, d) = MarkDispatchedIfPending(d)
      BY <1>1 DEF After
    <2>2. MarkDispatchedIfPending(d) \in Document
      BY DispatchWritesType
    <2>3. Rank(MarkDispatchedIfPending(d)) >= Rank(d)
      BY DEF Rank, MarkDispatchedIfPending, Document, ExecutionStatuses, DispatchStatuses
    <2> QED BY <2>1, <2>2, <2>3
  <1>2. CASE w = "markDispatchFailed"
    <2>1. After(w, d) = MarkDispatchFailedIfPending(d)
      BY <1>2 DEF After
    <2>2. MarkDispatchFailedIfPending(d) \in Document
      BY DispatchWritesType
    <2>3. Rank(MarkDispatchFailedIfPending(d)) >= Rank(d)
      BY DEF Rank, MarkDispatchFailedIfPending, Document, ExecutionStatuses, DispatchStatuses
    <2> QED BY <2>1, <2>2, <2>3
  <1>3. CASE w = "markRunning"
    <2>1. After(w, d) = MarkRunningIfDispatched(d)
      BY <1>3 DEF After
    <2>2. MarkRunningIfDispatched(d) \in Document
      BY ExecutionWritesType
    <2>3. Rank(MarkRunningIfDispatched(d)) >= Rank(d)
      BY DEF Rank, MarkRunningIfDispatched, Claimable, Document, ExecutionStatuses, DispatchStatuses
    <2> QED BY <2>1, <2>2, <2>3
  <1>4. CASE w = "complete"
    <2>1. After(w, d) = CompleteIfRunning(d)
      BY <1>4 DEF After
    <2>2. CompleteIfRunning(d) \in Document
      BY ExecutionWritesType
    <2>3. Rank(CompleteIfRunning(d)) >= Rank(d)
      BY DEF Rank, CompleteIfRunning, Document, ExecutionStatuses, DispatchStatuses
    <2> QED BY <2>1, <2>2, <2>3
  <1>5. CASE w = "fail"
    <2>1. After(w, d) = FailIfNotTerminal(d)
      BY <1>5 DEF After
    <2>2. FailIfNotTerminal(d) \in Document
      BY ExecutionWritesType
    <2>3. Rank(FailIfNotTerminal(d)) >= Rank(d)
      BY DEF Rank, FailIfNotTerminal, Document, ExecutionStatuses, DispatchStatuses
    <2> QED BY <2>1, <2>2, <2>3
  <1>6. CASE w = "cancel"
    <2>1. After(w, d) = CancelPatch(d)
      BY <1>6 DEF After
    <2>2. CancelPatch(d) \in Document
      BY ApiWritesType
    <2>3. Rank(CancelPatch(d)) >= Rank(d)
      BY DEF Rank, CancelPatch, Document, ExecutionStatuses, DispatchStatuses
    <2> QED BY <2>1, <2>2, <2>3
  <1> QED BY <1>1, <1>2, <1>3, <1>4, <1>5, <1>6 DEF WriteNames

(* The retry, and hence every write, maps documents to documents. *)
LEMMA AfterType ==
  ASSUME NEW d \in Document, NEW w \in WriteNames
  PROVE  After(w, d) \in Document
  <1>1. CASE w = "retry"
    <2>1. After(w, d) = RetryPatch(d)
      BY <1>1 DEF After
    <2> QED BY <2>1, ApiWritesType
  <1> QED BY <1>1, RankGrows

(* A query for some statuses returns stored jobs; for all of them, those   *)
(* that are listable.                                                      *)
LEMMA MatchingListable ==
  ASSUME NEW docs
  PROVE  \A j \in MatchingIn(docs, JobStatuses) : j \in DOMAIN docs /\ Listable(docs[j])
  BY DEF MatchingIn, Listable, JobStatuses, DispatchStatuses

-----------------------------------------------------------------------------
LEMMA InitStats == QueryInit => StatsInv
  BY StatOrderLength, JobStoreAssumption
  DEF QueryInit, StatsInv, StoreInit, StoreTypeOK, ZeroStats, Counting, StatsAnswered, StatsMissNobody

(* The call begins: every listed job is ahead of the first count. *)
LEMMA BeginStats ==
  ASSUME StatsInv, StatsBegin
  PROVE  StatsInv'
  <1>1. StoreTypeOK'
    BY DEF StatsInv, StatsBegin, StoreTypeOK
  <1>2. stats'.next = 1 /\ jobs' = jobs
    BY DEF StatsBegin, ZeroStats
  <1>3. /\ watch'.listed = MatchingIn(jobs, JobStatuses)
        /\ watch'.retried = {}
        /\ watch'.counted = {}
    BY DEF StatsBegin, Matching, NoWatch
  <1>4. StillAhead'
    <2> SUFFICES ASSUME NEW j \in MatchingIn(jobs, JobStatuses)
                 PROVE  /\ j \in DOMAIN jobs
                        /\ Listable(jobs[j])
                        /\ Rank(jobs[j]) >= 1
      BY <1>2, <1>3 DEF StillAhead
    <2>1. j \in DOMAIN jobs /\ Listable(jobs[j])
      BY MatchingListable
    <2>2. jobs[j] \in Document
      BY <2>1 DEF StatsInv, StoreTypeOK
    <2> QED BY <2>1, <2>2, RankIsPlace
  <1>5. ~StatsAnswered'
    BY <1>2, StatOrderLength DEF StatsAnswered
  <1> QED BY <1>1, <1>2, <1>4, <1>5 DEF StatsInv, StatsMissNobody

(* The n-th count meets every listed job of rank n. *)
LEMMA CountStats ==
  ASSUME StatsInv, StatsCount
  PROVE  StatsInv'
  <1> DEFINE n == stats.next
             s == StatOrder[n]
  <1>1. n \in 1..7 /\ StillAhead
    BY StatOrderLength DEF StatsCount, Counting, StatsInv
  <1>2. stats'.next = n + 1 /\ jobs' = jobs
    BY DEF StatsCount
  <1>3. /\ watch'.listed = watch.listed
        /\ watch'.retried = watch.retried
        /\ watch'.counted = watch.counted \cup MatchingIn(jobs, {s})
    BY DEF StatsCount, Matching
  <1>4. ASSUME NEW j \in watch.listed \ watch.retried
        PROVE  /\ j \in DOMAIN jobs
               /\ Listable(jobs[j])
               /\ Rank(jobs[j]) \in 1..7
               /\ j \in watch'.counted \/ Rank(jobs[j]) >= n + 1
    <2>1. /\ j \in DOMAIN jobs
          /\ Listable(jobs[j])
          /\ j \in watch.counted \/ Rank(jobs[j]) >= n
      BY <1>1 DEF StillAhead
    <2>2. jobs[j] \in Document
      BY <2>1 DEF StatsInv, StoreTypeOK
    <2>3. Rank(jobs[j]) \in 1..7 /\ SubFields(jobs[j]) = StatusToSubFields(StatOrder[Rank(jobs[j])])
      BY <2>1, <2>2, RankIsPlace
    <2>4. CASE j \in watch.counted
      BY <2>1, <2>3, <2>4, <1>3
    <2>5. CASE Rank(jobs[j]) = n
      <3>1. j \in MatchingIn(jobs, {s})
        BY <2>1, <2>3, <2>5 DEF MatchingIn
      <3> QED BY <3>1, <2>1, <2>3, <1>3
    <2>6. CASE Rank(jobs[j]) >= n + 1
      BY <2>1, <2>3, <2>6
    <2> QED BY <2>1, <2>3, <2>4, <2>5, <2>6, <1>1
  <1>5. StillAhead'
    BY <1>2, <1>3, <1>4 DEF StillAhead
  <1>6. StatsMissNobody'
    <2> SUFFICES ASSUME n + 1 = 8, NEW j \in watch.listed \ watch.retried
                 PROVE  j \in watch'.counted
      BY <1>2, <1>3, StatOrderLength DEF StatsMissNobody, StatsAnswered
    <2> QED BY <1>1, <1>4
  <1>7. StoreTypeOK'
    BY DEF StatsInv, StatsCount, StoreTypeOK
  <1> QED BY <1>1, <1>2, <1>5, <1>6, <1>7 DEF StatsInv

(* A failed count ends the call without an answer. *)
LEMMA ErrorStats ==
  ASSUME StatsInv, StatsError
  PROVE  StatsInv'
  <1>1. StoreTypeOK'
    BY CallFailsType DEF StatsInv, StatsError
  <1>2. stats'.next = 0
    BY DEF StatsError, ZeroStats
  <1> QED BY <1>1, <1>2, StatOrderLength
          DEF StatsInv, Counting, StatsAnswered, StatsMissNobody

(* A listing takes the place of an answered call, or leaves it alone. *)
LEMMA ListStats ==
  ASSUME StatsInv, ListStep
  PROVE  StatsInv'
  <1>1. StoreTypeOK'
    BY CallFailsType DEF StatsInv, StoreTypeOK, ListStep, ListBegin, ListPage, ListError
  <1>2. CASE ListBegin
    <2>1. stats'.next = 0
      BY <1>2 DEF ListBegin, ZeroStats
    <2> QED BY <1>1, <2>1, StatOrderLength DEF StatsInv, Counting, StatsAnswered, StatsMissNobody
  <1>3. CASE ListPage \/ ListError
    <2>1. stats' = stats /\ watch' = watch /\ jobs' = jobs
      BY <1>3 DEF ListPage, ListError, CallFails
    <2> QED BY <1>1, <2>1
            DEF StatsInv, Counting, StillAhead, StatsAnswered, StatsMissNobody
  <1> QED BY <1>2, <1>3 DEF ListStep

(* What the history of a GetJobStats call notes of another process.        *)
LEMMA NotedWatch ==
  ASSUME StatsInv, NEW retried, Noted(retried), UNCHANGED stats, StoreTypeOK',
         \A j \in DOMAIN jobs \ retried :
           j \in DOMAIN jobs' /\ Rank(jobs'[j]) >= Rank(jobs[j])
  PROVE  StatsInv'
  <1>1. CASE Counting
    <2>1. /\ watch'.listed = watch.listed \cap MatchingIn(jobs', JobStatuses)
          /\ watch'.retried = watch.retried \cup retried
          /\ watch'.counted = watch.counted
      BY <1>1 DEF Noted
    <2>2. StillAhead'
      <3> SUFFICES ASSUME NEW j \in watch'.listed \ watch'.retried
                   PROVE  /\ j \in DOMAIN jobs'
                          /\ Listable(jobs'[j])
                          /\ j \in watch'.counted \/ Rank(jobs'[j]) >= stats.next
        BY DEF StillAhead
      <3>1. j \in DOMAIN jobs' /\ Listable(jobs'[j])
        BY <2>1, MatchingListable
      <3>2. /\ j \in DOMAIN jobs
            /\ Listable(jobs[j])
            /\ j \in watch.counted \/ Rank(jobs[j]) >= stats.next
        BY <1>1, <2>1 DEF StatsInv, StillAhead
      <3>3. Rank(jobs'[j]) >= Rank(jobs[j])
        BY <2>1, <3>2
      <3>4. Rank(jobs[j]) \in 1..7 /\ Rank(jobs'[j]) \in 1..7
        BY <3>1, <3>2, RankIsPlace DEF StatsInv, StoreTypeOK
      <3> QED BY <2>1, <3>1, <3>2, <3>3, <3>4 DEF StatsInv
    <2> QED BY <1>1, <2>2, StatOrderLength
            DEF StatsInv, Counting, StatsAnswered, StatsMissNobody
  <1>2. CASE ~Counting
    <2>1. watch' = watch
      BY <1>2 DEF Noted
    <2> QED BY <1>2, <2>1 DEF StatsInv, Counting, StatsAnswered, StatsMissNobody
  <1> QED BY <1>1, <1>2

LEMMA InsertStats ==
  ASSUME StatsInv, NEW j \in Jobs, JobInserted(j)
  PROVE  StatsInv'
  <1>1. jobs' = [k \in DOMAIN jobs \cup {j} |-> IF k = j THEN NewJobMetadata ELSE jobs[k]]
    BY DEF JobInserted
  <1>2. StoreTypeOK'
    BY <1>1, NewJobMetadataType DEF StatsInv, JobInserted, StoreTypeOK
  <1>3. \A k \in DOMAIN jobs : k \in DOMAIN jobs' /\ jobs'[k] = jobs[k]
    BY <1>1 DEF JobInserted
  <1>4. \A k \in DOMAIN jobs : Rank(jobs[k]) >= Rank(jobs[k])
    BY DEF Rank
  <1> QED BY <1>2, <1>3, <1>4, NotedWatch DEF JobInserted

LEMMA MoveStats ==
  ASSUME StatsInv, NEW j \in Jobs, JobMoved(j)
  PROVE  StatsInv'
  <1>1. j \in DOMAIN jobs /\ jobs[j] \in Document /\ UNCHANGED stats
    BY DEF JobMoved, StatsInv, StoreTypeOK
  <1>2. PICK w \in Writes : /\ Write(j, After(w, jobs[j]))
                            /\ Noted(IF w = "retry" THEN {j} ELSE {})
    BY DEF JobMoved
  <1>3. w \in WriteNames
    BY JobQueriesAssumption
  <1>4. StoreTypeOK' /\ DOMAIN jobs' = DOMAIN jobs
    BY <1>1, <1>2, <1>3, AfterType, WriteType DEF StatsInv
  <1>5. jobs' = [jobs EXCEPT ![j] = After(w, jobs[j])]
    BY <1>2 DEF Write
  <1>6. \A k \in DOMAIN jobs : Rank(jobs[k]) >= Rank(jobs[k])
    BY DEF Rank
  <1>7. CASE w = "retry"
    <2>1. \A k \in DOMAIN jobs \ {j} : Rank(jobs'[k]) >= Rank(jobs[k])
      BY <1>5, <1>6 DEF StatsInv, StoreTypeOK
    <2> QED BY <1>1, <1>2, <1>4, <1>7, <2>1, NotedWatch
  <1>8. CASE w # "retry"
    <2>1. Rank(After(w, jobs[j])) >= Rank(jobs[j])
      BY <1>1, <1>3, <1>8, RankGrows
    <2>2. \A k \in DOMAIN jobs \ {} : Rank(jobs'[k]) >= Rank(jobs[k])
      BY <1>5, <1>6, <2>1 DEF StatsInv, StoreTypeOK
    <2> QED BY <1>1, <1>2, <1>4, <1>8, <2>2, NotedWatch
  <1> QED BY <1>7, <1>8

(***************************************************************************)
(* GetJobStats leaves out no job that stayed listable and was not retried, *)
(* for any number of jobs and whatever the other processes write.          *)
(***************************************************************************)
THEOREM StatsCorrect == QuerySpec => []StatsMissNobody
  <1>1. StatsInv /\ [QueryNext]_queryVars => StatsInv'
    <2> SUFFICES ASSUME StatsInv, [QueryNext]_queryVars
                 PROVE  StatsInv'
      OBVIOUS
    <2>1. CASE ListStep
      BY <2>1, ListStats
    <2>2. CASE StatsStep
      BY <2>2, BeginStats, CountStats, ErrorStats DEF StatsStep
    <2>3. ASSUME NEW j \in Jobs, JobInserted(j) \/ JobMoved(j)
          PROVE  StatsInv'
      BY <2>3, InsertStats, MoveStats
    <2>4. CASE UNCHANGED queryVars
      BY <2>4 DEF queryVars, StatsInv, StoreTypeOK, Counting, StillAhead, StatsAnswered,
                  StatsMissNobody
    <2> QED BY <2>1, <2>2, <2>3, <2>4 DEF QueryNext
  <1>2. StatsInv => StatsMissNobody
    BY DEF StatsInv
  <1> QED BY <1>1, <1>2, InitStats, PTL DEF QuerySpec

-----------------------------------------------------------------------------
(* A query returns stored jobs, and finitely many.                         *)
LEMMA MatchingFinite ==
  ASSUME StoreTypeOK, NEW docs, DOMAIN docs \subseteq Jobs, NEW statuses
  PROVE  /\ MatchingIn(docs, statuses) \subseteq Jobs
         /\ Cardinality(MatchingIn(docs, statuses)) \in Nat
  <1>1. MatchingIn(docs, statuses) \subseteq Jobs
    BY DEF MatchingIn
  <1>2. IsFiniteSet(Jobs)
    BY JobQueriesAssumption
  <1>3. IsFiniteSet(MatchingIn(docs, statuses))
    BY <1>1, <1>2, FS_Subset
  <1> QED BY <1>1, <1>3, FS_CardinalityType

(* A page holds jobs of the order that it was cut from.                    *)
LEMMA PageHoldsJobs ==
  ASSUME NEW S, Cardinality(S) \in Nat, NEW order \in SetToSeqs(S), NEW limit \in Int, NEW skip \in Int
  PROVE  ToSet(Page(order, limit, skip)) \subseteq S
  <1>1. order \in Seq(S)
    BY DEF SetToSeqs
  <1> DEFINE rest == IF skip > 0 THEN SubSeq(order, skip + 1, Len(order)) ELSE order
  <1>2. rest \in Seq(S)
    BY <1>1
  <1> HIDE DEF rest
  <1>3. (IF limit > 0 /\ limit < Len(rest) THEN SubSeq(rest, 1, limit) ELSE rest) \in Seq(S)
    BY <1>2
  <1>4. Page(order, limit, skip) \in Seq(S)
    BY <1>3 DEF Page, rest
  <1> QED BY <1>4 DEF ToSet

(* What the lister does is well typed. *)
LEMMA ListType ==
  ASSUME QueryTypeOK, ListStep
  PROVE  QueryTypeOK'
  <1>1. StoreTypeOK' /\ jobs' = jobs /\ createdAt' \in [Jobs -> Times]
    BY CallFailsType DEF QueryTypeOK, StoreTypeOK, ListStep, ListBegin, ListPage, ListError, CallFails
  <1>2. \A statuses : MatchingIn(jobs, statuses) \subseteq Jobs /\ Cardinality(MatchingIn(jobs, statuses)) \in Nat
    BY MatchingFinite DEF QueryTypeOK, StoreTypeOK
  <1>3. CASE ListBegin
    <2>1. PICK statuses \in Filters, desc \in BOOLEAN, limit \in Limits :
            /\ listing' = [pc |-> "page", statuses |-> statuses, desc |-> desc,
                           limit |-> limit, skip |-> 0, found |-> {}]
            /\ shift' = [steady |-> MatchingIn(jobs, statuses), lost |-> FALSE]
      BY <1>3 DEF ListBegin, Matching
    <2>2. statuses \in SUBSET JobStatuses /\ limit \in Int
      BY JobQueriesAssumption
    <2>3. stats' = ZeroStats /\ watch' = NoWatch
      BY <1>3 DEF ListBegin
    <2> QED BY <1>1, <1>2, <2>1, <2>2, <2>3, StatOrderLength DEF QueryTypeOK, ZeroStats, NoWatch
  <1>4. CASE ListPage
    <2>1. PICK order \in Sorted(MatchingIn(jobs, listing.statuses), listing.desc) :
            LET page == Page(order, listing.limit, listing.skip) IN
            listing' = [listing EXCEPT
              !.found = @ \cup ToSet(page),
              !.skip = @ + listing.limit,
              !.pc = IF listing.limit <= 0 \/ Len(page) < listing.limit THEN "done" ELSE "page"]
      BY <1>4 DEF ListPage, Matching
    <2>2. /\ listing \in [pc : {"idle", "page", "done"}, statuses : SUBSET JobStatuses,
                          desc : BOOLEAN, limit : Int, skip : Int, found : SUBSET Jobs]
          /\ listing.limit \in Int /\ listing.skip \in Int
      BY DEF QueryTypeOK
    <2>3. order \in SetToSeqs(MatchingIn(jobs, listing.statuses))
      BY <2>1 DEF Sorted
    <2>4. ToSet(Page(order, listing.limit, listing.skip)) \subseteq Jobs
      BY <1>2, <2>2, <2>3, PageHoldsJobs
    <2>5. PICK pc \in {"done", "page"}, found \in SUBSET Jobs, skip \in Int :
            listing' = [listing EXCEPT !.found = found, !.skip = skip, !.pc = pc]
      <3>1. listing.found \cup ToSet(Page(order, listing.limit, listing.skip)) \in SUBSET Jobs
        BY <2>2, <2>4
      <3>2. listing.skip + listing.limit \in Int
        BY <2>2
      <3> QED BY <2>1, <3>1, <3>2
    <2>6. listing' \in [pc : {"idle", "page", "done"}, statuses : SUBSET JobStatuses,
                        desc : BOOLEAN, limit : Int, skip : Int, found : SUBSET Jobs]
      BY <2>2, <2>5
    <2> QED BY <1>1, <1>4, <2>6 DEF QueryTypeOK, ListPage
  <1>5. CASE ListError
    BY <1>1, <1>5 DEF QueryTypeOK, ListError, NoListing
  <1> QED BY <1>3, <1>4, <1>5 DEF ListStep

(* And so is what GetJobStats does. *)
LEMMA StatsType ==
  ASSUME QueryTypeOK, StatsStep
  PROVE  QueryTypeOK'
  <1>1. StoreTypeOK' /\ jobs' = jobs /\ createdAt' \in [Jobs -> Times]
    BY CallFailsType DEF QueryTypeOK, StoreTypeOK, StatsStep, StatsBegin, StatsCount, StatsError, CallFails
  <1>2. \A statuses : MatchingIn(jobs, statuses) \subseteq Jobs /\ Cardinality(MatchingIn(jobs, statuses)) \in Nat
    BY MatchingFinite DEF QueryTypeOK, StoreTypeOK
  <1>3. CASE StatsBegin
    <2>1. /\ stats' = [ZeroStats EXCEPT !.next = 1]
          /\ watch' = [NoWatch EXCEPT !.listed = MatchingIn(jobs, JobStatuses)]
          /\ listing' = NoListing /\ shift' = NoShift
      BY <1>3 DEF StatsBegin, Matching
    <2>2. stats' \in [next : 0..Len(StatOrder) + 1, count : [JobStatuses -> Nat]]
      <3>1. ZeroStats \in [next : 0..Len(StatOrder) + 1, count : [JobStatuses -> Nat]]
        BY StatOrderLength DEF ZeroStats
      <3> QED BY <2>1, <3>1, StatOrderLength
    <2>3. watch' \in [listed : SUBSET Jobs, retried : SUBSET Jobs, counted : SUBSET Jobs]
      BY <1>2, <2>1 DEF NoWatch
    <2>4. /\ NoListing \in [pc : {"idle", "page", "done"}, statuses : SUBSET JobStatuses,
                            desc : BOOLEAN, limit : Int, skip : Int, found : SUBSET Jobs]
          /\ NoShift \in [steady : SUBSET Jobs, lost : BOOLEAN]
      BY DEF NoListing, NoShift
    <2> QED BY <1>1, <2>1, <2>2, <2>3, <2>4 DEF QueryTypeOK
  <1>4. CASE StatsCount
    <2> DEFINE s == StatOrder[stats.next]
    <2>1. /\ stats' = [next |-> stats.next + 1,
                       count |-> [stats.count EXCEPT ![s] = Cardinality(MatchingIn(jobs, {s}))]]
          /\ watch' = [watch EXCEPT !.counted = @ \cup MatchingIn(jobs, {s})]
          /\ UNCHANGED <<listing, shift>>
          /\ stats.next \in 1..7
      BY <1>4, StatOrderLength DEF StatsCount, Counting, CountJobs, Matching
    <2> HIDE DEF s
    <2>2. Cardinality(MatchingIn(jobs, {s})) \in Nat
      BY <1>2
    <2>3. stats.count \in [JobStatuses -> Nat]
      BY DEF QueryTypeOK
    <2>4. [stats.count EXCEPT ![s] = Cardinality(MatchingIn(jobs, {s}))] \in [JobStatuses -> Nat]
      BY <2>2, <2>3
    <2>5. stats.next + 1 \in 0..Len(StatOrder) + 1
      BY <2>1, StatOrderLength
    <2>6. stats' \in [next : 0..Len(StatOrder) + 1, count : [JobStatuses -> Nat]]
      BY <2>1, <2>4, <2>5
    <2>7. watch' \in [listed : SUBSET Jobs, retried : SUBSET Jobs, counted : SUBSET Jobs]
      BY <1>2, <2>1 DEF QueryTypeOK
    <2> QED BY <1>1, <2>1, <2>6, <2>7 DEF QueryTypeOK
  <1>5. CASE StatsError
    BY <1>1, <1>5, StatOrderLength DEF QueryTypeOK, StatsError, ZeroStats
  <1> QED BY <1>3, <1>4, <1>5 DEF StatsStep

(* The histories, too, when another process writes. *)
LEMMA NotedType ==
  ASSUME QueryTypeOK, NEW retried \in SUBSET Jobs, Noted(retried), StoreTypeOK',
         UNCHANGED <<createdAt, listing, stats>>
  PROVE  QueryTypeOK'
  <1>1. \A statuses : MatchingIn(jobs', statuses) \subseteq Jobs
    BY DEF StoreTypeOK, MatchingIn
  <1>2. shift' \in [steady : SUBSET Jobs, lost : BOOLEAN]
    BY <1>1 DEF QueryTypeOK, Noted
  <1>3. watch' \in [listed : SUBSET Jobs, retried : SUBSET Jobs, counted : SUBSET Jobs]
    BY <1>1 DEF QueryTypeOK, Noted
  <1> QED BY <1>2, <1>3 DEF QueryTypeOK

(***************************************************************************)
(* Type correctness: the counts are numbers, whatever the pages held are   *)
(* jobs, and no document becomes anything but a document.                  *)
(***************************************************************************)
THEOREM QueryTypeCorrect == QuerySpec => []QueryTypeOK
  <1>1. ASSUME QueryInit
        PROVE  QueryTypeOK
    BY <1>1, InitStats, StatOrderLength
    DEF StatsInv, QueryInit, QueryTypeOK, NoListing, ZeroStats, NoShift, NoWatch
  <1>2. ASSUME QueryTypeOK, [QueryNext]_queryVars
        PROVE  QueryTypeOK'
    <2>1. CASE ListStep \/ StatsStep
      BY <1>2, <2>1, ListType, StatsType
    <2>2. ASSUME NEW j \in Jobs, JobInserted(j)
          PROVE  QueryTypeOK'
      <3>1. StoreTypeOK'
        BY <1>2, <2>2, NewJobMetadataType DEF QueryTypeOK, JobInserted, StoreTypeOK
      <3> QED BY <1>2, <2>2, <3>1, NotedType DEF JobInserted
    <2>3. ASSUME NEW j \in Jobs, JobMoved(j)
          PROVE  QueryTypeOK'
      <3>1. PICK w \in Writes : /\ Write(j, After(w, jobs[j]))
                                /\ Noted(IF w = "retry" THEN {j} ELSE {})
        BY <2>3 DEF JobMoved
      <3>2. j \in DOMAIN jobs /\ jobs[j] \in Document /\ w \in WriteNames
        BY <1>2, <2>3, JobQueriesAssumption DEF JobMoved, QueryTypeOK, StoreTypeOK
      <3>3. StoreTypeOK'
        BY <1>2, <3>1, <3>2, AfterType, WriteType DEF QueryTypeOK
      <3>4. CASE w = "retry"
        BY <1>2, <2>3, <3>1, <3>3, <3>4, NotedType DEF JobMoved
      <3>5. CASE w # "retry"
        BY <1>2, <2>3, <3>1, <3>3, <3>5, NotedType DEF JobMoved
      <3> QED BY <3>4, <3>5
    <2>4. CASE UNCHANGED queryVars
      BY <1>2, <2>4 DEF queryVars, QueryTypeOK, StoreTypeOK
    <2> QED BY <1>2, <2>1, <2>2, <2>3, <2>4 DEF QueryNext
  <1> QED BY <1>1, <1>2, PTL DEF QuerySpec

-----------------------------------------------------------------------------
(***************************************************************************)
(* Paging.  The place of a job whose createdAt is its own is the same in   *)
(* every order that a query may return: one behind the jobs ahead of it.   *)
(***************************************************************************)
AheadOf(j, S, desc) ==
  {k \in S \ {j} : IF desc THEN createdAt[k] > createdAt[j] ELSE createdAt[k] < createdAt[j]}

(* A steady job not found yet is at or behind the skip of the next page.   *)
NotSkipped ==
  listing.pc = "page" /\ ~shift.lost =>
    \A j \in shift.steady :
      /\ j \in Matching(listing.statuses)
      /\ UniqueTime(j) =>
           \/ j \in listing.found
           \/ Cardinality(AheadOf(j, Matching(listing.statuses), listing.desc)) >= listing.skip

PagesInv ==
  /\ QueryTypeOK
  /\ listing.pc = "page" => listing.skip >= 0
  /\ NotSkipped
  /\ PagesMissNothing

(* An order of a finite set holds all of it.                               *)
LEMMA OrderOntoSet ==
  ASSUME NEW S, IsFiniteSet(S), NEW order \in SetToSeqs(S)
  PROVE  /\ order \in [1..Cardinality(S) -> S]
         /\ \A i, k \in 1..Cardinality(S) : i # k => order[i] # order[k]
         /\ \A j \in S : \E i \in 1..Cardinality(S) : order[i] = j
         /\ order \in Seq(S) /\ Len(order) = Cardinality(S)
  <1> DEFINE n == Cardinality(S)
  <1>1. n \in Nat
    BY FS_CardinalityType
  <1>2. order \in [1..n -> S] /\ \A i, k \in 1..n : i # k => order[i] # order[k]
    BY DEF SetToSeqs
  <1>3. order \in Injection(1..n, S)
    BY <1>2 DEF Injection, IsInjective
  <1>4. IsFiniteSet(1..n) /\ Cardinality(1..n) = n
    BY <1>1, FS_Interval
  <1>5. order \in Surjection(1..n, S)
    BY <1>3, <1>4, FS_Injection
  <1>6. \A j \in S : \E i \in 1..n : order[i] = j
    BY <1>5 DEF Surjection
  <1>7. order \in Seq(S) /\ Len(order) = n
    BY <1>1, <1>2
  <1> QED BY <1>2, <1>6, <1>7

LEMMA PlaceOfUnique ==
  ASSUME QueryTypeOK, NEW S \in SUBSET Jobs, NEW desc, NEW order \in Sorted(S, desc),
         NEW j \in S, UniqueTime(j)
  PROVE  /\ order \in Seq(S)
         /\ Cardinality(AheadOf(j, S, desc)) \in Nat
         /\ Cardinality(AheadOf(j, S, desc)) + 1 \in 1..Len(order)
         /\ order[Cardinality(AheadOf(j, S, desc)) + 1] = j
  <1> DEFINE n == Cardinality(S)
             A == AheadOf(j, S, desc)
  <1>1. IsFiniteSet(S) /\ n \in Nat
    BY FS_Subset, FS_CardinalityType, JobQueriesAssumption
  <1>2. /\ order \in [1..n -> S]
        /\ \A i, k \in 1..n : i # k => order[i] # order[k]
        /\ \A k \in S : \E i \in 1..n : order[i] = k
        /\ order \in Seq(S) /\ Len(order) = n
    BY <1>1, OrderOntoSet DEF Sorted
  <1>3. \A k \in Jobs : createdAt[k] \in Nat
    BY JobQueriesAssumption DEF QueryTypeOK
  <1>4. \A i, k \in 1..n : i < k =>
          IF desc THEN createdAt[order[i]] >= createdAt[order[k]]
                  ELSE createdAt[order[i]] <= createdAt[order[k]]
    BY <1>2 DEF Sorted
  <1>5. PICK i \in 1..n : order[i] = j
    BY <1>2
  <1>6. \A k \in 1..(i - 1) : order[k] \in A
    <2> SUFFICES ASSUME NEW k \in 1..(i - 1)
                 PROVE  order[k] \in A
      OBVIOUS
    <2>1. k \in 1..n /\ k < i
      BY <1>1, <1>5
    <2>2. order[k] \in S /\ order[k] # j
      BY <1>2, <1>5, <2>1
    <2>3. createdAt[order[k]] # createdAt[j]
      BY <2>2 DEF UniqueTime
    <2>4. createdAt[order[k]] \in Nat /\ createdAt[j] \in Nat
      BY <1>3, <2>2
    <2>5. IF desc THEN createdAt[order[k]] >= createdAt[j] ELSE createdAt[order[k]] <= createdAt[j]
      BY <1>4, <1>5, <2>1
    <2> QED BY <2>2, <2>3, <2>4, <2>5 DEF AheadOf
  <1>7. \A a \in A : \E k \in 1..(i - 1) : order[k] = a
    <2> SUFFICES ASSUME NEW a \in A
                 PROVE  \E k \in 1..(i - 1) : order[k] = a
      OBVIOUS
    <2>1. /\ a \in S /\ a # j
          /\ IF desc THEN createdAt[a] > createdAt[j] ELSE createdAt[a] < createdAt[j]
      BY DEF AheadOf
    <2>2. PICK k \in 1..n : order[k] = a
      BY <1>2, <2>1
    <2>3. k # i
      BY <1>5, <2>1, <2>2
    <2>4. createdAt[a] \in Nat /\ createdAt[j] \in Nat
      BY <1>3, <2>1
    <2>5. ~(i < k)
      BY <1>4, <1>5, <2>1, <2>2, <2>4
    <2> QED BY <1>1, <1>5, <2>2, <2>3, <2>5
  <1>8. Cardinality(A) = i - 1
    <2> DEFINE f == [k \in 1..(i - 1) |-> order[k]]
    <2>1. i - 1 \in Nat /\ \A k \in 1..(i - 1) : k \in 1..n
      BY <1>1, <1>5
    <2>2. f \in [1..(i - 1) -> A] /\ \A k \in 1..(i - 1) : f[k] = order[k]
      BY <1>6
    <2> HIDE DEF A, f
    <2>3. f \in Injection(1..(i - 1), A)
      BY <1>2, <2>1, <2>2 DEF Injection, IsInjective
    <2>4. f \in Surjection(1..(i - 1), A)
      BY <1>7, <2>2 DEF Surjection
    <2>5. ExistsBijection(1..(i - 1), A)
      BY <2>3, <2>4 DEF ExistsBijection, Bijection
    <2> QED BY <2>1, <2>5, FS_CountingElements
  <1> QED BY <1>1, <1>2, <1>5, <1>8

(* What a page of an order holds, and when it is the last one.             *)
LEMMA PageHolds ==
  ASSUME NEW S, NEW order \in Seq(S), NEW limit \in Int, NEW skip \in Nat,
         NEW i \in 1..Len(order), i > skip
  PROVE  \/ order[i] \in ToSet(Page(order, limit, skip))
         \/ /\ limit > 0 /\ i > skip + limit
            /\ Len(Page(order, limit, skip)) = limit
  <1> DEFINE rest == IF skip > 0 THEN SubSeq(order, skip + 1, Len(order)) ELSE order
  <1>1. /\ rest \in Seq(S) /\ Len(rest) = Len(order) - skip
        /\ \A k \in 1..Len(rest) : rest[k] = order[skip + k]
    <2>1. CASE skip = 0
      BY <2>1
    <2>2. CASE skip > 0
      <3>1. /\ skip + 1 \in 1..Len(order)
            /\ \A k \in (skip + 1)..Len(order) : order[k] \in S
        BY <2>2
      <3> QED BY <2>2, <3>1
    <2> QED BY <2>1, <2>2
  <1>2. i - skip \in 1..Len(rest) /\ rest[i - skip] = order[i]
    BY <1>1
  <1>3. Page(order, limit, skip) = IF limit > 0 /\ limit < Len(rest) THEN SubSeq(rest, 1, limit) ELSE rest
    BY DEF Page
  <1> HIDE DEF rest
  <1>4. CASE limit > 0 /\ limit < Len(rest)
    <2>1. /\ Len(SubSeq(rest, 1, limit)) = limit
          /\ DOMAIN SubSeq(rest, 1, limit) = 1..limit
          /\ \A k \in 1..limit : SubSeq(rest, 1, limit)[k] = rest[k]
      BY <1>1, <1>4
    <2>2. CASE i - skip <= limit
      BY <1>2, <1>3, <1>4, <2>1, <2>2 DEF ToSet
    <2>3. CASE i - skip > limit
      BY <1>3, <1>4, <2>1, <2>3
    <2> QED BY <2>2, <2>3
  <1>5. CASE ~(limit > 0 /\ limit < Len(rest))
    BY <1>1, <1>2, <1>3, <1>5 DEF ToSet
  <1> QED BY <1>4, <1>5

(* One more page.                                                          *)
LEMMA PagePages ==
  ASSUME PagesInv, ListPage, QueryTypeOK'
  PROVE  PagesInv'
  <1> DEFINE S == Matching(listing.statuses)
  <1>1. PICK order \in Sorted(S, listing.desc) :
          LET page == Page(order, listing.limit, listing.skip) IN
          listing' = [listing EXCEPT
            !.found = @ \cup ToSet(page),
            !.skip = @ + listing.limit,
            !.pc = IF listing.limit <= 0 \/ Len(page) < listing.limit THEN "done" ELSE "page"]
    BY DEF ListPage
  <1> DEFINE page == Page(order, listing.limit, listing.skip)
             last == listing.limit <= 0 \/ Len(page) < listing.limit
  <1>2. /\ listing.pc = "page"
        /\ UNCHANGED <<jobs, createdAt, shift>>
    BY DEF ListPage
  <1>3. /\ listing \in [pc : {"idle", "page", "done"}, statuses : SUBSET JobStatuses,
                        desc : BOOLEAN, limit : Int, skip : Int, found : SUBSET Jobs]
        /\ listing.limit \in Int /\ listing.skip \in Nat
    BY <1>2 DEF PagesInv, QueryTypeOK
  <1>4. S \in SUBSET Jobs
    BY MatchingFinite DEF PagesInv, QueryTypeOK, StoreTypeOK, Matching
  <1>5. /\ listing'.found = listing.found \cup ToSet(page)
        /\ listing'.skip = listing.skip + listing.limit
        /\ listing'.pc = IF last THEN "done" ELSE "page"
        /\ listing'.statuses = listing.statuses /\ listing'.desc = listing.desc
    BY <1>1, <1>3
  <1>6. Matching(listing.statuses)' = S
    BY <1>2, <1>5 DEF Matching
  <1> HIDE DEF S, page
  <1>7. ASSUME ~shift.lost, NEW j \in shift.steady
        PROVE  /\ j \in S
               /\ UniqueTime(j) =>
                    \/ j \in listing'.found
                    \/ ~last /\ Cardinality(AheadOf(j, S, listing.desc)) >= listing'.skip
    <2>1. j \in S /\ (UniqueTime(j) => \/ j \in listing.found
                                      \/ Cardinality(AheadOf(j, S, listing.desc)) >= listing.skip)
      BY <1>2, <1>7 DEF PagesInv, NotSkipped, S
    <2>2. ASSUME UniqueTime(j), j \notin listing.found
          PROVE  \/ j \in listing'.found
                 \/ ~last /\ Cardinality(AheadOf(j, S, listing.desc)) >= listing'.skip
      <3> DEFINE c == Cardinality(AheadOf(j, S, listing.desc))
      <3>1. /\ order \in Seq(S) /\ c \in Nat /\ c + 1 \in 1..Len(order)
            /\ order[c + 1] = j
        <4>1. QueryTypeOK /\ order \in Sorted(S, listing.desc)
          BY DEF PagesInv
        <4>2. j \in S /\ UniqueTime(j)
          BY <2>1, <2>2
        <4> QED BY <1>4, <4>1, <4>2, PlaceOfUnique
      <3>2. c >= listing.skip
        BY <2>1, <2>2
      <3> HIDE DEF c
      <3>3. \/ j \in ToSet(page)
            \/ /\ listing.limit > 0 /\ c + 1 > listing.skip + listing.limit
               /\ Len(page) = listing.limit
        BY <1>3, <3>1, <3>2, PageHolds DEF page
      <3>4. CASE j \in ToSet(page)
        BY <1>5, <3>4
      <3>5. CASE /\ listing.limit > 0 /\ c + 1 > listing.skip + listing.limit
                 /\ Len(page) = listing.limit
        BY <1>3, <1>5, <3>1, <3>5 DEF c
      <3> QED BY <3>3, <3>4, <3>5
    <2> QED BY <1>5, <2>1, <2>2
  <1>8. listing'.pc = "page" => listing'.skip >= 0
    BY <1>3, <1>5
  <1>9. \A j : UniqueTime(j)' <=> UniqueTime(j)
    BY <1>2 DEF UniqueTime
  <1>10. PagesMissNothing'
    BY <1>2, <1>5, <1>7, <1>9 DEF PagesMissNothing
  <1>11. \A j : AheadOf(j, Matching(listing.statuses), listing.desc)' = AheadOf(j, S, listing.desc)
    BY <1>2, <1>5, <1>6 DEF AheadOf
  <1>12. NotSkipped'
    BY <1>2, <1>5, <1>6, <1>7, <1>9, <1>11 DEF NotSkipped
  <1> QED BY <1>8, <1>10, <1>12 DEF PagesInv

(* A listing begins with every steady job before it, or ends unanswered;   *)
(* GetJobStats does not touch it while it lasts.                           *)
LEMMA BeginPages ==
  ASSUME PagesInv, QueryTypeOK',
         \/ ListBegin \/ ListError
         \/ StatsBegin \/ StatsCount \/ StatsError
  PROVE  PagesInv'
  <1>1. CASE ListBegin
    <2>1. PICK statuses \in Filters, desc \in BOOLEAN, limit \in Limits :
            /\ listing' = [pc |-> "page", statuses |-> statuses, desc |-> desc,
                           limit |-> limit, skip |-> 0, found |-> {}]
            /\ shift' = [steady |-> Matching(statuses), lost |-> FALSE]
      BY <1>1 DEF ListBegin
    <2>2. jobs' = jobs /\ createdAt' = createdAt
      BY <1>1 DEF ListBegin
    <2>3. Matching(listing.statuses)' = Matching(statuses)
      BY <2>1, <2>2 DEF Matching
    <2>4. \A j : Cardinality(AheadOf(j, Matching(listing.statuses), listing.desc))' >= 0
      <3>1. ASSUME NEW j
            PROVE  Cardinality(AheadOf(j, Matching(statuses), desc)) >= 0
        <4>1. Matching(statuses) \subseteq Jobs
          BY MatchingFinite DEF PagesInv, QueryTypeOK, StoreTypeOK, Matching
        <4>2. AheadOf(j, Matching(statuses), desc) \in SUBSET Jobs
          BY <4>1 DEF AheadOf
        <4> QED BY <4>2, JobQueriesAssumption, FS_Subset, FS_CardinalityType
      <3>2. \A j : AheadOf(j, Matching(listing.statuses), listing.desc)'
                   = AheadOf(j, Matching(statuses), desc)
        BY <2>1, <2>2, <2>3 DEF AheadOf
      <3> QED BY <3>1, <3>2
    <2>5. NotSkipped'
      BY <2>1, <2>3, <2>4 DEF NotSkipped
    <2> QED BY <2>1, <2>5 DEF PagesInv, PagesMissNothing
  <1>2. CASE ListError \/ StatsBegin
    <2>1. listing'.pc = "idle"
      BY <1>2 DEF ListError, StatsBegin, NoListing
    <2> QED BY <2>1 DEF PagesInv, NotSkipped, PagesMissNothing
  <1>3. CASE StatsCount \/ StatsError
    <2>1. UNCHANGED <<jobs, createdAt, listing, shift>>
      BY <1>3 DEF StatsCount, StatsError, CallFails
    <2> QED BY <2>1 DEF PagesInv, NotSkipped, PagesMissNothing, UniqueTime, AheadOf, Matching
  <1> QED BY <1>1, <1>2, <1>3

(* A write that moves no job out of the filter only adds to the jobs ahead. *)
LEMMA NotedPages ==
  ASSUME PagesInv, NEW retried, Noted(retried), QueryTypeOK',
         UNCHANGED <<createdAt, listing, stats>>
  PROVE  PagesInv'
  <1>1. CASE listing.pc = "page"
    <2> DEFINE before == MatchingIn(jobs, listing.statuses)
               after == MatchingIn(jobs', listing.statuses)
    <2>1. /\ shift'.steady = shift.steady \cap after
          /\ ~shift'.lost => ~shift.lost /\ before \subseteq after
      BY <1>1 DEF Noted, Matching
    <2>2. Matching(listing.statuses)' = after
      BY DEF Matching
    <2>3. after \subseteq Jobs /\ before \subseteq Jobs
      BY DEF PagesInv, QueryTypeOK, StoreTypeOK, MatchingIn
    <2> HIDE DEF before, after
    <2>4. ASSUME ~shift'.lost, NEW j \in shift'.steady, UniqueTime(j), j \notin listing.found
          PROVE  Cardinality(AheadOf(j, after, listing.desc)) >= listing.skip
      <3>1. Cardinality(AheadOf(j, before, listing.desc)) >= listing.skip
        BY <1>1, <2>1, <2>4 DEF PagesInv, NotSkipped, Matching, before
      <3>2. AheadOf(j, before, listing.desc) \in SUBSET AheadOf(j, after, listing.desc)
        BY <2>1, <2>4 DEF AheadOf
      <3>3. AheadOf(j, after, listing.desc) \in SUBSET Jobs
        BY <2>3 DEF AheadOf
      <3>4. IsFiniteSet(AheadOf(j, after, listing.desc)) /\ IsFiniteSet(AheadOf(j, before, listing.desc))
        BY <3>2, <3>3, JobQueriesAssumption, FS_Subset
      <3>5. /\ Cardinality(AheadOf(j, before, listing.desc)) \in Nat
            /\ Cardinality(AheadOf(j, after, listing.desc)) \in Nat
        BY <3>4, FS_CardinalityType
      <3>6. Cardinality(AheadOf(j, before, listing.desc)) <= Cardinality(AheadOf(j, after, listing.desc))
        BY <3>2, <3>4, FS_Subset
      <3>7. listing.skip \in Int
        BY DEF PagesInv, QueryTypeOK
      <3> QED BY <3>1, <3>5, <3>6, <3>7
    <2>5. \A j : AheadOf(j, Matching(listing.statuses), listing.desc)' = AheadOf(j, after, listing.desc)
      BY <2>2 DEF AheadOf
    <2>6. \A j : UniqueTime(j)' <=> UniqueTime(j)
      BY DEF UniqueTime
    <2>7. NotSkipped'
      BY <2>1, <2>2, <2>4, <2>5, <2>6 DEF NotSkipped
    <2> QED BY <1>1, <2>7 DEF PagesInv, PagesMissNothing
  <1>2. CASE listing.pc # "page"
    <2>1. shift' = shift
      BY <1>2 DEF Noted
    <2> QED BY <1>2, <2>1 DEF PagesInv, NotSkipped, PagesMissNothing, UniqueTime
  <1> QED BY <1>1, <1>2

(***************************************************************************)
(* Paging with limit and skip misses no job that matched all the time and  *)
(* whose createdAt is its own, whatever is inserted between two pages, for *)
(* every page size and any number of jobs.                                 *)
(***************************************************************************)
THEOREM PagesCorrect == QuerySpec => []PagesMissNothing
  <1>1. ASSUME QueryInit, QueryTypeOK
        PROVE  PagesInv
    BY <1>1 DEF QueryInit, NoListing, PagesInv, NotSkipped, PagesMissNothing
  <1>2. ASSUME PagesInv, QueryTypeOK', [QueryNext]_queryVars
        PROVE  PagesInv'
    <2>1. CASE ListStep \/ StatsStep
      BY <1>2, <2>1, PagePages, BeginPages DEF ListStep, StatsStep
    <2>2. ASSUME NEW j \in Jobs, JobInserted(j) \/ JobMoved(j)
          PROVE  PagesInv'
      BY <1>2, <2>2, NotedPages DEF JobInserted, JobMoved
    <2>3. CASE UNCHANGED queryVars
      BY <1>2, <2>3 DEF queryVars, PagesInv, NotSkipped, PagesMissNothing, UniqueTime, AheadOf, Matching
    <2> QED BY <1>2, <2>1, <2>2, <2>3 DEF QueryNext
  <1>3. PagesInv => PagesMissNothing
    BY DEF PagesInv
  <1> QED BY <1>1, <1>2, <1>3, QueryTypeCorrect, PTL DEF QuerySpec
=============================================================================
