--------------------------- MODULE DispatcherProofs ---------------------------
(***************************************************************************)
(* Theorems about the dispatcher: its type invariant, the invariant that   *)
(* stale attempt counts never exceed the publish errors seen, and that the *)
(* resume token never runs ahead of the handler.                           *)
(***************************************************************************)
EXTENDS Dispatcher, JobStoreProofs, SequenceTheorems, FiniteSetTheorems

(* The initial states of the dispatcher are well typed. *)
LEMMA DispatcherInitType ==
  ASSUME DispatcherAloneInit
  PROVE  DispatcherTypeOK
  <1>1. StoreTypeOK
    BY JobStoreAssumption DEF DispatcherAloneInit, StoreInit, StoreTypeOK
  <1>2. BrokerTypeOK
    BY DEF DispatcherAloneInit, BrokerInit, BrokerTypeOK
  <1>3. /\ events = << >> /\ cursor = Closed /\ token = 0 /\ fetched = {}
        /\ call = [g \in Goroutines |-> NoCall] /\ outages = 0 /\ unseen = {}
        /\ published = [j \in Jobs |-> 0] /\ pubErrors = [j \in Jobs |-> 0]
    BY DEF DispatcherAloneInit, DispatcherInit
  <1>4. events \in Seq(Jobs) /\ Len(events) = 0
    BY <1>3, EmptySeq
  <1>5. cursor \in [open : BOOLEAN, pos : 0..Len(events)] /\ token \in 0..Len(events)
    BY <1>3, <1>4 DEF Closed
  <1>6. call \in [Goroutines -> [pc : CallPcs, job : Jobs \cup {NoJob}, attempts : Nat]]
    BY <1>3 DEF NoCall, CallPcs
  <1>7. outages \in 0..MaxOutages
    BY <1>3, DispatcherAssumption
  <1> QED
    BY <1>1, <1>2, <1>3, <1>4, <1>5, <1>6, <1>7 DEF DispatcherTypeOK, NoCall

(* A goroutine inside HandleDispatch works on a job that was inserted. *)
LEMMA HandledJob ==
  ASSUME DispatcherTypeOK, NEW g \in Goroutines,
         call[g].pc \in {"publish", "confirm", "record", "giveup"}
  PROVE  /\ call[g].job \in DOMAIN jobs
         /\ call[g].job \in Jobs
         /\ jobs[call[g].job] \in Document
         /\ call[g].attempts \in Nat
  BY DEF DispatcherTypeOK, StoreTypeOK

(* Moving a goroutine on, or returning, keeps the calls well typed. *)
LEMMA CallStepType ==
  ASSUME DispatcherTypeOK, NEW g \in Goroutines,
         \/ Return(g)
         \/ \E pc \in {"confirm", "record", "giveup"} :
              Goto(g, pc) /\ call[g].pc \in {"publish", "confirm", "record", "giveup"}
  PROVE  /\ call' \in [Goroutines -> [pc : CallPcs, job : Jobs \cup {NoJob}, attempts : Nat]]
         /\ \A h \in Goroutines :
              call'[h].pc \in {"publish", "confirm", "record", "giveup"} => call'[h].job \in DOMAIN jobs
  <1>1. CASE Return(g)
    BY <1>1 DEF Return, NoCall, DispatcherTypeOK, CallPcs
  <1>2. ASSUME NEW pc \in {"confirm", "record", "giveup"},
               Goto(g, pc), call[g].pc \in {"publish", "confirm", "record", "giveup"}
        PROVE  /\ call' \in [Goroutines -> [pc : CallPcs, job : Jobs \cup {NoJob}, attempts : Nat]]
               /\ \A h \in Goroutines :
                    call'[h].pc \in {"publish", "confirm", "record", "giveup"} =>
                      call'[h].job \in DOMAIN jobs
    <2>1. call \in [Goroutines -> [pc : CallPcs, job : Jobs \cup {NoJob}, attempts : Nat]]
      BY DEF DispatcherTypeOK
    <2>2. call' = [call EXCEPT ![g].pc = pc] /\ pc \in CallPcs
      BY <1>2 DEF Goto, CallPcs
    <2>3. call' \in [Goroutines -> [pc : CallPcs, job : Jobs \cup {NoJob}, attempts : Nat]]
      BY <2>1, <2>2
    <2>4. ASSUME NEW h \in Goroutines,
                 call'[h].pc \in {"publish", "confirm", "record", "giveup"}
          PROVE  call'[h].job \in DOMAIN jobs
      <3>1. call[g].job \in DOMAIN jobs
        BY <1>2, HandledJob
      <3>2. CASE h = g
        BY <2>1, <2>2, <3>1, <3>2
      <3>3. CASE h # g
        <4>1. call'[h] = call[h]
          BY <2>1, <2>2, <3>3
        <4> QED BY <2>4, <4>1, HandledJob
      <3> QED BY <3>2, <3>3
    <2> QED BY <2>3, <2>4
  <1> QED BY <1>1, <1>2

(* A failed publish keeps the call of its goroutine well typed.            *)
LEMMA FailedCallType ==
  ASSUME NEW c \in [Goroutines -> [pc : CallPcs, job : Jobs \cup {NoJob}, attempts : Nat]],
         NEW g \in Goroutines
  PROVE  [c EXCEPT ![g].pc = "record", ![g].attempts = c[g].attempts + 1]
           \in [Goroutines -> [pc : CallPcs, job : Jobs \cup {NoJob}, attempts : Nat]]
  <1> DEFINE d == [c EXCEPT ![g].pc = "record"]
  <1>1. "record" \in CallPcs
    BY DEF CallPcs
  <1>2. d \in [Goroutines -> [pc : CallPcs, job : Jobs \cup {NoJob}, attempts : Nat]]
    BY <1>1
  <1>3. c[g].attempts + 1 \in Nat
    OBVIOUS
  <1> HIDE DEF d
  <1>4. [d EXCEPT ![g].attempts = c[g].attempts + 1]
          \in [Goroutines -> [pc : CallPcs, job : Jobs \cup {NoJob}, attempts : Nat]]
    BY <1>2, <1>3
  <1> QED BY <1>4 DEF d

(* The steps of HandleDispatch keep the dispatcher well typed. *)
LEMMA HandlerStepType ==
  ASSUME DispatcherTypeOK, NEW g \in Goroutines, HandlerStep(g)
  PROVE  DispatcherTypeOK'
  <1> DEFINE j == call[g].job
  <1> USE DEF DispatcherTypeOK
  <1>1. CASE PublishOK(g)
    <2>1. j \in Jobs
      BY <1>1, HandledJob DEF PublishOK
    <2>2. queue' \in [Jobs -> Nat] /\ published' \in [Jobs -> Nat]
      BY <1>1, <2>1 DEF PublishOK, Delivered, Enqueue, BrokerTypeOK
    <2> QED
      BY <1>1, <2>2, CallStepType DEF PublishOK, streamVars, BrokerTypeOK, StoreTypeOK
  <1>2. CASE PublishError(g)
    <2>1. j \in Jobs /\ call[g].attempts + 1 \in Nat /\ j \in DOMAIN jobs
      BY <1>2, HandledJob DEF PublishError
    <2>2. pubErrors' \in [Jobs -> Nat]
      BY <1>2, <2>1 DEF PublishError
    <2>4. Delivered(j) \/ UNCHANGED <<queue, published>>
      BY <1>2 DEF PublishError
    <2>5. queue' \in [Jobs -> Nat] /\ published' \in [Jobs -> Nat]
      <3>1. CASE Delivered(j)
        BY <3>1, <2>1 DEF Delivered, Enqueue, BrokerTypeOK
      <3>2. CASE UNCHANGED <<queue, published>>
        BY <3>2 DEF BrokerTypeOK
      <3> QED BY <2>4, <3>1, <3>2
    <2>3. /\ call' \in [Goroutines -> [pc : CallPcs, job : Jobs \cup {NoJob}, attempts : Nat]]
          /\ \A h \in Goroutines :
               call'[h].pc \in {"publish", "confirm", "record", "giveup"} => call'[h].job \in DOMAIN jobs
      <3>1. call \in [Goroutines -> [pc : CallPcs, job : Jobs \cup {NoJob}, attempts : Nat]]
        BY DEF DispatcherTypeOK
      <3>2. call' = [call EXCEPT ![g].pc = "record", ![g].attempts = call[g].attempts + 1]
        BY <1>2, <3>1 DEF PublishError
      <3>3. call' \in [Goroutines -> [pc : CallPcs, job : Jobs \cup {NoJob}, attempts : Nat]]
        BY <3>1, <3>2, FailedCallType
      <3>4. ASSUME NEW h \in Goroutines,
                   call'[h].pc \in {"publish", "confirm", "record", "giveup"}
            PROVE  call'[h].job \in DOMAIN jobs
        <4>1. CASE h = g
          BY <2>1, <3>1, <3>2, <4>1
        <4>2. CASE h # g
          <5>1. call'[h] = call[h]
            BY <3>1, <3>2, <4>2
          <5> QED BY <3>4, <5>1, HandledJob
        <4> QED BY <4>1, <4>2
      <3> QED BY <3>3, <3>4
    <2> QED
      BY <1>2, <2>2, <2>3, <2>5 DEF PublishError, streamVars, BrokerTypeOK, StoreTypeOK
  <1>3. CASE MarkJobDispatched(g)
    <2>1. j \in DOMAIN jobs /\ MarkDispatchedIfPending(jobs[j]) \in Document
      BY <1>3, HandledJob, DispatchWritesType DEF MarkJobDispatched
    <2>2. StoreTypeOK' /\ DOMAIN jobs' = DOMAIN jobs
      BY <1>3, <2>1, WriteType DEF MarkJobDispatched
    <2>3. Return(g)
      BY <1>3 DEF MarkJobDispatched
    <2> QED
      BY <1>3, <2>2, <2>3, CallStepType DEF MarkJobDispatched, streamVars, historyVars, BrokerTypeOK
  <1>4. CASE RecordDispatchAttempt(g)
    <2>1. j \in DOMAIN jobs /\ RecordDispatchAttemptIfPending(jobs[j], call[g].attempts) \in Document
      BY <1>4, HandledJob, DispatchWritesType DEF RecordDispatchAttempt
    <2>2. StoreTypeOK' /\ DOMAIN jobs' = DOMAIN jobs
      BY <1>4, <2>1, WriteType DEF RecordDispatchAttempt
    <2>3. Return(g) \/ (Goto(g, "giveup") /\ call[g].pc = "record")
      BY <1>4 DEF RecordDispatchAttempt
    <2> QED
      BY <1>4, <2>2, <2>3, CallStepType DEF RecordDispatchAttempt, streamVars, historyVars, BrokerTypeOK
  <1>5. CASE MarkJobDispatchFailed(g)
    <2>1. j \in DOMAIN jobs /\ MarkDispatchFailedIfPending(jobs[j]) \in Document
      BY <1>5, HandledJob, DispatchWritesType DEF MarkJobDispatchFailed
    <2>2. StoreTypeOK' /\ DOMAIN jobs' = DOMAIN jobs
      BY <1>5, <2>1, WriteType DEF MarkJobDispatchFailed
    <2>3. Return(g)
      BY <1>5 DEF MarkJobDispatchFailed
    <2> QED
      BY <1>5, <2>2, <2>3, CallStepType DEF MarkJobDispatchFailed, streamVars, historyVars, BrokerTypeOK
  <1> QED BY <1>1, <1>2, <1>3, <1>4, <1>5 DEF HandlerStep

(* An insert keeps the dispatcher well typed: it appends its event.        *)
LEMMA CreateJobType ==
  ASSUME DispatcherTypeOK, NEW j \in Jobs, CreateJob(j)
  PROVE  DispatcherTypeOK'
  <1> USE DEF DispatcherTypeOK
  <1>1. /\ DOMAIN jobs' = DOMAIN jobs \cup {j}
        /\ StoreTypeOK'
    BY NewJobMetadataType DEF CreateJob, StoreTypeOK
  <1>2. /\ events' \in Seq(Jobs)
        /\ Len(events') = Len(events) + 1
        /\ \A i \in 1..Len(events) : events'[i] = events[i]
        /\ events'[Len(events) + 1] = j
    BY AppendProperties DEF CreateJob
  <1>3. Len(events) \in Nat
    BY LenProperties
  <1>4. ASSUME NEW i \in 1..Len(events') PROVE events'[i] \in DOMAIN jobs'
    <2>1. i \in 1..Len(events) \/ i = Len(events) + 1
      BY <1>2, <1>3
    <2> QED BY <1>1, <1>2, <2>1
  <1>5. cursor' \in [open : BOOLEAN, pos : 0..Len(events')] /\ token' \in 0..Len(events')
    BY <1>2, <1>3 DEF CreateJob, historyVars
  <1> QED
    BY <1>1, <1>2, <1>4, <1>5 DEF CreateJob, historyVars, BrokerTypeOK

(* The stream goroutine's own steps keep the dispatcher well typed. *)
LEMMA StreamStepType ==
  ASSUME DispatcherTypeOK, "stream" \in Goroutines,
         StreamOpen \/ StreamNext \/ SaveToken \/ StreamError
  PROVE  DispatcherTypeOK'
  <1> USE DEF DispatcherTypeOK
  <1>0. Len(events) \in Nat /\ cursor.pos \in 0..Len(events)
    BY LenProperties
  <1>1. CASE StreamOpen
    <2>1. cursor' \in [open : BOOLEAN, pos : 0..Len(events)]
      BY <1>0, <1>1 DEF StreamOpen
    <2>2. unseen' \subseteq Nat
      <3>1. 1..Len(events) \subseteq Nat
        BY <1>0
      <3>2. unseen' = unseen \/ unseen' = unseen \cup 1..Len(events)
        BY <1>1 DEF StreamOpen
      <3> QED BY <3>1, <3>2
    <2> QED
      BY <1>1, <2>1, <2>2 DEF StreamOpen, StoreTypeOK, BrokerTypeOK
  <1>2. CASE StreamNext
    <2> DEFINE j == events[cursor.pos + 1]
    <2>0. cursor.pos + 1 \in 1..Len(events) /\ cursor' = [cursor EXCEPT !.pos = cursor.pos + 1]
      BY <1>0, <1>2 DEF StreamNext
    <2>1. j \in DOMAIN jobs /\ j \in Jobs
      BY <2>0 DEF StoreTypeOK
    <2>2. cursor' \in [open : BOOLEAN, pos : 0..Len(events)]
      <3>1. cursor.pos + 1 \in 0..Len(events)
        BY <1>0, <2>0
      <3>2. cursor' = [open |-> cursor.open, pos |-> cursor.pos + 1] /\ cursor.open \in BOOLEAN
        BY <2>0
      <3> HIDE DEF DispatcherTypeOK
      <3> QED BY <3>1, <3>2
    <2>3. call' = [call EXCEPT !["stream"] = [pc |-> "publish", job |-> j, attempts |-> 0]]
      BY <1>2 DEF StreamNext, Handle, NewJobMetadata
    <2> QED
      BY <1>2, <2>1, <2>2, <2>3 DEF StreamNext, StoreTypeOK, BrokerTypeOK, CallPcs, historyVars
  <1>3. CASE SaveToken
    <2>1. token' \in 0..Len(events)
      BY <1>0, <1>3 DEF SaveToken
    <2>2. StoreTypeOK' /\ jobs' = jobs
      BY <1>3, CallFailsType DEF SaveToken, StoreTypeOK
    <2>3. call' = [call EXCEPT !["stream"] = NoCall]
      BY <1>3 DEF SaveToken
    <2> QED
      BY <1>3, <2>1, <2>2, <2>3 DEF SaveToken, BrokerTypeOK, CallPcs, NoCall, historyVars
  <1>4. CASE StreamError
    <2>1. outages' \in 0..MaxOutages
      BY <1>4, DispatcherAssumption DEF StreamError
    <2>2. cursor' \in [open : BOOLEAN, pos : 0..Len(events)]
      BY <1>0, <1>4 DEF StreamError, Closed
    <2> QED
      BY <1>4, <2>1, <2>2 DEF StreamError, StoreTypeOK, BrokerTypeOK, historyVars
  <1> QED BY <1>1, <1>2, <1>3, <1>4

(* The projections a poll fetches are of stored jobs. *)
LEMMA FetchPendingType ==
  ASSUME StoreTypeOK
  PROVE  /\ FetchPending \subseteq Projection
         /\ \A p \in FetchPending :
              p.job \in DOMAIN jobs /\ p.attempts = jobs[p.job].dispatchAttempts
  <1>1. Oldest(Pending, BatchSize) \subseteq DOMAIN jobs
    BY DEF Oldest, Pending
  <1>2. \A j \in DOMAIN jobs : j \in Jobs /\ jobs[j].dispatchAttempts \in Nat
    BY DEF StoreTypeOK, Document
  <1> QED BY <1>1, <1>2 DEF FetchPending, Projection

(* The poll loop's own steps keep the dispatcher well typed. *)
LEMMA PollStepType ==
  ASSUME DispatcherTypeOK, "poll" \in Goroutines, PollFetch \/ PollNext
  PROVE  DispatcherTypeOK'
  <1> USE DEF DispatcherTypeOK
  <1>1. CASE PollFetch
    <2>1. fetched' \subseteq Projection /\ \A p \in fetched' : p.job \in DOMAIN jobs
      BY <1>1, FetchPendingType DEF PollFetch
    <2> QED
      BY <1>1, <2>1 DEF PollFetch, StoreTypeOK, BrokerTypeOK, streamVars, historyVars
  <1>2. CASE PollNext
    <2>1. PICK p \in fetched : Handle("poll", p.job, p.attempts) /\ fetched' = fetched \ {p}
      BY <1>2 DEF PollNext
    <2>2. p.job \in DOMAIN jobs /\ p.job \in Jobs /\ p.attempts \in Nat
      BY DEF Projection
    <2>3. call' = [call EXCEPT !["poll"] = [pc |-> "publish", job |-> p.job, attempts |-> p.attempts]]
      BY <2>1 DEF Handle
    <2> QED
      BY <1>2, <2>1, <2>2, <2>3
      DEF PollNext, StoreTypeOK, BrokerTypeOK, CallPcs, streamVars, historyVars
  <1> QED BY <1>1, <1>2

(* A crash of the dispatcher keeps it well typed. *)
LEMMA DispatcherCrashType ==
  ASSUME DispatcherTypeOK, DispatcherCrash
  PROVE  DispatcherTypeOK'
  <1> USE DEF DispatcherTypeOK
  <1>1. outages' \in 0..MaxOutages
    BY DispatcherAssumption DEF DispatcherCrash
  <1>2. Len(events) \in Nat
    BY LenProperties
  <1>3. cursor' \in [open : BOOLEAN, pos : 0..Len(events)]
    BY <1>2 DEF DispatcherCrash, Closed
  <1>4. call' = [g \in Goroutines |-> NoCall]
    BY DEF DispatcherCrash
  <1> QED
    BY <1>1, <1>3, <1>4 DEF DispatcherCrash, StoreTypeOK, BrokerTypeOK, CallPcs, NoCall, historyVars

(* Every step of the dispatcher keeps it well typed, whoever else writes.  *)
LEMMA DispatcherNextType ==
  ASSUME DispatcherTypeOK, DispatcherNext
  PROVE  DispatcherTypeOK'
  <1>1. CASE \E j \in Jobs : CreateJob(j)
    BY <1>1, CreateJobType
  <1>2. CASE "stream" \in Goroutines /\ (StreamStep \/ StreamError)
    BY <1>2, HandlerStepType, StreamStepType DEF StreamStep
  <1>3. CASE "poll" \in Goroutines /\ PollStep
    BY <1>3, HandlerStepType, PollStepType DEF PollStep
  <1>4. CASE DispatcherCrash
    BY <1>4, DispatcherCrashType
  <1> QED BY <1>1, <1>2, <1>3, <1>4 DEF DispatcherNext

(***************************************************************************)
(* The dispatcher's state is well typed: the resume token and the stream   *)
(* position stay within the inserted events, the goroutines work on        *)
(* inserted jobs only, and outages and faults stay within their bounds.    *)
(***************************************************************************)
THEOREM DispatcherTypeCorrect == DispatcherSpec => []DispatcherTypeOK
  <1>1. DispatcherAloneInit => DispatcherTypeOK
    BY DispatcherInitType
  <1>2. DispatcherTypeOK /\ [DispatcherNext]_dispatchVars => DispatcherTypeOK'
    <2> SUFFICES ASSUME DispatcherTypeOK, [DispatcherNext]_dispatchVars
                 PROVE  DispatcherTypeOK'
      OBVIOUS
    <2>1. CASE DispatcherNext
      BY <2>1, DispatcherNextType
    <2>2. CASE UNCHANGED dispatchVars
      BY <2>2 DEF dispatchVars, dispatcherVars, streamVars, historyVars,
                  DispatcherTypeOK, StoreTypeOK, BrokerTypeOK
    <2> QED BY <2>1, <2>2
  <1> QED BY <1>1, <1>2, PTL DEF DispatcherSpec

-----------------------------------------------------------------------------
(* AttemptsNeverOverstated is inductive on top of the type invariant.  The *)
(* publish errors only grow, and a count moves from a document to a        *)
(* projection, from there to a call, and plus one, with the error that     *)
(* justifies it, back to the document.                                     *)

(* A write that leaves dispatchAttempts alone, or sets it to the count of  *)
(* a call, does not overstate the attempts of any job.                     *)
LEMMA WriteKeepsAttempts ==
  ASSUME DispatcherTypeOK, AttemptsNeverOverstated,
         NEW j \in DOMAIN jobs, NEW d \in Document, d.dispatchAttempts <= pubErrors[j],
         Write(j, d) \/ WriteFails(j, d)
  PROVE  \A k \in DOMAIN jobs' : jobs'[k].dispatchAttempts <= pubErrors[k]
  <1>1. DOMAIN jobs' = DOMAIN jobs /\ jobs' \in {jobs, [jobs EXCEPT ![j] = d]}
    BY WriteType DEF DispatcherTypeOK
  <1> QED BY <1>1 DEF AttemptsNeverOverstated

(* HandleDispatch never overstates the attempts. *)
LEMMA HandlerStepAttempts ==
  ASSUME DispatcherTypeOK, AttemptsNeverOverstated, NEW g \in Goroutines, HandlerStep(g)
  PROVE  AttemptsNeverOverstated'
  <1> DEFINE j == call[g].job
  <1>0. /\ call[g].pc \in {"publish", "confirm", "record", "giveup"}
        /\ j \in DOMAIN jobs /\ j \in Jobs /\ jobs[j] \in Document
        /\ call[g].attempts \in Nat /\ call[g].attempts <= pubErrors[j]
    <2>1. call[g].pc \in {"publish", "confirm", "record", "giveup"}
      BY DEF HandlerStep, PublishOK, PublishError, MarkJobDispatched,
             RecordDispatchAttempt, MarkJobDispatchFailed
    <2> QED BY <2>1, HandledJob DEF AttemptsNeverOverstated
  <1>a. jobs[j].dispatchAttempts <= pubErrors[j]
    BY <1>0 DEF AttemptsNeverOverstated
  <1>1. CASE PublishOK(g)
    BY <1>0, <1>1 DEF PublishOK, Goto, AttemptsNeverOverstated, DispatcherTypeOK
  <1>2. CASE PublishError(g)
    <2>1. /\ pubErrors' = [pubErrors EXCEPT ![j] = @ + 1]
          /\ call' = [call EXCEPT ![g].pc = "record", ![g].attempts = @ + 1]
          /\ jobs' = jobs /\ fetched' = fetched
      BY <1>2 DEF PublishError
    <2>2. \A k \in Jobs : pubErrors[k] \in Nat /\ pubErrors'[k] \in Nat /\ pubErrors[k] <= pubErrors'[k]
      BY <2>1 DEF DispatcherTypeOK
    <2>3. \A k \in DOMAIN jobs' : jobs'[k].dispatchAttempts <= pubErrors'[k]
      BY <2>1, <2>2 DEF AttemptsNeverOverstated, DispatcherTypeOK, StoreTypeOK, Document
    <2>4. \A p \in fetched' : p.attempts <= pubErrors'[p.job]
      BY <2>1, <2>2 DEF AttemptsNeverOverstated, DispatcherTypeOK, Projection
    <2>5. ASSUME NEW h \in Goroutines, call'[h].pc # "idle" /\ call'[h].pc # "save"
          PROVE  call'[h].attempts <= pubErrors'[call'[h].job]
      <3>1. CASE h = g
        BY <1>0, <2>1, <3>1 DEF DispatcherTypeOK
      <3>2. CASE h # g
        <4>1. call'[h] = call[h]
          BY <2>1, <3>2 DEF DispatcherTypeOK
        <4>2. call[h].attempts <= pubErrors[call[h].job] /\ call[h].attempts \in Nat
          BY <2>5, <4>1 DEF AttemptsNeverOverstated, DispatcherTypeOK
        <4>3. call[h].job \in Jobs
          BY <2>5, <4>1, HandledJob DEF DispatcherTypeOK, CallPcs
        <4> QED BY <2>2, <4>1, <4>2, <4>3
      <3> QED BY <3>1, <3>2
    <2> QED BY <2>3, <2>4, <2>5 DEF AttemptsNeverOverstated
  <1>3. ASSUME NEW d \in Document, d.dispatchAttempts <= pubErrors[j],
               Write(j, d) \/ WriteFails(j, d),
               Return(g) \/ Goto(g, "giveup"),
               UNCHANGED <<fetched, pubErrors>>
        PROVE  AttemptsNeverOverstated'
    <2>1. \A k \in DOMAIN jobs' : jobs'[k].dispatchAttempts <= pubErrors[k]
      BY <1>0, <1>3, WriteKeepsAttempts
    <2>2. ASSUME NEW h \in Goroutines, call'[h].pc # "idle" /\ call'[h].pc # "save"
          PROVE  call'[h].attempts <= pubErrors[call'[h].job]
      <3>1. CASE h # g
        <4>1. call'[h] = call[h]
          BY <1>3, <3>1 DEF Return, Goto, DispatcherTypeOK
        <4> QED BY <2>2, <4>1 DEF AttemptsNeverOverstated
      <3>2. CASE h = g
        <4>1. CASE Return(g)
          BY <2>2, <3>2, <4>1 DEF Return, NoCall, DispatcherTypeOK
        <4>2. CASE Goto(g, "giveup")
          BY <1>0, <3>2, <4>2 DEF Goto, DispatcherTypeOK
        <4> QED BY <1>3, <4>1, <4>2
      <3> QED BY <3>1, <3>2
    <2> QED BY <1>3, <2>1, <2>2 DEF AttemptsNeverOverstated
  <1>4. CASE MarkJobDispatched(g)
    <2>1. /\ MarkDispatchedIfPending(jobs[j]) \in Document
          /\ MarkDispatchedIfPending(jobs[j]).dispatchAttempts = jobs[j].dispatchAttempts
      BY <1>0, DispatchWritesType DEF MarkDispatchedIfPending, Document
    <2> QED BY <1>a, <1>3, <1>4, <2>1 DEF MarkJobDispatched, historyVars
  <1>5. CASE RecordDispatchAttempt(g)
    <2>1. /\ RecordDispatchAttemptIfPending(jobs[j], call[g].attempts) \in Document
          /\ RecordDispatchAttemptIfPending(jobs[j], call[g].attempts).dispatchAttempts
               \in {jobs[j].dispatchAttempts, call[g].attempts}
      BY <1>0, DispatchWritesType DEF RecordDispatchAttemptIfPending, Document
    <2> QED BY <1>0, <1>a, <1>3, <1>5, <2>1 DEF RecordDispatchAttempt, historyVars
  <1>6. CASE MarkJobDispatchFailed(g)
    <2>1. /\ MarkDispatchFailedIfPending(jobs[j]) \in Document
          /\ MarkDispatchFailedIfPending(jobs[j]).dispatchAttempts = jobs[j].dispatchAttempts
      BY <1>0, DispatchWritesType DEF MarkDispatchFailedIfPending, Document
    <2> QED BY <1>a, <1>3, <1>6, <2>1 DEF MarkJobDispatchFailed, historyVars
  <1> QED BY <1>1, <1>2, <1>4, <1>5, <1>6 DEF HandlerStep

(* No step of the dispatcher overstates the attempts. *)
LEMMA DispatcherNextAttempts ==
  ASSUME DispatcherTypeOK, AttemptsNeverOverstated, DispatcherNext
  PROVE  AttemptsNeverOverstated'
  <1> USE DEF AttemptsNeverOverstated
  <1>1. ASSUME NEW j \in Jobs, CreateJob(j)
        PROVE  AttemptsNeverOverstated'
    <2>1. pubErrors[j] \in Nat
      BY DEF DispatcherTypeOK
    <2>2. \A k \in DOMAIN jobs' :
            \/ k \in DOMAIN jobs /\ jobs'[k] = jobs[k]
            \/ k = j /\ jobs'[k] = NewJobMetadata
      BY <1>1 DEF CreateJob
    <2>3. \A k \in DOMAIN jobs' : jobs'[k].dispatchAttempts <= pubErrors[k]
      BY <2>1, <2>2 DEF NewJobMetadata
    <2> QED BY <1>1, <2>3 DEF CreateJob, historyVars
  <1>2. ASSUME "stream" \in Goroutines, StreamNext
        PROVE  AttemptsNeverOverstated'
    <2> DEFINE j == events[cursor.pos + 1]
    <2>1. call' = [call EXCEPT !["stream"] = [pc |-> "publish", job |-> j, attempts |-> 0]]
      BY <1>2 DEF StreamNext, Handle, NewJobMetadata
    <2>2. Len(events) \in Nat /\ cursor.pos \in 0..Len(events) /\ cursor.pos < Len(events)
      BY <1>2, LenProperties DEF StreamNext, DispatcherTypeOK
    <2>3. cursor.pos + 1 \in 1..Len(events)
      BY <2>2
    <2>4. j \in Jobs
      BY <2>3 DEF DispatcherTypeOK, StoreTypeOK
    <2>5. 0 <= pubErrors[j]
      BY <2>4 DEF DispatcherTypeOK
    <2> QED BY <1>2, <2>1, <2>5 DEF StreamNext, historyVars, DispatcherTypeOK
  <1>3. ASSUME "stream" \in Goroutines, StreamOpen \/ SaveToken \/ StreamError
        PROVE  AttemptsNeverOverstated'
    <2>1. /\ jobs' = jobs /\ fetched' = fetched /\ pubErrors' = pubErrors
          /\ call' = call \/ call' = [call EXCEPT !["stream"] = NoCall]
      BY <1>3 DEF StreamOpen, SaveToken, StreamError, CallFails, historyVars
    <2>2. ASSUME NEW h \in Goroutines PROVE call'[h] = call[h] \/ call'[h] = NoCall
      BY <2>1 DEF DispatcherTypeOK
    <2> QED BY <2>1, <2>2 DEF NoCall
  <1>4. ASSUME "poll" \in Goroutines, PollFetch
        PROVE  AttemptsNeverOverstated'
    BY <1>4, FetchPendingType DEF PollFetch, DispatcherTypeOK, historyVars
  <1>5. ASSUME "poll" \in Goroutines, PollNext
        PROVE  AttemptsNeverOverstated'
    <2>1. PICK p \in fetched : Handle("poll", p.job, p.attempts) /\ fetched' = fetched \ {p}
      BY <1>5 DEF PollNext
    <2>2. call' = [call EXCEPT !["poll"] = [pc |-> "publish", job |-> p.job, attempts |-> p.attempts]]
      BY <2>1 DEF Handle
    <2> QED BY <1>5, <2>1, <2>2 DEF PollNext, DispatcherTypeOK, historyVars
  <1>6. CASE DispatcherCrash
    BY <1>6 DEF DispatcherCrash, NoCall, historyVars
  <1> HIDE DEF AttemptsNeverOverstated
  <1> QED
    BY <1>1, <1>2, <1>3, <1>4, <1>5, <1>6, HandlerStepAttempts
    DEF DispatcherNext, StreamStep, PollStep

(***************************************************************************)
(* AttemptsNeverOverstated holds for any number of jobs, whatever the      *)
(* limits: the attempts a stale HandleDispatch writes were really made.    *)
(***************************************************************************)
THEOREM AttemptsCorrect == DispatcherSpec => []AttemptsNeverOverstated
  <1>1. DispatcherAloneInit => AttemptsNeverOverstated
    BY DEF DispatcherAloneInit, StoreInit, DispatcherInit, NoCall, AttemptsNeverOverstated
  <1>2. DispatcherTypeOK /\ AttemptsNeverOverstated /\ [DispatcherNext]_dispatchVars
          => AttemptsNeverOverstated'
    <2> SUFFICES ASSUME DispatcherTypeOK, AttemptsNeverOverstated, [DispatcherNext]_dispatchVars
                 PROVE  AttemptsNeverOverstated'
      OBVIOUS
    <2>1. CASE DispatcherNext
      BY <2>1, DispatcherNextAttempts
    <2>2. CASE UNCHANGED dispatchVars
      BY <2>2 DEF dispatchVars, dispatcherVars, historyVars, AttemptsNeverOverstated
    <2> QED BY <2>1, <2>2
  <1> QED BY <1>1, <1>2, DispatcherTypeCorrect, PTL DEF DispatcherSpec

-----------------------------------------------------------------------------
(***************************************************************************)
(* TokenNeverAhead is not inductive: what SaveToken saves is the position  *)
(* of the cursor, so the invariant follows the cursor too.  Every event    *)
(* the cursor delivered is handled or skipped, except the last one while   *)
(* the goroutine has it in hand and has not called Publish.                *)
(***************************************************************************)
Covered(i) == i \in unseen \/ published[events[i]] + pubErrors[events[i]] > 0

InHand(i) ==
  /\ "stream" \in Goroutines
  /\ call["stream"].pc = "publish"
  /\ i = cursor.pos
  /\ call["stream"].job = events[i]

CursorInv == \A i \in 1..cursor.pos : Covered(i) \/ InHand(i)

TokenInv ==
  /\ DispatcherTypeOK
  /\ TokenNeverAhead
  /\ CursorInv

-----------------------------------------------------------------------------
(* The token and the cursor stay within the events.                        *)
LEMMA Positions ==
  ASSUME DispatcherTypeOK
  PROVE  /\ Len(events) \in Nat
         /\ token \in 0..Len(events)
         /\ cursor.pos \in 0..Len(events)
         /\ \A i \in 1..Len(events) : events[i] \in Jobs
  BY LenProperties DEF DispatcherTypeOK, StoreTypeOK

(* A covered event stays covered while events are only appended and the    *)
(* histories only grow.                                                    *)
LEMMA CoveredStays ==
  ASSUME DispatcherTypeOK, NEW i \in 1..Len(events), Covered(i),
         events'[i] = events[i], unseen \subseteq unseen',
         \A j \in Jobs : /\ published[j] <= published'[j] /\ published'[j] \in Nat
                         /\ pubErrors[j] <= pubErrors'[j] /\ pubErrors'[j] \in Nat
  PROVE  Covered(i)'
  <1>1. events[i] \in Jobs
    BY Positions
  <1>2. published[events[i]] \in Nat /\ pubErrors[events[i]] \in Nat
    BY <1>1 DEF DispatcherTypeOK
  <1> DEFINE j == events[i]
  <1>3. CASE i \in unseen
    BY <1>3 DEF Covered
  <1>4. CASE published[j] + pubErrors[j] > 0
    <2>1. published[j] <= published'[j] /\ pubErrors[j] <= pubErrors'[j]
      BY <1>1
    <2>2. published'[j] \in Nat /\ pubErrors'[j] \in Nat
      BY <1>1
    <2> HIDE DEF j
    <2>3. published'[j] + pubErrors'[j] > 0
      BY <1>2, <1>4, <2>1, <2>2 DEF j
    <2> QED BY <2>3 DEF Covered, j
  <1> QED BY <1>3, <1>4 DEF Covered

(* HandleDispatch covers the event the stream goroutine has in hand.       *)
LEMMA HandlerStepToken ==
  ASSUME TokenInv, NEW g \in Goroutines, HandlerStep(g)
  PROVE  TokenNeverAhead' /\ CursorInv'
  <1>1. DispatcherTypeOK /\ TokenNeverAhead /\ CursorInv
    BY DEF TokenInv
  <1>2. UNCHANGED <<events, cursor, token, unseen>>
    BY DEF HandlerStep, PublishOK, PublishError, MarkJobDispatched, RecordDispatchAttempt,
           MarkJobDispatchFailed, streamVars, historyVars
  <1>3. \A j \in Jobs : /\ published[j] <= published'[j] /\ published'[j] \in Nat
                        /\ pubErrors[j] <= pubErrors'[j] /\ pubErrors'[j] \in Nat
    BY <1>1 DEF DispatcherTypeOK, HandlerStep, PublishOK, PublishError, Delivered, MarkJobDispatched,
           RecordDispatchAttempt, MarkJobDispatchFailed, historyVars
  <1>4. ASSUME NEW i \in 1..Len(events), Covered(i)
        PROVE  Covered(i)'
    BY <1>1, <1>2, <1>3, <1>4, CoveredStays
  <1>5. ASSUME NEW i \in 1..cursor.pos, InHand(i)
        PROVE  Covered(i)' \/ InHand(i)'
    <2>1. i \in 1..Len(events) /\ events[i] \in Jobs
      BY <1>1, Positions
    <2>2. CASE g = "stream"
      <3>1. PublishOK(g) \/ PublishError(g)
        BY <1>5, <2>2 DEF InHand, HandlerStep, MarkJobDispatched, RecordDispatchAttempt, MarkJobDispatchFailed
      <3>2. /\ published \in [Jobs -> Nat] /\ pubErrors \in [Jobs -> Nat]
            /\ call["stream"].job = events[i]
        BY <1>1, <1>5 DEF InHand, DispatcherTypeOK
      <3>3. CASE PublishOK(g)
        <4>1. published' = [published EXCEPT ![events[i]] = @ + 1] /\ pubErrors' = pubErrors
          BY <2>2, <3>2, <3>3 DEF PublishOK, Delivered
        <4> QED BY <1>2, <2>1, <3>2, <4>1 DEF Covered
      <3>4. CASE PublishError(g)
        <4>1. pubErrors' = [pubErrors EXCEPT ![events[i]] = @ + 1]
          BY <2>2, <3>2, <3>4 DEF PublishError
        <4> QED BY <1>2, <1>3, <2>1, <3>2, <4>1 DEF Covered
      <3> QED BY <3>1, <3>3, <3>4
    <2>3. CASE g # "stream"
      <3>1. call'["stream"] = call["stream"]
        BY <1>1, <1>5, <2>3 DEF InHand, DispatcherTypeOK, HandlerStep, PublishOK, PublishError, MarkJobDispatched,
           RecordDispatchAttempt, MarkJobDispatchFailed, Goto, Return
      <3> QED BY <1>2, <1>5, <3>1 DEF InHand
    <2> QED BY <2>2, <2>3
  <1>6. TokenNeverAhead'
    <2>1. \A i \in 1..token : i \in 1..Len(events) /\ Covered(i)
      BY <1>1, Positions DEF TokenNeverAhead, Covered
    <2> QED BY <1>2, <1>4, <2>1 DEF TokenNeverAhead, Covered
  <1>7. CursorInv'
    <2>1. \A i \in 1..cursor.pos : i \in 1..Len(events)
      BY <1>1, Positions
    <2> QED BY <1>1, <1>2, <1>4, <1>5, <2>1 DEF CursorInv
  <1> QED BY <1>6, <1>7

(* The stream goroutine's own steps keep the token behind the handler.     *)
LEMMA StreamStepToken ==
  ASSUME TokenInv, "stream" \in Goroutines, StreamOpen \/ StreamNext \/ SaveToken \/ StreamError
  PROVE  TokenNeverAhead' /\ CursorInv'
  <1>1. DispatcherTypeOK /\ TokenNeverAhead /\ CursorInv
    BY DEF TokenInv
  <1>2. /\ Len(events) \in Nat /\ token \in 0..Len(events) /\ cursor.pos \in 0..Len(events)
        /\ events' = events /\ published' = published /\ pubErrors' = pubErrors
    BY <1>1, Positions DEF StreamOpen, StreamNext, SaveToken, StreamError, historyVars
  <1>3. \A i : i \in unseen => i \in unseen'
    BY DEF StreamOpen, StreamNext, SaveToken, StreamError, historyVars
  <1>4. \A i \in 1..token : Covered(i)'
    BY <1>1, <1>2, <1>3 DEF TokenNeverAhead, Covered
  <1>5. call["stream"].pc # "publish" => \A i \in 1..cursor.pos : Covered(i)'
    BY <1>1, <1>2, <1>3 DEF CursorInv, InHand, Covered
  <1>6. CASE StreamOpen
    <2>1. token' = token
      BY <1>6 DEF StreamOpen
    <2>2. CASE token # 0
      <3>1. cursor'.pos = token
        BY <1>6, <2>2 DEF StreamOpen
      <3> QED BY <1>2, <1>4, <2>1, <3>1 DEF TokenNeverAhead, CursorInv, Covered
    <2>3. CASE token = 0
      <3>1. cursor'.pos = Len(events) /\ \A i \in 1..Len(events) : i \in unseen'
        BY <1>6, <2>3 DEF StreamOpen
      <3> QED BY <1>2, <1>4, <2>1, <3>1 DEF TokenNeverAhead, CursorInv, Covered
    <2> QED BY <2>2, <2>3
  <1>7. CASE StreamNext
    <2> PICK n : n = cursor.pos + 1
      OBVIOUS
    <2>1. token' = token /\ cursor'.pos = n /\ call["stream"].pc = "idle"
      <3>1. cursor' = [cursor EXCEPT !.pos = cursor.pos + 1]
            /\ cursor \in [open : BOOLEAN, pos : 0..Len(events)]
        BY <1>1, <1>7 DEF StreamNext, DispatcherTypeOK
      <3>2. cursor'.pos = cursor.pos + 1
        BY <3>1
      <3> QED BY <1>7, <3>2 DEF StreamNext
    <2>2. call'["stream"].pc = "publish" /\ call'["stream"].job = events[n]
      BY <1>1, <1>7 DEF StreamNext, Handle, DispatcherTypeOK
    <2>3. InHand(n)'
      BY <1>2, <2>1, <2>2 DEF InHand
    <2>4. ASSUME NEW i \in 1..cursor'.pos
          PROVE  Covered(i)' \/ InHand(i)'
      <3>1. i \in 1..cursor.pos \/ i = n
        BY <1>2, <2>1
      <3> QED BY <1>5, <2>1, <2>3, <3>1
    <2>5. CursorInv'
      BY <2>4 DEF CursorInv
    <2> QED BY <1>2, <1>4, <2>1, <2>5 DEF TokenNeverAhead, Covered
  <1>8. CASE SaveToken
    <2>1. cursor' = cursor /\ token' \in {token, cursor.pos} /\ call["stream"].pc = "save"
      BY <1>8 DEF SaveToken
    <2>2. \A i \in 1..cursor.pos : Covered(i)'
      BY <1>5, <2>1
    <2> QED BY <1>2, <1>4, <2>1, <2>2 DEF TokenNeverAhead, CursorInv, Covered
  <1>9. CASE StreamError
    <2>1. token' = token /\ cursor'.pos = 0
      BY <1>9 DEF StreamError, Closed
    <2> QED BY <1>2, <1>4, <2>1 DEF TokenNeverAhead, CursorInv, Covered
  <1> QED BY <1>6, <1>7, <1>8, <1>9

(* An insert moves no event that was there before. *)
LEMMA CreateJobToken ==
  ASSUME TokenInv, NEW j \in Jobs, CreateJob(j)
  PROVE  TokenNeverAhead' /\ CursorInv'
  <1>1. DispatcherTypeOK /\ TokenNeverAhead /\ CursorInv
    BY DEF TokenInv
  <1>2. UNCHANGED <<cursor, token, call, published, pubErrors, unseen>>
    BY DEF CreateJob, historyVars
  <1>3. \A i \in 1..Len(events) : events'[i] = events[i]
    BY <1>1, AppendProperties DEF CreateJob, DispatcherTypeOK
  <1>4. /\ \A i \in 1..token : i \in 1..Len(events)
        /\ \A i \in 1..cursor.pos : i \in 1..Len(events)
    BY <1>1, Positions
  <1>5. \A i \in 1..Len(events) : (Covered(i) => Covered(i)') /\ (InHand(i) => InHand(i)')
    BY <1>2, <1>3 DEF Covered, InHand
  <1>6. TokenNeverAhead'
    BY <1>1, <1>2, <1>4, <1>5 DEF TokenNeverAhead, Covered
  <1>7. CursorInv'
    BY <1>1, <1>2, <1>4, <1>5 DEF CursorInv
  <1> QED BY <1>6, <1>7

(* The poll loop and a crash leave the token to the stream goroutine.      *)
LEMMA OtherStepToken ==
  ASSUME TokenInv, PollFetch \/ PollNext \/ DispatcherCrash
  PROVE  TokenNeverAhead' /\ CursorInv'
  <1>1. DispatcherTypeOK /\ TokenNeverAhead /\ CursorInv
    BY DEF TokenInv
  <1>2. UNCHANGED <<events, token, published, pubErrors, unseen>>
    BY DEF PollFetch, PollNext, DispatcherCrash, streamVars, historyVars
  <1>3. TokenNeverAhead'
    BY <1>1, <1>2 DEF TokenNeverAhead
  <1>4. CursorInv'
    <2>1. CASE PollFetch \/ PollNext
      <3>1. cursor' = cursor /\ ("stream" \in Goroutines => call'["stream"] = call["stream"])
        BY <1>1, <2>1 DEF PollFetch, PollNext, Handle, streamVars, DispatcherTypeOK
      <3> QED BY <1>1, <1>2, <3>1 DEF CursorInv, Covered, InHand
    <2>2. CASE DispatcherCrash
      <3>1. cursor'.pos = 0
        BY <2>2 DEF DispatcherCrash, Closed
      <3> QED BY <3>1 DEF CursorInv
    <2> QED BY <2>1, <2>2
  <1> QED BY <1>3, <1>4

(***************************************************************************)
(* runOnce saves the token of an event after HandleDispatch returned: no   *)
(* sequence of crashes, cursor errors, failed saves and reopened streams   *)
(* puts a token on disk that is past an event nobody tried to publish,     *)
(* other than those a stream without a token skipped.                      *)
(***************************************************************************)
THEOREM TokenCorrect == DispatcherSpec => []TokenNeverAhead
  <1>1. DispatcherAloneInit => TokenInv
    <2> SUFFICES ASSUME DispatcherAloneInit
                 PROVE  TokenInv
      OBVIOUS
    <2>1. token = 0 /\ cursor.pos = 0
      BY DEF DispatcherAloneInit, DispatcherInit, Closed
    <2>2. DispatcherTypeOK
      BY DispatcherInitType
    <2> QED BY <2>1, <2>2 DEF TokenInv, TokenNeverAhead, CursorInv
  <1>2. TokenInv /\ [DispatcherNext]_dispatchVars => TokenInv'
    <2> SUFFICES ASSUME TokenInv, [DispatcherNext]_dispatchVars
                 PROVE  TokenInv'
      OBVIOUS
    <2>1. CASE DispatcherNext
      <3>1. DispatcherTypeOK'
        BY <2>1, DispatcherNextType DEF TokenInv
      <3>2. TokenNeverAhead' /\ CursorInv'
        BY <2>1, HandlerStepToken, StreamStepToken, CreateJobToken, OtherStepToken
        DEF DispatcherNext, StreamStep, PollStep
      <3> QED BY <3>1, <3>2 DEF TokenInv
    <2>2. CASE UNCHANGED dispatchVars
      BY <2>2 DEF dispatchVars, dispatcherVars, streamVars, historyVars, TokenInv, TokenNeverAhead,
         CursorInv, Covered, InHand, DispatcherTypeOK, StoreTypeOK, BrokerTypeOK
    <2> QED BY <2>1, <2>2
  <1>3. TokenInv => TokenNeverAhead
    BY DEF TokenInv
  <1> QED BY <1>1, <1>2, <1>3, PTL DEF DispatcherSpec
-----------------------------------------------------------------------------
(* The batch of a poll. *)
Older(S, j) == {k \in S : k < j}

(* Who is older: no job than itself, and whoever is older than an older    *)
(* job.                                                                    *)
LEMMA OlderFacts ==
  ASSUME NEW S \in SUBSET Nat
  PROVE  /\ \A j \in S : j \in Nat /\ Older(S, j) \subseteq S /\ j \notin Older(S, j)
         /\ \A j, k \in S : k \in Older(S, j) <=> k < j
         /\ \A j, k \in S : ~(j < k) => k <= j
         /\ \A j, k \in S : j < k => Older(S, j) \cup {j} \subseteq Older(S, k)
  <1>1. \A j \in S : j \in Nat
    OBVIOUS
  <1>2. \A i, j, k \in Nat : (~(j < j)) /\ (i < j /\ j < k => i < k) /\ (~(j < k) => k <= j)
    OBVIOUS
  <1> QED BY <1>1, <1>2, Zenon DEF Older

(* The rank of a job among others is a number, smaller than the rank of    *)
(* every younger one.                                                      *)
LEMMA RankGrows ==
  ASSUME NEW S \in SUBSET Nat, NEW j \in S
  PROVE  /\ IsFiniteSet(Older(S, j)) /\ Cardinality(Older(S, j)) \in Nat
         /\ \A k \in S : j < k => Cardinality(Older(S, j)) < Cardinality(Older(S, k))
  <1>0. \A i \in S : i \in Nat
    OBVIOUS
  <1>1. ASSUME NEW k \in S
        PROVE  IsFiniteSet(Older(S, k)) /\ Cardinality(Older(S, k)) \in Nat
    <2>1. k \in Nat /\ Older(S, k) \subseteq S
      BY OlderFacts
    <2>3. Older(S, k) \in SUBSET Nat
      BY <1>0, <2>1
    <2>4. \A i \in Older(S, k) : i <= k
      <3>1. ASSUME NEW i \in Older(S, k)
            PROVE  i <= k
        <4>1. i \in S /\ i \in Nat
          BY <1>0, <2>1
        <4>2. i < k
          BY <4>1, OlderFacts
        <4> QED BY <2>1, <4>1, <4>2
      <3> QED BY <3>1
    <2>2. IsFiniteSet(Older(S, k))
      BY <2>1, <2>3, <2>4, FS_BoundedSetOfNaturals
    <2> QED BY <2>2, FS_CardinalityType
  <1>2. ASSUME NEW k \in S, j < k
        PROVE  Cardinality(Older(S, j)) < Cardinality(Older(S, k))
    <2>1. j \notin Older(S, j) /\ Older(S, j) \cup {j} \subseteq Older(S, k)
      BY <1>2, OlderFacts
    <2>2. Cardinality(Older(S, j) \cup {j}) = Cardinality(Older(S, j)) + 1
      BY <1>1, <2>1, FS_AddElement
    <2>3. Cardinality(Older(S, j) \cup {j}) <= Cardinality(Older(S, k))
      BY <1>1, <2>1, FS_Subset
    <2> QED BY <1>1, <2>2, <2>3
  <1> QED BY <1>1, <1>2

(* There is an oldest job in every set of jobs. *)
LEMMA OldestExists ==
  ASSUME NEW S \in SUBSET Nat, S # {}
  PROVE  \E m \in S : \A k \in S : m <= k
  <1> DEFINE T == {Older(S, j) : j \in S}
  <1>0. \A i \in S : i \in Nat
    OBVIOUS
  <1>1. T \subseteq FiniteSubsetsOf(S) /\ T # {}
    BY RankGrows DEF FiniteSubsetsOf, Older
  <1>2. \E x \in T : \A y \in T : <<y, x>> \notin StrictSubsetOrdering(S)
    BY <1>1, FS_StrictSubsetOrderingWellFounded, WFMin
  <1>3. PICK m \in S : \A k \in S : <<Older(S, k), Older(S, m)>> \notin StrictSubsetOrdering(S)
    BY <1>2
  <1>4. ASSUME NEW k \in S, k < m
        PROVE  FALSE
    <2>1. Older(S, k) \subseteq Older(S, m) /\ k \in Older(S, m) /\ k \notin Older(S, k)
      BY <1>4, OlderFacts
    <2>2. <<Older(S, k), Older(S, m)>> \in StrictSubsetOrdering(S)
      BY <2>1 DEF StrictSubsetOrdering, Older
    <2> QED BY <1>3, <2>2
  <1> QED BY <1>4, OlderFacts

(***************************************************************************)
(* ListPendingDispatch, sorted by createdAt and limited, for any number of *)
(* pending jobs: a batch is no larger than the limit, leaves no job out    *)
(* that is older than one it has, and either has every pending job or is   *)
(* full.  The oldest job is in it: young jobs cannot push it out.          *)
(***************************************************************************)
THEOREM BatchOfOldest ==
  ASSUME NEW S \in SUBSET Nat, NEW n \in Nat \ {0}
  PROVE  LET batch == Oldest(S, n) IN
         /\ IsFiniteSet(batch) /\ Cardinality(batch) <= n
         /\ \A j \in batch, k \in S : k < j => k \in batch
         /\ batch = S \/ Cardinality(batch) = n
         /\ S # {} => \E j \in batch : \A k \in S : j <= k
  <1> DEFINE batch == Oldest(S, n)
             rank == [j \in batch |-> Cardinality(Older(S, j))]
  <1>0. \A i \in S : i \in Nat
    OBVIOUS
  <1>1. batch \subseteq S /\ \A j \in S : j \in batch <=> Cardinality(Older(S, j)) < n
    BY DEF Oldest, Older
  <1>2. IsFiniteSet(batch) /\ Cardinality(batch) <= n
    <2>1. ASSUME NEW j \in batch PROVE rank[j] \in 0..(n - 1)
      <3>1. j \in S /\ Cardinality(Older(S, j)) < n /\ Cardinality(Older(S, j)) \in Nat
        BY <1>1, RankGrows
      <3> HIDE DEF batch
      <3> QED BY <3>1
    <2>2. ASSUME NEW j \in batch, NEW k \in batch, rank[j] = rank[k]
          PROVE  j = k
      <3>1. j \in S /\ k \in S /\ j \in Nat /\ k \in Nat
        BY <1>1
      <3>2. ~(j < k) /\ ~(k < j)
        BY <2>2, <3>1, RankGrows
      <3> QED BY <3>1, <3>2
    <2>3. rank \in Injection(batch, 0..(n - 1))
      BY <2>1, <2>2 DEF Injection, IsInjective
    <2>4. IsFiniteSet(0..(n - 1)) /\ Cardinality(0..(n - 1)) = n
      BY FS_Interval
    <2> HIDE DEF rank, batch
    <2> QED BY <2>3, <2>4, FS_Injection
  <1>3. ASSUME NEW j \in batch, NEW k \in S, k < j
        PROVE  k \in batch
    <2>1. j \in S /\ Cardinality(Older(S, j)) < n
      BY <1>1
    <2>2. Cardinality(Older(S, k)) < Cardinality(Older(S, j)) /\ Cardinality(Older(S, k)) \in Nat
      BY <1>3, <2>1, RankGrows
    <2>3. Cardinality(Older(S, j)) \in Nat
      BY <2>1, RankGrows
    <2>4. Cardinality(Older(S, k)) < n
      BY <2>1, <2>2, <2>3
    <2> HIDE DEF batch
    <2> QED BY <1>1, <2>4
  <1>4. ASSUME batch # S
        PROVE  Cardinality(batch) = n
    <2>1. S \ batch \in SUBSET Nat /\ S \ batch # {}
      BY <1>1, <1>4
    <2>2. PICK m \in S \ batch : \A k \in S \ batch : m <= k
      BY <2>1, OldestExists
    <2>3. Older(S, m) \subseteq batch
      <3>1. ASSUME NEW k \in Older(S, m)
            PROVE  k \in batch
        <4>1. k \in S /\ k < m /\ k \in Nat /\ m \in Nat
          BY <1>0, <2>2, OlderFacts
        <4>2. ~(m <= k)
          BY <4>1
        <4> QED BY <2>2, <4>1, <4>2
      <3> QED BY <3>1
    <2>4. Cardinality(Older(S, m)) <= Cardinality(batch)
      BY <1>2, <2>3, FS_Subset
    <2>5. ~(Cardinality(Older(S, m)) < n) /\ Cardinality(Older(S, m)) \in Nat /\ Cardinality(batch) \in Nat
      BY <1>1, <1>2, <2>2, RankGrows, FS_CardinalityType
    <2>6. Cardinality(batch) = n
      <3> HIDE DEF batch
      <3> QED BY <1>2, <2>4, <2>5
    <2> QED BY <2>6
  <1>5. ASSUME S # {}
        PROVE  \E j \in batch : \A k \in S : j <= k
    <2>1. PICK m \in S : \A k \in S : m <= k
      BY <1>5, OldestExists
    <2>2. Older(S, m) = {}
      <3>1. ASSUME NEW k \in Older(S, m)
            PROVE  FALSE
        <4>1. k \in S /\ k < m /\ k \in Nat /\ m \in Nat
          BY <1>0, <2>1, OlderFacts
        <4> QED BY <2>1, <4>1
      <3> QED BY <3>1
    <2>3. m \in batch
      BY <1>1, <2>2, FS_EmptySet
    <2> QED BY <2>1, <2>3
  <1>6. batch = S \/ Cardinality(batch) = n
    BY <1>4
  <1> HIDE DEF batch, rank
  <1> QED BY <1>2, <1>3, <1>5, <1>6 DEF batch
=============================================================================
