------------------------ MODULE ExecutorProcessProofs ------------------------
(***************************************************************************)
(* Theorems about the executor process: whatever it subscribes to, loses   *)
(* to a signal and closes, its steps are steps of the executors, and it    *)
(* closes nothing under a message in hand.                                 *)
(***************************************************************************)
EXTENDS ExecutorProcess, ExecutorProofs, FiniteSetTheorems

(***************************************************************************)
(* The inductive invariant.  A loop that has not ended belongs to a main   *)
(* goroutine inside Run, and Run is entered with every topic subscribed    *)
(* and left, to close things, when every loop has ended.                   *)
(***************************************************************************)
LoopsInsideRun ==
  \A w \in Workers : loop[w] \in {"top", "receive", "handle"} => main \in {"run", "wait"}

OpenInsideRun ==
  /\ main = "subscribe" => clients = AllClients
  /\ main \in {"run", "wait"} => subscribed = Workers /\ clients = AllClients

ProcessInv == ProcessTypeOK /\ LoopsInsideRun /\ OpenInsideRun

-----------------------------------------------------------------------------
(* What a step of the process is to the executors. *)
LEMMA ProcessStepKinds ==
  ASSUME [ProcessNext]_allVars
  PROVE  \/ UNCHANGED execVars
         \/ \E w \in Workers : WorkerStep(w)
         \/ \E j \in Jobs : ClientWrites(j)
  <1>1. CASE \E w \in Workers : LoopStep(w)
    <2>1. PICK w \in Workers : LoopStep(w)
      BY <1>1
    <2>2. UNCHANGED execVars \/ WorkerStep(w)
      BY <2>1 DEF LoopStep, CheckContext, ReceiveMessage, ReceiveError, HandleMessage, CancelledCall,
                  WorkerStep
    <2> QED BY <2>2
  <1>2. CASE MainStep \/ SubscribeFails \/ Signal \/ Restart
    BY <1>2 DEF MainStep, Subscribe, SubscribeFails, StartLoops, Signal, RunSeesCancel, RunReturns,
                CloseConsumers, ClosePulsar, Disconnect, Restart
  <1>3. CASE \E j \in Jobs : ClientWrites(j) /\ UNCHANGED processVars
    BY <1>3
  <1>4. CASE UNCHANGED allVars
    BY <1>4 DEF allVars
  <1> QED BY <1>1, <1>2, <1>3, <1>4 DEF ProcessNext

(***************************************************************************)
(* The process implements the executors: signals, failed subscriptions and *)
(* the order in which main closes things add no behaviour to ExecuteJob    *)
(* and the topic that Executor does not have.                              *)
(***************************************************************************)
THEOREM ProcessImplementsExecutor == ProcessSpec => ExecutorSpec
  <1>1. ProcessInit => ExecutorsAloneInit
    BY DEF ProcessInit
  <1>2. [ProcessNext]_allVars => [ExecutorsAloneNext]_execVars
    BY ProcessStepKinds DEF ExecutorsAloneNext, ExecutorNext
  <1> QED BY <1>1, <1>2, PTL DEF ProcessSpec, ExecutorSpec

(***************************************************************************)
(* What the executors keep, the process keeps: through signals, failed     *)
(* subscriptions and restarts no handler runs unpaid, nothing is completed *)
(* without a success, no running job loses its owner unnoticed, and no     *)
(* message comes back but for a call that the cancelled context failed.    *)
(***************************************************************************)
THEOREM ProcessKeepsExecutors ==
  ProcessSpec => /\ [](RunsCounted /\ CompletedAfterSuccess /\ RunningHasOwner)
                 /\ RedeliveredAfterFault
  BY ProcessImplementsExecutor, RunsCorrect, CompletionCorrect, OwnerCorrect, RedeliveryCorrect, PTL

-----------------------------------------------------------------------------
(* The initial states. *)
LEMMA ProcessInitInv ==
  ASSUME ProcessInit
  PROVE  ProcessInv /\ NotStartedHasMessage
  <1>1. ExecutorTypeOK
    BY ExecutorInitInv DEF ProcessInit, ExecInv
  <1>2. \A w \in Workers : worker[w].pc = "idle"
    BY DEF ProcessInit, ExecutorsAloneInit, ExecutorInit, NoWork
  <1>3. 0 \in 0..MaxExits
    BY ProcessAssumption
  <1>4. ProcessTypeOK
    BY <1>1, <1>2, <1>3 DEF ProcessInit, Started, ProcessTypeOK, MainPcs, LoopPcs
  <1>5. LoopsInsideRun /\ OpenInsideRun
    BY DEF ProcessInit, Started, LoopsInsideRun, OpenInsideRun
  <1>6. NotStartedHasMessage
    BY DEF ProcessInit, ExecutorsAloneInit, NotStartedHasMessage, HasMessage
  <1> QED BY <1>4, <1>5, <1>6 DEF ProcessInv

(* A step of a loop moves that loop alone, and knows afterwards whether    *)
(* its worker is busy.                                                     *)
LEMMA LoopMoves ==
  ASSUME ProcessInv, NEW w \in Workers, LoopStep(w)
  PROVE  /\ loop' \in [Workers -> LoopPcs]
         /\ \A v \in Workers : loop'[v] = "handle" <=> worker'[v].pc # "idle"
         /\ \A v \in Workers :
              loop'[v] \in {"top", "receive", "handle"} =>
                \E u \in Workers : loop[u] \in {"top", "receive", "handle"}
         /\ UNCHANGED <<main, ctxDone, subscribed, clients, exits>>
  <1>1. /\ ExecutorTypeOK /\ loop \in [Workers -> LoopPcs]
        /\ \A v \in Workers : loop[v] = "handle" <=> worker[v].pc # "idle"
    BY DEF ProcessInv, ProcessTypeOK
  <1>2. loop[w] \in {"top", "receive", "handle"} /\ UNCHANGED <<main, ctxDone, subscribed, clients, exits>>
    BY DEF LoopStep, CheckContext, ReceiveMessage, ReceiveError, HandleMessage
  <1>3. \A v \in Workers : v # w => worker'[v] = worker[v]
    <2>1. CASE WorkerStep(w)
      BY <1>1, <2>1, OtherWorkers
    <2>2. CASE UNCHANGED execVars
      BY <2>2 DEF execVars, executorVars
    <2> QED
      BY <2>1, <2>2 DEF LoopStep, CheckContext, ReceiveMessage, ReceiveError, HandleMessage,
                        CancelledCall, WorkerStep
  <1>4. PICK pc \in LoopPcs : LoopGoto(w, pc) /\ (pc = "handle" <=> worker'[w].pc # "idle")
    <2>1. CASE CheckContext(w) \/ ReceiveError(w)
      BY <1>1, <2>1 DEF CheckContext, ReceiveError, LoopPcs, execVars, executorVars
    <2>2. CASE ReceiveMessage(w)
      BY <1>1, <2>2 DEF ReceiveMessage, Receive, LoopPcs, ExecutorTypeOK
    <2>3. CASE HandleMessage(w)
      BY <2>3 DEF HandleMessage, LoopPcs
    <2> QED BY <2>1, <2>2, <2>3 DEF LoopStep
  <1> QED BY <1>1, <1>2, <1>3, <1>4 DEF LoopGoto

(* Every step of the process keeps ProcessInv. *)
LEMMA ProcessNextInv ==
  ASSUME ProcessInv, ExecutorTypeOK', [ProcessNext]_allVars
  PROVE  ProcessInv'
  <1>1. CASE \E w \in Workers : LoopStep(w)
    BY <1>1, LoopMoves DEF ProcessInv, ProcessTypeOK, LoopsInsideRun, OpenInsideRun
  <1> USE ProcessAssumption DEF ProcessInv, ProcessTypeOK, LoopsInsideRun, OpenInsideRun, MainPcs, LoopPcs,
          execVars, executorVars
  <1>2. CASE Subscribe
    BY <1>2 DEF Subscribe
  <1>3. CASE SubscribeFails
    BY <1>3 DEF SubscribeFails
  <1>4. CASE StartLoops
    BY <1>4 DEF StartLoops
  <1>5. CASE RunSeesCancel \/ Signal
    BY <1>5 DEF RunSeesCancel, Signal
  <1>6. CASE RunReturns
    BY <1>6 DEF RunReturns
  <1>7. CASE CloseConsumers \/ ClosePulsar
    BY <1>7 DEF CloseConsumers, ClosePulsar, AllClients
  <1>8. CASE Disconnect
    BY <1>8 DEF Disconnect
  <1>9. CASE Restart
    BY <1>9 DEF Restart
  <1>10. CASE \E j \in Jobs : ClientWrites(j) /\ UNCHANGED processVars
    BY <1>10 DEF ClientWrites, processVars
  <1>11. CASE UNCHANGED allVars
    BY <1>11 DEF allVars, processVars
  <1> QED
    BY <1>1, <1>2, <1>3, <1>4, <1>5, <1>6, <1>7, <1>8, <1>9, <1>10, <1>11 DEF ProcessNext, MainStep

-----------------------------------------------------------------------------
(* No step of a worker takes the last message of a job that has not started. *)
LEMMA WorkerKeepsMessage ==
  ASSUME ExecInv, NotStartedHasMessage, NEW w \in Workers, WorkerStep(w)
  PROVE  NotStartedHasMessage'
  <1>1. ExecutorTypeOK /\ MessagesOfJobs /\ DOMAIN jobs' = DOMAIN jobs
    BY ExecutorNextType DEF ExecInv
  <1>2. \A k \in DOMAIN jobs : OnItsWay(k)
    BY DEF NotStartedHasMessage, OnItsWay
  <1>3. \A k \in DOMAIN jobs : OnItsWay(k)'
    BY <1>1, <1>2, StaysOnItsWay DEF ExecInv
  <1> QED BY <1>1, <1>3 DEF NotStartedHasMessage, OnItsWay

(* What a client cancels or fails has started, or ended without. *)
LEMMA ClientKeepsMessage ==
  ASSUME ExecInv, NotStartedHasMessage, NEW i \in Jobs, DOMAIN jobs = Jobs, ClientWrites(i)
  PROVE  NotStartedHasMessage'
  <1>1. jobs \in [Jobs -> Document]
    BY DEF ExecInv, ExecutorTypeOK, StoreTypeOK
  <1>2. PICK e \in {CancelPatch(jobs[i]), FailIfNotTerminal(jobs[i])} : jobs' = [jobs EXCEPT ![i] = e]
    BY DEF ClientWrites
  <1>3. e.executionStatus # "not_started"
    BY <1>1, <1>2 DEF CancelPatch, FailIfNotTerminal, Document, ExecutionStatuses, TerminalExecution
  <1>4. UNCHANGED <<queue, worker, abandoned>>
    BY DEF ClientWrites, executorVars
  <1> QED BY <1>1, <1>2, <1>3, <1>4 DEF NotStartedHasMessage, HasMessage, Holds, RejectionLost

-----------------------------------------------------------------------------
(* ExecInv of the executors, ProcessInv and the message of every job that  *)
(* has not started hold in every reachable state of the process.           *)
LEMMA ProcessInvHolds == ProcessSpec => [](ExecInv /\ ProcessInv /\ NotStartedHasMessage)
  <1> DEFINE Inv == ProcessInv /\ NotStartedHasMessage /\ DOMAIN jobs = Jobs
  <1>1. ProcessInit => Inv
    BY ProcessInitInv DEF ProcessInit, ExecutorsAloneInit
  <1>2. Inv /\ ExecInv /\ ExecInv' /\ [ProcessNext]_allVars => Inv'
    <2> SUFFICES ASSUME Inv, ExecInv, ExecInv', [ProcessNext]_allVars
                 PROVE  Inv'
      OBVIOUS
    <2>1. ProcessInv'
      BY ProcessNextInv DEF ExecInv
    <2>2. CASE UNCHANGED execVars
      BY <2>1, <2>2 DEF execVars, executorVars, NotStartedHasMessage, HasMessage, Holds, RejectionLost
    <2>3. CASE \E w \in Workers : WorkerStep(w)
      <3>1. PICK w \in Workers : WorkerStep(w)
        BY <2>3
      <3> QED BY <2>1, <3>1, WorkerKeepsMessage, ExecutorNextType DEF ExecInv
    <2>4. CASE \E j \in Jobs : ClientWrites(j)
      <3>1. PICK j \in Jobs : ClientWrites(j)
        BY <2>4
      <3>2. DOMAIN jobs' = DOMAIN jobs
        BY <3>1 DEF ClientWrites
      <3> QED BY <2>1, <3>1, <3>2, ClientKeepsMessage
    <2> QED BY <2>2, <2>3, <2>4, ProcessStepKinds
  <1>3. ProcessSpec => []ExecInv
    BY ProcessImplementsExecutor, ExecInvHolds, PTL
  <1>4. Inv /\ ExecInv => ExecInv /\ ProcessInv /\ NotStartedHasMessage
    OBVIOUS
  <1> QED BY <1>1, <1>2, <1>3, <1>4, PTL DEF ProcessSpec

(***************************************************************************)
(* Type correctness, with the agreement of each loop and its ExecuteJob    *)
(* call: handleMessage is entered with a message and left without one.     *)
(***************************************************************************)
THEOREM ProcessTypeCorrect == ProcessSpec => []ProcessTypeOK
  <1>1. ProcessInv => ProcessTypeOK
    BY DEF ProcessInv
  <1> QED BY <1>1, ProcessInvHolds, PTL

(* Whenever the signal comes, no subscription and no client is closed      *)
(* while a loop still has a message to ack or nack.                        *)
THEOREM HandledWhileOpenCorrect == ProcessSpec => []HandledWhileOpen
  <1>1. ProcessInv => HandledWhileOpen
    BY DEF ProcessInv, ProcessTypeOK, LoopsInsideRun, OpenInsideRun, HandledWhileOpen
  <1> QED BY <1>1, ProcessInvHolds, PTL

(* No number of shutdowns, cancelled calls and duplicates loses the last   *)
(* message of a job that has not started, but for one that no handler      *)
(* accepts and whose FailJob failed: that one is acked unrecorded.  A job  *)
(* with a handler is never lost.                                           *)
THEOREM MessageKept == ProcessSpec => []NotStartedHasMessage
  BY ProcessInvHolds, PTL

-----------------------------------------------------------------------------
(***************************************************************************)
(* The shutdown.  Before Run starts them, no loop is left from an earlier  *)
(* process.                                                                *)
(***************************************************************************)
LoopsNotStarted == main = "subscribe" => \A w \in Workers : loop[w] = "none"

LEMMA NextLoopsNotStarted ==
  ASSUME ProcessInv, LoopsNotStarted, [ProcessNext]_allVars
  PROVE  LoopsNotStarted'
  <1>1. CASE \E w \in Workers : LoopStep(w)
    BY <1>1, LoopMoves DEF ProcessInv, LoopsInsideRun, LoopsNotStarted, LoopStep, CheckContext, ReceiveMessage,
                           ReceiveError, HandleMessage
  <1>2. CASE \/ MainStep \/ SubscribeFails \/ Signal \/ Restart
             \/ \E j \in Jobs : ClientWrites(j) /\ UNCHANGED processVars
             \/ UNCHANGED allVars
    BY <1>2 DEF MainStep, Subscribe, SubscribeFails, StartLoops, Signal, RunSeesCancel, RunReturns, CloseConsumers,
                ClosePulsar, Disconnect, Restart, LoopsNotStarted, processVars, allVars
  <1> QED BY <1>1, <1>2 DEF ProcessNext

(* One more topic subscribed to is one less to do. *)
LEMMA SubscribeAdvances ==
  ASSUME NEW S \in SUBSET Workers, NEW w \in Workers \ S
  PROVE  /\ Cardinality(Workers \ S) \in Nat
         /\ Cardinality(Workers \ (S \cup {w})) = Cardinality(Workers \ S) - 1
  <1>1. IsFiniteSet(Workers \ S)
    BY ProcessAssumption, FS_Difference
  <1>2. Workers \ (S \cup {w}) = (Workers \ S) \ {w}
    OBVIOUS
  <1>3. Cardinality(Workers \ S) \in Nat
    BY <1>1, FS_CardinalityType
  <1>4. Cardinality((Workers \ S) \ {w}) = Cardinality(Workers \ S) - 1
    BY <1>1, FS_RemoveElement
  <1> QED BY <1>2, <1>3, <1>4

(* What is left to do is a number. *)
StepsCounted == StepsOfMain \in Nat /\ \A w \in Workers : StepsOfLoop(w) \in Nat

LEMMA StepsAreCounted ==
  ASSUME ProcessTypeOK
  PROVE  StepsCounted
  <1>1. main \in MainPcs /\ Cardinality(Workers \ subscribed) \in Nat
    BY ProcessAssumption, FS_Difference, FS_CardinalityType DEF ProcessTypeOK
  <1>2. StepsOfMain \in Nat
    BY <1>1 DEF StepsOfMain, MainPcs
  <1>3. ASSUME NEW w \in Workers PROVE StepsOfLoop(w) \in Nat
    <2>1. worker[w].pc \in WorkerPcs /\ loop[w] \in LoopPcs
      BY DEF ProcessTypeOK, ExecutorTypeOK
    <2>2. StepsOfExecuteJob[worker[w].pc] \in Nat
      BY <2>1 DEF StepsOfExecuteJob, WorkerPcs
    <2> QED BY <2>1, <2>2 DEF StepsOfLoop, LoopPcs
  <1> QED BY <1>2, <1>3 DEF StepsCounted

(* A step of main takes main further, and no loop back. *)
LEMMA MainAdvances ==
  ASSUME ProcessInv, LoopsNotStarted, MainStep \/ SubscribeFails
  PROVE  /\ StepsOfMain' < StepsOfMain
         /\ \A w \in Workers : StepsOfLoop(w)' <= StepsOfLoop(w)
  <1>1. /\ main \in MainPcs /\ subscribed \subseteq Workers /\ loop \in [Workers -> LoopPcs]
        /\ worker' = worker
        /\ \A w \in Workers : loop[w] = "handle" <=> worker[w].pc # "idle"
    BY DEF ProcessInv, ProcessTypeOK, MainStep, Subscribe, SubscribeFails, StartLoops, RunSeesCancel, RunReturns,
           CloseConsumers, ClosePulsar, Disconnect, execVars, executorVars
  <1>2. \A w \in Workers :
          StepsOfLoop(w) \in Nat /\ (loop'[w] = loop[w] => StepsOfLoop(w)' = StepsOfLoop(w))
    <2> TAKE w \in Workers
    <2>1. StepsOfLoop(w) \in Nat
      BY StepsAreCounted DEF ProcessInv, StepsCounted
    <2> QED BY <1>1, <2>1 DEF StepsOfLoop, StepsOfExecuteJob
  <1>3. CASE Subscribe
    <2>1. PICK w \in Workers \ subscribed : subscribed' = subscribed \cup {w}
      BY <1>3 DEF Subscribe
    <2>2. main = "subscribe" /\ main' = "subscribe" /\ loop' = loop
      BY <1>3 DEF Subscribe, processVars
    <2>3. StepsOfMain' < StepsOfMain
      <3>1. /\ Cardinality(Workers \ subscribed) \in Nat
            /\ Cardinality(Workers \ subscribed') = Cardinality(Workers \ subscribed) - 1
        BY <1>1, <2>1, SubscribeAdvances
      <3> QED BY <2>2, <3>1 DEF StepsOfMain
    <2> QED BY <1>2, <2>2, <2>3
  <1>4. CASE SubscribeFails \/ StartLoops
    <2>1. main = "subscribe" /\ main' \in {"exited", "run"} /\ loop' \in {loop, [w \in Workers |-> "top"]}
      BY <1>4 DEF SubscribeFails, StartLoops
    <2>2. Cardinality(Workers \ subscribed) \in Nat
      BY ProcessAssumption, FS_Difference, FS_CardinalityType
    <2>3. StepsOfMain' < StepsOfMain
      BY <2>1, <2>2 DEF StepsOfMain
    <2>4. ASSUME NEW w \in Workers, loop'[w] = "top"
          PROVE  StepsOfLoop(w)' <= StepsOfLoop(w)
      BY <2>1, <2>4 DEF LoopsNotStarted, StepsOfLoop
    <2>5. ASSUME NEW w \in Workers
          PROVE  loop'[w] = "top" \/ loop'[w] = loop[w]
      BY <2>1
    <2> QED BY <1>2, <2>3, <2>4, <2>5
  <1>5. CASE RunSeesCancel \/ RunReturns \/ CloseConsumers \/ ClosePulsar \/ Disconnect
    <2>1. StepsOfMain' < StepsOfMain
      BY <1>5 DEF StepsOfMain, RunSeesCancel, RunReturns, CloseConsumers, ClosePulsar, Disconnect
    <2>2. loop' = loop
      BY <1>5 DEF RunSeesCancel, RunReturns, CloseConsumers, ClosePulsar, Disconnect
    <2> QED BY <1>2, <2>1, <2>2
  <1> QED BY <1>3, <1>4, <1>5 DEF MainStep

(* Under the cancelled context every call of ExecuteJob but the handler is *)
(* the last one: it fails, and the worker lets its message go.             *)
LEMMA CancelledCallReleases ==
  ASSUME NEW w \in Workers, worker[w].pc # "idle", CancelledCall(w)
  PROVE  Release(w)
  BY DEF CancelledCall, WorkerStep, Receive, StartJob, RunHandler, CompleteJob, CompleteMiss, FailJobRead,
         FailJobWrite, Write, Acked, AckLost, Nacked

(* A step of a loop takes it further, and touches no other. *)
LEMMA LoopAdvances ==
  ASSUME ProcessInv, ctxDone, NEW w \in Workers, LoopStep(w)
  PROVE  /\ StepsOfMain' = StepsOfMain
         /\ StepsOfLoop(w)' < StepsOfLoop(w)
         /\ \A v \in Workers : v # w => StepsOfLoop(v)' = StepsOfLoop(v)
  <1>1. /\ ExecutorTypeOK /\ loop \in [Workers -> LoopPcs]
        /\ worker \in [Workers -> [pc : WorkerPcs, job : Jobs \cup {NoJob}]]
        /\ loop[w] = "handle" <=> worker[w].pc # "idle"
    BY DEF ProcessInv, ProcessTypeOK, ExecutorTypeOK
  <1>2. StepsOfMain' = StepsOfMain
    BY LoopMoves DEF StepsOfMain
  <1>3. \E pc \in LoopPcs : LoopGoto(w, pc)
    BY DEF LoopStep, CheckContext, ReceiveMessage, ReceiveError, HandleMessage, LoopPcs
  <1>4. \A v \in Workers : v # w => loop'[v] = loop[v] /\ worker'[v] = worker[v]
    <2>1. worker' = worker \/ WorkerStep(w)
      BY DEF LoopStep, CheckContext, ReceiveMessage, ReceiveError, HandleMessage, CancelledCall, WorkerStep,
             execVars, executorVars
    <2> QED BY <1>1, <1>3, <2>1, OtherWorkers DEF LoopGoto
  <1>5. \A v \in Workers : v # w => StepsOfLoop(v)' = StepsOfLoop(v)
    BY <1>4 DEF StepsOfLoop, StepsOfExecuteJob
  <1>6. StepsOfLoop(w)' < StepsOfLoop(w)
    <2>1. CASE CheckContext(w) \/ ReceiveError(w)
      <3>1. loop[w] \in {"top", "receive"} /\ loop'[w] = "ended"
        BY <1>1, <2>1 DEF CheckContext, ReceiveError, LoopGoto
      <3> QED BY <3>1 DEF StepsOfLoop
    <2>2. CASE ReceiveMessage(w)
      <3>1. loop[w] = "receive" /\ loop'[w] = "handle" /\ worker'[w].pc \in {"start", "reject"}
        BY <1>1, <2>2 DEF ReceiveMessage, Receive, LoopGoto
      <3> QED BY <3>1 DEF StepsOfLoop, StepsOfExecuteJob
    <2>3. CASE HandleMessage(w)
      <3>1. loop[w] = "handle" /\ worker[w].pc \in WorkerPcs \ {"idle"}
            /\ loop'[w] = IF worker'[w].pc = "idle" THEN "top" ELSE "handle"
        BY <1>1, <2>3 DEF HandleMessage, LoopGoto
      <3>2. CASE RunHandler(w)
        <4>1. worker[w].pc = "run" /\ worker'[w].pc \in {"complete", "fail"}
          BY <1>1, <3>2 DEF RunHandler, WorkerGoto
        <4> QED BY <3>1, <4>1 DEF StepsOfLoop, StepsOfExecuteJob
      <3>3. CASE CancelledCall(w)
        <4>1. worker'[w].pc = "idle"
          BY <1>1, <3>1, <3>3, CancelledCallReleases DEF Release, NoWork
        <4>2. StepsOfExecuteJob[worker[w].pc] > 1
          BY <3>1 DEF StepsOfExecuteJob, WorkerPcs
        <4> QED BY <3>1, <4>1, <4>2 DEF StepsOfLoop
      <3> QED BY <2>3, <3>2, <3>3 DEF HandleMessage
    <2> QED BY <2>1, <2>2, <2>3 DEF LoopStep
  <1> QED BY <1>2, <1>5, <1>6

(***************************************************************************)
(* A cancelled process, of any number of loops, has only so many steps     *)
(* left, and every step it takes is one of them.  That it does take them   *)
(* is the fairness of ShutdownCompletes.                                   *)
(***************************************************************************)
THEOREM ShutdownAdvancesCorrect == ProcessSpec => ShutdownAdvances
  <1> DEFINE Advances ==
        ctxDone /\ ctxDone' =>
          /\ StepsOfMain' <= StepsOfMain
          /\ \A w \in Workers : StepsOfLoop(w)' <= StepsOfLoop(w)
          /\ \/ StepsOfMain' < StepsOfMain
             \/ \E w \in Workers : StepsOfLoop(w)' < StepsOfLoop(w)
  <1>1. ProcessInit => LoopsNotStarted
    BY DEF ProcessInit, Started, LoopsNotStarted
  <1>2. ProcessInv /\ LoopsNotStarted /\ [ProcessNext]_allVars => LoopsNotStarted'
    BY NextLoopsNotStarted
  <1>3. ProcessTypeOK => StepsCounted
    BY StepsAreCounted
  <1>4. ProcessInv /\ LoopsNotStarted /\ StepsCounted /\ StepsCounted' /\ [ProcessNext]_allVars
          => [Advances]_<<processVars, worker>>
    <2> SUFFICES ASSUME ProcessInv, LoopsNotStarted, StepsCounted, StepsCounted',
                        [ProcessNext]_allVars, ctxDone, ctxDone',
                        ~UNCHANGED <<processVars, worker>>
                 PROVE  Advances
      OBVIOUS
    <2>1. \/ MainStep \/ SubscribeFails
          \/ \E w \in Workers : LoopStep(w)
      BY DEF ProcessNext, Signal, Restart, ClientWrites, allVars, execVars, executorVars
    <2>2. CASE MainStep \/ SubscribeFails
      BY <2>2, MainAdvances DEF StepsCounted
    <2>3. CASE \E w \in Workers : LoopStep(w)
      <3>1. PICK w \in Workers : LoopStep(w)
        BY <2>3
      <3>2. /\ StepsOfMain' = StepsOfMain
            /\ StepsOfLoop(w)' < StepsOfLoop(w)
            /\ \A v \in Workers : v # w => StepsOfLoop(v)' = StepsOfLoop(v)
        BY <3>1, LoopAdvances
      <3>3. \A v \in Workers : StepsOfLoop(v)' <= StepsOfLoop(v)
        BY <3>2 DEF StepsCounted
      <3> HIDE DEF Advances
      <3>4. StepsOfMain' <= StepsOfMain
        BY <3>2 DEF StepsCounted
      <3> QED BY <3>2, <3>3, <3>4 DEF Advances
    <2> QED BY <2>1, <2>2, <2>3
  <1> QED BY <1>1, <1>2, <1>3, <1>4, ProcessInvHolds, ProcessTypeCorrect, PTL DEF ProcessSpec, ShutdownAdvances
=============================================================================
