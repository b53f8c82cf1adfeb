--------------------------- MODULE ExecutorProcess ---------------------------
(***************************************************************************)
(* cmd/jobs-executor from its first subscription to its exit: main         *)
(* subscribes to every topic, PulsarJobConsumer.Run starts a loop per      *)
(* subscription and waits, SIGTERM cancels the context that loops,         *)
(* handlers and store calls share, and main releases the clients in the    *)
(* reverse order of their creation once Run has returned.  Then the next   *)
(* process starts.                                                         *)
(*                                                                         *)
(* The steps of ExecuteJob are those of Executor, here with a healthy      *)
(* store and broker: the one thing that makes a store call fail is the     *)
(* cancelled context.  Deaths without a signal are Executor's.             *)
(***************************************************************************)
EXTENDS Executor, FiniteSets

CONSTANT MaxExits   \* bound: processes that end

ASSUME ProcessAssumption ==
  /\ MaxExits \in Nat
  /\ IsFiniteSet(Workers)
  /\ MaxFaults >= MaxExits * Cardinality(Workers)   \* one cancelled call a loop and process

VARIABLES
  main,        \* where the main goroutine is
  ctxDone,     \* is the context of signal.NotifyContext cancelled?
  loop,        \* where each consumeLoop is
  subscribed,  \* loops whose subscription is open
  clients,     \* clients main has not closed yet
  exits        \* processes that ended

processVars == <<main, ctxDone, loop, subscribed, clients, exits>>

AllClients == {"pulsar", "mongo"}

MainPcs == {"subscribe", "run", "wait", "closeConsumers", "closePulsar", "disconnect", "exited"}

LoopPcs == {"none", "top", "receive", "handle", "ended"}

ProcessTypeOK ==
  /\ ExecutorTypeOK
  /\ main \in MainPcs
  /\ ctxDone \in BOOLEAN
  /\ loop \in [Workers -> LoopPcs]
  /\ \A w \in Workers : loop[w] = "handle" <=> worker[w].pc # "idle"
  /\ subscribed \subseteq Workers
  /\ clients \subseteq AllClients
  /\ exits \in 0..MaxExits

\* Both clients are connected; a process that fails before has no loops.
Started ==
  /\ main = "subscribe"
  /\ ctxDone = FALSE
  /\ loop = [w \in Workers |-> "none"]
  /\ subscribed = {}
  /\ clients = AllClients

ProcessInit ==
  /\ ExecutorsAloneInit
  /\ Started
  /\ exits = 0

-----------------------------------------------------------------------------
(* NewPulsarJobConsumer. *)

Subscribe ==
  /\ main = "subscribe"
  /\ \E w \in Workers \ subscribed : subscribed' = subscribed \cup {w}
  /\ UNCHANGED <<execVars, main, ctxDone, loop, clients, exits>>

\* One topic cannot be subscribed to: the subscriptions made so far are closed
\* and log.Fatalf ends the process, without its deferred calls.
SubscribeFails ==
  /\ main = "subscribe"
  /\ subscribed # Workers
  /\ exits < MaxExits
  /\ exits' = exits + 1
  /\ subscribed' = {}
  /\ clients' = {}
  /\ main' = "exited"
  /\ UNCHANGED <<execVars, ctxDone, loop>>

StartLoops ==
  /\ main = "subscribe"
  /\ subscribed = Workers
  /\ main' = "run"
  /\ loop' = [w \in Workers |-> "top"]
  /\ UNCHANGED <<execVars, ctxDone, subscribed, clients, exits>>

-----------------------------------------------------------------------------
(* consumeLoop. *)

LoopGoto(w, pc) == loop' = [loop EXCEPT ![w] = pc]

\* Mutant: the select at the top of the loop is left out.
CheckNothing(w) ==
  /\ loop[w] = "top"
  /\ LoopGoto(w, "receive")
  /\ UNCHANGED <<execVars, main, ctxDone, subscribed, clients, exits>>

\* The select at the top of the loop.
CheckContext(w) ==
  /\ loop[w] = "top"
  /\ LoopGoto(w, IF ctxDone THEN "ended" ELSE "receive")
  /\ UNCHANGED <<execVars, main, ctxDone, subscribed, clients, exits>>

\* Receive picks at random when a message is there and the context is done.
ReceiveMessage(w) ==
  /\ loop[w] = "receive"
  /\ Receive(w)
  /\ LoopGoto(w, "handle")
  /\ UNCHANGED <<main, ctxDone, subscribed, clients, exits>>

\* Mutant: every error of Receive is logged and the loop goes on receiving.
ReceiveErrorRetried(w) ==
  /\ loop[w] = "receive"
  /\ UNCHANGED <<execVars, processVars>>

\* Receive returned an error: the loop ends if the context is the reason.
ReceiveError(w) ==
  /\ loop[w] = "receive"
  /\ LoopGoto(w, IF ctxDone THEN "ended" ELSE "top")
  /\ UNCHANGED <<execVars, main, ctxDone, subscribed, clients, exits>>

\* A store call under the cancelled context returns an error; a write that was
\* on its way may have been applied, but its caller does not know.
CancelledCall(w) ==
  /\ WorkerStep(w)
  /\ faults' # faults
  /\ jobs' # jobs => worker[w].job \in abandoned'

\* handleMessage: the next step of ExecuteJob, and after the last one the Ack
\* or Nack and back to the top.
HandleMessage(w) ==
  /\ loop[w] = "handle"
  /\ \/ RunHandler(w)
     \/ ~ctxDone /\ WorkerStep(w) /\ UNCHANGED faults
     \/ ctxDone /\ CancelledCall(w)
  /\ LoopGoto(w, IF worker'[w].pc = "idle" THEN "top" ELSE "handle")
  /\ UNCHANGED <<main, ctxDone, subscribed, clients, exits>>

-----------------------------------------------------------------------------
(* The main goroutine, from the signal on. *)

\* NotifyContext is installed first thing: the signal may come at any time.
Signal ==
  /\ main # "exited"
  /\ ~ctxDone
  /\ exits < MaxExits
  /\ ctxDone' = TRUE
  /\ UNCHANGED <<execVars, main, loop, subscribed, clients, exits>>

RunSeesCancel ==
  /\ main = "run"
  /\ ctxDone
  /\ main' = "wait"
  /\ UNCHANGED <<execVars, ctxDone, loop, subscribed, clients, exits>>

\* Mutant: Run returns without waiting for its loops.
RunReturnsAtOnce ==
  /\ main = "wait"
  /\ main' = "closeConsumers"
  /\ UNCHANGED <<execVars, ctxDone, loop, subscribed, clients, exits>>

\* wg.Wait: Run returns context.Canceled, which main takes for a clean end.
RunReturns ==
  /\ main = "wait"
  /\ \A w \in Workers : loop[w] = "ended"
  /\ main' = "closeConsumers"
  /\ UNCHANGED <<execVars, ctxDone, loop, subscribed, clients, exits>>

\* The deferred calls: consumer.Close, pulsarClient.Close (which closes the
\* tracked consumers once more), Disconnect.
CloseConsumers ==
  /\ main = "closeConsumers"
  /\ subscribed' = {}
  /\ main' = "closePulsar"
  /\ UNCHANGED <<execVars, ctxDone, loop, clients, exits>>

ClosePulsar ==
  /\ main = "closePulsar"
  /\ clients' = clients \ {"pulsar"}
  /\ main' = "disconnect"
  /\ UNCHANGED <<execVars, ctxDone, loop, subscribed, exits>>

Disconnect ==
  /\ main = "disconnect"
  /\ exits < MaxExits
  /\ exits' = exits + 1
  /\ clients' = clients \ {"mongo"}
  /\ main' = "exited"
  /\ UNCHANGED <<execVars, ctxDone, loop, subscribed>>

\* The next process of the deployment.
Restart ==
  /\ main = "exited"
  /\ main' = "subscribe"
  /\ ctxDone' = FALSE
  /\ loop' = [w \in Workers |-> "none"]
  /\ clients' = AllClients
  /\ UNCHANGED <<execVars, subscribed, exits>>

LoopStep(w) == CheckContext(w) \/ ReceiveMessage(w) \/ ReceiveError(w) \/ HandleMessage(w)

MainStep ==
  \/ Subscribe \/ StartLoops \/ RunSeesCancel \/ RunReturns
  \/ CloseConsumers \/ ClosePulsar \/ Disconnect

ProcessNext ==
  \/ \E w \in Workers : LoopStep(w)
  \/ MainStep \/ SubscribeFails \/ Signal \/ Restart
  \/ \E j \in Jobs : ClientWrites(j) /\ UNCHANGED processVars

allVars == <<execVars, processVars>>

ProcessSpec == ProcessInit /\ [][ProcessNext]_allVars

(***************************************************************************)
(* Goroutines are scheduled, handlers return, and a process that ended is  *)
(* replaced.  Receive returns once there is a message or the context is    *)
(* done; no fairness is assumed of signals and errors.                     *)
(***************************************************************************)
FairProcess ==
  /\ WF_allVars(MainStep)
  /\ WF_allVars(Restart)
  /\ \A w \in Workers :
       /\ WF_allVars(CheckContext(w))
       /\ WF_allVars(ReceiveMessage(w) \/ (ctxDone /\ ReceiveError(w)))
       /\ WF_allVars(HandleMessage(w))

FairProcessSpec == ProcessSpec /\ FairProcess

-----------------------------------------------------------------------------
(***************************************************************************)
(* A message is handled, acked or nacked while its subscription and both   *)
(* clients are open: main closes nothing before the last loop of Run has   *)
(* ended, whenever the signal comes.                                       *)
(***************************************************************************)
HandledWhileOpen ==
  \A w \in Workers : worker[w].pc # "idle" => subscribed = Workers /\ clients = AllClients

(***************************************************************************)
(* A job that has not started is not lost to a shutdown: it has a message  *)
(* in the topic or a worker that will settle it.  The one job that loses   *)
(* its message is one to be rejected whose FailJob failed, at its read or  *)
(* at its write: it is acked, and may stay not_started for good.           *)
(***************************************************************************)
NotStartedHasMessage ==
  \A j \in DOMAIN jobs :
    jobs[j].executionStatus = "not_started" => HasMessage(j) \/ j \in RejectionLost

(***************************************************************************)
(* A job whose handler was started ends: intro.md has the executor mark it *)
(* completed or failed.                                                    *)
(***************************************************************************)
HandlerOutcomeRecorded ==
  \A j \in Jobs : (runs[j] > 0) ~> (jobs[j].executionStatus \in TerminalExecution)

(***************************************************************************)
(* What is left to do after the signal: steps of main until the exit, and  *)
(* of a loop until its end, one more message at most.                      *)
(***************************************************************************)
StepsOfMain ==
  IF main = "subscribe"
  THEN 6 + Cardinality(Workers \ subscribed)
  ELSE [run |-> 5, wait |-> 4, closeConsumers |-> 3, closePulsar |-> 2, disconnect |-> 1,
        exited |-> 0][main]

StepsOfExecuteJob ==
  [idle |-> 1, start |-> 5, run |-> 4, complete |-> 3, completeMiss |-> 2, fail |-> 3, failWrite |-> 2,
   reject |-> 3, rejectWrite |-> 2]

StepsOfLoop(w) ==
  IF loop[w] = "handle"
  THEN StepsOfExecuteJob[worker[w].pc]
  ELSE [none |-> 7, receive |-> 6, top |-> 1, ended |-> 0][loop[w]]

(***************************************************************************)
(* Every step of a cancelled process brings it nearer to its exit, and     *)
(* none sends main or a loop back: no loop takes a second message, a       *)
(* handler's failed calls are not tried again, and only so many steps      *)
(* remain.                                                                 *)
(***************************************************************************)
ShutdownAdvances ==
  [][ctxDone /\ ctxDone' =>
       /\ StepsOfMain' <= StepsOfMain
       /\ \A w \in Workers : StepsOfLoop(w)' <= StepsOfLoop(w)
       /\ \/ StepsOfMain' < StepsOfMain
          \/ \E w \in Workers : StepsOfLoop(w)' < StepsOfLoop(w)]_<<processVars, worker>>

(***************************************************************************)
(* A cancelled process ends: every loop notices, the handler at work       *)
(* returns, and its final calls fail instead of hanging.                   *)
(***************************************************************************)
ShutdownCompletes == ctxDone ~> main = "exited"
=============================================================================
