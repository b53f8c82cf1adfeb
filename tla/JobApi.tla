------------------------------- MODULE JobApi -------------------------------
(***************************************************************************)
(* The service calls that jobs-server and jobs-cli make for their users:   *)
(* CancelJob, FailJob and RetryJob of MetadataService.  Each reads the     *)
(* document, decides on what it read, and writes in one or more later      *)
(* calls; requests run concurrently with each other, with the dispatcher   *)
(* and with the executors.  A request that dies between two calls (server  *)
(* crash, cancelled context) ends like one whose next call returned an     *)
(* error.                                                                  *)
(***************************************************************************)
EXTENDS JobStore, FiniteSets

CONSTANTS
  Clients,     \* concurrent requests
  Calls,       \* the calls these clients make, of {"cancel", "fail", "retry"}
  MaxRetries   \* bound: no retry of a job whose retryCount has reached it

ASSUME JobApiAssumption ==
  /\ IsFiniteSet(Clients)
  /\ Calls \subseteq {"cancel", "fail", "retry"}
  /\ MaxRetries \in Nat

VARIABLES client   \* the call of each client

ClientPcs == {"idle", "cancel", "fail", "increment", "reset", "clear"}

NoRequest == [pc |-> "idle", job |-> NoJob]

ApiTypeOK ==
  /\ client \in [Clients -> [pc : ClientPcs, job : Jobs \cup {NoJob}]]
  /\ \A c \in Clients : client[c].pc # "idle" => client[c].job \in DOMAIN jobs

ApiInit == client = [c \in Clients |-> NoRequest]

-----------------------------------------------------------------------------
Request(c, pc, j) ==
  /\ client[c].pc = "idle"
  /\ client' = [client EXCEPT ![c] = [pc |-> pc, job |-> j]]

Proceed(c, pc) == client' = [client EXCEPT ![c].pc = pc]

Respond(c) == client' = [client EXCEPT ![c] = NoRequest]

\* The write step of a call: it succeeds and the call goes on with next, or
\* it fails and the request is answered with the error.
Step(c, pc, d, next) ==
  LET j == client[c].job IN
  /\ client[c].pc = pc
  /\ \/ /\ Write(j, d)
        /\ IF next = "idle" THEN Respond(c) ELSE Proceed(c, next)
     \/ /\ WriteFails(j, d)
        /\ Respond(c)

-----------------------------------------------------------------------------
(* CancelJob: the check is on the document read, the write on its id only. *)
CancelRead(c) ==
  /\ "cancel" \in Calls
  /\ \E j \in DOMAIN jobs :
       /\ jobs[j].executionStatus \notin TerminalExecution
       /\ Request(c, "cancel", j)
  /\ UNCHANGED <<jobs, faults>>

CancelWrite(c) == Step(c, "cancel", CancelPatch(jobs[client[c].job]), "idle")

(* FailJob: a read for the retryCount noted in the error, then the write. *)
FailRead(c) ==
  /\ "fail" \in Calls
  /\ \E j \in DOMAIN jobs : Request(c, "fail", j)
  /\ UNCHANGED <<jobs, faults>>

FailWrite(c) ==
  Step(c, "fail", FailIfNotTerminal(jobs[client[c].job]), "idle")

\* Mutant: the retry is not counted.
RetryReadSkipsCount(c) ==
  /\ "retry" \in Calls
  /\ \E j \in DOMAIN jobs :
       /\ jobs[j].executionStatus = "failed"
       /\ Request(c, "reset", j)
  /\ UNCHANGED <<jobs, faults>>

(* RetryJob: three writes, none of which repeats the check. *)
RetryRead(c) ==
  /\ "retry" \in Calls
  /\ \E j \in DOMAIN jobs :
       /\ jobs[j].executionStatus = "failed"
       /\ jobs[j].retryCount < MaxRetries
       /\ Request(c, "increment", j)
  /\ UNCHANGED <<jobs, faults>>

RetryIncrement(c) ==
  Step(c, "increment", IncrementRetryCount(jobs[client[c].job]), "reset")

RetryReset(c) == Step(c, "reset", RetryPatch(jobs[client[c].job]), "clear")

RetryClear(c) ==
  Step(c, "clear", ClearJobExecutionTimestamps(jobs[client[c].job]), "idle")

ClientStep(c) ==
  \/ CancelRead(c) \/ CancelWrite(c)
  \/ FailRead(c) \/ FailWrite(c)
  \/ RetryRead(c) \/ RetryIncrement(c) \/ RetryReset(c) \/ RetryClear(c)

ApiNext == \E c \in Clients : ClientStep(c)
=============================================================================
