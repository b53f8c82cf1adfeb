------------------------------- MODULE Broker -------------------------------
(***************************************************************************)
(* The Pulsar topic between dispatcher and executors, as the code under    *)
(* src/ uses it: Shared subscription, at-least-once, no order.  Messages   *)
(* of one job are equal (the payload never changes), so the topic is the   *)
(* number of deliverable messages of each job.                             *)
(***************************************************************************)
EXTENDS JobStore

VARIABLES queue   \* deliverable messages of each job

BrokerTypeOK == queue \in [Jobs -> Nat]

BrokerInit == queue = [j \in Jobs |-> 0]

\* Producer.Send stored the message; also a message handed back by Nack, by
\* a lost Ack or by the disconnection of the consumer that held it.
Enqueue(j) == queue' = [queue EXCEPT ![j] = @ + 1]

\* Consumer.Receive hands one message to one consumer.
Dequeue(j) ==
  /\ queue[j] > 0
  /\ queue' = [queue EXCEPT ![j] = @ - 1]
=============================================================================
