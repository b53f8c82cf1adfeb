-------------------------- MODULE DispatcherProcess --------------------------
(***************************************************************************)
(* cmd/jobs-dispatcher as a process: what its two goroutines share and     *)
(* what happens to it when the process starts, is cancelled, panics or     *)
(* dies.  That is the producer cache of PulsarJobProducer under its mutex, *)
(* the PulsarClient that tracks the producers, and the file of the resume  *)
(* token.  The main goroutine runs the poll loop and then the deferred     *)
(* Close; the stream goroutine is never waited for.                        *)
(*                                                                         *)
(* The jobs are Dispatcher's: of a HandleDispatch call only the topic is   *)
(* left here, and its steps end with Send (the store calls that follow     *)
(* share nothing of the process).                                          *)
(***************************************************************************)
EXTENDS Naturals, FiniteSets

CONSTANTS
  Topics,
  NoTopic,
  MaxBatch,      \* bound: jobs of one poll
  MaxProducers,  \* bound: producers that one process creates
  MaxExits       \* bound: processes that end

ASSUME DispatcherProcessAssumption ==
  /\ NoTopic \notin Topics
  /\ MaxBatch \in Nat
  /\ MaxProducers \in Nat
  /\ MaxExits \in Nat

VARIABLES
  main,        \* where the main goroutine is
  stream,      \* where the stream goroutine is
  ctxDone,     \* is the context of signal.NotifyContext cancelled?
  batch,       \* jobs of the current poll still to be handled
  pub,         \* the Publish call of each goroutine
  mu,          \* holder of PulsarJobProducer.mu
  cache,       \* PulsarJobProducer.producers
  client,      \* PulsarClient.client: "open", or "nil"
  tracked,     \* PulsarClient.producers
  closing,     \* the producers that Close took to close them
  live,        \* producers that are open at the broker
  made,        \* producers the process has created
  file, tmp,   \* the token file and its temporary file
  refused,     \* is the token on file older than the oplog?
  exits        \* processes that ended

pubVars == <<pub, mu, cache, client, tracked, closing, live, made>>
fileVars == <<file, tmp, refused>>
vars == <<main, stream, ctxDone, batch, pubVars, fileVars, exits>>

Goroutines == {"poll", "stream"}

Free == "free"

Producer == [id : 1..MaxProducers, topic : Topics]

NoProducer == [id |-> 0, topic |-> NoTopic]

NoPublish == [pc |-> "idle", topic |-> NoTopic, producer |-> NoProducer]

PublishPcs == {"idle", "lookup", "create", "creating", "track", "send"}

\* In order: New, Run, Close.
MainPcs ==
  {"connect", "watch", "poll",
   "closeProducer", "closePulsar", "closeTracked", "closeClient", "disconnect", "exited"}

StreamPcs == {"none", "top", "load", "open", "handle", "save", "write", "rename", "ended"}

FileStates == {"absent", "torn", "whole"}

ProcessTypeOK ==
  /\ main \in MainPcs
  /\ stream \in StreamPcs
  /\ ctxDone \in BOOLEAN
  /\ batch \in 0..MaxBatch
  /\ pub \in [Goroutines -> [pc : PublishPcs, topic : Topics \cup {NoTopic},
                             producer : Producer \cup {NoProducer}]]
  /\ \A g \in Goroutines : pub[g].pc # "idle" => pub[g].topic \in Topics
  /\ pub["stream"].pc # "idle" => stream = "handle"
  /\ mu \in Goroutines \cup {Free}
  /\ cache \in [Topics -> Producer \cup {NoProducer}]
  /\ client \in {"open", "nil"}
  /\ tracked \subseteq Producer /\ closing \subseteq Producer /\ live \subseteq Producer
  /\ made \in 0..MaxProducers
  /\ file \in FileStates /\ tmp \in FileStates
  /\ refused \in BOOLEAN
  /\ exits \in 0..MaxExits

\* A process without goroutines, connections and producers.
NoProcess(pc) ==
  /\ main' = pc
  /\ stream' = "none"
  /\ batch' = 0
  /\ pub' = [g \in Goroutines |-> NoPublish]
  /\ mu' = Free
  /\ cache' = [t \in Topics |-> NoProducer]
  /\ client' = "nil"
  /\ tracked' = {} /\ closing' = {} /\ live' = {}
  /\ made' = 0

ProcessInit ==
  /\ main = "connect"
  /\ stream = "none"
  /\ ctxDone = FALSE
  /\ batch = 0
  /\ pub = [g \in Goroutines |-> NoPublish]
  /\ mu = Free
  /\ cache = [t \in Topics |-> NoProducer]
  /\ client = "nil"
  /\ tracked = {} /\ closing = {} /\ live = {}
  /\ made = 0
  /\ file = "absent" /\ tmp = "absent"
  /\ refused = FALSE
  /\ exits = 0

-----------------------------------------------------------------------------
(* The process ends: after Disconnect, by log.Fatalf, by a panic of either *)
(* goroutine, or killed.  What is left is the files.                       *)
Ends ==
  /\ exits < MaxExits
  /\ exits' = exits + 1
  /\ NoProcess("exited")
  /\ UNCHANGED <<ctxDone, fileVars>>

Crash == main # "exited" /\ Ends

Restart ==
  /\ main = "exited"
  /\ NoProcess("connect")
  /\ ctxDone' = FALSE
  /\ UNCHANGED <<fileVars, exits>>

Signal ==
  /\ main # "exited"
  /\ ~ctxDone
  /\ exits < MaxExits
  /\ ctxDone' = TRUE
  /\ UNCHANGED <<main, stream, batch, pubVars, fileVars, exits>>

-----------------------------------------------------------------------------
(* dispatchruntime.New and Run. *)

ConnectPulsar ==
  /\ main = "connect"
  /\ client' = "open"
  /\ main' = "watch"
  /\ UNCHANGED <<stream, ctxDone, batch, pub, mu, cache, tracked, closing, live, made,
                 fileVars, exits>>

\* An error of either client ends New, which first closes the Pulsar client if
\* it has one, and main's log.Fatalf ends the process.
NewFails ==
  /\ main \in {"connect", "watch"}
  /\ Ends

\* The watch client is open: Run starts the stream goroutine and polls.
RunStarts ==
  /\ main = "watch"
  /\ main' = "poll"
  /\ stream' = "top"
  /\ UNCHANGED <<ctxDone, batch, pubVars, fileVars, exits>>

-----------------------------------------------------------------------------
(* PulsarJobProducer.Publish, for either goroutine. *)

Handle(g, t) == pub' = [pub EXCEPT ![g] = [NoPublish EXCEPT !.pc = "lookup", !.topic = t]]

\* The goroutine goes on: the poll loop with the next job, the stream with the
\* resume token, whatever the handler returned.
Returned(g) ==
  /\ pub' = [pub EXCEPT ![g] = NoPublish]
  /\ stream' = IF g = "stream" THEN "save" ELSE stream

\* Mutant: the mutex guards the map alone and is free while the broker is asked.
LookupUnlocks(g) ==
  LET t == pub[g].topic IN
  /\ pub[g].pc = "lookup"
  /\ mu = Free
  /\ IF cache[t] # NoProducer
     THEN pub' = [pub EXCEPT ![g].pc = "send", ![g].producer = cache[t]]
     ELSE pub' = [pub EXCEPT ![g].pc = "create"]
  /\ UNCHANGED <<main, stream, ctxDone, batch, mu, cache, client, tracked, closing, live, made,
                 fileVars, exits>>

\* producerForTopic: a miss keeps the mutex until the producer is cached.
Lookup(g) ==
  LET t == pub[g].topic IN
  /\ pub[g].pc = "lookup"
  /\ mu = Free
  /\ IF cache[t] # NoProducer
     THEN /\ pub' = [pub EXCEPT ![g].pc = "send", ![g].producer = cache[t]]
          /\ UNCHANGED mu
     ELSE /\ pub' = [pub EXCEPT ![g].pc = "create"]
          /\ mu' = g
  /\ UNCHANGED <<main, stream, ctxDone, batch, cache, client, tracked, closing, live, made,
                 fileVars, exits>>

\* PulsarClient.CreateProducer calls a method of c.client, read without c.mu.
CreateProducer(g) ==
  /\ pub[g].pc = "create"
  /\ client = "open"
  /\ pub' = [pub EXCEPT ![g].pc = "creating"]
  /\ UNCHANGED <<main, stream, ctxDone, batch, mu, cache, client, tracked, closing, live, made,
                 fileVars, exits>>

\* ... and panics if Close has set it to nil.
CreatePanics(g) ==
  /\ pub[g].pc = "create"
  /\ client = "nil"
  /\ Ends

ProducerCreated(g) ==
  LET p == [id |-> made + 1, topic |-> pub[g].topic] IN
  /\ pub[g].pc = "creating"
  /\ main # "disconnect"
  /\ made < MaxProducers
  /\ made' = made + 1
  /\ live' = live \cup {p}
  /\ pub' = [pub EXCEPT ![g].pc = "track", ![g].producer = p]
  /\ UNCHANGED <<main, stream, ctxDone, batch, mu, cache, client, tracked, closing, fileVars, exits>>

\* Mutant: the error return of producerForTopic forgets to unlock.
CreateErrorKeepsLock(g) ==
  /\ pub[g].pc = "creating"
  /\ Returned(g)
  /\ UNCHANGED <<main, ctxDone, batch, mu, cache, client, tracked, closing, live, made,
                 fileVars, exits>>

\* The broker refuses, or does not answer in time: Publish returns the error.
CreateError(g) ==
  /\ pub[g].pc = "creating"
  /\ Returned(g)
  /\ mu' = Free
  /\ UNCHANGED <<main, ctxDone, batch, cache, client, tracked, closing, live, made,
                 fileVars, exits>>

\* The client tracks the producer, then the cache keeps it.
Track(g) ==
  LET p == pub[g].producer IN
  /\ pub[g].pc = "track"
  /\ tracked' = tracked \cup {p}
  /\ cache' = [cache EXCEPT ![p.topic] = p]
  /\ mu' = Free
  /\ pub' = [pub EXCEPT ![g].pc = "send"]
  /\ UNCHANGED <<main, stream, ctxDone, batch, client, closing, live, made, fileVars, exits>>

\* Send returns, with or without an error, and so does HandleDispatch.
Send(g) ==
  /\ pub[g].pc = "send"
  /\ Returned(g)
  /\ UNCHANGED <<main, ctxDone, batch, mu, cache, client, tracked, closing, live, made,
                 fileVars, exits>>

PublishStep(g) ==
  \/ Lookup(g) \/ CreateProducer(g) \/ CreatePanics(g)
  \/ ProducerCreated(g) \/ CreateError(g) \/ Track(g) \/ Send(g)

-----------------------------------------------------------------------------
(* The stream goroutine: StreamWatcher.Run, runOnce, FileResumeTokenStore. *)

StreamGoto(pc) == stream' = pc
StreamFrame == UNCHANGED <<main, ctxDone, batch, pubVars, exits>>

RunLoop ==
  /\ stream = "top"
  /\ StreamGoto(IF ctxDone THEN "ended" ELSE "load")
  /\ StreamFrame /\ UNCHANGED fileVars

\* Load returns no token for a missing file, an error for one it cannot decode;
\* Watch returns an error for a token that has left the oplog.
Openable == file # "torn" /\ ~refused

StreamOpen ==
  /\ stream = "load"
  /\ Openable
  /\ StreamGoto("open")
  /\ StreamFrame /\ UNCHANGED fileVars

\* Mutant: an error of runOnce ends the loop.
StreamFailsForGood ==
  /\ stream \in {"load", "open"}
  /\ StreamGoto("ended")
  /\ StreamFrame /\ UNCHANGED fileVars

\* Load, Watch or Next fails, or the stream is invalidated: once more from the
\* top, at once.
StreamFails ==
  /\ stream \in {"load", "open"}
  /\ StreamGoto("top")
  /\ StreamFrame /\ UNCHANGED fileVars

\* Next returns an event; the driver hands out the events it has buffered even
\* when the context is done.
StreamNext ==
  /\ stream = "open"
  /\ \E t \in Topics : Handle("stream", t)
  /\ StreamGoto("handle")
  /\ UNCHANGED <<main, ctxDone, batch, mu, cache, client, tracked, closing, live, made,
                 fileVars, exits>>

\* The document does not decode, or has no topic: handled, as far as the token
\* is concerned.
StreamSkips ==
  /\ stream = "open"
  /\ StreamGoto("save")
  /\ StreamFrame /\ UNCHANGED fileVars

\* Mutant: the token is written over the old one.
SaveInPlace ==
  /\ stream = "save"
  /\ file' = "torn"
  /\ StreamGoto("write")
  /\ StreamFrame /\ UNCHANGED <<tmp, refused>>

\* Save: os.WriteFile truncates the temporary file and writes it, Rename puts
\* it in the place of the old one.
SaveCreate ==
  /\ stream = "save"
  /\ tmp' = "torn"
  /\ StreamGoto("write")
  /\ StreamFrame /\ UNCHANGED <<file, refused>>

SaveWrite ==
  /\ stream = "write"
  /\ tmp' = "whole"
  /\ StreamGoto("rename")
  /\ StreamFrame /\ UNCHANGED <<file, refused>>

SaveRename ==
  /\ stream = "rename"
  /\ file' = tmp
  /\ tmp' = "absent"
  /\ refused' = FALSE
  /\ StreamGoto("open")
  /\ StreamFrame

\* A step of Save returns an error, which is logged.
SaveFails ==
  /\ stream \in {"save", "write", "rename"}
  /\ StreamGoto("open")
  /\ StreamFrame /\ UNCHANGED fileVars

\* The oplog moves past the token on file: nothing saves a newer one while no
\* job is inserted, or no stream is open.
TokenExpires ==
  /\ file = "whole"
  /\ refused' = TRUE
  /\ UNCHANGED <<main, stream, ctxDone, batch, pubVars, file, tmp, exits>>

SaveStep == SaveCreate \/ SaveWrite \/ SaveRename
StreamStep ==
  RunLoop \/ StreamOpen \/ StreamFails \/ StreamNext \/ StreamSkips \/ SaveStep \/ SaveFails

-----------------------------------------------------------------------------
(* The main goroutine: runPoll, then Runtime.Close and Disconnect. *)

PollIdle == main = "poll" /\ batch = 0 /\ pub["poll"].pc = "idle"

\* Mutant: a tick under a cancelled context polls once more.
PollFetchCancelled ==
  /\ PollIdle
  /\ batch' \in 1..MaxBatch
  /\ UNCHANGED <<main, stream, ctxDone, pubVars, fileVars, exits>>

\* A tick under a cancelled context fetches nothing and changes nothing.
PollFetch ==
  /\ PollIdle
  /\ ~ctxDone
  /\ batch' \in 1..MaxBatch
  /\ UNCHANGED <<main, stream, ctxDone, pubVars, fileVars, exits>>

\* Mutant: the loop over the batch runs one job too far.
PollNextUnchecked ==
  /\ main = "poll"
  /\ pub["poll"].pc = "idle"
  /\ batch' = batch - 1
  /\ \E t \in Topics : Handle("poll", t)
  /\ UNCHANGED <<main, stream, ctxDone, mu, cache, client, tracked, closing, live, made,
                 fileVars, exits>>

\* The context is not looked at between two jobs of a batch.
PollNext ==
  /\ main = "poll"
  /\ batch > 0
  /\ pub["poll"].pc = "idle"
  /\ batch' = batch - 1
  /\ \E t \in Topics : Handle("poll", t)
  /\ UNCHANGED <<main, stream, ctxDone, mu, cache, client, tracked, closing, live, made,
                 fileVars, exits>>

\* Mutant: Run polls in a goroutine of its own and returns with the context.
RunReturnsEarly ==
  /\ main = "poll"
  /\ ctxDone
  /\ main' = "closeProducer"
  /\ UNCHANGED <<stream, ctxDone, batch, pubVars, fileVars, exits>>

PollReturns ==
  /\ PollIdle
  /\ ctxDone
  /\ main' = "closeProducer"
  /\ UNCHANGED <<stream, ctxDone, batch, pubVars, fileVars, exits>>

\* PulsarJobProducer.Close empties the cache under the mutex.
CloseProducer ==
  /\ main = "closeProducer"
  /\ mu = Free
  /\ cache' = [t \in Topics |-> NoProducer]
  /\ main' = "closePulsar"
  /\ UNCHANGED <<stream, ctxDone, batch, pub, mu, client, tracked, closing, live, made,
                 fileVars, exits>>

\* PulsarClient.Close: take what is tracked and set the client to nil under the
\* mutex, then close the producers, then the client with whatever it still has.
ClosePulsar ==
  /\ main = "closePulsar"
  /\ closing' = tracked
  /\ tracked' = {}
  /\ client' = "nil"
  /\ main' = "closeTracked"
  /\ UNCHANGED <<stream, ctxDone, batch, pub, mu, cache, live, made, fileVars, exits>>

CloseTracked ==
  /\ main = "closeTracked"
  /\ live' = live \ closing
  /\ closing' = {}
  /\ main' = "closeClient"
  /\ UNCHANGED <<stream, ctxDone, batch, pub, mu, cache, client, tracked, made, fileVars, exits>>

CloseClient ==
  /\ main = "closeClient"
  /\ live' = {}
  /\ main' = "disconnect"
  /\ UNCHANGED <<stream, ctxDone, batch, pub, mu, cache, client, tracked, closing, made,
                 fileVars, exits>>

\* The watch client, then the client of the store; main returns, and with it
\* the process ends, the stream goroutine wherever it is.
Disconnect == main = "disconnect" /\ Ends

MainStep ==
  \/ ConnectPulsar \/ RunStarts
  \/ PollNext \/ PollReturns
  \/ CloseProducer \/ ClosePulsar \/ CloseTracked \/ CloseClient \/ Disconnect

ProcessNext ==
  \/ \E g \in Goroutines : PublishStep(g)
  \/ StreamStep \/ MainStep \/ PollFetch
  \/ NewFails \/ Signal \/ Crash \/ Restart \/ TokenExpires

ProcessSpec == ProcessInit /\ [][ProcessNext]_vars

(***************************************************************************)
(* The goroutines are scheduled, calls to the broker return, and a process *)
(* that ended is restarted.  A sync.Mutex is strongly fair: a waiter of    *)
(* more than a millisecond is served next.  That Watch works in the end is *)
(* assumed of tokens that the server still knows.                          *)
(***************************************************************************)
FairProcess ==
  /\ WF_vars(MainStep)
  /\ WF_vars(Restart)
  /\ SF_vars(CloseProducer)
  /\ \A g \in Goroutines : WF_vars(PublishStep(g)) /\ SF_vars(Lookup(g))
  /\ WF_vars(RunLoop)
  /\ WF_vars(SaveStep \/ SaveFails)
  /\ SF_vars(StreamOpen)
  /\ WF_vars(stream = "load" /\ StreamFails)

FairProcessSpec == ProcessSpec /\ FairProcess

-----------------------------------------------------------------------------
(***************************************************************************)
(* Until the context is cancelled and Run returns, every open producer is  *)
(* the cached one of its topic, or in the hands of the goroutine that      *)
(* holds the mutex to cache it, and every cached one is open and tracked   *)
(* for Close: two goroutines that meet a new topic share one producer.     *)
(***************************************************************************)
ProducersKnown ==
  main = "poll" =>
    /\ \A p \in live :
         \/ cache[p.topic] = p
         \/ \E g \in Goroutines : mu = g /\ pub[g].producer = p
    /\ \A t \in Topics : cache[t] # NoProducer => cache[t] \in live \cap tracked

(***************************************************************************)
(* The client that Close has set to nil is met by no publish of the poll   *)
(* loop and by none of a process that was not cancelled.  What is left is  *)
(* the stream goroutine, which Run does not wait for: it panics there      *)
(* (CreatePanics).                                                         *)
(***************************************************************************)
NilClientOnlyForLateStream ==
  \A g \in Goroutines :
    pub[g].pc # "idle" /\ client = "nil" => g = "stream" /\ ctxDone

(***************************************************************************)
(* A crash at any point of Save leaves a token file that Load can decode.  *)
(***************************************************************************)
TokenFileReadable == file # "torn"

(***************************************************************************)
(* The stream comes back: as long as processes run, it is open again and   *)
(* again, unless the server refuses the token on file.                     *)
(***************************************************************************)
StreamRecovers == []<>(stream \in {"open", "handle", "save"} \/ refused \/ ctxDone)

(***************************************************************************)
(* What is left to do after the signal: the phases of main, and in the     *)
(* poll loop the jobs of the batch and the steps of the publish at hand.   *)
(***************************************************************************)
StepsOfMain ==
  [connect |-> 8, watch |-> 7, poll |-> 6, closeProducer |-> 5, closePulsar |-> 4, closeTracked |-> 3,
   closeClient |-> 2, disconnect |-> 1, exited |-> 0]

StepsOfPublish == [lookup |-> 5, create |-> 4, creating |-> 3, track |-> 2, send |-> 1, idle |-> 0]

(***************************************************************************)
(* Every step that main takes in a cancelled process brings it nearer to   *)
(* its exit, whatever the stream goroutine does meanwhile: the batch at    *)
(* hand is worked off, and no other one is fetched.                        *)
(***************************************************************************)
ShutdownAdvances ==
  [][ctxDone /\ ctxDone' =>
       \/ StepsOfMain[main'] < StepsOfMain[main]
       \/ main' = main /\ batch' < batch
       \/ /\ main' = main /\ batch' = batch
          /\ StepsOfPublish[pub'["poll"].pc] < StepsOfPublish[pub["poll"].pc]]_<<main, batch, pub["poll"]>>

(***************************************************************************)
(* A cancelled process ends: no goroutine keeps the mutex that Close needs *)
(* for good.                                                               *)
(***************************************************************************)
ShutdownCompletes == ctxDone ~> main = "exited"
=============================================================================
