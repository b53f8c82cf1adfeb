----------------------- MODULE DispatcherProcessProofs -----------------------
(***************************************************************************)
(* Theorems about the dispatcher process: for every set of topics, every   *)
(* batch and every number of processes that end, a goroutine that          *)
(* publishes finds the producer, and the client, that it may use, and a    *)
(* process that starts finds a token file that it can read.                *)
(***************************************************************************)
EXTENDS DispatcherProcess, TLAPS

(***************************************************************************)
(* The inductive invariant.  First where the process is in its life: what  *)
(* New has opened and Close has closed, and who may be at work.            *)
(***************************************************************************)
Closing == {"closeProducer", "closePulsar", "closeTracked", "closeClient", "disconnect"}

ClientByPhase ==
  client = "open" <=> main \in {"watch", "poll", "closeProducer", "closePulsar"}

StreamInsideRun == stream # "none" => main \in {"poll"} \cup Closing

PollInsideRun == pub["poll"].pc # "idle" => main = "poll"

ClosesWhenDone == main \in Closing => ctxDone

Phases == ClientByPhase /\ StreamInsideRun /\ PollInsideRun /\ ClosesWhenDone

(***************************************************************************)
(* Then the mutex: it is held exactly between the miss and the caching of  *)
(* the producer, and until then the topic has no producer in the cache.    *)
(***************************************************************************)
Holding == {"create", "creating", "track"}

MutexByPc == \A g \in Goroutines : mu = g <=> pub[g].pc \in Holding

MissStands == \A g \in Goroutines : pub[g].pc \in Holding => cache[pub[g].topic] = NoProducer

ToTrack ==
  \A g \in Goroutines :
    pub[g].pc = "track" =>
      /\ pub[g].producer \in Producer
      /\ pub[g].producer.topic = pub[g].topic
      /\ main = "poll" => pub[g].producer \in live

CacheByTopic == \A t \in Topics : cache[t] # NoProducer => cache[t].topic = t

\* Until Run returns, an open producer is cached or about to be.
LiveKnown ==
  main \notin Closing =>
    \A p \in live :
      \/ cache[p.topic] = p
      \/ \E g \in Goroutines : pub[g].pc = "track" /\ pub[g].producer = p

CachedLive ==
  main \notin Closing => \A t \in Topics : cache[t] # NoProducer => cache[t] \in live \cap tracked

Producers ==
  MutexByPc /\ MissStands /\ ToTrack /\ CacheByTopic /\ LiveKnown /\ CachedLive

(* Last the files: only a whole temporary file is ever renamed. *)
WholeRenamed == stream = "rename" => tmp = "whole"

ProcessInv == ProcessTypeOK /\ Phases /\ Producers /\ TokenFileReadable /\ WholeRenamed

-----------------------------------------------------------------------------
LEMMA NoProducerOutside ==
  ASSUME NEW p \in Producer
  PROVE  p # NoProducer /\ p.topic \in Topics
  BY DispatcherProcessAssumption DEF Producer, NoProducer

(* A process that has not begun, or is no more, satisfies everything that  *)
(* is not about the files.                                                 *)
LEMMA NoProcessInv ==
  ASSUME ProcessInv, NEW pc \in {"connect", "exited"}, NoProcess(pc),
         ctxDone' \in BOOLEAN, exits' \in 0..MaxExits, UNCHANGED fileVars
  PROVE  ProcessInv'
  <1>1. /\ main' = pc /\ stream' = "none" /\ batch' = 0 /\ mu' = Free /\ client' = "nil"
        /\ pub' = [g \in Goroutines |-> NoPublish]
        /\ cache' = [t \in Topics |-> NoProducer]
        /\ tracked' = {} /\ closing' = {} /\ live' = {} /\ made' = 0
        /\ file' = file /\ tmp' = tmp /\ refused' = refused
    BY DEF NoProcess, fileVars
  <1>2. ProcessTypeOK'
    BY <1>1, DispatcherProcessAssumption
    DEF ProcessInv, ProcessTypeOK, MainPcs, StreamPcs, PublishPcs, FileStates, NoPublish, Goroutines
  <1>3. Phases'
    BY <1>1 DEF Phases, ClientByPhase, StreamInsideRun, PollInsideRun, ClosesWhenDone, Closing,
                Goroutines, NoPublish
  <1>4. Producers'
    BY <1>1 DEF Producers, MutexByPc, MissStands, ToTrack, CacheByTopic, LiveKnown, CachedLive,
                Goroutines, Holding, NoPublish, Free
  <1> QED BY <1>1, <1>2, <1>3, <1>4 DEF ProcessInv, TokenFileReadable, WholeRenamed

LEMMA ProcessInitInv ==
  ASSUME ProcessInit
  PROVE  ProcessInv
  <1>1. ProcessTypeOK
    <2>1. pub \in [Goroutines -> [pc : PublishPcs, topic : Topics \cup {NoTopic},
                                  producer : Producer \cup {NoProducer}]]
      BY DEF ProcessInit, NoPublish, PublishPcs
    <2>2. \A g \in Goroutines : pub[g].pc = "idle"
      BY DEF ProcessInit, NoPublish
    <2>3. "stream" \in Goroutines
      BY DEF Goroutines
    <2>4. 0 \in 0..MaxExits /\ 0 \in 0..MaxBatch /\ 0 \in 0..MaxProducers
      BY DispatcherProcessAssumption
    <2> QED BY <2>1, <2>2, <2>3, <2>4
            DEF ProcessInit, ProcessTypeOK, MainPcs, StreamPcs, FileStates
  <1>2. Phases
    BY DEF ProcessInit, Phases, ClientByPhase, StreamInsideRun, PollInsideRun, ClosesWhenDone, Closing,
           Goroutines, NoPublish
  <1>3. Producers
    BY DEF ProcessInit, Producers, MutexByPc, MissStands, ToTrack, CacheByTopic, LiveKnown, CachedLive,
           Goroutines, Holding, NoPublish, Free
  <1> QED BY <1>1, <1>2, <1>3 DEF ProcessInit, ProcessInv, TokenFileReadable, WholeRenamed

LEMMA EndsInv ==
  ASSUME ProcessInv, Ends
  PROVE  ProcessInv'
  <1>1. exits' \in 0..MaxExits /\ ctxDone' \in BOOLEAN
    BY DispatcherProcessAssumption DEF Ends, ProcessInv, ProcessTypeOK
  <1> QED BY <1>1, NoProcessInv DEF Ends

LEMMA RestartInv ==
  ASSUME ProcessInv, Restart
  PROVE  ProcessInv'
  <1>1. exits' \in 0..MaxExits /\ ctxDone' \in BOOLEAN
    BY DEF Restart, ProcessInv, ProcessTypeOK
  <1> QED BY <1>1, NoProcessInv DEF Restart

(* The producers do not notice a step that leaves them and the publishes   *)
(* alone, whether it closes something, or opens it before anyone publishes. *)
LEMMA ProducersFrame ==
  ASSUME ProcessInv, UNCHANGED <<pub, mu, cache, live, tracked>>,
         \/ main' = main
         \/ main' \in Closing
         \/ main' \notin Closing /\ main \in {"connect", "watch"}
  PROVE  Producers'
  <1>1. MutexByPc' /\ MissStands' /\ CacheByTopic'
    BY DEF ProcessInv, Producers, MutexByPc, MissStands, CacheByTopic
  <1>2. \A g \in Goroutines : main \in {"connect", "watch"} => pub[g].pc = "idle"
    BY DEF ProcessInv, ProcessTypeOK, Phases, PollInsideRun, StreamInsideRun, Goroutines, Closing
  <1>3. ToTrack'
    BY <1>2 DEF ProcessInv, Producers, ToTrack, Closing
  <1>4. LiveKnown' /\ CachedLive'
    BY DEF ProcessInv, Producers, LiveKnown, CachedLive, Closing
  <1> QED BY <1>1, <1>3, <1>4 DEF Producers

(* Steps of the stream that have nothing to do with publishing. *)
LEMMA StreamInv ==
  ASSUME ProcessInv, RunLoop \/ StreamOpen \/ StreamFails \/ StreamSkips \/ SaveStep \/ SaveFails
  PROVE  ProcessInv'
  <1>1. UNCHANGED <<main, ctxDone, batch, pubVars, exits>>
    BY DEF RunLoop, StreamOpen, StreamFails, StreamSkips, SaveStep, SaveCreate, SaveWrite, SaveRename,
           SaveFails, StreamFrame
  <1>2. stream \notin {"none", "handle"} /\ stream' \in StreamPcs
    BY DEF RunLoop, StreamOpen, StreamFails, StreamSkips, SaveStep, SaveCreate, SaveWrite, SaveRename,
           SaveFails, StreamGoto, StreamPcs
  <1>3. /\ file' \in FileStates /\ tmp' \in FileStates /\ refused' \in BOOLEAN
        /\ TokenFileReadable' /\ WholeRenamed'
    BY DEF RunLoop, StreamOpen, StreamFails, StreamSkips, SaveStep, SaveCreate, SaveWrite, SaveRename,
           SaveFails, StreamGoto, fileVars, ProcessInv, ProcessTypeOK, FileStates, TokenFileReadable,
           WholeRenamed
  <1>4. ProcessTypeOK'
    BY <1>1, <1>2, <1>3 DEF pubVars, ProcessInv, ProcessTypeOK
  <1>5. Phases'
    BY <1>1, <1>2 DEF pubVars, ProcessInv, Phases, ClientByPhase, StreamInsideRun, PollInsideRun,
                      ClosesWhenDone
  <1>6. Producers'
    BY <1>1, ProducersFrame DEF pubVars
  <1> QED BY <1>3, <1>4, <1>5, <1>6 DEF ProcessInv

(* The main goroutine outside Publish, the signal and the oplog. *)
LEMMA MainInv ==
  ASSUME ProcessInv,
         \/ ConnectPulsar \/ RunStarts \/ PollFetch \/ PollReturns
         \/ CloseProducer \/ ClosePulsar \/ CloseTracked \/ CloseClient
         \/ Signal \/ TokenExpires
  PROVE  ProcessInv'
  <1>1. CASE ConnectPulsar \/ RunStarts \/ PollFetch \/ PollReturns \/ Signal \/ TokenExpires
    <2>1. /\ UNCHANGED <<pub, mu, cache, tracked, closing, live, made, file, tmp, exits>>
          /\ UNCHANGED stream \/ stream' = "top"
          /\ UNCHANGED main \/ main' \in {"watch", "poll", "closeProducer"}
          /\ UNCHANGED ctxDone \/ ctxDone' = TRUE
          /\ UNCHANGED batch \/ batch' \in 1..MaxBatch
          /\ UNCHANGED client \/ client' = "open"
          /\ UNCHANGED refused \/ refused' = TRUE
      BY <1>1 DEF ConnectPulsar, RunStarts, PollFetch, PollReturns, Signal, TokenExpires, PollIdle,
                  pubVars, fileVars
    <2>2. \/ main' = main
          \/ main' \in Closing
          \/ main' \notin Closing /\ main \in {"connect", "watch"}
      BY <1>1 DEF ConnectPulsar, RunStarts, PollFetch, PollReturns, Signal, TokenExpires, Closing
    <2>6. UNCHANGED stream \/ (stream = "none" /\ stream' = "top")
      BY <1>1 DEF ConnectPulsar, RunStarts, PollFetch, PollReturns, Signal, TokenExpires,
                  ProcessInv, Phases, StreamInsideRun, Closing
    <2>7. pub["stream"].pc # "idle" => UNCHANGED stream
      BY <2>6 DEF ProcessInv, ProcessTypeOK
    <2>8. batch' \in 0..MaxBatch
      BY <2>1, DispatcherProcessAssumption DEF ProcessInv, ProcessTypeOK
    <2>3. ProcessTypeOK'
      BY <2>1, <2>7, <2>8 DEF ProcessInv, ProcessTypeOK, MainPcs, StreamPcs
    <2>4. Phases'
      BY <1>1, <2>1 DEF ConnectPulsar, RunStarts, PollFetch, PollReturns, PollIdle, Signal, TokenExpires,
                  pubVars, fileVars, ProcessInv, Phases, ClientByPhase, StreamInsideRun, PollInsideRun,
                  ClosesWhenDone, Closing
    <2>5. Producers'
      BY <2>1, <2>2, ProducersFrame
    <2> QED BY <2>1, <2>3, <2>4, <2>5 DEF ProcessInv, TokenFileReadable, WholeRenamed
  <1>2. CASE CloseProducer \/ ClosePulsar \/ CloseTracked \/ CloseClient
    <2>1. /\ UNCHANGED <<stream, ctxDone, batch, pub, mu, made, file, tmp, refused, exits>>
          /\ main \in Closing /\ main' \in Closing
      BY <1>2 DEF CloseProducer, ClosePulsar, CloseTracked, CloseClient, fileVars, Closing
    <2>2. /\ cache' \in [Topics -> Producer \cup {NoProducer}]
          /\ client' \in {"open", "nil"}
          /\ tracked' \subseteq Producer /\ closing' \subseteq Producer /\ live' \subseteq Producer
      BY <1>2 DEF CloseProducer, ClosePulsar, CloseTracked, CloseClient, ProcessInv, ProcessTypeOK
    <2>3. ProcessTypeOK'
      BY <2>1, <2>2 DEF ProcessInv, ProcessTypeOK, Closing, MainPcs
    <2>4. Phases'
      BY <1>2, <2>1 DEF CloseProducer, ClosePulsar, CloseTracked, CloseClient, ProcessInv, Phases,
                  ClientByPhase, StreamInsideRun, PollInsideRun, ClosesWhenDone, Closing
    <2>5. MissStands' /\ CacheByTopic'
      <3>1. cache' = cache \/ cache' = [t \in Topics |-> NoProducer]
        BY <1>2 DEF CloseProducer, ClosePulsar, CloseTracked, CloseClient
      <3>2. \A g \in Goroutines : pub[g].pc \in Holding => pub[g].topic \in Topics
        BY DEF Holding, ProcessInv, ProcessTypeOK
      <3> QED BY <2>1, <3>1, <3>2 DEF ProcessInv, Producers, MissStands, CacheByTopic
    <2>6. MutexByPc' /\ ToTrack' /\ LiveKnown' /\ CachedLive'
      BY <2>1 DEF ProcessInv, Producers, MutexByPc, ToTrack, LiveKnown, CachedLive, Closing
    <2> QED BY <2>1, <2>3, <2>4, <2>5, <2>6 DEF ProcessInv, Producers, TokenFileReadable, WholeRenamed
  <1> QED BY <1>1, <1>2

-----------------------------------------------------------------------------
(***************************************************************************)
(* A step of a publish.  What it keeps whatever it does, from its effect   *)
(* on the call of its goroutine: the types and the phases.                 *)
(***************************************************************************)
LEMMA PublishFrame ==
  ASSUME ProcessInv, NEW g \in Goroutines, NEW c, pub' = [pub EXCEPT ![g] = c],
         c \in [pc : PublishPcs, topic : Topics \cup {NoTopic}, producer : Producer \cup {NoProducer}],
         c.pc # "idle" => c.topic \in Topics,
         IF c.pc = "idle" THEN Returned(g)
         ELSE (IF g = "stream" THEN stream' = "handle" ELSE UNCHANGED stream),
         g = "poll" => main = "poll",
         g = "stream" => stream \in {"open", "handle"},
         batch' \in 0..MaxBatch, mu' \in Goroutines \cup {Free},
         cache' \in [Topics -> Producer \cup {NoProducer}],
         tracked' \subseteq Producer, live' \subseteq Producer, made' \in 0..MaxProducers,
         UNCHANGED <<main, ctxDone, client, closing, fileVars, exits>>
  PROVE  /\ ProcessTypeOK' /\ Phases'
         /\ TokenFileReadable' /\ WholeRenamed'
  <1>1. /\ pub'[g] = c
        /\ \A h \in Goroutines \ {g} : pub'[h] = pub[h]
        /\ pub' \in [Goroutines -> [pc : PublishPcs, topic : Topics \cup {NoTopic},
                                    producer : Producer \cup {NoProducer}]]
    BY DEF ProcessInv, ProcessTypeOK
  <1>2. IF g = "stream" THEN stream' = (IF c.pc = "idle" THEN "save" ELSE "handle") ELSE stream' = stream
    BY DEF Returned
  <1>3. \A h \in Goroutines : pub'[h].pc # "idle" => pub'[h].topic \in Topics
    BY <1>1 DEF ProcessInv, ProcessTypeOK
  <1>4. pub'["stream"].pc # "idle" => stream' = "handle"
    BY <1>1, <1>2 DEF ProcessInv, ProcessTypeOK, Goroutines
  <1>5. ProcessTypeOK'
    BY <1>1, <1>2, <1>3, <1>4 DEF ProcessInv, ProcessTypeOK, StreamPcs, fileVars
  <1>6. StreamInsideRun'
    BY <1>2 DEF ProcessInv, Phases, StreamInsideRun
  <1>7. PollInsideRun'
    BY <1>1 DEF ProcessInv, Phases, PollInsideRun, Goroutines
  <1>8. ClientByPhase' /\ ClosesWhenDone'
    BY DEF ProcessInv, Phases, ClientByPhase, ClosesWhenDone
  <1>9. TokenFileReadable' /\ WholeRenamed'
    BY <1>2 DEF ProcessInv, TokenFileReadable, WholeRenamed, fileVars
  <1> QED BY <1>5, <1>6, <1>7, <1>8, <1>9 DEF Phases

(* Who publishes does so inside Run, and the stream from an event. *)
LEMMA PublishInsideRun ==
  ASSUME ProcessInv, NEW g \in Goroutines, pub[g].pc # "idle"
  PROVE  /\ g = "poll" => main = "poll"
         /\ g = "stream" => stream = "handle"
         /\ pub[g].topic \in Topics
         /\ pub[g] \in [pc : PublishPcs, topic : Topics \cup {NoTopic},
                        producer : Producer \cup {NoProducer}]
  BY DEF ProcessInv, ProcessTypeOK, Phases, PollInsideRun

(* The next job of the batch, or of the stream. *)
LEMMA NextJobInv ==
  ASSUME ProcessInv, StreamNext \/ PollNext
  PROVE  ProcessInv'
  <1>1. PICK g \in Goroutines, t \in Topics :
          /\ Handle(g, t)
          /\ pub[g].pc = "idle"
          /\ IF g = "stream" THEN stream = "open" /\ stream' = "handle" ELSE UNCHANGED stream
          /\ g = "poll" => main = "poll"
    BY DEF StreamNext, StreamGoto, PollNext, Goroutines, ProcessInv, ProcessTypeOK
  <1>2. /\ UNCHANGED <<main, ctxDone, client, closing, fileVars, exits>>
        /\ UNCHANGED <<mu, cache, tracked, live, made>>
        /\ batch' \in 0..MaxBatch
    BY DispatcherProcessAssumption DEF StreamNext, PollNext, ProcessInv, ProcessTypeOK
  <1> DEFINE c == [NoPublish EXCEPT !.pc = "lookup", !.topic = t]
  <1>3. pub' = [pub EXCEPT ![g] = c]
    BY <1>1 DEF Handle
  <1>4. NoPublish \in [pc : PublishPcs, topic : Topics \cup {NoTopic}, producer : Producer \cup {NoProducer}]
    BY DEF NoPublish, PublishPcs
  <1>5. /\ c \in [pc : PublishPcs, topic : Topics \cup {NoTopic}, producer : Producer \cup {NoProducer}]
        /\ c.pc = "lookup" /\ c.topic \in Topics
    BY <1>4 DEF PublishPcs
  <1>6. pub'[g].pc = "lookup" /\ \A h \in Goroutines \ {g} : pub'[h] = pub[h]
    BY <1>3, <1>5 DEF ProcessInv, ProcessTypeOK
  <1> HIDE DEF c
  <1>7. ProcessTypeOK' /\ Phases' /\ TokenFileReadable' /\ WholeRenamed'
    <2>1. /\ mu' \in Goroutines \cup {Free} /\ cache' \in [Topics -> Producer \cup {NoProducer}]
          /\ tracked' \subseteq Producer /\ live' \subseteq Producer /\ made' \in 0..MaxProducers
      BY <1>2 DEF ProcessInv, ProcessTypeOK
    <2> QED BY <1>1, <1>2, <1>3, <1>4, <1>5, <2>1, PublishFrame
  <1>8. MutexByPc' /\ MissStands' /\ ToTrack'
    BY <1>1, <1>2, <1>6 DEF ProcessInv, Producers, MutexByPc, MissStands, ToTrack, Holding
  <1>9. CacheByTopic' /\ LiveKnown' /\ CachedLive'
    BY <1>1, <1>2, <1>6 DEF ProcessInv, Producers, CacheByTopic, LiveKnown, CachedLive
  <1> QED BY <1>7, <1>8, <1>9 DEF ProcessInv, Producers

(* The steps of PulsarJobProducer.Publish. *)
LEMMA LookupInv ==
  ASSUME ProcessInv, NEW g \in Goroutines, Lookup(g)
  PROVE  ProcessInv'
  <1> DEFINE t == pub[g].topic
             hit == cache[t] # NoProducer
             c == IF hit THEN [pub[g] EXCEPT !.pc = "send", !.producer = cache[t]]
                  ELSE [pub[g] EXCEPT !.pc = "create"]
  <1>1. pub[g].pc = "lookup" /\ mu = Free /\ mu' = IF hit THEN mu ELSE g
    BY DEF Lookup
  <1>2. UNCHANGED <<main, stream, ctxDone, batch, cache, client, tracked, closing, live, made,
                    fileVars, exits>>
    BY DEF Lookup
  <1>3. /\ g = "poll" => main = "poll"
        /\ g = "stream" => stream = "handle"
        /\ t \in Topics
        /\ pub[g] \in [pc : PublishPcs, topic : Topics \cup {NoTopic},
                       producer : Producer \cup {NoProducer}]
    BY <1>1, PublishInsideRun
  <1>4. cache[t] \in Producer \cup {NoProducer}
    BY <1>3 DEF ProcessInv, ProcessTypeOK
  <1>5. pub' = [pub EXCEPT ![g] = c]
    BY DEF Lookup, ProcessInv, ProcessTypeOK
  <1>6. /\ c \in [pc : PublishPcs, topic : Topics \cup {NoTopic}, producer : Producer \cup {NoProducer}]
        /\ c.topic = t
        /\ c.pc = IF hit THEN "send" ELSE "create"
    BY <1>3, <1>4 DEF PublishPcs
  <1>7. pub'[g] = c /\ \A h \in Goroutines \ {g} : pub'[h] = pub[h]
    BY <1>5 DEF ProcessInv, ProcessTypeOK
  <1> HIDE DEF c
  <1>8. ProcessTypeOK' /\ Phases' /\ TokenFileReadable' /\ WholeRenamed'
    <2>1. /\ mu' \in Goroutines \cup {Free} /\ cache' \in [Topics -> Producer \cup {NoProducer}]
          /\ tracked' \subseteq Producer /\ live' \subseteq Producer /\ made' \in 0..MaxProducers
          /\ batch' \in 0..MaxBatch
      BY <1>1, <1>2 DEF ProcessInv, ProcessTypeOK
    <2>2. IF g = "stream" THEN stream' = "handle" ELSE UNCHANGED stream
      BY <1>2, <1>3
    <2> QED BY <1>2, <1>3, <1>5, <1>6, <2>1, <2>2, PublishFrame
  <1>9. MutexByPc'
    BY <1>1, <1>6, <1>7 DEF ProcessInv, Producers, MutexByPc, Holding, Goroutines, Free
  <1>10. MissStands' /\ ToTrack'
    BY <1>1, <1>2, <1>6, <1>7 DEF ProcessInv, Producers, MissStands, ToTrack, Holding
  <1>11. CacheByTopic' /\ LiveKnown' /\ CachedLive'
    BY <1>1, <1>2, <1>6, <1>7 DEF ProcessInv, Producers, CacheByTopic, LiveKnown, CachedLive
  <1> QED BY <1>8, <1>9, <1>10, <1>11 DEF ProcessInv, Producers

LEMMA CreateProducerInv ==
  ASSUME ProcessInv, NEW g \in Goroutines, CreateProducer(g)
  PROVE  ProcessInv'
  <1> DEFINE c == [pub[g] EXCEPT !.pc = "creating"]
  <1>1. /\ pub[g].pc = "create"
        /\ UNCHANGED <<main, stream, ctxDone, batch, mu, cache, client, tracked, closing, live, made,
                       fileVars, exits>>
    BY DEF CreateProducer
  <1>2. /\ g = "poll" => main = "poll"
        /\ g = "stream" => stream = "handle"
        /\ pub[g].topic \in Topics
        /\ pub[g] \in [pc : PublishPcs, topic : Topics \cup {NoTopic},
                       producer : Producer \cup {NoProducer}]
    BY <1>1, PublishInsideRun
  <1>3. pub' = [pub EXCEPT ![g] = c]
    BY DEF CreateProducer, ProcessInv, ProcessTypeOK
  <1>4. /\ c \in [pc : PublishPcs, topic : Topics \cup {NoTopic}, producer : Producer \cup {NoProducer}]
        /\ c.topic = pub[g].topic /\ c.pc = "creating"
    BY <1>2 DEF PublishPcs
  <1>5. pub'[g] = c /\ \A h \in Goroutines \ {g} : pub'[h] = pub[h]
    BY <1>3 DEF ProcessInv, ProcessTypeOK
  <1> HIDE DEF c
  <1>6. ProcessTypeOK' /\ Phases' /\ TokenFileReadable' /\ WholeRenamed'
    <2>1. /\ mu' \in Goroutines \cup {Free} /\ cache' \in [Topics -> Producer \cup {NoProducer}]
          /\ tracked' \subseteq Producer /\ live' \subseteq Producer /\ made' \in 0..MaxProducers
          /\ batch' \in 0..MaxBatch
      BY <1>1 DEF ProcessInv, ProcessTypeOK
    <2>2. IF g = "stream" THEN stream' = "handle" ELSE UNCHANGED stream
      BY <1>1, <1>2
    <2> QED BY <1>1, <1>2, <1>3, <1>4, <2>1, <2>2, PublishFrame
  <1>7. MutexByPc' /\ MissStands' /\ ToTrack'
    BY <1>1, <1>4, <1>5 DEF ProcessInv, Producers, MutexByPc, MissStands, ToTrack, Holding
  <1>8. CacheByTopic' /\ LiveKnown' /\ CachedLive'
    BY <1>1, <1>4, <1>5 DEF ProcessInv, Producers, CacheByTopic, LiveKnown, CachedLive
  <1> QED BY <1>6, <1>7, <1>8 DEF ProcessInv, Producers

LEMMA ProducerCreatedInv ==
  ASSUME ProcessInv, NEW g \in Goroutines, ProducerCreated(g)
  PROVE  ProcessInv'
  <1> DEFINE p == [id |-> made + 1, topic |-> pub[g].topic]
             c == [pub[g] EXCEPT !.pc = "track", !.producer = p]
  <1>1. /\ pub[g].pc = "creating" /\ made < MaxProducers
        /\ made' = made + 1 /\ live' = live \cup {p}
        /\ UNCHANGED <<main, stream, ctxDone, batch, mu, cache, client, tracked, closing, fileVars, exits>>
    BY DEF ProducerCreated
  <1>2. /\ g = "poll" => main = "poll"
        /\ g = "stream" => stream = "handle"
        /\ pub[g].topic \in Topics
        /\ pub[g] \in [pc : PublishPcs, topic : Topics \cup {NoTopic},
                       producer : Producer \cup {NoProducer}]
    BY <1>1, PublishInsideRun
  <1>3. made + 1 \in 1..MaxProducers
    BY <1>1, DispatcherProcessAssumption DEF ProcessInv, ProcessTypeOK
  <1>4. p \in Producer /\ p.topic = pub[g].topic
    BY <1>2, <1>3 DEF Producer
  <1>5. pub' = [pub EXCEPT ![g] = c]
    BY DEF ProducerCreated, ProcessInv, ProcessTypeOK
  <1> HIDE DEF p
  <1>6. /\ c \in [pc : PublishPcs, topic : Topics \cup {NoTopic}, producer : Producer \cup {NoProducer}]
        /\ c.topic = pub[g].topic /\ c.pc = "track" /\ c.producer = p
    BY <1>2, <1>4 DEF PublishPcs
  <1>7. pub'[g] = c /\ \A h \in Goroutines \ {g} : pub'[h] = pub[h]
    BY <1>5 DEF ProcessInv, ProcessTypeOK
  <1> HIDE DEF c
  <1>8. ProcessTypeOK' /\ Phases' /\ TokenFileReadable' /\ WholeRenamed'
    <2>1. /\ mu' \in Goroutines \cup {Free} /\ cache' \in [Topics -> Producer \cup {NoProducer}]
          /\ tracked' \subseteq Producer /\ live' \subseteq Producer /\ made' \in 0..MaxProducers
          /\ batch' \in 0..MaxBatch
      BY <1>1, <1>3, <1>4 DEF ProcessInv, ProcessTypeOK
    <2>2. IF g = "stream" THEN stream' = "handle" ELSE UNCHANGED stream
      BY <1>1, <1>2
    <2> QED BY <1>1, <1>2, <1>5, <1>6, <2>1, <2>2, PublishFrame
  <1>9. MutexByPc' /\ MissStands' /\ CacheByTopic'
    BY <1>1, <1>6, <1>7 DEF ProcessInv, Producers, MutexByPc, MissStands, CacheByTopic, Holding
  <1>10. ToTrack'
    BY <1>1, <1>4, <1>6, <1>7 DEF ProcessInv, Producers, ToTrack
  <1>11. LiveKnown'
    <2>1. SUFFICES ASSUME main \notin Closing, NEW q \in live'
                   PROVE  \/ cache[q.topic] = q
                          \/ \E h \in Goroutines : pub'[h].pc = "track" /\ pub'[h].producer = q
      BY <1>1 DEF LiveKnown
    <2>2. CASE q = p
      BY <2>2, <1>6, <1>7
    <2>3. CASE q \in live
      <3>1. CASE cache[q.topic] = q
        BY <3>1
      <3>2. CASE \E h \in Goroutines : pub[h].pc = "track" /\ pub[h].producer = q
        BY <3>2, <1>1, <1>7
      <3> QED BY <2>1, <2>3, <3>1, <3>2 DEF ProcessInv, Producers, LiveKnown
    <2> QED BY <1>1, <2>1, <2>2, <2>3
  <1>12. CachedLive'
    BY <1>1 DEF ProcessInv, Producers, CachedLive
  <1> QED BY <1>8, <1>9, <1>10, <1>11, <1>12 DEF ProcessInv, Producers

(* Publish returns: the call that failed had nothing to track. *)
LEMMA ReturnInv ==
  ASSUME ProcessInv, NEW g \in Goroutines, CreateError(g) \/ Send(g)
  PROVE  ProcessInv'
  <1>1. /\ pub[g].pc \in {"creating", "send"}
        /\ mu' = IF pub[g].pc = "creating" THEN Free ELSE mu
        /\ Returned(g)
        /\ UNCHANGED <<main, ctxDone, batch, cache, client, tracked, closing, live, made,
                       fileVars, exits>>
    BY DEF CreateError, Send
  <1>2. /\ g = "poll" => main = "poll"
        /\ g = "stream" => stream = "handle"
    BY <1>1, PublishInsideRun
  <1>3. pub' = [pub EXCEPT ![g] = NoPublish]
    BY <1>1 DEF Returned
  <1>4. /\ NoPublish \in [pc : PublishPcs, topic : Topics \cup {NoTopic},
                          producer : Producer \cup {NoProducer}]
        /\ NoPublish.pc = "idle"
    BY DEF NoPublish, PublishPcs
  <1>5. pub'[g].pc = "idle" /\ \A h \in Goroutines \ {g} : pub'[h] = pub[h]
    BY <1>3, <1>4 DEF ProcessInv, ProcessTypeOK
  <1>6. ProcessTypeOK' /\ Phases' /\ TokenFileReadable' /\ WholeRenamed'
    <2>1. /\ mu' \in Goroutines \cup {Free} /\ cache' \in [Topics -> Producer \cup {NoProducer}]
          /\ tracked' \subseteq Producer /\ live' \subseteq Producer /\ made' \in 0..MaxProducers
          /\ batch' \in 0..MaxBatch
      BY <1>1 DEF ProcessInv, ProcessTypeOK
    <2> QED BY <1>1, <1>2, <1>3, <1>4, <2>1, PublishFrame
  <1>7. MutexByPc'
    BY <1>1, <1>5 DEF ProcessInv, Producers, MutexByPc, Holding, Goroutines, Free
  <1>8. MissStands' /\ ToTrack' /\ CacheByTopic' /\ CachedLive'
    BY <1>1, <1>5 DEF ProcessInv, Producers, MissStands, ToTrack, CacheByTopic, CachedLive, Holding
  <1>9. LiveKnown'
    BY <1>1, <1>5 DEF ProcessInv, Producers, LiveKnown
  <1> QED BY <1>6, <1>7, <1>8, <1>9 DEF ProcessInv, Producers

LEMMA TrackInv ==
  ASSUME ProcessInv, NEW g \in Goroutines, Track(g)
  PROVE  ProcessInv'
  <1> DEFINE p == pub[g].producer
             c == [pub[g] EXCEPT !.pc = "send"]
  <1>1. /\ pub[g].pc = "track" /\ mu' = Free
        /\ tracked' = tracked \cup {p} /\ cache' = [cache EXCEPT ![p.topic] = p]
        /\ UNCHANGED <<main, stream, ctxDone, batch, client, closing, live, made, fileVars, exits>>
    BY DEF Track
  <1>2. /\ g = "poll" => main = "poll"
        /\ g = "stream" => stream = "handle"
        /\ pub[g] \in [pc : PublishPcs, topic : Topics \cup {NoTopic},
                       producer : Producer \cup {NoProducer}]
        /\ pub[g].topic \in Topics
    BY <1>1, PublishInsideRun
  <1>3. /\ p \in Producer /\ p # NoProducer /\ p.topic = pub[g].topic
        /\ main = "poll" => p \in live
    BY <1>1, NoProducerOutside DEF ProcessInv, Producers, ToTrack
  <1>4. pub' = [pub EXCEPT ![g] = c]
    BY DEF Track, ProcessInv, ProcessTypeOK
  <1>5. cache[p.topic] = NoProducer
    BY <1>1, <1>3 DEF ProcessInv, Producers, MissStands, Holding
  <1>6. cache'[p.topic] = p /\ \A t \in Topics \ {p.topic} : cache'[t] = cache[t]
    BY <1>1, <1>2, <1>3 DEF ProcessInv, ProcessTypeOK
  <1>7. /\ c \in [pc : PublishPcs, topic : Topics \cup {NoTopic}, producer : Producer \cup {NoProducer}]
        /\ c.topic = pub[g].topic /\ c.pc = "send"
    BY <1>2 DEF PublishPcs
  <1>8. pub'[g] = c /\ \A h \in Goroutines \ {g} : pub'[h] = pub[h]
    BY <1>4 DEF ProcessInv, ProcessTypeOK
  <1>9. \A h \in Goroutines \ {g} : pub[h].pc \notin Holding
    BY <1>1 DEF ProcessInv, Producers, MutexByPc, Holding
  <1> HIDE DEF c, p
  <1>10. ProcessTypeOK' /\ Phases' /\ TokenFileReadable' /\ WholeRenamed'
    <2>1. /\ mu' \in Goroutines \cup {Free} /\ cache' \in [Topics -> Producer \cup {NoProducer}]
          /\ tracked' \subseteq Producer /\ live' \subseteq Producer /\ made' \in 0..MaxProducers
          /\ batch' \in 0..MaxBatch
      BY <1>1, <1>3 DEF ProcessInv, ProcessTypeOK
    <2>2. IF g = "stream" THEN stream' = "handle" ELSE UNCHANGED stream
      BY <1>1, <1>2
    <2> QED BY <1>1, <1>2, <1>4, <1>7, <2>1, <2>2, PublishFrame
  <1>11. MutexByPc' /\ MissStands' /\ ToTrack'
    BY <1>1, <1>7, <1>8, <1>9 DEF ProcessInv, Producers, MutexByPc, MissStands, ToTrack, Holding,
                                  Goroutines, Free
  <1>12. CacheByTopic'
    BY <1>1, <1>3, <1>6 DEF ProcessInv, Producers, CacheByTopic
  <1>13. LiveKnown'
    <2>1. SUFFICES ASSUME main \notin Closing, NEW q \in live
                   PROVE  cache'[q.topic] = q
      BY <1>1 DEF LiveKnown
    <2>2. q \in Producer /\ q # NoProducer /\ q.topic \in Topics
      BY <2>1, NoProducerOutside DEF ProcessInv, ProcessTypeOK
    <2>3. CASE cache[q.topic] = q
      BY <2>2, <2>3, <1>5, <1>6
    <2>4. CASE \E h \in Goroutines : pub[h].pc = "track" /\ pub[h].producer = q
      BY <2>4, <1>6, <1>9 DEF Holding, p
    <2> QED BY <2>1, <2>3, <2>4 DEF ProcessInv, Producers, LiveKnown
  <1>14. CachedLive'
    <2>1. main \notin Closing => p \in live
      <3>1. main \notin Closing => main = "poll"
        BY <1>2 DEF ProcessInv, Phases, StreamInsideRun, Goroutines
      <3> QED BY <3>1, <1>3
    <2> QED BY <1>1, <1>3, <1>6, <2>1 DEF ProcessInv, Producers, CachedLive
  <1> QED BY <1>10, <1>11, <1>12, <1>13, <1>14 DEF ProcessInv, Producers

-----------------------------------------------------------------------------
LEMMA ProcessStepInv ==
  ASSUME ProcessInv, [ProcessNext]_vars
  PROVE  ProcessInv'
  <1>1. CASE \E g \in Goroutines : PublishStep(g)
    <2>1. PICK g \in Goroutines : PublishStep(g)
      BY <1>1
    <2>2. CreatePanics(g) => Ends
      BY DEF CreatePanics
    <2> QED BY <2>1, <2>2, LookupInv, CreateProducerInv, EndsInv, ProducerCreatedInv, ReturnInv, TrackInv
            DEF PublishStep
  <1>2. CASE StreamStep
    BY <1>2, StreamInv, NextJobInv DEF StreamStep
  <1>3. CASE MainStep
    <2>1. Disconnect => Ends
      BY DEF Disconnect
    <2> QED BY <1>3, <2>1, MainInv, NextJobInv, EndsInv DEF MainStep
  <1>4. CASE NewFails \/ Crash
    BY <1>4, EndsInv DEF NewFails, Crash
  <1>5. CASE PollFetch \/ Signal \/ TokenExpires \/ Restart
    BY <1>5, MainInv, RestartInv
  <1>6. CASE UNCHANGED vars
    <2>1. /\ UNCHANGED <<main, stream, ctxDone, batch, exits>>
          /\ UNCHANGED <<pub, mu, cache, client, tracked, closing, live, made, file, tmp, refused>>
      BY <1>6 DEF vars, pubVars, fileVars
    <2>2. Producers'
      BY <2>1, ProducersFrame
    <2> QED BY <2>1, <2>2 DEF ProcessInv, ProcessTypeOK, Phases, ClientByPhase, StreamInsideRun,
                              PollInsideRun, ClosesWhenDone, TokenFileReadable, WholeRenamed
  <1> QED BY <1>1, <1>2, <1>3, <1>4, <1>5, <1>6 DEF ProcessNext

LEMMA ProcessInvHolds == ProcessSpec => []ProcessInv
  BY ProcessInitInv, ProcessStepInv, PTL DEF ProcessSpec

(***************************************************************************)
(* Type correctness, with the agreement of the stream goroutine and its    *)
(* publish: HandleDispatch runs between an event and its resume token.     *)
(***************************************************************************)
THEOREM DispatcherProcessTypeCorrect == ProcessSpec => []ProcessTypeOK
  <1>1. ProcessInv => ProcessTypeOK
    BY DEF ProcessInv
  <1> QED BY <1>1, ProcessInvHolds, PTL

(* Until Run returns, the producers that are open, cached and tracked are  *)
(* the same ones: the poll loop and the stream, which publish to the same  *)
(* new topic at the same time, make one producer and Close will find it.   *)
THEOREM ProducersKnownCorrect == ProcessSpec => []ProducersKnown
  <1>1. ASSUME ProcessInv
        PROVE  ProducersKnown
    <2>1. main = "poll" => main \notin Closing
      BY DEF Closing
    <2>2. \A g \in Goroutines : pub[g].pc = "track" => mu = g
      BY <1>1 DEF ProcessInv, Producers, MutexByPc, Holding
    <2> QED BY <1>1, <2>1, <2>2 DEF ProcessInv, Producers, LiveKnown, CachedLive, ProducersKnown
  <1> QED BY <1>1, ProcessInvHolds, PTL

(* Only the stream goroutine of a cancelled process can meet the client    *)
(* that Close has set to nil: the poll loop and every process that was not *)
(* cancelled publish with an open one.                                     *)
THEOREM NilClientCorrect == ProcessSpec => []NilClientOnlyForLateStream
  <1>1. ASSUME ProcessInv, NEW g \in Goroutines, pub[g].pc # "idle", client = "nil"
        PROVE  g = "stream" /\ ctxDone
    <2>1. main \notin {"watch", "poll", "closeProducer", "closePulsar"}
      BY <1>1 DEF ProcessInv, Phases, ClientByPhase
    <2>2. g = "stream" /\ stream = "handle"
      BY <1>1, <2>1, PublishInsideRun DEF Goroutines
    <2>3. main \in Closing
      BY <1>1, <2>1, <2>2 DEF ProcessInv, Phases, StreamInsideRun
    <2> QED BY <1>1, <2>2, <2>3 DEF ProcessInv, Phases, ClosesWhenDone
  <1>2. ProcessInv => NilClientOnlyForLateStream
    BY <1>1 DEF NilClientOnlyForLateStream
  <1> QED BY <1>2, ProcessInvHolds, PTL

(* Wherever in Save the process dies, the token file is the old one or the *)
(* new one, and Load decodes it.                                           *)
THEOREM TokenFileCorrect == ProcessSpec => []TokenFileReadable
  <1>1. ProcessInv => TokenFileReadable
    BY DEF ProcessInv
  <1> QED BY <1>1, ProcessInvHolds, PTL

-----------------------------------------------------------------------------
(* A process ends from anywhere before its end. *)
LEMMA EndsAdvances ==
  ASSUME ProcessInv, main # "exited", Ends
  PROVE  StepsOfMain[main'] < StepsOfMain[main]
  <1>1. main' = "exited" /\ main \in MainPcs
    BY DEF Ends, NoProcess, ProcessInv, ProcessTypeOK
  <1> QED BY <1>1 DEF StepsOfMain, MainPcs

(* A step of the publish of the poll loop is the next one on its way. *)
LEMMA PollPublishAdvances ==
  ASSUME ProcessInv, PublishStep("poll"), ~CreatePanics("poll")
  PROVE  /\ main' = main /\ batch' = batch
         /\ StepsOfPublish[pub'["poll"].pc] < StepsOfPublish[pub["poll"].pc]
  <1>1. /\ "poll" \in Goroutines
        /\ pub \in [Goroutines -> [pc : PublishPcs, topic : Topics \cup {NoTopic},
                                   producer : Producer \cup {NoProducer}]]
    BY DEF ProcessInv, ProcessTypeOK, Goroutines
  <1>2. main' = main /\ batch' = batch
    BY DEF PublishStep, Lookup, CreateProducer, CreatePanics, ProducerCreated, CreateError, Track, Send
  <1>3. CASE Lookup("poll")
    <2>1. pub["poll"].pc = "lookup" /\ pub'["poll"].pc \in {"send", "create"}
      BY <1>1, <1>3 DEF Lookup
    <2> QED BY <1>2, <2>1 DEF StepsOfPublish
  <1>4. CASE CreateProducer("poll") \/ ProducerCreated("poll") \/ Track("poll")
    <2>1. \/ pub["poll"].pc = "create" /\ pub'["poll"].pc = "creating"
          \/ pub["poll"].pc = "creating" /\ pub'["poll"].pc = "track"
          \/ pub["poll"].pc = "track" /\ pub'["poll"].pc = "send"
      BY <1>1, <1>4 DEF CreateProducer, ProducerCreated, Track
    <2> QED BY <1>2, <2>1 DEF StepsOfPublish
  <1>5. CASE CreateError("poll") \/ Send("poll")
    <2>1. pub["poll"].pc \in {"creating", "send"} /\ pub'["poll"].pc = "idle"
      BY <1>1, <1>5 DEF CreateError, Send, Returned, NoPublish
    <2> QED BY <1>2, <2>1 DEF StepsOfPublish
  <1> QED BY <1>3, <1>4, <1>5 DEF PublishStep

(***************************************************************************)
(* However many jobs the batch holds and whatever the stream goroutine, a  *)
(* panic of it and the broker do, every step that main takes in a          *)
(* cancelled process is one of those it has left before it exits.  That it *)
(* does take them is the fairness of ShutdownCompletes.                    *)
(***************************************************************************)
THEOREM ShutdownAdvancesCorrect == ProcessSpec => ShutdownAdvances
  <1> DEFINE Advances ==
        ctxDone /\ ctxDone' =>
          \/ StepsOfMain[main'] < StepsOfMain[main]
          \/ main' = main /\ batch' < batch
          \/ /\ main' = main /\ batch' = batch
             /\ StepsOfPublish[pub'["poll"].pc] < StepsOfPublish[pub["poll"].pc]
  <1>1. ProcessInv /\ [ProcessNext]_vars => [Advances]_<<main, batch, pub["poll"]>>
    <2> SUFFICES ASSUME ProcessInv, [ProcessNext]_vars, ctxDone, ctxDone',
                        ~UNCHANGED <<main, batch, pub["poll"]>>
                 PROVE  Advances
      OBVIOUS
    <2>1. CASE NewFails \/ Crash \/ Disconnect \/ \E g \in Goroutines : CreatePanics(g)
      <3>1. Ends
        BY <2>1 DEF NewFails, Crash, Disconnect, CreatePanics
      <3>2. main # "exited"
        BY <2>1, PublishInsideRun DEF NewFails, Crash, Disconnect, CreatePanics, Goroutines, ProcessInv, Phases,
                                      StreamInsideRun, Closing
      <3> QED BY <3>1, <3>2, EndsAdvances
    <2>2. CASE PublishStep("poll") /\ ~CreatePanics("poll")
      BY <2>2, PollPublishAdvances
    <2>3. CASE PublishStep("stream") /\ ~CreatePanics("stream")
      <3>1. UNCHANGED <<main, batch>>
        BY <2>3 DEF PublishStep, Lookup, CreateProducer, ProducerCreated, CreateError, Track, Send
      <3>2. \E c : pub' = [pub EXCEPT !["stream"] = c]
        BY <2>3 DEF PublishStep, Lookup, CreateProducer, ProducerCreated, CreateError, Track, Send, Returned
      <3>3. pub'["poll"] = pub["poll"]
        BY <3>2 DEF ProcessInv, ProcessTypeOK, Goroutines
      <3> QED BY <3>1, <3>3
    <2>4. CASE PollNext
      <3>1. main' = main /\ batch' = batch - 1 /\ batch \in Nat
        BY <2>4, DispatcherProcessAssumption DEF PollNext, ProcessInv, ProcessTypeOK
      <3> QED BY <3>1
    <2>5. CASE ConnectPulsar \/ RunStarts \/ PollReturns \/ CloseProducer \/ ClosePulsar \/ CloseTracked
               \/ CloseClient
      BY <2>5 DEF ConnectPulsar, RunStarts, PollReturns, PollIdle, CloseProducer, ClosePulsar, CloseTracked,
                  CloseClient, StepsOfMain
    <2>6. ~PollFetch /\ ~Signal /\ ~Restart
      BY DEF PollFetch, Signal, Restart
    <2>7. ~TokenExpires /\ ~StreamStep
      <3>1. StreamNext => pub'["poll"] = pub["poll"]
        BY DEF StreamNext, Handle, ProcessInv, ProcessTypeOK, Goroutines
      <3> QED
        BY <3>1 DEF TokenExpires, StreamStep, RunLoop, StreamOpen, StreamFails, StreamNext, StreamSkips,
                    SaveStep, SaveCreate, SaveWrite, SaveRename, SaveFails, StreamFrame, pubVars
    <2> QED
      BY <2>1, <2>2, <2>3, <2>4, <2>5, <2>6, <2>7 DEF ProcessNext, MainStep, Goroutines, vars, pubVars
  <1> QED BY <1>1, ProcessInvHolds, PTL DEF ProcessSpec, ShutdownAdvances
=============================================================================
