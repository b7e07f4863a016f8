---------------------------- MODULE DriftProofs -----------------------------
(* The exporter's types, that a worker which ended after close() left      *)
(* nothing of what was queued before, and that no record is lost, doubled  *)
(* or left uncounted, for any threads and bounds.                          *)
EXTENDS Drift, FiniteSetTheorems, TLAPS

\* A worker that is about to end, or has.
Leaving == worker.pc = "over" \/ (worker.pc = "post" /\ worker.last)

SentinelMeansStop == \A i \in DOMAIN queue : queue[i] = Sentinel => stopping
RecordsInHand == \A p \in Producer : giving[p].pc # "none" => giving[p].item # Sentinel
QueuedLate == \A i \in DOMAIN queue : queue[i] # Sentinel => queue[i] \in late

\* DrainedOnClose is not inductive: the last batch may be under way, and only
\* the sentinel, which close alone puts, sends the worker to drain.
CloseInv ==
    /\ SentinelMeansStop
    /\ RecordsInHand
    /\ worker.pc = "drain" => stopping
    /\ Leaving => stopping /\ QueuedLate
    /\ worker.pc = "over" => worker.batch = <<>>

USE DEF Sentinel, stopping

\* What the rest of the daemon does to the exporter.
Given(p) == log' = log + 1 /\ log < MaxRecords /\ Export(p, log')

LEMMA RecordedGives ==
    ASSUME NEW p \in Producer, Recorded(p)
    PROVE  (\E q \in Producer : Given(q)) \/ UNCHANGED evars
  BY DEF Recorded, Given

LEMMA StepsOfExporter ==
    ASSUME [Next]_<<dvars, evars>>
    PROVE  ExporterStep \/ (\E p \in Producer : Given(p)) \/ Stop \/ UNCHANGED evars
<1>1. CASE \E c \in Content \cup {NoFile} : Save(c)
  BY <1>1, Zenon DEF Save
<1>2. CASE PollStat \/ PollHash
  BY <1>2, Zenon DEF PollStat, PollHash
<1>3. CASE PollRecord
  <2>1. Recorded(Watcher) \/ UNCHANGED evars
    BY <1>3, Zenon DEF PollRecord
  <2> QED
    BY <2>1, RecordedGives, DriftAssumption
<1>4. CASE \E p \in Producer : Record(p)
  BY <1>4, RecordedGives DEF Record
<1>5. CASE StopWatch \/ Detach
  BY <1>5, Zenon DEF StopWatch, Detach
<1>6. CASE Close \/ (ExporterStep /\ UNCHANGED dvars)
  BY <1>6 DEF Close
<1>7. CASE UNCHANGED <<dvars, evars>>
  BY <1>7
<1> QED
  BY <1>1, <1>2, <1>3, <1>4, <1>5, <1>6, <1>7, DriftAssumption DEF Next

LEMMA LogMoves ==
    ASSUME [Next]_<<dvars, evars>>
    PROVE  (\E p \in Producer : Recorded(p)) \/ UNCHANGED log
<1>1. CASE \E c \in Content \cup {NoFile} : Save(c)
  BY <1>1, Zenon DEF Save
<1>2. CASE PollStat \/ PollHash
  BY <1>2, Zenon DEF PollStat, PollHash
<1>3. CASE PollRecord
  BY <1>3, DriftAssumption, Zenon DEF PollRecord
<1>4. CASE \E p \in Producer : Record(p)
  BY <1>4, Zenon DEF Record
<1>5. CASE StopWatch \/ Detach
  BY <1>5, Zenon DEF StopWatch, Detach
<1>6. CASE Close \/ (ExporterStep /\ UNCHANGED dvars) \/ UNCHANGED <<dvars, evars>>
  BY <1>6 DEF Close, dvars
<1> QED
  BY <1>1, <1>2, <1>3, <1>4, <1>5, <1>6, DriftAssumption DEF Next

LEMMA LogStays ==
    ASSUME [Next]_<<dvars, evars>>, log \in 0 .. MaxRecords, MaxRecords \in Nat
    PROVE  log' \in 0 .. MaxRecords /\ log <= log'
<1>1. CASE \E p \in Producer : Recorded(p)
  BY <1>1 DEF Recorded
<1>2. CASE UNCHANGED log
  BY <1>2
<1> QED
  BY <1>1, <1>2, LogMoves
----------------------------------------------------------------------------
(* Types.                                                                  *)

LEMMA EnqueuedType ==
    ASSUME ExporterTypeOK, NEW item \in Nat, Room, Enqueued(item)
    PROVE  queue' \in Seq(Nat) /\ Len(queue') <= MaxQueue
  BY ExporterAssumption DEF ExporterTypeOK, Room, Enqueued

LEMMA TailType ==
    ASSUME ExporterTypeOK, queue # <<>>
    PROVE  Tail(queue) \in Seq(Nat) /\ Len(Tail(queue)) <= MaxQueue /\ Head(queue) \in Nat
  BY ExporterAssumption DEF ExporterTypeOK

LEMMA GivingType ==
    ASSUME ExporterTypeOK, NEW p \in Producer, NEW state \in {"put", "full", "again"}
    PROVE  /\ giving[p].item \in Nat
           /\ [giving EXCEPT ![p] = Nothing] \in [Producer -> Giving]
           /\ [giving EXCEPT ![p].pc = state] \in [Producer -> Giving]
           /\ \A n \in Nat : [giving EXCEPT ![p] = [pc |-> state, item |-> n]]
                               \in [Producer -> Giving]
<1>1. giving \in [Producer -> Giving] /\ giving[p] \in Giving
  BY DEF ExporterTypeOK
<1>2. /\ giving[p].item \in Nat
      /\ Nothing \in Giving
      /\ [giving[p] EXCEPT !.pc = state] \in Giving
      /\ \A n \in Nat : [pc |-> state, item |-> n] \in Giving
  BY <1>1 DEF Giving, Nothing
<1>3. [giving EXCEPT ![p].pc = state] = [giving EXCEPT ![p] = [giving[p] EXCEPT !.pc = state]]
  BY <1>1
<1> QED
  BY <1>1, <1>2, <1>3

LEMMA ProducerTypes ==
    ASSUME ExporterTypeOK, NEW p \in Producer, Put(p) \/ DropOldest(p) \/ PutAgain(p)
    PROVE  ExporterTypeOK'
<1>1. giving[p].item \in Nat
  BY GivingType
<1>2. CASE Put(p)
  <2>1. queue' \in Seq(Nat) /\ Len(queue') <= MaxQueue
    BY <1>1, <1>2, EnqueuedType DEF Put, ExporterTypeOK
  <2>2. giving' \in [Producer -> Giving]
    BY <1>2, GivingType DEF Put
  <2> QED
    BY <1>2, <2>1, <2>2 DEF Put, ExporterTypeOK
<1>3. CASE DropOldest(p)
  <2>1. queue' \in Seq(Nat) /\ Len(queue') <= MaxQueue
    BY <1>3, TailType DEF DropOldest, ExporterTypeOK
  <2>2. giving' \in [Producer -> Giving]
    BY <1>3, GivingType DEF DropOldest
  <2>3. dropped' \in Nat
    BY <1>3 DEF DropOldest, ExporterTypeOK
  <2> QED
    BY <1>3, <2>1, <2>2, <2>3 DEF DropOldest, ExporterTypeOK
<1>4. CASE PutAgain(p)
  <2>1. queue' \in Seq(Nat) /\ Len(queue') <= MaxQueue
    BY <1>1, <1>4, EnqueuedType DEF PutAgain, ExporterTypeOK
  <2>2. giving' \in [Producer -> Giving]
    BY <1>4, GivingType DEF PutAgain
  <2>3. dropped' \in Nat
    BY <1>4 DEF PutAgain, ExporterTypeOK
  <2> QED
    BY <1>4, <2>1, <2>2, <2>3 DEF PutAgain, ExporterTypeOK
<1> QED
  BY <1>2, <1>3, <1>4

\* The worker goes on, with a batch, or to post it.
LEMMA WorkerTypeKept ==
    ASSUME ExporterTypeOK, NEW batch \in Seq(Nat), NEW last \in BOOLEAN,
           NEW state \in {"get", "took", "waited", "leave", "drain", "over", "died"}
    PROVE  /\ Becomes(state) \/ Holding(batch, state) \/ Posting(last) => worker' \in Worker
           /\ worker.batch \in Seq(Nat) /\ worker.tries \in 0 .. MaxRetries
<1>1. /\ worker.batch \in Seq(Nat) /\ worker.tries \in 0 .. MaxRetries
      /\ worker.pc \in {"get", "took", "waited", "post", "leave", "drain", "over", "died"}
      /\ worker.last \in BOOLEAN
      /\ worker = [pc |-> worker.pc, batch |-> worker.batch,
                   tries |-> worker.tries, last |-> worker.last]
  BY DEF ExporterTypeOK, Worker
<1>2. CASE Becomes(state)
  <2>1. worker' = [pc |-> state, batch |-> worker.batch,
                   tries |-> worker.tries, last |-> worker.last]
    BY <1>1, <1>2 DEF Becomes
  <2> QED
    BY <1>1, <2>1 DEF Worker
<1>3. CASE Holding(batch, state)
  <2>1. worker' = [pc |-> state, batch |-> batch,
                   tries |-> worker.tries, last |-> worker.last]
    BY <1>1, <1>3 DEF Holding
  <2> QED
    BY <1>1, <2>1 DEF Worker
<1>4. CASE Posting(last)
  <2>1. worker' = [pc |-> "post", batch |-> worker.batch, tries |-> 0, last |-> last]
    BY <1>1, <1>4 DEF Posting
  <2>2. 0 \in 0 .. MaxRetries
    BY ExporterAssumption
  <2> QED
    BY <1>1, <2>1, <2>2 DEF Worker
<1> QED
  BY <1>1, <1>2, <1>3, <1>4

LEMMA WorkerTypes ==
    ASSUME ExporterTypeOK, WorkerStep
    PROVE  ExporterTypeOK'
<1>1. UNCHANGED <<giving, dropped, closer>>
  BY DEF WorkerStep, OnlyWorker
<1>2. queue' \in Seq(Nat) /\ Len(queue') <= MaxQueue
  BY TailType DEF ExporterTypeOK, WorkerStep, Take, TimesOut, Flush, Leave, Drain, Post
<1>3. worker.batch \in Seq(Nat) /\ worker.tries \in Nat /\ <<>> \in Seq(Nat)
  <2>1. <<>> \in Seq(Nat)
    OBVIOUS
  <2> QED
    BY <2>1, ExporterAssumption DEF ExporterTypeOK, Worker
<1>4. queue # <<>> => Head(queue) \in Nat /\ Append(worker.batch, Head(queue)) \in Seq(Nat)
  BY <1>3, TailType
<1>5. worker' \in Worker
  <2>1. CASE Take
    BY <1>3, <1>4, <2>1, WorkerTypeKept DEF Take
  <2>2. CASE TimesOut
    BY <1>3, <2>2, WorkerTypeKept DEF TimesOut
  <2>3. CASE Flush
    <3>1. Posting(FALSE) \/ Becomes("leave")
      BY <2>3 DEF Flush
    <3> QED
      BY <1>3, <3>1, WorkerTypeKept
  <2>4. CASE Leave
    <3>1. Posting(TRUE) \/ Becomes("over") \/ Becomes("get")
      BY <2>4 DEF Leave
    <3> QED
      BY <1>3, <3>1, WorkerTypeKept
  <2>5. CASE Drain
    <3>1. CASE queue # <<>>
      BY <1>3, <1>4, <2>5, <3>1, WorkerTypeKept DEF Drain
    <3>2. CASE queue = <<>>
      <4>1. Posting(TRUE) \/ Becomes("over")
        BY <2>5, <3>2 DEF Drain
      <4> QED
        BY <1>3, <4>1, WorkerTypeKept
    <3> QED
      BY <3>1, <3>2
  <2>6. CASE Post
    <3>1. CASE Posted
      BY <1>3, <3>1, WorkerTypeKept DEF Posted
    <3>2. CASE worker.tries < MaxRetries /\ worker' = [worker EXCEPT !.tries = @ + 1]
      <4>1. worker.tries + 1 \in 0 .. MaxRetries /\ worker \in Worker
        BY <1>3, <3>2, ExporterAssumption DEF ExporterTypeOK
      <4> QED
        BY <3>2, <4>1 DEF Worker
    <3>3. CASE Becomes("died")
      BY <1>3, <3>3, WorkerTypeKept
    <3> QED
      BY <2>6, <3>1, <3>2, <3>3 DEF Post
  <2> QED
    BY <2>1, <2>2, <2>3, <2>4, <2>5, <2>6 DEF WorkerStep
<1> QED
  BY <1>1, <1>2, <1>5 DEF ExporterTypeOK

LEMMA TypesKept ==
    ASSUME TypeOK, [Next]_<<dvars, evars>>
    PROVE  TypeOK'
<1> USE DEF TypeOK
<1>1. log' \in 0 .. MaxRecords
  BY LogStays, DriftAssumption
<1>2. CASE ExporterStep
  <2>1. CASE \E p \in Producer : Put(p) \/ DropOldest(p) \/ PutAgain(p)
    BY <1>1, <2>1, ProducerTypes
  <2>2. CASE WorkerStep
    BY <1>1, <2>2, WorkerTypes
  <2>3. CASE PutSentinel
    <3>1. queue' \in Seq(Nat) /\ Len(queue') <= MaxQueue
      BY <2>3, EnqueuedType DEF PutSentinel, ExporterTypeOK
    <3> QED
      BY <1>1, <2>3, <3>1 DEF PutSentinel, ExporterTypeOK
  <2>4. CASE Exit
    BY <1>1, <2>4 DEF Exit, ExporterTypeOK
  <2> QED
    BY <1>2, <2>1, <2>2, <2>3, <2>4 DEF ExporterStep
<1>3. CASE \E p \in Producer : Given(p)
  <2>1. PICK p \in Producer : Given(p)
    BY <1>3
  <2>2. log' \in Nat /\ giving' = [giving EXCEPT ![p] = [pc |-> "put", item |-> log']]
    BY <1>1, <2>1 DEF Given, Export
  <2>3. giving' \in [Producer -> Giving]
    BY <2>2, GivingType
  <2> QED
    BY <1>1, <2>1, <2>3 DEF Given, Export, ExporterTypeOK
<1>4. CASE Stop
  BY <1>1, <1>4 DEF Stop, ExporterTypeOK
<1>5. CASE UNCHANGED evars
  BY <1>1, <1>5 DEF evars, ExporterTypeOK
<1> QED
  BY <1>2, <1>3, <1>4, <1>5, StepsOfExporter

\* What the variables are, for every value of the constants.
THEOREM DriftTypeCorrect == Spec => []TypeOK
<1>1. Init => TypeOK
  <2> SUFFICES ASSUME Init PROVE TypeOK
    OBVIOUS
  <2>1. worker \in Worker
    BY ExporterAssumption DEF Init, ExporterInit, Worker
  <2>2. giving \in [Producer -> Giving]
    BY DEF Init, ExporterInit, Nothing, Giving
  <2> QED
    BY <2>1, <2>2, ExporterAssumption, DriftAssumption
       DEF Init, ExporterInit, TypeOK, ExporterTypeOK
<1>2. TypeOK /\ [Next]_<<dvars, evars>> => TypeOK'
  BY TypesKept
<1> QED
  BY <1>1, <1>2, PTL DEF Spec

----------------------------------------------------------------------------
(* close().                                                                *)

LEMMA TailItems ==
    ASSUME NEW s \in Seq(Nat), s # <<>>
    PROVE  \A i \in DOMAIN Tail(s) : i + 1 \in DOMAIN s /\ Tail(s)[i] = s[i + 1]
  OBVIOUS

LEMMA AppendItems ==
    ASSUME NEW s \in Seq(Nat), NEW item \in Nat
    PROVE  \A i \in DOMAIN Append(s, item) :
               \/ i \in DOMAIN s /\ Append(s, item)[i] = s[i]
               \/ Append(s, item)[i] = item
  OBVIOUS

\* What a thread that exports does with what it holds.
LEMMA HandStep ==
    ASSUME ExporterTypeOK, NEW p \in Producer, Put(p) \/ DropOldest(p) \/ PutAgain(p)
    PROVE  /\ giving[p].pc # "none"
           /\ \A q \in Producer \ {p} : giving'[q] = giving[q]
           /\ giving'[p] = Nothing \/ (giving'[p].pc # "none" /\ giving'[p].item = giving[p].item)
<1>1. giving[p].pc # "none"
  BY DEF Put, DropOldest, PutAgain
<1>2. \/ giving' = [giving EXCEPT ![p] = Nothing]
      \/ giving' = [giving EXCEPT ![p].pc = "full"]
      \/ giving' = [giving EXCEPT ![p].pc = "again"]
  BY DEF Put, DropOldest, PutAgain
<1>3. giving \in [Producer -> Giving] /\ giving[p] \in Giving
  BY DEF ExporterTypeOK
<1>4. CASE giving' = [giving EXCEPT ![p] = Nothing]
  BY <1>1, <1>3, <1>4
<1>5. CASE giving' = [giving EXCEPT ![p].pc = "full"]
  BY <1>1, <1>3, <1>5 DEF Giving
<1>6. CASE giving' = [giving EXCEPT ![p].pc = "again"]
  BY <1>1, <1>3, <1>6 DEF Giving
<1> QED
  BY <1>2, <1>4, <1>5, <1>6

LEMMA ProducerKeepsClose ==
    ASSUME TypeOK, CloseInv, NEW p \in Producer, Put(p) \/ DropOldest(p) \/ PutAgain(p)
    PROVE  CloseInv'
<1> USE DEF CloseInv
<1>1. UNCHANGED <<worker, closer>>
  BY DEF Put, DropOldest, PutAgain
<1>2. giving[p].pc # "none" /\ giving[p].item # Sentinel /\ giving[p].item \in Nat
  BY GivingType DEF Put, DropOldest, PutAgain, TypeOK, RecordsInHand
<1>3. RecordsInHand'
  BY <1>2, HandStep DEF RecordsInHand, Nothing, TypeOK
<1>4. \/ Enqueued(giving[p].item)
      \/ queue # <<>> /\ queue' = Tail(queue) /\ late' = late
      \/ UNCHANGED <<queue, late>>
  BY DEF Put, DropOldest, PutAgain
<1>5. SentinelMeansStop' /\ (Leaving => QueuedLate')
  <2>1. CASE Enqueued(giving[p].item)
    BY <1>1, <1>2, <2>1
       DEF Enqueued, SentinelMeansStop, QueuedLate, Leaving, TypeOK, ExporterTypeOK
  <2>2. CASE queue # <<>> /\ queue' = Tail(queue) /\ late' = late
    BY <1>1, <2>2 DEF SentinelMeansStop, QueuedLate, Leaving, TypeOK, ExporterTypeOK
  <2>3. CASE UNCHANGED <<queue, late>>
    BY <1>1, <2>3 DEF SentinelMeansStop, QueuedLate, Leaving
  <2> QED
    BY <1>4, <2>1, <2>2, <2>3
<1> QED
  BY <1>1, <1>3, <1>5 DEF Leaving

LEMMA WorkerKeepsClose ==
    ASSUME TypeOK, CloseInv, WorkerStep
    PROVE  CloseInv'
<1> USE DEF CloseInv
<1>1. UNCHANGED <<giving, closer, late>>
  BY DEF WorkerStep, OnlyWorker
<1>2. RecordsInHand'
  BY <1>1 DEF RecordsInHand
<1>3. queue' = queue \/ (queue # <<>> /\ queue' = Tail(queue))
  BY DEF WorkerStep, Take, TimesOut, Flush, Leave, Drain, Post
<1>4. SentinelMeansStop' /\ (QueuedLate => QueuedLate')
  <2>1. CASE queue' = queue
    BY <1>1, <2>1 DEF SentinelMeansStop, QueuedLate
  <2>2. CASE queue # <<>> /\ queue' = Tail(queue)
    <3>1. \A i \in DOMAIN queue' : i + 1 \in DOMAIN queue /\ queue'[i] = queue[i + 1]
      BY <2>2, TailItems DEF TypeOK, ExporterTypeOK
    <3> QED
      BY <1>1, <3>1 DEF SentinelMeansStop, QueuedLate
  <2> QED
    BY <1>3, <2>1, <2>2
<1>5. worker \in Worker
  BY DEF TypeOK, ExporterTypeOK
<1>6. /\ worker'.pc = "drain" => stopping
      /\ Leaving' => stopping /\ (queue = <<>> \/ Leaving)
      /\ worker'.pc = "over" => worker'.batch = <<>>
  <2> USE DEF Becomes, Holding, Posting, Leaving, Worker
  <2>1. CASE Take
    <3>1. Head(queue) = Sentinel => stopping
      BY <2>1 DEF Take, SentinelMeansStop, TypeOK, ExporterTypeOK
    <3> QED
      BY <1>5, <2>1, <3>1 DEF Take
  <2>2. CASE TimesOut
    BY <1>5, <2>2 DEF TimesOut
  <2>3. CASE Flush
    BY <1>5, <2>3 DEF Flush
  <2>4. CASE Leave
    BY <1>5, <2>4 DEF Leave
  <2>5. CASE Drain
    BY <1>5, <2>5 DEF Drain
  <2>6. CASE Post
    BY <1>5, <2>6 DEF Post, Posted
  <2> QED
    BY <2>1, <2>2, <2>3, <2>4, <2>5, <2>6 DEF WorkerStep
<1>7. Leaving' => QueuedLate'
  BY <1>4, <1>6 DEF QueuedLate, TypeOK, ExporterTypeOK
<1> QED
  BY <1>1, <1>2, <1>4, <1>6, <1>7

LEMMA CloseKept ==
    ASSUME TypeOK, CloseInv, [Next]_<<dvars, evars>>
    PROVE  CloseInv'
<1> USE DEF CloseInv
<1>1. CASE \E p \in Producer : Put(p) \/ DropOldest(p) \/ PutAgain(p)
  BY <1>1, ProducerKeepsClose
<1>2. CASE WorkerStep
  BY <1>2, WorkerKeepsClose
<1>3. CASE PutSentinel
  <2>1. UNCHANGED <<giving, worker>> /\ closer' = "joining"
    BY <1>3 DEF PutSentinel
  <2>2. Enqueued(Sentinel) \/ UNCHANGED <<queue, late>>
    BY <1>3 DEF PutSentinel
  <2>3. QueuedLate => QueuedLate'
    <3>1. CASE Enqueued(Sentinel)
      <4>1. late' = late /\ queue' = Append(queue, Sentinel)
        BY <3>1 DEF Enqueued
      <4>2. \A i \in DOMAIN queue' : (i \in DOMAIN queue /\ queue'[i] = queue[i])
                                    \/ queue'[i] = Sentinel
        BY <4>1, AppendItems DEF TypeOK, ExporterTypeOK
      <4> QED
        BY <4>1, <4>2 DEF QueuedLate
    <3>2. CASE UNCHANGED <<queue, late>>
      BY <3>2 DEF QueuedLate
    <3> QED
      BY <2>2, <3>1, <3>2
  <2> QED
    BY <2>1, <2>3 DEF Leaving, RecordsInHand, SentinelMeansStop
<1>4. CASE Exit \/ Stop
  BY <1>4 DEF Exit, Stop, history, Leaving, RecordsInHand, SentinelMeansStop, QueuedLate
<1>5. CASE \E p \in Producer : Given(p)
  <2>1. PICK p \in Producer : Given(p)
    BY <1>5
  <2>2. UNCHANGED <<queue, worker, closer, late>> /\ log' \in Nat /\ log' # Sentinel
    BY <2>1 DEF Given, Export, TypeOK
  <2>3. RecordsInHand'
    BY <2>1, <2>2 DEF Given, Export, RecordsInHand, TypeOK, ExporterTypeOK
  <2> QED
    BY <2>2, <2>3 DEF Leaving, SentinelMeansStop, QueuedLate
<1>6. CASE UNCHANGED evars
  BY <1>6 DEF evars, history, Leaving, RecordsInHand, SentinelMeansStop, QueuedLate
<1> QED
  BY <1>1, <1>2, <1>3, <1>4, <1>5, <1>6, StepsOfExporter DEF ExporterStep

\* However close(), the worker and the threads that export interleave, a
\* worker that ended left nothing that was queued before close began.
THEOREM CloseDrains == Spec => []DrainedOnClose
<1>1. Init => CloseInv
  BY DEF Init, ExporterInit, CloseInv, SentinelMeansStop, RecordsInHand, Nothing, Leaving
<1>2. TypeOK /\ CloseInv /\ [Next]_<<dvars, evars>> => CloseInv'
  BY CloseKept
<1>3. CloseInv => DrainedOnClose
  BY DEF CloseInv, DrainedOnClose, Leaving, QueuedLate, InQueue, Items
<1> QED
  BY <1>1, <1>2, <1>3, DriftTypeCorrect, PTL DEF Spec

----------------------------------------------------------------------------
(* No record is lost or doubled.                                           *)

NoSentinel(s) == \A i \in DOMAIN s : s[i] # Sentinel

\* g is split among the places a record can be: queue, batch, hands,
\* dropped, posted.
Apart(g, q, b, h, d, p) ==
    /\ g = p \cup d \cup q \cup b \cup h
    /\ q \cap (b \cup h \cup d \cup p) = {}
    /\ d \cap (b \cup h \cup p) = {}
    /\ h \cap (b \cup p) = {}
    /\ b \cap p = {}

HandsApart ==
    \A p, q \in Producer :
        giving[p].item # Sentinel /\ giving[p].item = giving[q].item => p = q

\* The counter is ahead of the dropped records by the sentinel, at most.
Counted ==
    \/ dropped = Cardinality(discarded)
    \/ /\ dropped = Cardinality(discarded) + 1
       /\ closer \in {"joining", "gone"}
       /\ NoSentinel(queue)

\* RecordsAccounted is not inductive: a record in hand must be in no other
\* place either, a new one must be new, and there is one sentinel at most.
PlacesInv ==
    /\ IsFiniteSet(discarded)
    /\ Apart(given, InQueue, InBatch, InHand, discarded, posted)
    /\ Distinct(queue) /\ Distinct(worker.batch)
    /\ HandsApart
    /\ closer \in {"open", "stopping"} => NoSentinel(queue)
    /\ Counted

AccountInv == given \subseteq 1 .. log /\ PlacesInv

LEMMA DistinctAppend ==
    ASSUME NEW s \in Seq(Nat), Distinct(s), NEW x \in Nat, \A i \in DOMAIN s : s[i] # x
    PROVE  Distinct(Append(s, x))
<1>1. \A i \in DOMAIN Append(s, x) :
         \/ i \in DOMAIN s /\ Append(s, x)[i] = s[i]
         \/ i = Len(s) + 1 /\ Append(s, x)[i] = x
  OBVIOUS
<1> QED
  BY <1>1 DEF Distinct

LEMMA ItemsOfAppend ==
    ASSUME NEW s \in Seq(Nat), NEW x \in Nat
    PROVE  Items(Append(s, x)) = Items(s) \cup ({x} \ {Sentinel})
<1> DEFINE a == Append(s, x)
<1>1. \A i \in DOMAIN a : (i \in DOMAIN s /\ a[i] = s[i]) \/ a[i] = x
  BY AppendItems
<1>2. \A i \in DOMAIN s : i \in DOMAIN a /\ a[i] = s[i]
  OBVIOUS
<1>3. Len(s) + 1 \in DOMAIN a /\ a[Len(s) + 1] = x
  OBVIOUS
<1> HIDE DEF a
<1>4. Items(a) \subseteq Items(s) \cup ({x} \ {Sentinel})
  BY <1>1 DEF Items
<1>5. Items(s) \subseteq Items(a)
  BY <1>2 DEF Items
<1>6. {x} \ {Sentinel} \subseteq Items(a)
  BY <1>3 DEF Items
<1> QED
  BY <1>4, <1>5, <1>6 DEF a

LEMMA OfTail ==
    ASSUME NEW s \in Seq(Nat), s # <<>>, Distinct(s)
    PROVE  /\ Head(s) \in Nat
           /\ Distinct(Tail(s))
           /\ Items(Tail(s)) = Items(s) \ {Head(s)}
           /\ Head(s) # Sentinel => Head(s) \in Items(s)
           /\ Head(s) = Sentinel => NoSentinel(Tail(s)) /\ Items(Tail(s)) = Items(s)
           /\ NoSentinel(s) => NoSentinel(Tail(s))
<1> DEFINE t == Tail(s)
           h == Head(s)
<1>1. \A i \in DOMAIN t : i + 1 \in DOMAIN s /\ t[i] = s[i + 1] /\ i \in Int /\ i + 1 # 1
  OBVIOUS
<1>2. 1 \in DOMAIN s /\ h = s[1] /\ h \in Nat
  OBVIOUS
<1>3. \A j \in DOMAIN s : j # 1 => j - 1 \in DOMAIN t /\ t[j - 1] = s[j]
  OBVIOUS
<1> HIDE DEF t, h
<1>4. \A i \in DOMAIN t : t[i] # h
  BY <1>1, <1>2 DEF Distinct
<1>5. Distinct(t)
  BY <1>1 DEF Distinct
<1>6. Items(t) \subseteq Items(s) \ {h}
  BY <1>1, <1>4 DEF Items
<1>7. Items(s) \ {h} \subseteq Items(t)
  <2>1. ASSUME NEW x \in Items(s), x # h
        PROVE  x \in Items(t)
    <3>1. PICK j \in DOMAIN s : x = s[j] /\ x # Sentinel
      BY <2>1 DEF Items
    <3>2. j # 1
      BY <1>2, <2>1, <3>1
    <3> QED
      BY <1>3, <3>1, <3>2 DEF Items
  <2> QED
    BY <2>1
<1>8. h # Sentinel => h \in Items(s)
  BY <1>2 DEF Items
<1>9. h = Sentinel => NoSentinel(t)
  BY <1>4 DEF NoSentinel
<1>10. h = Sentinel => Items(t) = Items(s)
  <2>1. Sentinel \notin Items(s)
    BY DEF Items
  <2> QED
    BY <1>6, <1>7, <2>1
<1>11. NoSentinel(s) => NoSentinel(t)
  BY <1>1 DEF NoSentinel
<1> QED
  BY <1>2, <1>5, <1>6, <1>7, <1>8, <1>9, <1>10, <1>11 DEF t, h

\* What a hand that lets go of its record, or goes on with it, leaves.
LEMMA HandLetsGo ==
    ASSUME ExporterTypeOK, HandsApart, NEW p \in Producer, giving[p].item # Sentinel,
           giving' = [giving EXCEPT ![p] = Nothing]
    PROVE  /\ InHand' = InHand \ {giving[p].item}
           /\ giving[p].item \in InHand
           /\ HandsApart'
<1>1. giving \in [Producer -> Giving]
  BY DEF ExporterTypeOK
<1>2. giving'[p].item = Sentinel /\ \A q \in Producer : q # p => giving'[q] = giving[q]
  BY <1>1 DEF Nothing
<1>3. giving[p].item \in InHand
  BY DEF InHand
<1>4. \A q \in Producer : q # p => giving[q].item # giving[p].item
  BY DEF HandsApart
<1>5. InHand' \subseteq InHand \ {giving[p].item}
  BY <1>2, <1>4 DEF InHand
<1>6. InHand \ {giving[p].item} \subseteq InHand'
  BY <1>2 DEF InHand
<1>7. HandsApart'
  BY <1>2 DEF HandsApart
<1> QED
  BY <1>3, <1>5, <1>6, <1>7

LEMMA HandGoesOn ==
    ASSUME ExporterTypeOK, NEW p \in Producer, NEW state,
           giving' = [giving EXCEPT ![p].pc = state]
    PROVE  InHand' = InHand /\ (HandsApart => HandsApart')
<1>1. giving \in [Producer -> Giving]
  BY DEF ExporterTypeOK
<1>2. \A q \in Producer : giving'[q].item = giving[q].item
  BY <1>1 DEF Giving
<1> QED
  BY <1>2 DEF InHand, HandsApart

LEMMA HandTakes ==
    ASSUME ExporterTypeOK, HandsApart, NEW p \in Producer, NEW n, n # Sentinel, n \notin InHand,
           giving[p] = Nothing, giving' = [giving EXCEPT ![p] = [pc |-> "put", item |-> n]]
    PROVE  InHand' = InHand \cup {n} /\ HandsApart'
<1>1. giving \in [Producer -> Giving] /\ giving[p].item = Sentinel
  BY DEF ExporterTypeOK, Nothing
<1>2. giving'[p].item = n /\ \A q \in Producer : q # p => giving'[q] = giving[q]
  BY <1>1
<1>3. \A q \in Producer : giving[q].item # n
  BY DEF InHand
<1>4. InHand' \subseteq InHand \cup {n}
  BY <1>2 DEF InHand
<1>5. InHand \cup {n} \subseteq InHand'
  BY <1>1, <1>2 DEF InHand
<1>6. HandsApart'
  BY <1>2, <1>3 DEF HandsApart
<1> QED
  BY <1>4, <1>5, <1>6

LEMMA RecordHeld ==
    ASSUME TypeOK, CloseInv, NEW p \in Producer, Put(p) \/ DropOldest(p) \/ PutAgain(p)
    PROVE  giving[p].item # Sentinel /\ giving[p].item \in Nat
  BY GivingType DEF Put, DropOldest, PutAgain, TypeOK, CloseInv, RecordsInHand

\* A record goes from a hand to the queue,
LEMMA HandToQueue ==
    ASSUME TypeOK, CloseInv, PlacesInv, NEW p \in Producer,
           giving[p].item # Sentinel, giving[p].item \in Nat,
           giving' = [giving EXCEPT ![p] = Nothing], Enqueued(giving[p].item),
           UNCHANGED <<dropped, closer, worker, given, posted, discarded>>
    PROVE  PlacesInv'
<1> DEFINE n == giving[p].item
<1>1. n # Sentinel /\ n \in Nat /\ queue \in Seq(Nat) /\ queue' = Append(queue, n)
  BY DEF Enqueued, TypeOK, ExporterTypeOK
<1>2. InHand' = InHand \ {n} /\ n \in InHand /\ HandsApart'
  BY HandLetsGo DEF TypeOK, PlacesInv
<1> HIDE DEF n
<1>3. InQueue' = InQueue \cup {n}
  BY <1>1, ItemsOfAppend DEF InQueue
<1>4. n \notin InQueue
  BY <1>2 DEF PlacesInv, Apart
<1>5. \A i \in DOMAIN queue : queue[i] # n
  BY <1>1, <1>4 DEF InQueue, Items
<1>6. Distinct(queue')
  BY <1>1, <1>5, DistinctAppend DEF PlacesInv
<1>7. NoSentinel(queue) => NoSentinel(queue')
  BY <1>1, AppendItems DEF NoSentinel
<1>8. InBatch' = InBatch
  BY DEF InBatch
<1>9. Apart(given, InQueue', InBatch, InHand', discarded, posted)
  BY <1>2, <1>3 DEF PlacesInv, Apart
<1>10. Counted'
  BY <1>7 DEF PlacesInv, Counted
<1> QED
  BY <1>2, <1>6, <1>7, <1>8, <1>9, <1>10 DEF PlacesInv

\* or is dropped at the door.
LEMMA HandToDropped ==
    ASSUME TypeOK, CloseInv, PlacesInv, NEW p \in Producer, giving[p].item # Sentinel,
           giving' = [giving EXCEPT ![p] = Nothing],
           dropped' = dropped + 1, discarded' = discarded \cup {giving[p].item},
           UNCHANGED <<queue, closer, worker, given, posted>>
    PROVE  PlacesInv'
<1> DEFINE n == giving[p].item
<1>1. discarded' = discarded \cup {n}
  OBVIOUS
<1>2. InHand' = InHand \ {n} /\ n \in InHand /\ HandsApart'
  BY HandLetsGo DEF TypeOK, PlacesInv
<1> HIDE DEF n
<1>3. n \notin discarded
  BY <1>2 DEF PlacesInv, Apart
<1>4. IsFiniteSet(discarded') /\ Cardinality(discarded') = Cardinality(discarded) + 1
  BY <1>1, <1>3, FS_AddElement DEF PlacesInv
<1>5. InQueue' = InQueue /\ InBatch' = InBatch
  BY DEF InQueue, InBatch
<1>6. Apart(given, InQueue, InBatch, InHand', discarded', posted)
  BY <1>1, <1>2 DEF PlacesInv, Apart
<1>7. Counted'
  <2>1. dropped' = dropped + 1 /\ Cardinality(discarded') = Cardinality(discarded) + 1
    BY <1>4
  <2>2. dropped = Cardinality(discarded) => dropped' = Cardinality(discarded')
    BY <2>1
  <2>3. dropped = Cardinality(discarded) + 1 => dropped' = Cardinality(discarded') + 1
    BY <2>1
  <2> QED
    BY <2>2, <2>3 DEF PlacesInv, Counted, NoSentinel
<1> QED
  BY <1>2, <1>4, <1>5, <1>6, <1>7 DEF PlacesInv

\* The oldest is dropped: a record, or the sentinel.
LEMMA QueueToDropped ==
    ASSUME TypeOK, CloseInv, PlacesInv, NEW p \in Producer, DropOldest(p), queue # <<>>
    PROVE  PlacesInv'
<1> DEFINE h == Head(queue)
<1>1. /\ queue \in Seq(Nat) /\ queue' = Tail(queue) /\ dropped' = dropped + 1
      /\ discarded' = discarded \cup ({h} \ {Sentinel})
      /\ UNCHANGED <<closer, worker, given, posted>>
      /\ giving' = [giving EXCEPT ![p].pc = "again"]
  BY DEF DropOldest, TypeOK, ExporterTypeOK
<1>2. Distinct(queue)
  BY DEF PlacesInv
<1>3. /\ h \in Nat /\ Distinct(queue') /\ InQueue' = InQueue \ {h}
      /\ h # Sentinel => h \in InQueue
      /\ h = Sentinel => NoSentinel(queue') /\ InQueue' = InQueue
      /\ NoSentinel(queue) => NoSentinel(queue')
  BY <1>1, <1>2, OfTail DEF InQueue
<1>4. h = Sentinel => ~NoSentinel(queue)
  <2>1. 1 \in DOMAIN queue /\ h = queue[1]
    BY <1>1
  <2> QED
    BY <2>1 DEF NoSentinel
<1> HIDE DEF h
<1>5. InHand' = InHand /\ HandsApart'
  BY <1>1, HandGoesOn DEF TypeOK, PlacesInv
<1>6. InBatch' = InBatch
  BY <1>1 DEF InBatch
<1>7. CASE h = Sentinel
  <2>1. discarded' = discarded
    BY <1>1, <1>7
  <2>2. dropped = Cardinality(discarded) /\ closer \in {"joining", "gone"}
    BY <1>4, <1>7 DEF PlacesInv, Counted, TypeOK, ExporterTypeOK
  <2>3. Counted'
    BY <1>1, <1>3, <1>7, <2>1, <2>2 DEF Counted
  <2>4. InQueue' = InQueue
    BY <1>3, <1>7
  <2> QED
    BY <1>1, <1>3, <1>5, <1>6, <2>1, <2>3, <2>4 DEF PlacesInv
<1>8. CASE h # Sentinel
  <2>1. discarded' = discarded \cup {h} /\ h \in InQueue
    BY <1>1, <1>3, <1>8
  <2>2. h \notin discarded
    BY <2>1 DEF PlacesInv, Apart
  <2>3. IsFiniteSet(discarded') /\ Cardinality(discarded') = Cardinality(discarded) + 1
    BY <2>1, <2>2, FS_AddElement DEF PlacesInv
  <2>4. dropped = Cardinality(discarded) => dropped' = Cardinality(discarded')
    BY <1>1, <2>3
  <2>5. dropped = Cardinality(discarded) + 1 => dropped' = Cardinality(discarded') + 1
    BY <1>1, <2>3
  <2>6. Counted'
    BY <1>1, <1>3, <2>4, <2>5 DEF PlacesInv, Counted
  <2>7. Apart(given, InQueue', InBatch, InHand, discarded', posted)
    BY <1>3, <2>1 DEF PlacesInv, Apart
  <2> QED
    BY <1>1, <1>3, <1>5, <1>6, <2>3, <2>6, <2>7 DEF PlacesInv
<1> QED
  BY <1>7, <1>8

LEMMA ProducerKeepsPlaces ==
    ASSUME TypeOK, CloseInv, PlacesInv, NEW p \in Producer, Put(p) \/ DropOldest(p) \/ PutAgain(p)
    PROVE  PlacesInv'
<1>1. giving[p].item # Sentinel /\ giving[p].item \in Nat
  BY RecordHeld
<1>2. ASSUME NEW state, giving' = [giving EXCEPT ![p].pc = state],
             UNCHANGED <<queue, dropped, closer, worker, given, posted, discarded>>
      PROVE  PlacesInv'
  <2>1. InHand' = InHand /\ HandsApart'
    BY <1>2, HandGoesOn DEF TypeOK, PlacesInv
  <2>2. InQueue' = InQueue /\ InBatch' = InBatch
    BY <1>2 DEF InQueue, InBatch
  <2> QED
    BY <1>2, <2>1, <2>2 DEF PlacesInv, Counted
<1>3. CASE Put(p)
  BY <1>1, <1>2, <1>3, HandToQueue DEF Put
<1>4. CASE DropOldest(p)
  <2>1. CASE queue = <<>>
    BY <1>2, <1>4, <2>1 DEF DropOldest
  <2>2. CASE queue # <<>>
    BY <1>4, <2>2, QueueToDropped
  <2> QED
    BY <2>1, <2>2
<1>5. CASE PutAgain(p)
  BY <1>1, <1>5, HandToQueue, HandToDropped DEF PutAgain
<1> QED
  BY <1>3, <1>4, <1>5

\* What is left of the places when only the worker moves a record.
LEMMA WorkerMoves ==
    ASSUME PlacesInv, OnlyWorker,
           Distinct(queue'), Distinct(worker'.batch), NoSentinel(queue) => NoSentinel(queue'),
           Apart(given, InQueue', InBatch', InHand, discarded, posted')
    PROVE  PlacesInv'
<1>1. UNCHANGED <<giving, dropped, closer, given, discarded>>
  BY DEF OnlyWorker
<1>2. InHand' = InHand /\ HandsApart'
  BY <1>1 DEF InHand, HandsApart, PlacesInv
<1>3. Counted'
  BY <1>1 DEF PlacesInv, Counted
<1> QED
  BY <1>1, <1>2, <1>3 DEF PlacesInv

\* The worker takes from the queue: a record goes to the batch.
LEMMA QueueToBatch ==
    ASSUME TypeOK, PlacesInv, OnlyWorker, queue # <<>>, queue' = Tail(queue),
           worker'.batch = IF Head(queue) = Sentinel THEN worker.batch
                           ELSE Append(worker.batch, Head(queue)),
           posted' = posted
    PROVE  PlacesInv'
<1> DEFINE h == Head(queue)
           b == worker.batch
<1>1. queue \in Seq(Nat) /\ b \in Seq(Nat) /\ Distinct(queue) /\ Distinct(b)
  BY DEF TypeOK, ExporterTypeOK, Worker, PlacesInv
<1>2. /\ h \in Nat /\ Distinct(queue') /\ InQueue' = InQueue \ {h}
      /\ h # Sentinel => h \in InQueue
      /\ h = Sentinel => InQueue' = InQueue
      /\ NoSentinel(queue) => NoSentinel(queue')
  BY <1>1, OfTail DEF InQueue
<1>3. worker'.batch = IF h = Sentinel THEN b ELSE Append(b, h)
  OBVIOUS
<1>4. InBatch = Items(b) /\ InBatch' = Items(worker'.batch)
  BY DEF InBatch
<1> HIDE DEF h, b
<1>5. CASE h = Sentinel
  <2>1. worker'.batch = b
    BY <1>3, <1>5
  <2>2. InBatch' = InBatch /\ InQueue' = InQueue /\ Distinct(worker'.batch)
    BY <1>1, <1>2, <1>4, <1>5, <2>1
  <2>3. Apart(given, InQueue', InBatch', InHand, discarded, posted')
    BY <2>2 DEF PlacesInv
  <2> QED
    BY <1>2, <2>2, <2>3, WorkerMoves
<1>6. CASE h # Sentinel
  <2>1. worker'.batch = Append(b, h)
    BY <1>3, <1>6
  <2>2. InBatch' = InBatch \cup {h}
    <3>1. Items(Append(b, h)) = Items(b) \cup ({h} \ {Sentinel})
      BY <1>1, <1>2, ItemsOfAppend
    <3>2. {h} \ {Sentinel} = {h}
      BY <1>6
    <3> QED
      BY <1>4, <2>1, <3>1, <3>2
  <2>3. h \in InQueue /\ h \notin InBatch
    BY <1>2, <1>6 DEF PlacesInv, Apart
  <2>4. \A i \in DOMAIN b : b[i] # h
    BY <1>4, <1>6, <2>3 DEF Items
  <2>5. Distinct(worker'.batch)
    BY <1>1, <1>2, <2>1, <2>4, DistinctAppend
  <2>6. Apart(given, InQueue', InBatch', InHand, discarded, posted')
    BY <1>2, <2>2, <2>3 DEF PlacesInv, Apart
  <2> QED
    BY <1>2, <2>5, <2>6, WorkerMoves
<1> QED
  BY <1>5, <1>6

LEMMA BatchToPosted ==
    ASSUME TypeOK, PlacesInv, OnlyWorker, worker'.batch = <<>>,
           queue' = queue, posted' = posted \cup InBatch
    PROVE  PlacesInv'
<1>1. InQueue' = InQueue
  BY DEF InQueue
<1>2. InBatch' = {} /\ Distinct(worker'.batch)
  BY DEF InBatch, Items, Distinct
<1>3. Apart(given, InQueue', InBatch', InHand, discarded, posted')
  BY <1>1, <1>2 DEF PlacesInv, Apart
<1>4. Distinct(queue') /\ (NoSentinel(queue) => NoSentinel(queue'))
  BY DEF PlacesInv
<1> QED
  BY <1>2, <1>3, <1>4, WorkerMoves

LEMMA WorkerKeepsPlaces ==
    ASSUME TypeOK, PlacesInv, WorkerStep
    PROVE  PlacesInv'
<1>1. OnlyWorker
  BY DEF WorkerStep
<1>2. worker \in Worker
  BY DEF TypeOK, ExporterTypeOK
<1>3. ASSUME worker'.batch = worker.batch, UNCHANGED <<queue, posted>>
      PROVE  PlacesInv'
  <2>1. InQueue' = InQueue /\ InBatch' = InBatch
    BY <1>3 DEF InQueue, InBatch
  <2>2. Apart(given, InQueue', InBatch', InHand, discarded, posted')
    BY <1>3, <2>1 DEF PlacesInv
  <2>3. Distinct(queue') /\ Distinct(worker'.batch) /\ (NoSentinel(queue) => NoSentinel(queue'))
    BY <1>3 DEF PlacesInv
  <2> QED
    BY <1>1, <2>2, <2>3, WorkerMoves
<1> USE DEF Becomes, Holding, Posting, Worker
<1>4. CASE Take
  <2>1. worker'.batch = IF Head(queue) = Sentinel THEN worker.batch
                        ELSE Append(worker.batch, Head(queue))
    BY <1>2, <1>4 DEF Take
  <2>2. queue # <<>> /\ queue' = Tail(queue) /\ posted' = posted
    BY <1>4 DEF Take
  <2> QED
    BY <1>1, <2>1, <2>2, QueueToBatch
<1>5. CASE TimesOut \/ Flush \/ Leave
  BY <1>2, <1>3, <1>5 DEF TimesOut, Flush, Leave
<1>6. CASE Drain
  <2>1. CASE queue # <<>>
    <3>1. worker'.batch = IF Head(queue) = Sentinel THEN worker.batch
                          ELSE Append(worker.batch, Head(queue))
      BY <1>2, <1>6, <2>1 DEF Drain
    <3>2. queue' = Tail(queue) /\ posted' = posted
      BY <1>6, <2>1 DEF Drain
    <3> QED
      BY <1>1, <2>1, <3>1, <3>2, QueueToBatch
  <2>2. CASE queue = <<>>
    BY <1>2, <1>3, <1>6, <2>2 DEF Drain
  <2> QED
    BY <2>1, <2>2
<1>7. CASE Post
  <2>1. CASE Posted /\ posted' = posted \cup InBatch
    <3>1. worker'.batch = <<>> /\ queue' = queue
      BY <1>2, <1>7, <2>1 DEF Posted, Post
    <3> QED
      BY <1>1, <2>1, <3>1, BatchToPosted
  <2>2. CASE UNCHANGED posted /\ (worker' = [worker EXCEPT !.tries = @ + 1] \/ Becomes("died"))
    BY <1>2, <1>3, <1>7, <2>2 DEF Post
  <2> QED
    BY <1>7, <2>1, <2>2 DEF Post
<1> QED
  BY <1>4, <1>5, <1>6, <1>7 DEF WorkerStep

LEMMA CloseKeepsPlaces ==
    ASSUME TypeOK, PlacesInv, PutSentinel \/ Exit \/ Stop \/ UNCHANGED evars
    PROVE  PlacesInv'
<1>1. UNCHANGED <<giving, dropped, worker, given, posted, discarded>>
  BY DEF PutSentinel, Exit, Stop, evars, history
<1>2. InHand' = InHand /\ InBatch' = InBatch /\ HandsApart'
  BY <1>1 DEF InHand, InBatch, HandsApart, PlacesInv
<1>3. ASSUME InQueue' = InQueue, Distinct(queue'), Counted',
             closer' \in {"open", "stopping"} => NoSentinel(queue')
      PROVE  PlacesInv'
  BY <1>1, <1>2, <1>3 DEF PlacesInv
<1>4. CASE queue' = queue
  <2>1. InQueue' = InQueue /\ Distinct(queue')
    BY <1>4 DEF InQueue, PlacesInv
  <2>2. /\ closer \in {"joining", "gone"} => closer' \in {"joining", "gone"}
        /\ closer' \in {"open", "stopping"} => closer \in {"open", "stopping"}
    BY DEF PutSentinel, Exit, Stop, evars
  <2>3. Counted'
    BY <1>1, <1>4, <2>2 DEF PlacesInv, Counted
  <2>4. closer' \in {"open", "stopping"} => NoSentinel(queue')
    BY <1>4, <2>2 DEF PlacesInv
  <2> QED
    BY <1>3, <2>1, <2>3, <2>4
<1>5. CASE PutSentinel /\ Enqueued(Sentinel)
  <2>1. closer = "stopping" /\ closer' = "joining" /\ queue' = Append(queue, 0)
    BY <1>5 DEF PutSentinel, Enqueued
  <2>2. queue \in Seq(Nat) /\ NoSentinel(queue) /\ Distinct(queue)
    BY <2>1 DEF TypeOK, ExporterTypeOK, PlacesInv
  <2>3. Distinct(queue')
    BY <2>1, <2>2, DistinctAppend DEF NoSentinel
  <2>4. InQueue' = InQueue
    <3>1. Items(queue') = Items(queue) \cup ({0} \ {0})
      BY <2>1, <2>2, ItemsOfAppend
    <3> QED
      BY <3>1 DEF InQueue
  <2>5. dropped = Cardinality(discarded)
    BY <2>1 DEF PlacesInv, Counted
  <2>6. Counted'
    BY <1>1, <2>5 DEF Counted
  <2> QED
    BY <1>3, <2>1, <2>3, <2>4, <2>6
<1> QED
  BY <1>4, <1>5 DEF PutSentinel, Exit, Stop, evars

\* A record that is put on record is a new one.
LEMMA GivenKeepsAccount ==
    ASSUME TypeOK, CloseInv, AccountInv, NEW p \in Producer, Given(p)
    PROVE  AccountInv'
<1> DEFINE n == log'
<1>1. n = log + 1 /\ log \in Nat
  BY DEF Given, TypeOK
<1>2. /\ giving[p] = Nothing /\ giving' = [giving EXCEPT ![p] = [pc |-> "put", item |-> n]]
      /\ given' = given \cup {n}
      /\ UNCHANGED <<queue, dropped, closer, worker, late, posted, discarded>>
  BY DEF Given, Export
<1>3. n # Sentinel /\ n \notin given /\ given' \subseteq 1 .. n
  BY <1>1, <1>2 DEF AccountInv
<1> HIDE DEF n
<1>4. n \notin posted \cup discarded \cup InQueue \cup InBatch \cup InHand
  BY <1>3 DEF AccountInv, PlacesInv, Apart
<1>5. InHand' = InHand \cup {n} /\ HandsApart'
  BY <1>2, <1>3, <1>4, HandTakes DEF TypeOK, AccountInv, PlacesInv
<1>6. InQueue' = InQueue /\ InBatch' = InBatch
  BY <1>2 DEF InQueue, InBatch
<1>7. Apart(given', InQueue, InBatch, InHand', discarded, posted)
  BY <1>2, <1>4, <1>5 DEF AccountInv, PlacesInv, Apart
<1>8. PlacesInv'
  BY <1>2, <1>5, <1>6, <1>7 DEF AccountInv, PlacesInv, Counted
<1> QED
  BY <1>3, <1>8 DEF AccountInv, n

LEMMA AccountKept ==
    ASSUME TypeOK, CloseInv, AccountInv, [Next]_<<dvars, evars>>
    PROVE  AccountInv'
<1>1. log \in Nat /\ log' \in Nat /\ log <= log'
  BY LogStays, DriftAssumption DEF TypeOK
<1>2. 1 .. log \subseteq 1 .. log'
  BY <1>1
<1>3. CASE ExporterStep \/ Stop \/ UNCHANGED evars
  <2>1. given' = given
    BY <1>3 DEF ExporterStep, Put, DropOldest, PutAgain, WorkerStep, OnlyWorker, PutSentinel,
                Exit, Stop, evars, history
  <2>2. PlacesInv'
    BY <1>3, ProducerKeepsPlaces, WorkerKeepsPlaces, CloseKeepsPlaces DEF ExporterStep, AccountInv
  <2> QED
    BY <1>2, <2>1, <2>2 DEF AccountInv
<1>4. CASE \E p \in Producer : Given(p)
  BY <1>4, GivenKeepsAccount
<1> QED
  BY <1>3, <1>4, StepsOfExporter

\* Whatever the threads that export, the worker and close do at once, every
\* exported record is in exactly one place: in hand, queued, in the batch,
\* posted or dropped; and the counter counts the dropped ones, and at most
\* the sentinel with them.
THEOREM NoRecordLost == Spec => []RecordsAccounted
<1>1. Init => CloseInv /\ AccountInv
  <2> SUFFICES ASSUME Init PROVE CloseInv /\ AccountInv
    OBVIOUS
  <2>1. CloseInv
    BY DEF Init, ExporterInit, CloseInv, SentinelMeansStop, RecordsInHand, Nothing, Leaving
  <2>2. InQueue = {} /\ InBatch = {} /\ InHand = {}
    BY DEF Init, ExporterInit, InQueue, InBatch, InHand, Items, Nothing
  <2>3. Distinct(queue) /\ Distinct(worker.batch) /\ NoSentinel(queue) /\ HandsApart
    BY DEF Init, ExporterInit, Distinct, NoSentinel, HandsApart, Nothing
  <2>4. Apart(given, InQueue, InBatch, InHand, discarded, posted)
    BY <2>2 DEF Apart, Init, ExporterInit
  <2>5. IsFiniteSet(discarded) /\ dropped = Cardinality(discarded)
    BY FS_EmptySet DEF Init, ExporterInit
  <2>6. given \subseteq 1 .. log
    BY DEF Init, ExporterInit
  <2> QED
    BY <2>1, <2>3, <2>4, <2>5, <2>6 DEF AccountInv, PlacesInv, Counted
<1>2. TypeOK /\ CloseInv /\ AccountInv /\ [Next]_<<dvars, evars>> => CloseInv' /\ AccountInv'
  BY CloseKept, AccountKept
<1>3. TypeOK /\ AccountInv => RecordsAccounted
  <2> SUFFICES ASSUME TypeOK, AccountInv PROVE RecordsAccounted
    OBVIOUS
  <2>1. Cardinality(discarded) \in Nat
    BY FS_CardinalityType DEF AccountInv, PlacesInv
  <2>2. dropped - Cardinality(discarded) \in 0 .. (IF stopping THEN 1 ELSE 0)
    <3>1. CASE dropped = Cardinality(discarded)
      BY <2>1, <3>1
    <3>2. CASE dropped = Cardinality(discarded) + 1 /\ closer \in {"joining", "gone"}
      BY <2>1, <3>2
    <3> QED
      BY <3>1, <3>2 DEF AccountInv, PlacesInv, Counted
  <2> QED
    BY <2>2 DEF AccountInv, PlacesInv, Apart, RecordsAccounted
<1> QED
  BY <1>1, <1>2, <1>3, DriftTypeCorrect, PTL DEF Spec
=============================================================================
