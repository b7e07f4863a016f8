------------------------------ MODULE Exporter ------------------------------
(* The OTLP exporter, sponsio/tracer/exporters.py: the threads of a        *)
(* program hand it records (spans, or through daemon/audit_export.py the   *)
(* records of the audit log) and never wait; a worker thread takes them    *)
(* from a bounded queue and posts them in batches.  When the queue is full *)
(* the oldest goes, and is counted.  close() stops the worker after what   *)
(* is queued.                                                              *)
(*                                                                         *)
(* A record is a number.  What it says and how long things take is left    *)
(* out: a batch may be due whenever it is not empty, and is due when the   *)
(* queue stayed empty for the whole wait.                                  *)
(*                                                                         *)
(* External: the collector.  Whether it took a batch that was given up is  *)
(* not told apart: it may have, without saying so.                         *)
EXTENDS Integers, Sequences, FiniteSets

CONSTANTS Producer,    \* the threads that export
          MaxQueue, BatchSize, MaxRetries

ASSUME ExporterAssumption ==
    MaxQueue \in Nat \ {0} /\ BatchSize \in Nat \ {0} /\ MaxRetries \in Nat

VARIABLES queue,
          giving,    \* what each thread is exporting, and how far it is
          dropped,   \* the counter
          closer,    \* how far close() is
          worker,
          given,     \* history: the records that were exported,
          late,      \*   queued after close() told the worker to stop,
          posted,    \*   taken by the collector or given up,
          discarded  \*   dropped from the queue or at its door

history == <<given, late, posted, discarded>>
evars == <<queue, giving, dropped, closer, worker, history>>

Sentinel == 0
Nothing == [pc |-> "none", item |-> Sentinel]

Items(s) == {s[i] : i \in DOMAIN s} \ {Sentinel}
InQueue == Items(queue)
InBatch == Items(worker.batch)
InHand == {giving[p].item : p \in Producer} \ {Sentinel}

stopping == closer # "open"
Running == closer # "gone"
Room == Len(queue) < MaxQueue

ExporterInit ==
    /\ queue = <<>>
    /\ giving = [p \in Producer |-> Nothing]
    /\ dropped = 0
    /\ closer = "open"
    /\ worker = [pc |-> "get", batch |-> <<>>, tries |-> 0, last |-> FALSE]
    /\ given = {}
    /\ late = {}
    /\ posted = {}
    /\ discarded = {}

\* export is called with a record that can be encoded.
Export(p, item) ==
    /\ giving[p] = Nothing
    /\ given' = given \cup {item}
    /\ giving' = [giving EXCEPT ![p] = [pc |-> "put", item |-> item]]
    /\ UNCHANGED <<queue, dropped, closer, worker, late, posted, discarded>>

Enqueued(item) ==
    /\ queue' = Append(queue, item)
    /\ late' = IF stopping THEN late \cup ({item} \ {Sentinel}) ELSE late

\* put_nowait: there is room, or queue.Full is raised.
Put(p) ==
    /\ Running
    /\ giving[p].pc = "put"
    /\ \/ /\ Room
          /\ Enqueued(giving[p].item)
          /\ giving' = [giving EXCEPT ![p] = Nothing]
       \/ /\ ~Room
          /\ giving' = [giving EXCEPT ![p].pc = "full"]
          /\ UNCHANGED <<queue, late>>
    /\ UNCHANGED <<dropped, closer, worker, given, posted, discarded>>

\* The oldest is dropped, unless the worker emptied the queue by now.  The
\* counter has a lock of its own; nobody reads it in between.
DropOldest(p) ==
    /\ Running
    /\ giving[p].pc = "full"
    /\ giving' = [giving EXCEPT ![p].pc = "again"]
    /\ IF queue = <<>> THEN UNCHANGED <<queue, dropped, discarded>>
       ELSE /\ queue' = Tail(queue)
            /\ dropped' = dropped + 1
            /\ discarded' = discarded \cup ({Head(queue)} \ {Sentinel})
    /\ UNCHANGED <<closer, worker, given, late, posted>>

\* Mutant for PutAgain: a record that finds the queue full again is not counted.
PutAgainUncounted(p) ==
    /\ Running
    /\ giving[p].pc = "again"
    /\ giving' = [giving EXCEPT ![p] = Nothing]
    /\ \/ Room /\ Enqueued(giving[p].item) /\ UNCHANGED discarded
       \/ ~Room /\ discarded' = discarded \cup {giving[p].item} /\ UNCHANGED <<queue, late>>
    /\ UNCHANGED <<dropped, closer, worker, given, posted>>

\* Another thread may have taken the room: then it is the new record that goes.
PutAgain(p) ==
    /\ Running
    /\ giving[p].pc = "again"
    /\ giving' = [giving EXCEPT ![p] = Nothing]
    /\ \/ Room /\ Enqueued(giving[p].item) /\ UNCHANGED <<dropped, discarded>>
       \/ /\ ~Room
          /\ dropped' = dropped + 1
          /\ discarded' = discarded \cup {giving[p].item}
          /\ UNCHANGED <<queue, late>>
    /\ UNCHANGED <<closer, worker, given, posted>>

Becomes(state) == worker' = [worker EXCEPT !.pc = state]
Holding(batch, state) == worker' = [worker EXCEPT !.pc = state, !.batch = batch]
Posting(last) == worker' = [worker EXCEPT !.pc = "post", !.tries = 0, !.last = last]

OnlyWorker == UNCHANGED <<giving, dropped, closer, given, late, discarded>>

\* The worker's get returned a record, or the sentinel,
Take ==
    /\ worker.pc = "get"
    /\ queue # <<>>
    /\ queue' = Tail(queue)
    /\ IF Head(queue) = Sentinel THEN Becomes("drain")
       ELSE Holding(Append(worker.batch, Head(queue)), "took")
    /\ UNCHANGED posted

\* or nothing came until the deadline.
TimesOut ==
    /\ worker.pc = "get"
    /\ queue = <<>>
    /\ Becomes("waited")
    /\ UNCHANGED <<queue, posted>>

\* Mutant for Flush: a batch that is not full is never due.
FlushFull ==
    /\ worker.pc \in {"took", "waited"}
    /\ IF worker.batch # <<>> /\ (Len(worker.batch) >= BatchSize \/ stopping)
       THEN Posting(FALSE) ELSE Becomes("leave")
    /\ UNCHANGED <<queue, posted>>

Flush ==
    /\ worker.pc \in {"took", "waited"}
    /\ \E due \in BOOLEAN :
           /\ worker.pc = "waited" => due
           /\ IF /\ worker.batch # <<>>
                 /\ Len(worker.batch) >= BatchSize \/ due \/ stopping
              THEN Posting(FALSE) ELSE Becomes("leave")
    /\ UNCHANGED <<queue, posted>>

\* Mutant for Leave: the queue is not looked at.
LeaveEarly ==
    /\ worker.pc = "leave"
    /\ IF stopping THEN IF worker.batch = <<>> THEN Becomes("over") ELSE Posting(TRUE)
       ELSE Becomes("get")
    /\ UNCHANGED <<queue, posted>>

\* Told to stop, with nothing queued, it posts what it has and ends.
Leave ==
    /\ worker.pc = "leave"
    /\ IF stopping /\ queue = <<>>
       THEN IF worker.batch = <<>> THEN Becomes("over") ELSE Posting(TRUE)
       ELSE Becomes("get")
    /\ UNCHANGED <<queue, posted>>

\* After the sentinel it takes whatever else is there.
Drain ==
    /\ worker.pc = "drain"
    /\ \/ /\ queue # <<>>
          /\ queue' = Tail(queue)
          /\ Holding(IF Head(queue) = Sentinel THEN worker.batch
                     ELSE Append(worker.batch, Head(queue)), "drain")
       \/ /\ queue = <<>>
          /\ IF worker.batch = <<>> THEN Becomes("over") ELSE Posting(TRUE)
          /\ UNCHANGED queue
    /\ UNCHANGED posted

Posted == Holding(<<>>, IF worker.last THEN "over" ELSE "leave")

\* An attempt to post the batch: taken, or given up after the last one;
\* refused or unanswered; or answered with no HTTP, which nothing catches.
Post ==
    /\ worker.pc = "post"
    /\ \/ Posted /\ posted' = posted \cup InBatch
       \/ /\ worker.tries < MaxRetries
          /\ worker' = [worker EXCEPT !.tries = @ + 1]
          /\ UNCHANGED posted
       \/ Becomes("died") /\ UNCHANGED posted
    /\ UNCHANGED queue

WorkerStep ==
    /\ Running
    /\ Take \/ TimesOut \/ Flush \/ Leave \/ Drain \/ Post
    /\ OnlyWorker

\* close(): the event is set, the sentinel put if there is room, and the
\* worker waited for, but not for long.
Stop ==
    /\ closer = "open"
    /\ closer' = "stopping"
    /\ UNCHANGED <<queue, giving, dropped, worker, history>>

PutSentinel ==
    /\ closer = "stopping"
    /\ closer' = "joining"
    /\ IF Room THEN Enqueued(Sentinel) ELSE UNCHANGED <<queue, late>>
    /\ UNCHANGED <<giving, dropped, worker, given, posted, discarded>>

\* The process ends, and its threads with it.
Exit ==
    /\ closer = "joining"
    /\ closer' = "gone"
    /\ UNCHANGED <<queue, giving, dropped, worker, history>>

ExporterStep ==
    \/ \E p \in Producer : Put(p) \/ DropOldest(p) \/ PutAgain(p)
    \/ WorkerStep
    \/ PutSentinel
    \/ Exit

-----------------------------------------------------------------------------
Giving == [pc : {"none", "put", "full", "again"}, item : Nat]
Worker == [pc : {"get", "took", "waited", "post", "leave", "drain", "over", "died"},
           batch : Seq(Nat), tries : 0 .. MaxRetries, last : BOOLEAN]

ExporterTypeOK ==
    /\ queue \in Seq(Nat) /\ Len(queue) <= MaxQueue
    /\ giving \in [Producer -> Giving]
    /\ dropped \in Nat
    /\ closer \in {"open", "stopping", "joining", "gone"}
    /\ worker \in Worker

Distinct(s) == \A i, j \in DOMAIN s : s[i] = s[j] => i = j

\* Whatever the threads, the worker and close do at once, no exported record
\* is in two places or in none, and the counter counts what was dropped
\* (and the sentinel, when close met a full queue).
RecordsAccounted ==
    /\ given = posted \cup discarded \cup InQueue \cup InBatch \cup InHand
    /\ Distinct(queue) /\ Distinct(worker.batch)
    /\ InQueue \cap (InBatch \cup InHand \cup discarded \cup posted) = {}
    /\ discarded \cap (InBatch \cup InHand \cup posted) = {}
    /\ dropped - Cardinality(discarded) \in 0 .. (IF stopping THEN 1 ELSE 0)

\* "Stop the worker and flush any pending batch": a worker that ended left
\* nothing that was queued before close began.
DrainedOnClose == worker.pc = "over" => InQueue \subseteq late /\ worker.batch = <<>>
=============================================================================
