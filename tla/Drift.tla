------------------------------- MODULE Drift --------------------------------
(* Changes of a watched file, from the disk to the collector: the poll of  *)
(* sponsio/daemon/integrity.py finds them, daemon/audit.py puts them on    *)
(* record beside the records of other threads, and the exporter sends them *)
(* on; `daemon run` shuts all of it down in order.                         *)
(*                                                                         *)
(* A record is its number in the log.  The chain of the log is AuditLog's  *)
(* subject.  One file stands for all: they share nothing but the thread.   *)
(* It is watched from its baseline on: its first poll, by the constructor  *)
(* or when it joined the watch, remembers it and records nothing.          *)
(*                                                                         *)
(* External: what else writes the file.  Each save gives it another stat.  *)
EXTENDS Exporter

CONSTANTS Content,
          Watcher, Main,   \* the poll's thread, and the one that runs the daemon
          MaxSaves, MaxRecords   \* bounds

ASSUME DriftAssumption ==
    Watcher \in Producer /\ Main \in Producer /\ MaxSaves \in Nat /\ MaxRecords \in Nat

VARIABLES file, saves, known, poll, running,
          attached,   \* the log has the exporter
          log,        \* how many records the log has
          onRecord,   \* history: what the log says the file holds
          unwritten   \* history: the last change found could not be written

dvars == <<file, saves, known, poll, running, attached, log, onRecord, unwritten>>

NoFile == "no file"
NoStat == 0
Idle == [pc |-> "idle"]

Init ==
    /\ ExporterInit
    /\ file = [stat |-> 1, content |-> CHOOSE c \in Content : TRUE]
    /\ saves = 1
    /\ known = [sig |-> file.stat, digest |-> file.content]
    /\ poll = Idle
    /\ running = TRUE
    /\ attached = TRUE
    /\ log = 0
    /\ onRecord = file.content
    /\ unwritten = FALSE

\* Somebody writes the file, or deletes it.
Save(content) ==
    /\ Running
    /\ saves < MaxSaves
    /\ saves' = saves + 1
    /\ file' = [stat |-> IF content = NoFile THEN NoStat ELSE saves', content |-> content]
    /\ UNCHANGED <<known, poll, running, attached, log, onRecord, unwritten, evars>>

\* poll: the file's stat is taken, and nothing more if it is the known one.
PollStat ==
    /\ Running
    /\ running
    /\ poll = Idle
    /\ giving[Watcher] = Nothing
    /\ known.sig # file.stat
    /\ poll' = [pc |-> "hash", sig |-> file.stat]
    /\ UNCHANGED <<file, saves, known, running, attached, log, onRecord, unwritten, evars>>

\* Mutant for PollHash: a file that cannot be read is not a change.
PollHashPresent ==
    LET digest == IF poll.sig = NoStat THEN NoFile ELSE file.content
    IN  /\ Running
        /\ poll.pc = "hash"
        /\ known' = [sig |-> poll.sig, digest |-> digest]
        /\ poll' = IF known.digest = digest \/ digest = NoFile THEN Idle
                   ELSE [pc |-> "record", digest |-> digest]
        /\ UNCHANGED <<file, saves, running, attached, log, onRecord, unwritten, evars>>

\* Then it is read, and both are remembered.
PollHash ==
    LET digest == IF poll.sig = NoStat THEN NoFile ELSE file.content
    IN  /\ Running
        /\ poll.pc = "hash"
        /\ known' = [sig |-> poll.sig, digest |-> digest]
        /\ poll' = IF known.digest = digest THEN Idle
                   ELSE [pc |-> "record", digest |-> digest]
        /\ UNCHANGED <<file, saves, running, attached, log, onRecord, unwritten, evars>>

\* append: the record is written and the exporter read under the lock; it is
\* called after the lock was let go.
Recorded(p) ==
    /\ log < MaxRecords
    /\ log' = log + 1
    /\ IF attached THEN Export(p, log') ELSE UNCHANGED evars

PollRecord ==
    /\ Running
    /\ poll.pc = "record"
    /\ poll' = Idle
    /\ \/ Recorded(Watcher) /\ onRecord' = poll.digest /\ unwritten' = FALSE
       \/ unwritten' = TRUE /\ UNCHANGED <<log, onRecord, evars>>
    /\ UNCHANGED <<file, saves, known, running, attached>>

\* Another thread puts something on record.
Record(p) ==
    /\ Running
    /\ Recorded(p)
    /\ giving[p] = Nothing
    /\ UNCHANGED <<file, saves, known, poll, running, attached, onRecord, unwritten>>

\* The daemon stops: the poll, then its own record, the exporter is taken
\* from the log and closed.  Other threads may still be about to export.
StopWatch ==
    /\ running
    /\ running' = FALSE
    /\ UNCHANGED <<file, saves, known, poll, attached, log, onRecord, unwritten, evars>>

Detach ==
    /\ ~running
    /\ attached
    /\ giving[Main] = Nothing
    /\ attached' = FALSE
    /\ UNCHANGED <<file, saves, known, poll, running, log, onRecord, unwritten, evars>>

Close == ~attached /\ Stop /\ UNCHANGED dvars

Next ==
    \/ \E c \in Content \cup {NoFile} : Save(c)
    \/ PollStat \/ PollHash \/ PollRecord
    \/ \E p \in Producer \ {Watcher, Main} : Record(p)
    \/ ~running /\ attached /\ Record(Main)
    \/ StopWatch
    \/ Detach
    \/ Close
    \/ ExporterStep /\ UNCHANGED dvars

Poll == PollStat \/ PollHash \/ PollRecord

\* The poll comes around; nothing is asked of those who save, record or stop.
Spec == /\ Init /\ [][Next]_<<dvars, evars>>
        /\ WF_<<dvars, evars>>(Poll)
        /\ WF_<<dvars, evars>>(WorkerStep /\ UNCHANGED dvars)
        /\ \A p \in Producer :
               WF_<<dvars, evars>>((Put(p) \/ DropOldest(p) \/ PutAgain(p)) /\ UNCHANGED dvars)
-----------------------------------------------------------------------------
TypeOK == ExporterTypeOK /\ log \in 0 .. MaxRecords

\* "Every change is recorded" (start_watch): while the daemon runs, what the
\* log says a file holds becomes what it holds, whenever it was saved,
\* between the stat and the read included, unless a record could not be
\* written (or no more fit the bound).
DriftRecorded ==
    []<>(onRecord = file.content \/ unwritten \/ ~running \/ log = MaxRecords)

\* A record that was exported leaves the exporter: it is posted, or given
\* up, or dropped, unless the worker is gone or the process ends.
EveryRecordLeaves ==
    \A n \in 1 .. MaxRecords :
        n \in given ~> \/ n \in posted \cup discarded
                       \/ worker.pc \in {"over", "died"}
                       \/ closer = "gone"
=============================================================================
