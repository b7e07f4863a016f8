----------------------------- MODULE TraceStore -----------------------------
(***************************************************************************)
(* MemoryTraceStore of sponsio/daemon/guard_service.py: a conversation in  *)
(* memory plus its write-ahead log file, through appends, attached         *)
(* outputs, expiry, damage to the file, failing writes, crashes and        *)
(* restarts.                                                               *)
(*                                                                         *)
(* One conversation is modelled.  Each has its own list, counters and      *)
(* file, and the store's lock makes an operation on one atomic towards the *)
(* other operations (not towards a crash, which may fall inside one).      *)
(***************************************************************************)
EXTENDS Conversation, FiniteSets

CONSTANTS
    Fault,      \* the faults of this instance, a subset of AllFaults
    MaxSeq,     \* bound: no event is numbered MaxSeq or above
    MaxLines,   \* bound: a log has at most MaxLines lines
    Legacy      \* the logs an earlier version may have left in the directory

\* "failCall", "failOutput": the write of a call's or of an output's line
\* raises OSError with nothing written.  "tear": a write leaves a part of
\* its line (a short os.write on a full disk, a power failure).  "cut":
\* someone else deletes or truncates the file between lines.
AllFaults == {"failCall", "failOutput", "tear", "cut"}

\* A line of the file.  Junk is a line json.loads refuses.
EventLine(b, t, n, o) ==
    [kind |-> "e", bucket |-> b, tool |-> t, seq |-> n, content |-> o]
AttachLine(b, t, o) ==
    [kind |-> "a", bucket |-> b, tool |-> t, content |-> o]
Junk == [kind |-> "junk"]

Line == [kind : {"e"}, bucket : Bucket, tool : Tool, seq : Nat \cup {NoSeq},
         content : Output \cup {NoOutput}]
        \cup [kind : {"a"}, bucket : Bucket, tool : Tool, content : Output]
        \cup {Junk}

ASSUME FaultAssumption == Fault \subseteq AllFaults
ASSUME LegacyAssumption == Legacy \subseteq Seq(Line)

VARIABLES
    mode,   \* "down", "loading" or "up"
    known,  \* the conversation is in _convs
    conv,   \* its _Conversation: events, attaches, nextSeq
    idle,   \* last activity (down: the file's mtime) is older than the TTL
    wal,    \* its file: lines, torn, short
    pos     \* lines replayed so far while loading

(***************************************************************************)
(* wal.torn: the last line has no newline yet, so the next write continues *)
(* it.  wal.short: the file is shorter than wal_size, the bytes this store *)
(* counts as written.  A file of no lines stands for a missing one too.    *)
(***************************************************************************)
vars == <<mode, known, conv, idle, wal, pos>>

File == [lines : Seq(Line), torn : BOOLEAN, short : BOOLEAN]

NoFile == [lines |-> <<>>, torn |-> FALSE, short |-> FALSE]

----------------------------------------------------------------------------
(* The file.                                                               *)

\* The lines with a partial last line continued by the next write: neither
\* of the two can be read back.
Glued(lines) == [lines EXCEPT ![Len(lines)] = Junk]

\* The file after a whole line is written with O_APPEND.
Written(f, line) ==
    [lines |-> IF f.torn THEN Glued(f.lines) ELSE Append(f.lines, line),
     torn  |-> FALSE,
     short |-> f.short]

\* A part of the line reached the file: unreadable, or all but the newline.
Partial(f, line) ==
    {[lines |-> ls, torn |-> TRUE, short |-> TRUE] :
        ls \in IF f.torn THEN {Glued(f.lines)}
                         ELSE {Append(f.lines, l) : l \in {Junk, line}}}

\* _rewrite: every event of memory, outputs included, in a new file.
Rewritten(m) ==
    [lines |-> [i \in DOMAIN m.events |->
                  EventLine(m.events[i].bucket, m.events[i].tool,
                            m.events[i].seq, m.events[i].content)],
     torn |-> FALSE, short |-> FALSE]

\* Mutant for Repaired: the size of a short file is taken for the one due.
RepairedInPlace(f, m) == [f EXCEPT !.short = FALSE]

\* The first half of _write: a file found shorter than wal_size is rewritten.
Repaired(f, m) == IF f.short THEN Rewritten(m) ELSE f

\* What a _write of line may leave when the store has memory m: done is
\* FALSE when it raised.
WriteResults(f, m, line) ==
    {[file |-> Written(Repaired(f, m), line), done |-> TRUE]}
    \cup (IF (IF line.kind = "e" THEN "failCall" ELSE "failOutput") \in Fault
          THEN {[file |-> g, done |-> FALSE] : g \in {f, Repaired(f, m)}}
          ELSE {})
    \cup (IF "tear" \in Fault
          THEN {[file |-> g, done |-> TRUE] : g \in Partial(Repaired(f, m), line)}
          ELSE {})

----------------------------------------------------------------------------
(* The conversation an operation finds: an expired one is dropped with its *)
(* log before the operation goes on (_conv).                               *)

Expired == known /\ idle

Found == known /\ ~idle

Held == IF Expired THEN NewConversation ELSE conv

Log == IF Expired THEN NoFile ELSE wal

----------------------------------------------------------------------------
(* Operations.                                                             *)

Init ==
    /\ mode = "down"
    /\ known = FALSE
    /\ conv = NewConversation
    /\ idle = FALSE
    /\ \E l \in Legacy : wal = [lines |-> l, torn |-> FALSE, short |-> FALSE]
    /\ pos = 0

\* Mutant for Unwritten: the number is taken before the write.
UnwrittenCounts(m) == [m EXCEPT !.nextSeq = @ + 1]

\* What append leaves in memory when the write raised: nothing of the event.
Unwritten(m) == m

\* append: the log line first, then the event and the counter.
Admit(b, t) ==
    LET m == Held
        line == EventLine(b, t, m.nextSeq, NoOutput)
    IN /\ mode = "up"
       /\ m.nextSeq < MaxSeq
       /\ Len(Log.lines) < MaxLines
       /\ \E r \in WriteResults(Log, m, line) :
            /\ wal' = r.file
            /\ conv' = IF r.done THEN WithEvent(m, b, t, m.nextSeq, NoOutput)
                                 ELSE Unwritten(m)
       /\ known' = TRUE
       /\ idle' = FALSE
       /\ UNCHANGED <<mode, pos>>

\* attach_output that finds the call: memory first, then the log line.  A
\* write that raises leaves the output in memory.
Attach(b, t, o) ==
    LET m == ApplyAttach(conv, b, t, o)
    IN /\ mode = "up"
       /\ Found
       /\ LatestUnanswered(conv.events, b, t) # {}
       /\ Len(wal.lines) < MaxLines
       /\ conv' = m
       /\ \E r \in WriteResults(wal, m, AttachLine(b, t, o)) : wal' = r.file
       /\ UNCHANGED <<mode, known, idle, pos>>

\* Any operation that finds the conversation expired and does not create
\* one: records, revision, changes_since, and attach_output (returns False).
DropExpired ==
    /\ mode = "up"
    /\ Expired
    /\ known' = FALSE
    /\ conv' = NewConversation
    /\ wal' = NoFile
    /\ idle' = FALSE
    /\ UNCHANGED <<mode, pos>>

Forget ==
    /\ mode = "up"
    /\ known
    /\ known' = FALSE
    /\ conv' = NewConversation
    /\ wal' = NoFile
    /\ idle' = FALSE
    /\ UNCHANGED <<mode, pos>>

\* The TTL passes without an operation on the conversation.
GoIdle ==
    /\ ~idle
    /\ mode # "loading"
    /\ known \/ wal.lines # <<>>
    /\ idle' = TRUE
    /\ UNCHANGED <<mode, known, conv, wal, pos>>

----------------------------------------------------------------------------
(* Crash and restart.                                                      *)

\* The process ends and leaves the file f.  The file may be younger than
\* last_activity: a failed write or a cut changed its mtime only.
StopWith(f) ==
    /\ mode' = "down"
    /\ known' = FALSE
    /\ conv' = NewConversation
    /\ wal' = [f EXCEPT !.short = FALSE]
    /\ idle' \in {FALSE, idle}
    /\ pos' = 0

Crash == mode # "down" /\ StopWith(wal)

\* The process ends inside append or attach_output, after the file changed
\* and before the caller saw a result.
CrashInAppend(b, t) ==
    /\ mode = "up"
    /\ Held.nextSeq < MaxSeq
    /\ Len(Log.lines) < MaxLines
    /\ \E r \in WriteResults(Log, Held, EventLine(b, t, Held.nextSeq, NoOutput)) :
          StopWith(r.file)

CrashInAttach(b, t, o) ==
    LET m == ApplyAttach(conv, b, t, o)
    IN /\ mode = "up"
       /\ Found
       /\ LatestUnanswered(conv.events, b, t) # {}
       /\ Len(wal.lines) < MaxLines
       /\ \E r \in WriteResults(wal, m, AttachLine(b, t, o)) : StopWith(r.file)

\* load, up to reading the file: an expired log is deleted, a fresh one is
\* replayed before the daemon serves.
Start ==
    /\ mode = "down"
    /\ IF wal.lines = <<>> \/ idle
       THEN /\ mode' = "up"
            /\ wal' = NoFile
            /\ known' = FALSE
       ELSE /\ mode' = "loading"
            /\ known' = TRUE
            /\ UNCHANGED wal
    /\ idle' = FALSE
    /\ pos' = 0
    /\ UNCHANGED conv

\* Mutants for Replayed: logged numbers are trusted; attach records are not
\* replayed.
ReplayedAsLogged(m, line) ==
    CASE line.kind = "e" -> WithEvent(m, line.bucket, line.tool, line.seq, line.content)
      [] line.kind = "a" -> ApplyAttach(m, line.bucket, line.tool, line.content)
      [] line.kind = "junk" -> m

ReplayedCallsOnly(m, line) ==
    IF line.kind = "e"
    THEN WithEvent(m, line.bucket, line.tool,
                   IF line.seq < m.nextSeq THEN m.nextSeq ELSE line.seq, line.content)
    ELSE m

\* One line of _replay.  An event numbered below the counter (or not at
\* all) takes the counter's number; a line that is not JSON is skipped.
Replayed(m, line) ==
    CASE line.kind = "e" ->
            WithEvent(m, line.bucket, line.tool,
                      IF line.seq < m.nextSeq THEN m.nextSeq ELSE line.seq, line.content)
      [] line.kind = "a" -> ApplyAttach(m, line.bucket, line.tool, line.content)
      [] line.kind = "junk" -> m

ReplayLine ==
    /\ mode = "loading"
    /\ pos < Len(wal.lines)
    /\ conv' = Replayed(conv, wal.lines[pos + 1])
    /\ pos' = pos + 1
    /\ UNCHANGED <<mode, known, idle, wal>>

\* The end of load: wal_size is the size of the file, partial line included.
FinishLoad ==
    /\ mode = "loading"
    /\ pos = Len(wal.lines)
    /\ mode' = "up"
    /\ pos' = 0
    /\ UNCHANGED <<known, conv, idle, wal>>

----------------------------------------------------------------------------
(* Someone else deletes the file or cuts it to its first n lines (or, with *)
(* "tear", inside the line after them).                                    *)

CutTo(n) ==
    /\ "cut" \in Fault
    /\ mode # "loading"
    /\ wal' = [lines |-> SubSeq(wal.lines, 1, n), torn |-> FALSE, short |-> mode = "up"]
    /\ idle' = (idle /\ mode = "up")
    /\ UNCHANGED <<mode, known, conv, pos>>

CutInside(n, l) ==
    /\ {"cut", "tear"} \subseteq Fault
    /\ mode # "loading"
    /\ wal' = [lines |-> Append(SubSeq(wal.lines, 1, n), l), torn |-> TRUE,
               short |-> mode = "up"]
    /\ idle' = (idle /\ mode = "up")
    /\ UNCHANGED <<mode, known, conv, pos>>

Cut ==
    \E n \in 0 .. Len(wal.lines) - 1 :
        \/ CutTo(n)
        \/ \E l \in {Junk, wal.lines[n + 1]} : CutInside(n, l)

----------------------------------------------------------------------------
Next ==
    \/ \E b \in Bucket, t \in Tool : Admit(b, t) \/ CrashInAppend(b, t)
    \/ \E b \in Bucket, t \in Tool, o \in Output : Attach(b, t, o) \/ CrashInAttach(b, t, o)
    \/ DropExpired
    \/ Forget
    \/ GoIdle
    \/ Crash
    \/ Start
    \/ ReplayLine
    \/ FinishLoad
    \/ Cut

Spec == Init /\ [][Next]_vars

----------------------------------------------------------------------------
(* Properties.                                                             *)

\* The variables have the shapes the code keeps.
TypeOK ==
    /\ mode \in {"down", "loading", "up"}
    /\ known \in BOOLEAN
    /\ conv \in Memory
    /\ idle \in BOOLEAN
    /\ wal \in File
    /\ pos \in Nat

\* seq is the order of the list: strictly increasing, all below the
\* counter.  Whatever the log went through (legacy lines, cuts, torn lines,
\* rewrites, restarts), two events never share a number, so a rebuilt trace
\* has one order (docstring of MemoryTraceStore, records and _to_event).
AdmissionOrder ==
    /\ \A i, j \in DOMAIN conv.events : i < j => conv.events[i].seq < conv.events[j].seq
    /\ \A i \in DOMAIN conv.events : conv.events[i].seq < conv.nextSeq

\* seq is gap-free, so `now` and `time_since` count stored steps (_to_event).
\* Unless a write is torn: a call lost with its torn line leaves a gap.
GapFree ==
    "tear" \notin Fault =>
        /\ \A i \in DOMAIN conv.events : conv.events[i].seq = i - 1
        /\ conv.nextSeq = Len(conv.events)

\* What a cached guard relies on (changes_since): each attached output names
\* an event that has it, and no event got two.
AttachesSound ==
    /\ \A k \in DOMAIN conv.attaches :
          /\ conv.attaches[k].at \in DOMAIN conv.events
          /\ conv.events[conv.attaches[k].at].content = conv.attaches[k].content
    /\ \A k, l \in DOMAIN conv.attaches :
          conv.attaches[k].at = conv.attaches[l].at => k = l
=============================================================================
