--------------------------- MODULE TraceStoreProofs ---------------------------
(***************************************************************************)
(* Of TraceStore, for all values of the constants. Through every fault:    *)
(* types, numbers as the admission order, outputs on their own calls,      *)
(* events that only grow, a load that follows its log. Where each theorem's *)
(* assumption excludes some faults or logs: the log implements History, a  *)
(* restart gives the conversation back, numbers have no gap.               *)
(***************************************************************************)
EXTENDS TraceStoreRestart, SequenceTheorems, WellFoundedInduction, TLAPS

Contents == Output \cup {NoOutput}

\* The order of one memory: what AdmissionOrder says of conv.
Ordered(m) ==
    /\ \A i, j \in DOMAIN m.events : i < j => m.events[i].seq < m.events[j].seq
    /\ \A i \in DOMAIN m.events : m.events[i].seq < m.nextSeq

----------------------------------------------------------------------------
(* Helpers on sequences and on one conversation.                           *)

\* Replacing an element keeps a sequence a sequence of the same length.
LEMMA ReplaceType ==
    ASSUME NEW S, NEW s \in Seq(S), NEW i \in Nat, NEW e \in S
    PROVE  /\ [s EXCEPT ![i] = e] \in Seq(S)
           /\ Len([s EXCEPT ![i] = e]) = Len(s)
<1>1. CASE i \in 1 .. Len(s)
  BY <1>1, ExceptSeq
<1>2. CASE i \notin 1 .. Len(s)
  <2>1. [s EXCEPT ![i] = e] = s
    BY <1>2
  <2> QED
    BY <2>1
<1> QED
  BY <1>1, <1>2

LEMMA NewConversationType == NewConversation \in Memory /\ Ordered(NewConversation)
  BY DEF NewConversation, Memory, Ordered

\* An event numbered at or above the counter keeps type and order.
LEMMA WithEventKeeps ==
    ASSUME NEW m \in Memory, NEW b \in Bucket, NEW t \in Tool, NEW n \in Nat,
           NEW o \in Contents
    PROVE  /\ WithEvent(m, b, t, n, o) \in Memory
           /\ Ordered(m) /\ n >= m.nextSeq => Ordered(WithEvent(m, b, t, n, o))
<1> DEFINE e == [bucket |-> b, tool |-> t, seq |-> n, content |-> o]
           w == WithEvent(m, b, t, n, o)
<1>1. e \in Event
  BY DEF Event, Contents
<1>2. m.events \in Seq(Event) /\ m.attaches \in Seq(Attached) /\ m.nextSeq \in Nat
  BY DEF Memory
<1>3. w = [events |-> Append(m.events, e), attaches |-> m.attaches, nextSeq |-> n + 1]
  BY DEF WithEvent
<1>4. w \in Memory
  BY <1>1, <1>2, <1>3 DEF Memory
<1>5. ASSUME Ordered(m), n >= m.nextSeq
      PROVE  Ordered(w)
  <2>1. \A i \in DOMAIN m.events : m.events[i].seq \in Nat /\ m.events[i].seq < m.nextSeq
    <3>1. \A i \in DOMAIN m.events : m.events[i] \in Event
      BY <1>2
    <3> QED
      BY <3>1, <1>5 DEF Ordered, Event
  <2>2. /\ w.events = Append(m.events, e)
        /\ w.nextSeq = n + 1
    BY <1>3
  <2>3. \A i \in DOMAIN w.events :
           \/ i \in DOMAIN m.events /\ w.events[i] = m.events[i]
           \/ i = Len(m.events) + 1 /\ w.events[i] = e
    BY <1>1, <1>2, <2>2
  <2>4. \A i \in DOMAIN w.events : i \in DOMAIN m.events => i <= Len(m.events)
    BY <1>2
  <2>5. e.seq = n
    OBVIOUS
  <2>6. \A i \in DOMAIN w.events : w.events[i].seq < w.nextSeq
    BY <1>2, <1>5, <2>1, <2>2, <2>3, <2>5
  <2>7. ASSUME NEW i \in DOMAIN w.events, NEW j \in DOMAIN w.events, i < j
        PROVE  w.events[i].seq < w.events[j].seq
    <3>1. i \in Nat /\ j \in Nat
      BY <1>1, <1>2, <2>2
    <3>2. CASE j \in DOMAIN m.events /\ w.events[j] = m.events[j]
      <4>1. i \in DOMAIN m.events /\ w.events[i] = m.events[i]
        BY <2>3, <2>4, <2>7, <3>1, <3>2, <1>2
      <4> QED
        BY <4>1, <3>2, <2>7, <1>5 DEF Ordered
    <3>3. CASE j = Len(m.events) + 1 /\ w.events[j] = e
      <4>1. i \in DOMAIN m.events /\ w.events[i] = m.events[i]
        BY <2>3, <2>7, <3>1, <3>3, <1>2
      <4> QED
        BY <4>1, <3>3, <2>1, <2>5, <1>2, <1>5
    <3> QED
      BY <3>2, <3>3, <2>3
  <2> QED
    BY <2>6, <2>7 DEF Ordered
<1> QED
  BY <1>4, <1>5

\* An attached output changes no number.
LEMMA WithOutputKeeps ==
    ASSUME NEW m \in Memory, NEW i \in DOMAIN m.events, NEW o \in Output
    PROVE  /\ WithOutput(m, i, o) \in Memory
           /\ Ordered(m) => Ordered(WithOutput(m, i, o))
<1> DEFINE e == [m.events[i] EXCEPT !.content = o]
           w == WithOutput(m, i, o)
<1>1. m.events \in Seq(Event) /\ m.attaches \in Seq(Attached) /\ m.nextSeq \in Nat
  BY DEF Memory
<1>2. m.events[i] \in Event /\ i \in Nat \ {0}
  BY <1>1
<1>3. e \in Event /\ e.seq = m.events[i].seq
  BY <1>2 DEF Event
<1>4. [at |-> i, content |-> o] \in Attached
  BY <1>2 DEF Attached
<1>5. w = [events |-> [m.events EXCEPT ![i] = e],
           attaches |-> Append(m.attaches, [at |-> i, content |-> o]),
           nextSeq |-> m.nextSeq]
  BY DEF WithOutput
<1>6. [m.events EXCEPT ![i] = e] \in Seq(Event)
  BY <1>1, <1>3, ReplaceType
<1>7. w \in Memory
  BY <1>1, <1>4, <1>5, <1>6 DEF Memory
<1>8. /\ w.nextSeq = m.nextSeq
      /\ DOMAIN w.events = DOMAIN m.events
      /\ \A k \in DOMAIN m.events : w.events[k].seq = m.events[k].seq
  BY <1>1, <1>3, <1>5
<1> QED
  BY <1>7, <1>8 DEF Ordered

LEMMA ApplyAttachKeeps ==
    ASSUME NEW m \in Memory, NEW b \in Bucket, NEW t \in Tool, NEW o \in Output
    PROVE  /\ ApplyAttach(m, b, t, o) \in Memory
           /\ Ordered(m) => Ordered(ApplyAttach(m, b, t, o))
<1> DEFINE S == LatestUnanswered(m.events, b, t)
           i == CHOOSE k \in S : TRUE
<1>1. S \subseteq DOMAIN m.events
  BY DEF LatestUnanswered, Unanswered
<1>2. CASE S = {}
  BY <1>2 DEF ApplyAttach
<1>3. CASE S # {}
  <2>1. i \in S
    BY <1>3
  <2>2. i \in DOMAIN m.events
    BY <1>1, <2>1
  <2>3. ApplyAttach(m, b, t, o) = WithOutput(m, i, o)
    BY <1>3 DEF ApplyAttach
  <2> QED
    BY <2>2, <2>3, WithOutputKeeps
<1> QED
  BY <1>2, <1>3

LEMMA ReplayedKeeps ==
    ASSUME NEW m \in Memory, NEW line \in Line
    PROVE  /\ Replayed(m, line) \in Memory
           /\ Ordered(m) => Ordered(Replayed(m, line))
<1>1. CASE line.kind = "e"
  <2> DEFINE n == IF line.seq < m.nextSeq THEN m.nextSeq ELSE line.seq
  <2>1. /\ line.bucket \in Bucket /\ line.tool \in Tool
        /\ line.seq \in Nat \cup {NoSeq} /\ line.content \in Contents
    BY <1>1 DEF Line, Junk, Contents
  <2>2. m.nextSeq \in Nat
    BY DEF Memory
  <2>3. n \in Nat /\ n >= m.nextSeq
    BY <2>1, <2>2 DEF NoSeq
  <2>4. Replayed(m, line) = WithEvent(m, line.bucket, line.tool, n, line.content)
    BY <1>1 DEF Replayed
  <2> QED
    BY <2>1, <2>3, <2>4, WithEventKeeps
<1>2. CASE line.kind = "a"
  <2>1. line.bucket \in Bucket /\ line.tool \in Tool /\ line.content \in Output
    BY <1>2 DEF Line, Junk
  <2>2. Replayed(m, line) = ApplyAttach(m, line.bucket, line.tool, line.content)
    BY <1>2 DEF Replayed
  <2> QED
    BY <2>1, <2>2, ApplyAttachKeeps
<1>3. CASE line.kind = "junk"
  BY <1>3 DEF Replayed
<1> QED
  BY <1>1, <1>2, <1>3 DEF Line, Junk

----------------------------------------------------------------------------
(* The file.                                                               *)

LEMMA GluedType ==
    ASSUME NEW lines \in Seq(Line)
    PROVE  Glued(lines) \in Seq(Line)
<1>1. Junk \in Line
  BY DEF Line
<1> QED
  BY <1>1, ReplaceType DEF Glued

LEMMA WrittenType ==
    ASSUME NEW f \in File, NEW line \in Line
    PROVE  Written(f, line) \in File
  BY GluedType DEF Written, File

LEMMA PartialType ==
    ASSUME NEW f \in File, NEW line \in Line, NEW g \in Partial(f, line)
    PROVE  g \in File
<1>1. PICK ls \in IF f.torn THEN {Glued(f.lines)}
                            ELSE {Append(f.lines, l) : l \in {Junk, line}} :
         g = [lines |-> ls, torn |-> TRUE, short |-> TRUE]
  BY DEF Partial
<1>2. f.lines \in Seq(Line) /\ Junk \in Line
  BY DEF File, Line
<1>3. ls \in Seq(Line)
  BY <1>1, <1>2, GluedType
<1> QED
  BY <1>1, <1>3 DEF File

LEMMA RewrittenType ==
    ASSUME NEW m \in Memory
    PROVE  Rewritten(m) \in File
<1> DEFINE n == Len(m.events)
           ls == [i \in DOMAIN m.events |->
                    EventLine(m.events[i].bucket, m.events[i].tool,
                              m.events[i].seq, m.events[i].content)]
<1>1. m.events \in Seq(Event)
  BY DEF Memory
<1>2. n \in Nat /\ DOMAIN m.events = 1 .. n
  BY <1>1
<1>3. ASSUME NEW i \in 1 .. n
      PROVE  ls[i] \in Line
  <2>1. m.events[i] \in Event
    BY <1>1, <1>2
  <2> QED
    BY <2>1, <1>2 DEF Event, EventLine, Line
<1>4. ls \in [1 .. n -> Line]
  BY <1>2, <1>3
<1>5. ls \in Seq(Line)
  BY <1>2, <1>4
<1> QED
  BY <1>5 DEF Rewritten, File

\* Whatever a write leaves is a file.
LEMMA WriteResultsType ==
    ASSUME NEW f \in File, NEW m \in Memory, NEW line \in Line,
           NEW r \in WriteResults(f, m, line)
    PROVE  r.file \in File /\ r.done \in BOOLEAN
<1>1. Repaired(f, m) \in File
  BY RewrittenType DEF Repaired
<1>2. CASE r = [file |-> Written(Repaired(f, m), line), done |-> TRUE]
  BY <1>1, <1>2, WrittenType
<1>3. CASE r \in {[file |-> g, done |-> FALSE] : g \in {f, Repaired(f, m)}}
  <2>1. PICK g \in {f, Repaired(f, m)} : r = [file |-> g, done |-> FALSE]
    BY <1>3
  <2> QED
    BY <1>1, <2>1
<1>4. CASE r \in {[file |-> g, done |-> TRUE] : g \in Partial(Repaired(f, m), line)}
  <2>1. PICK g \in Partial(Repaired(f, m), line) : r = [file |-> g, done |-> TRUE]
    BY <1>4
  <2>2. g \in File
    BY <1>1, PartialType
  <2> QED
    BY <2>1, <2>2
<1> QED
  BY <1>2, <1>3, <1>4 DEF WriteResults

LEMMA NoFileType == NoFile \in File
<1>1. <<>> \in Seq(Line)
  OBVIOUS
<1> QED
  BY <1>1 DEF NoFile, File

LEMMA EventLineType ==
    ASSUME NEW b \in Bucket, NEW t \in Tool, NEW n \in Nat, NEW o \in Contents
    PROVE  EventLine(b, t, n, o) \in Line
  BY DEF EventLine, Line, Contents

LEMMA AttachLineType ==
    ASSUME NEW b \in Bucket, NEW t \in Tool, NEW o \in Output
    PROVE  AttachLine(b, t, o) \in Line
  BY DEF AttachLine, Line

----------------------------------------------------------------------------
(* The inductive invariant: types and order together.  The order of memory *)
(* alone is inductive because _replay renumbers what is out of order, so   *)
(* nothing needs to be known of the log beyond its type.                   *)

Inv == TypeOK /\ Ordered(conv)

LEMMA FoundType ==
    ASSUME TypeOK
    PROVE  /\ Held \in Memory /\ Log \in File
           /\ Ordered(conv) => Ordered(Held)
  BY NewConversationType, NoFileType DEF TypeOK, Held, Log

LEMMA StopKeeps ==
    ASSUME Inv, NEW f \in File, StopWith(f)
    PROVE  Inv'
<1>1. [f EXCEPT !.short = FALSE] \in File
  BY DEF File
<1> QED
  BY <1>1, NewConversationType DEF Inv, StopWith, TypeOK

LEMMA InitInv == Init => Inv
<1> SUFFICES ASSUME Init PROVE Inv
  OBVIOUS
<1>1. PICK l \in Legacy : wal = [lines |-> l, torn |-> FALSE, short |-> FALSE]
  BY DEF Init
<1>2. wal \in File
  BY <1>1, LegacyAssumption DEF File
<1> QED
  BY <1>2, NewConversationType DEF Init, Inv, TypeOK

LEMMA StepInv == Inv /\ [Next]_vars => Inv'
<1> SUFFICES ASSUME Inv, [Next]_vars PROVE Inv'
  OBVIOUS
<1> USE DEF Inv
<1>0. NoOutput \in Contents
  BY DEF Contents
<1>1. ASSUME NEW b \in Bucket, NEW t \in Tool, Admit(b, t)
      PROVE  Inv'
  <2> DEFINE m == Held
             line == EventLine(b, t, m.nextSeq, NoOutput)
  <2>1. m \in Memory /\ Log \in File /\ Ordered(m) /\ m.nextSeq \in Nat
    BY FoundType DEF Memory
  <2>2. line \in Line
    BY <1>0, <2>1, EventLineType
  <2>3. PICK r \in WriteResults(Log, m, line) :
           /\ wal' = r.file
           /\ conv' = IF r.done THEN WithEvent(m, b, t, m.nextSeq, NoOutput)
                                ELSE Unwritten(m)
    BY <1>1 DEF Admit
  <2>4. wal' \in File
    BY <2>1, <2>2, <2>3, WriteResultsType
  <2>5. conv' \in Memory /\ Ordered(conv)'
    <3>1. WithEvent(m, b, t, m.nextSeq, NoOutput) \in Memory
      BY <1>0, <2>1, WithEventKeeps
    <3>2. Ordered(WithEvent(m, b, t, m.nextSeq, NoOutput))
      BY <1>0, <2>1, WithEventKeeps
    <3>3. conv' \in Memory /\ Ordered(conv')
      BY <2>1, <2>3, <3>1, <3>2 DEF Unwritten
    <3> QED
      BY <3>3 DEF Ordered
  <2> QED
    BY <1>1, <2>4, <2>5 DEF Admit, TypeOK
<1>2. ASSUME NEW b \in Bucket, NEW t \in Tool, CrashInAppend(b, t)
      PROVE  Inv'
  <2>1. Held \in Memory /\ Log \in File /\ Held.nextSeq \in Nat
    BY FoundType DEF Memory
  <2>2. EventLine(b, t, Held.nextSeq, NoOutput) \in Line
    BY <1>0, <2>1, EventLineType
  <2>3. PICK r \in WriteResults(Log, Held, EventLine(b, t, Held.nextSeq, NoOutput)) :
           StopWith(r.file)
    BY <1>2 DEF CrashInAppend
  <2>4. r.file \in File
    BY <2>1, <2>2, WriteResultsType
  <2> QED
    BY <2>3, <2>4, StopKeeps
<1>3. ASSUME NEW b \in Bucket, NEW t \in Tool, NEW o \in Output, Attach(b, t, o)
      PROVE  Inv'
  <2>1. conv \in Memory /\ wal \in File
    BY DEF TypeOK
  <2>2. AttachLine(b, t, o) \in Line
    BY AttachLineType
  <2>3. ApplyAttach(conv, b, t, o) \in Memory /\ Ordered(ApplyAttach(conv, b, t, o))
    BY <2>1, ApplyAttachKeeps
  <2>4. PICK r \in WriteResults(wal, ApplyAttach(conv, b, t, o), AttachLine(b, t, o)) :
           wal' = r.file
    BY <1>3 DEF Attach
  <2>5. wal' \in File
    BY <2>1, <2>2, <2>3, <2>4, WriteResultsType
  <2>6. conv' = ApplyAttach(conv, b, t, o)
    BY <1>3 DEF Attach
  <2>7. Ordered(conv)'
    BY <2>3, <2>6 DEF Ordered
  <2> QED
    BY <1>3, <2>3, <2>5, <2>6, <2>7 DEF Attach, TypeOK
<1>4. ASSUME NEW b \in Bucket, NEW t \in Tool, NEW o \in Output, CrashInAttach(b, t, o)
      PROVE  Inv'
  <2>1. conv \in Memory /\ wal \in File
    BY DEF TypeOK
  <2>2. AttachLine(b, t, o) \in Line
    BY AttachLineType
  <2>3. ApplyAttach(conv, b, t, o) \in Memory
    BY <2>1, ApplyAttachKeeps
  <2>4. PICK r \in WriteResults(wal, ApplyAttach(conv, b, t, o), AttachLine(b, t, o)) :
           StopWith(r.file)
    BY <1>4 DEF CrashInAttach
  <2>5. r.file \in File
    BY <2>1, <2>2, <2>3, WriteResultsType
  <2> QED
    BY <2>4, <2>5, StopKeeps
<1>5. ASSUME DropExpired \/ Forget
      PROVE  Inv'
  <2>1. /\ known' = FALSE /\ conv' = NewConversation /\ wal' = NoFile /\ idle' = FALSE
        /\ UNCHANGED <<mode, pos>>
    BY <1>5 DEF DropExpired, Forget
  <2>2. TypeOK'
    BY <2>1, NewConversationType, NoFileType DEF TypeOK
  <2>3. Ordered(conv)'
    BY <2>1, NewConversationType DEF Ordered
  <2> QED
    BY <2>2, <2>3
<1>6. CASE GoIdle
  BY <1>6 DEF GoIdle, TypeOK, Ordered
<1>7. CASE Crash
  BY <1>7, StopKeeps DEF Crash, TypeOK
<1>8. CASE Start
  <2>1. wal' \in File
    BY <1>8, NoFileType DEF Start, TypeOK
  <2>2. TypeOK'
    BY <1>8, <2>1 DEF Start, TypeOK
  <2>3. Ordered(conv)'
    BY <1>8 DEF Start, Ordered
  <2> QED
    BY <2>2, <2>3
<1>9. CASE ReplayLine
  <2>1. conv \in Memory /\ wal \in File /\ pos \in Nat
    BY DEF TypeOK
  <2>2. wal.lines[pos + 1] \in Line
    BY <1>9, <2>1 DEF ReplayLine, File
  <2>3. Replayed(conv, wal.lines[pos + 1]) \in Memory /\ Ordered(Replayed(conv, wal.lines[pos + 1]))
    BY <2>1, <2>2, ReplayedKeeps
  <2>4. conv' \in Memory /\ Ordered(conv)'
    BY <1>9, <2>3 DEF ReplayLine, Ordered
  <2> QED
    BY <1>9, <2>4 DEF ReplayLine, TypeOK
<1>10. CASE FinishLoad
  BY <1>10 DEF FinishLoad, TypeOK, Ordered
<1>11. CASE Cut
  <2>1. PICK n \in 0 .. Len(wal.lines) - 1 :
           \/ CutTo(n)
           \/ \E l \in {Junk, wal.lines[n + 1]} : CutInside(n, l)
    BY <1>11 DEF Cut
  <2>2. wal.lines \in Seq(Line) /\ Junk \in Line
    BY DEF TypeOK, File, Line
  <2>3. SubSeq(wal.lines, 1, n) \in Seq(Line) /\ wal.lines[n + 1] \in Line
    BY <2>1, <2>2
  <2>4. CASE CutTo(n)
    BY <2>3, <2>4 DEF CutTo, TypeOK, File, Ordered
  <2>5. ASSUME NEW l \in {Junk, wal.lines[n + 1]}, CutInside(n, l)
        PROVE  Inv'
    <3>1. Append(SubSeq(wal.lines, 1, n), l) \in Seq(Line)
      BY <2>2, <2>3
    <3> QED
      BY <2>5, <3>1 DEF CutInside, TypeOK, File, Ordered
  <2> QED
    BY <2>1, <2>4, <2>5
<1>12. CASE UNCHANGED vars
  BY <1>12 DEF vars, TypeOK, Ordered
<1> QED
  BY <1>1, <1>2, <1>3, <1>4, <1>5, <1>6, <1>7, <1>8, <1>9, <1>10, <1>11, <1>12 DEF Next

\* The variables keep their shapes through every operation and fault.
THEOREM TypeCorrect == Spec => []TypeOK
<1>1. Inv => TypeOK
  BY DEF Inv
<1> QED
  BY <1>1, InitInv, StepInv, PTL DEF Spec

\* A conversation's numbers are strictly increasing and below the counter,
\* so no two calls share one and a rebuilt trace has one order, whatever
\* was cut from the log, torn in it, or left by an earlier version.
THEOREM NumbersAreAdmissionOrder == Spec => []AdmissionOrder
<1>1. Inv => AdmissionOrder
  BY DEF Inv, Ordered, AdmissionOrder
<1> QED
  BY <1>1, InitInv, StepInv, PTL DEF Spec

----------------------------------------------------------------------------
(* What a step does to the conversation in memory.                         *)

\* Nothing, or it is started again, or it gets one event, or one output.
LEMMA MemoryStep ==
    ASSUME Inv, [Next]_vars
    PROVE  \/ conv' = conv
           \/ conv' = NewConversation
           \/ \E m \in {conv, NewConversation}, b \in Bucket, t \in Tool, n \in Nat,
                 o \in Contents :
                    n >= m.nextSeq /\ conv' = WithEvent(m, b, t, n, o)
           \/ \E b \in Bucket, t \in Tool, o \in Output : conv' = ApplyAttach(conv, b, t, o)
<1> USE DEF Inv
<1>1. ASSUME NEW b \in Bucket, NEW t \in Tool, Admit(b, t)
      PROVE  \/ conv' \in {conv, NewConversation}
             \/ \E m \in {conv, NewConversation} :
                    m.nextSeq \in Nat /\ conv' = WithEvent(m, b, t, m.nextSeq, NoOutput)
  <2>1. Held \in {conv, NewConversation} /\ Held.nextSeq \in Nat
    BY FoundType DEF Held, Memory
  <2>2. conv' = WithEvent(Held, b, t, Held.nextSeq, NoOutput) \/ conv' = Held
    BY <1>1 DEF Admit, Unwritten
  <2> QED
    BY <2>1, <2>2
<1>2. ASSUME NEW b \in Bucket, NEW t \in Tool, CrashInAppend(b, t)
      PROVE  conv' = NewConversation
  BY <1>2 DEF CrashInAppend, StopWith
<1>3. ASSUME NEW b \in Bucket, NEW t \in Tool, NEW o \in Output, Attach(b, t, o)
      PROVE  conv' = ApplyAttach(conv, b, t, o)
  BY <1>3 DEF Attach
<1>4. ASSUME NEW b \in Bucket, NEW t \in Tool, NEW o \in Output, CrashInAttach(b, t, o)
      PROVE  conv' = NewConversation
  BY <1>4 DEF CrashInAttach, StopWith
<1>5. CASE DropExpired \/ Forget \/ Crash
  BY <1>5 DEF DropExpired, Forget, Crash, StopWith
<1>6. CASE GoIdle \/ Start \/ FinishLoad \/ Cut \/ UNCHANGED vars
  BY <1>6 DEF GoIdle, Start, FinishLoad, Cut, CutTo, CutInside, vars
<1>7. CASE ReplayLine
  <2> DEFINE line == wal.lines[pos + 1]
             n == IF line.seq < conv.nextSeq THEN conv.nextSeq ELSE line.seq
  <2>1. conv \in Memory /\ line \in Line /\ conv' = Replayed(conv, line)
    BY <1>7 DEF TypeOK, File, ReplayLine
  <2>2. CASE line.kind = "e"
    <3>1. /\ line.bucket \in Bucket /\ line.tool \in Tool /\ line.content \in Contents
          /\ n \in Nat /\ n >= conv.nextSeq
      BY <2>1, <2>2 DEF Line, Junk, NoSeq, Contents, Memory
    <3>2. conv' = WithEvent(conv, line.bucket, line.tool, n, line.content)
      BY <2>1, <2>2 DEF Replayed
    <3> QED
      BY <3>1, <3>2
  <2>3. CASE line.kind = "a"
    <3>1. line.bucket \in Bucket /\ line.tool \in Tool /\ line.content \in Output
      BY <2>1, <2>3 DEF Line, Junk
    <3>2. conv' = ApplyAttach(conv, line.bucket, line.tool, line.content)
      BY <2>1, <2>3 DEF Replayed
    <3> QED
      BY <3>1, <3>2
  <2>4. CASE line.kind = "junk"
    BY <2>1, <2>4 DEF Replayed
  <2> QED
    BY <2>1, <2>2, <2>3, <2>4 DEF Line, Junk
<1>8. NoOutput \in Contents
  BY DEF Contents
<1>9. ASSUME NEW b \in Bucket, NEW t \in Tool, NEW m \in {conv, NewConversation},
             m.nextSeq \in Nat, conv' = WithEvent(m, b, t, m.nextSeq, NoOutput)
      PROVE  \E x \in {conv, NewConversation}, bb \in Bucket, tt \in Tool, n \in Nat,
                o \in Contents : n >= x.nextSeq /\ conv' = WithEvent(x, bb, tt, n, o)
  BY <1>8, <1>9
<1> QED
  BY <1>1, <1>2, <1>3, <1>4, <1>5, <1>6, <1>7, <1>9 DEF Next

----------------------------------------------------------------------------
(* Attached outputs.                                                       *)

\* What AttachesSound says of conv, of any memory.
Sound(m) ==
    /\ \A k \in DOMAIN m.attaches :
          /\ m.attaches[k].at \in DOMAIN m.events
          /\ m.events[m.attaches[k].at].content = m.attaches[k].content
    /\ \A k, l \in DOMAIN m.attaches :
          m.attaches[k].at = m.attaches[l].at => k = l

LEMMA WithEventSound ==
    ASSUME NEW m \in Memory, Sound(m), NEW b, NEW t, NEW n, NEW o
    PROVE  Sound(WithEvent(m, b, t, n, o))
<1> DEFINE e == [bucket |-> b, tool |-> t, seq |-> n, content |-> o]
<1>1. m.events \in Seq(Event)
  BY DEF Memory
<1>2. WithEvent(m, b, t, n, o).attaches = m.attaches
  BY DEF WithEvent
<1>3. WithEvent(m, b, t, n, o).events = Append(m.events, e)
  BY DEF WithEvent
<1>4. \A i \in DOMAIN m.events :
          i \in DOMAIN Append(m.events, e) /\ Append(m.events, e)[i] = m.events[i]
  BY <1>1
<1> HIDE DEF e
<1> QED
  BY <1>2, <1>3, <1>4 DEF Sound

\* An event that waits for an output has none attached, so that the next one
\* on it is its first.
LEMMA ApplyAttachSound ==
    ASSUME NEW m \in Memory, Sound(m), NEW b \in Bucket, NEW t \in Tool, NEW o \in Output
    PROVE  Sound(ApplyAttach(m, b, t, o))
<1> DEFINE S == LatestUnanswered(m.events, b, t)
           i == CHOOSE k \in S : TRUE
           w == WithOutput(m, i, o)
           a == [at |-> i, content |-> o]
<1>1. CASE S = {}
  BY <1>1 DEF ApplyAttach
<1>2. CASE S # {}
  <2>1. /\ m.events \in Seq(Event) /\ m.attaches \in Seq(Attached)
        /\ \A k \in DOMAIN m.attaches : m.attaches[k] \in Attached
    BY DEF Memory
  <2>2. i \in DOMAIN m.events /\ m.events[i].content = NoOutput
    BY <1>2 DEF LatestUnanswered, Unanswered
  <2>3. ApplyAttach(m, b, t, o) = w
    BY <1>2 DEF ApplyAttach
  <2>4. /\ w.attaches = Append(m.attaches, a)
        /\ w.events = [m.events EXCEPT ![i] = [m.events[i] EXCEPT !.content = o]]
    BY DEF WithOutput
  <2> HIDE DEF i, w
  <2>5. \A k \in DOMAIN m.attaches : m.attaches[k].at # i
    BY <2>1, <2>2, NoOutputAssumption DEF Sound, Attached
  <2>6. \A k \in DOMAIN w.attaches :
            \/ k \in DOMAIN m.attaches /\ w.attaches[k] = m.attaches[k]
            \/ k = Len(m.attaches) + 1 /\ w.attaches[k] = a
    BY <2>1, <2>4
  <2>7. /\ DOMAIN w.events = DOMAIN m.events
        /\ \A j \in DOMAIN m.events : j # i => w.events[j] = m.events[j]
    BY <2>1, <2>4
  <2>8. w.events[i].content = o
    <3>1. m.events[i] \in Event
      BY <2>1, <2>2
    <3> QED
      BY <2>1, <2>2, <2>4, <3>1 DEF Event
  <2>9. a.at = i /\ a.content = o
    OBVIOUS
  <2> HIDE DEF a
  <2>10. ASSUME NEW k \in DOMAIN w.attaches
         PROVE  /\ w.attaches[k].at \in DOMAIN w.events
                /\ w.events[w.attaches[k].at].content = w.attaches[k].content
    <3>1. CASE k \in DOMAIN m.attaches /\ w.attaches[k] = m.attaches[k]
      BY <2>5, <2>7, <3>1 DEF Sound
    <3>2. CASE w.attaches[k] = a
      BY <2>2, <2>7, <2>8, <2>9, <3>2
    <3> QED
      BY <2>6, <3>1, <3>2
  <2>11. ASSUME NEW k \in DOMAIN w.attaches, NEW l \in DOMAIN w.attaches,
                w.attaches[k].at = w.attaches[l].at
         PROVE  k = l
    BY <2>5, <2>6, <2>9, <2>11 DEF Sound
  <2> QED
    BY <2>3, <2>10, <2>11 DEF Sound
<1> QED
  BY <1>1, <1>2

\* Whatever happens to the log, each output a cached guard is told of names
\* the one event that has it.
THEOREM OutputsNameTheirCalls == Spec => []AttachesSound
<1>1. Init => Sound(conv)
  BY DEF Init, Sound, NewConversation
<1>2. ASSUME Inv, Sound(conv), [Next]_vars
      PROVE  Sound(conv)'
  <2>1. conv \in Memory
    BY <1>2 DEF Inv, TypeOK
  <2>2. Sound(NewConversation)
    BY DEF Sound, NewConversation
  <2>3. Sound(conv')
    BY <1>2, <2>1, <2>2, MemoryStep, NewConversationType, WithEventSound, ApplyAttachSound
  <2> QED
    BY <2>3 DEF Sound
<1>3. Sound(conv) => AttachesSound
  BY DEF Sound, AttachesSound
<1> QED
  BY <1>1, <1>2, <1>3, InitInv, StepInv, PTL DEF Spec

----------------------------------------------------------------------------
(* No call is rewritten while the daemon serves.                           *)

\* The calls of m are those of n, in front and with their outputs, but for
\* outputs n has on calls that waited in m.
Continues(n, m) ==
    /\ Len(m.events) <= Len(n.events)
    /\ \A i \in DOMAIN m.events :
          \/ n.events[i] = m.events[i]
          \/ /\ m.events[i].content = NoOutput
             /\ [n.events[i] EXCEPT !.content = NoOutput] = m.events[i]

LEMMA WithEventContinues ==
    ASSUME NEW m \in Memory, NEW b, NEW t, NEW n, NEW o
    PROVE  Continues(WithEvent(m, b, t, n, o), m)
<1> DEFINE e == [bucket |-> b, tool |-> t, seq |-> n, content |-> o]
<1>1. m.events \in Seq(Event)
  BY DEF Memory
<1>2. WithEvent(m, b, t, n, o).events = Append(m.events, e)
  BY DEF WithEvent
<1> HIDE DEF e
<1>3. /\ Len(m.events) <= Len(Append(m.events, e))
      /\ \A i \in DOMAIN m.events : Append(m.events, e)[i] = m.events[i]
  BY <1>1
<1> QED
  BY <1>2, <1>3 DEF Continues

LEMMA ApplyAttachContinues ==
    ASSUME NEW m \in Memory, NEW b \in Bucket, NEW t \in Tool, NEW o \in Output
    PROVE  Continues(ApplyAttach(m, b, t, o), m)
<1> DEFINE S == LatestUnanswered(m.events, b, t)
           i == CHOOSE k \in S : TRUE
           w == WithOutput(m, i, o)
           e == [m.events[i] EXCEPT !.content = o]
<1>0. m.events \in Seq(Event) /\ \A j \in DOMAIN m.events : m.events[j] \in Event
  BY DEF Memory
<1>1. CASE S = {}
  BY <1>0, <1>1 DEF ApplyAttach, Continues
<1>2. CASE S # {}
  <2>1. i \in DOMAIN m.events /\ m.events[i].content = NoOutput
    BY <1>2 DEF LatestUnanswered, Unanswered
  <2>2. ApplyAttach(m, b, t, o) = w /\ w.events = [m.events EXCEPT ![i] = e]
    BY <1>2 DEF ApplyAttach, WithOutput
  <2>3. m.events[i] \in Event
    BY <1>0, <2>1
  <2>4. [e EXCEPT !.content = NoOutput] = m.events[i]
    BY <2>1, <2>3 DEF Event
  <2> HIDE DEF i, w, e
  <2>5. /\ Len(w.events) = Len(m.events)
        /\ w.events[i] = e
        /\ \A j \in DOMAIN m.events : j # i => w.events[j] = m.events[j]
    BY <1>0, <2>1, <2>2
  <2> QED
    BY <1>0, <2>1, <2>2, <2>4, <2>5 DEF Continues
<1> QED
  BY <1>1, <1>2

\* While the daemon serves, a known conversation changes only by a call at
\* the end, an output on a call that had none, or by being dropped whole,
\* whatever happens to its log.
THEOREM HistoryOnlyGrows == Spec => CallsNeverRewritten
<1> DEFINE Kept == mode = "up" /\ mode' = "up" /\ known /\ known' /\ ~idle
<1>1. ASSUME Inv, [Next]_vars, Kept
      PROVE  Continues(conv', conv)
  <2>0. conv \in Memory /\ conv.events \in Seq(Event)
    BY <1>1 DEF Inv, TypeOK, Memory
  <2>1. ASSUME NEW b \in Bucket, NEW t \in Tool, Admit(b, t)
        PROVE  Continues(conv', conv)
    <3>1. Held = conv
      BY <1>1 DEF Held, Expired
    <3>2. conv' = WithEvent(conv, b, t, conv.nextSeq, NoOutput) \/ conv' = conv
      BY <2>1, <3>1 DEF Admit, Unwritten
    <3>3. Continues(conv, conv)
      BY <2>0 DEF Continues
    <3> QED
      BY <2>0, <3>2, <3>3, WithEventContinues
  <2>2. ASSUME NEW b \in Bucket, NEW t \in Tool, NEW o \in Output, Attach(b, t, o)
        PROVE  Continues(conv', conv)
    BY <2>0, <2>2, ApplyAttachContinues DEF Attach
  <2>3. CASE \/ \E b \in Bucket, t \in Tool : CrashInAppend(b, t)
             \/ \E b \in Bucket, t \in Tool, o \in Output : CrashInAttach(b, t, o)
             \/ DropExpired \/ Forget \/ Crash \/ Start \/ ReplayLine \/ FinishLoad
    BY <1>1, <2>3 DEF CrashInAppend, CrashInAttach, DropExpired, Forget, Crash, StopWith,
                      Start, ReplayLine, FinishLoad
  <2>4. CASE GoIdle \/ Cut \/ UNCHANGED vars
    <3>1. conv' = conv
      BY <2>4 DEF GoIdle, Cut, CutTo, CutInside, vars
    <3> QED
      BY <2>0, <3>1 DEF Continues
  <2> QED
    BY <1>1, <2>1, <2>2, <2>3, <2>4 DEF Next
<1>2. ASSUME Inv, [Next]_vars
      PROVE  [mode = "up" /\ mode' = "up" /\ known /\ known' =>
                \/ idle
                \/ /\ Len(conv.events) <= Len(conv'.events)
                   /\ \A i \in DOMAIN conv.events :
                         \/ conv'.events[i] = conv.events[i]
                         \/ /\ conv.events[i].content = NoOutput
                            /\ [conv'.events[i] EXCEPT !.content = NoOutput] = conv.events[i]
             ]_vars
  BY <1>1, <1>2 DEF Continues
<1> QED
  BY <1>2, InitInv, StepInv, PTL DEF Spec, CallsNeverRewritten

----------------------------------------------------------------------------
(* Replaying a log.                                                        *)

\* Induction on the natural numbers, for a set of them.
LEMMA AllNumbers ==
    ASSUME NEW S, 0 \in S, \A n \in Nat : n \in S => n + 1 \in S
    PROVE  \A n \in Nat : n \in S
<1> DEFINE Out == {n \in Nat : n \notin S}
           Less == OpToRel(<, Nat)
<1> SUFFICES ASSUME Out # {} PROVE FALSE
  OBVIOUS
<1>1. \A i, j \in Nat : <<i, j>> \in Less <=> i < j
  BY DEF OpToRel
<1>2. IsWellFoundedOn(Less, Nat)
  BY NatLessThanWellFounded
<1>3. Out \subseteq Nat /\ \A n \in Nat : n \in Out <=> n \notin S
  OBVIOUS
<1> HIDE DEF Less, Out
<1>4. PICK k \in Out : \A m \in Out : ~(<<m, k>> \in Less)
  BY <1>2, <1>3, WFMin, Zenon
<1>5. k \in Nat /\ k \notin S /\ k # 0
  BY <1>3, <1>4
<1>6. k - 1 \in Nat /\ k - 1 < k /\ (k - 1) + 1 = k
  BY <1>5
<1>7. k - 1 \notin Out
  BY <1>1, <1>4, <1>5, <1>6
<1> QED
  BY <1>3, <1>5, <1>6, <1>7

\* f holds what replaying the first 0, 1, ..., n lines builds.
Follows(f, lines, n) ==
    /\ f[0] = NewConversation
    /\ \A k \in 1 .. n : f[k] = Replayed(f[k - 1], lines[k])

Steps(f, lines, n) == f \in [0 .. n -> Memory] /\ Follows(f, lines, n)

LEMMA StepsExist ==
    ASSUME NEW lines \in Seq(Line)
    PROVE  \E f : Steps(f, lines, Len(lines))
<1> DEFINE S == {n \in Nat : n <= Len(lines) => \E f : Steps(f, lines, n)}
<1>1. 0 \in S
  <2>1. Steps([k \in 0 .. 0 |-> NewConversation], lines, 0)
    BY NewConversationType DEF Steps, Follows
  <2> QED
    BY <2>1
<1>2. ASSUME NEW n \in Nat, n \in S
      PROVE  n + 1 \in S
  <2> SUFFICES ASSUME n + 1 <= Len(lines)
               PROVE  \E g : Steps(g, lines, n + 1)
    OBVIOUS
  <2>1. PICK f : Steps(f, lines, n)
    BY <1>2
  <2> DEFINE m == Replayed(f[n], lines[n + 1])
             g == [k \in 0 .. n + 1 |-> IF k = n + 1 THEN m ELSE f[k]]
  <2>2. f[n] \in Memory /\ lines[n + 1] \in Line
    BY <2>1 DEF Steps, Follows
  <2>3. m \in Memory
    BY <2>2, ReplayedKeeps
  <2>4. \A k \in 0 .. n : f[k] \in Memory
    BY <2>1 DEF Steps, Follows
  <2>5. g[n + 1] = m /\ \A k \in 0 .. n : g[k] = f[k]
    OBVIOUS
  <2>6. g \in [0 .. n + 1 -> Memory]
    BY <2>3, <2>4
  <2>7. ASSUME NEW k \in 1 .. n + 1
        PROVE  g[k] = Replayed(g[k - 1], lines[k])
    <3>1. CASE k = n + 1
      BY <2>5, <3>1
    <3>2. CASE k # n + 1
      BY <2>1, <2>5, <3>2 DEF Steps, Follows
    <3> QED
      BY <3>1, <3>2
  <2>8. g[0] = NewConversation
    BY <2>1, <2>5 DEF Steps, Follows
  <2> HIDE DEF g
  <2> QED
    BY <2>6, <2>7, <2>8 DEF Steps, Follows
<1>3. \A n \in Nat : n \in S
  <2> HIDE DEF S
  <2> QED
    BY <1>1, <1>2, AllNumbers
<1> QED
  BY <1>3

\* There is one way to replay the lines.
LEMMA OneReplay ==
    ASSUME NEW lines, NEW n \in Nat, NEW f, NEW g,
           Follows(f, lines, n), Follows(g, lines, n)
    PROVE  f[n] = g[n]
<1> DEFINE S == {k \in Nat : k <= n => f[k] = g[k]}
<1>1. 0 \in S
  BY DEF Follows
<1>2. ASSUME NEW k \in Nat, k \in S
      PROVE  k + 1 \in S
  <2> SUFFICES ASSUME k + 1 <= n PROVE f[k + 1] = g[k + 1]
    OBVIOUS
  <2>1. k + 1 \in 1 .. n /\ (k + 1) - 1 = k /\ f[k] = g[k]
    BY <1>2
  <2> QED
    BY <2>1 DEF Follows
<1>3. \A k \in Nat : k \in S
  <2> HIDE DEF S
  <2> QED
    BY <1>1, <1>2, AllNumbers
<1> QED
  BY <1>3

\* Replay is the end of such steps.
LEMMA ReplayIs ==
    ASSUME NEW lines \in Seq(Line), NEW f, Steps(f, lines, Len(lines))
    PROVE  Replay(lines) = f[Len(lines)]
<1> DEFINE n == Len(lines)
           Body(r) == [k \in 0 .. n |->
                          IF k = 0 THEN NewConversation
                          ELSE CHOOSE m \in {Replayed(x, lines[k]) : x \in {r[k - 1]}} : TRUE]
           F == CHOOSE r : r = Body(r)
<1>1. Replay(lines) = F[n]
  BY Zenon DEF Replay
<1>2. \A x, l : (CHOOSE m \in {Replayed(y, l) : y \in {x}} : TRUE) = Replayed(x, l)
  OBVIOUS
<1>3. n \in Nat
  OBVIOUS
<1>4. \A r : Body(r) = [k \in 0 .. n |-> IF k = 0 THEN NewConversation
                                          ELSE Replayed(r[k - 1], lines[k])]
  BY <1>2
<1>5. f = Body(f)
  BY <1>3, <1>4 DEF Steps, Follows
<1>6. F = Body(F)
  <2> HIDE DEF Body
  <2> QED
    BY <1>5
<1> HIDE DEF F, n
<1>7. Follows(F, lines, n)
  <2>1. F = [k \in 0 .. n |-> IF k = 0 THEN NewConversation
                               ELSE Replayed(F[k - 1], lines[k])]
    BY <1>4, <1>6
  <2> HIDE DEF Body
  <2> QED
    BY <1>3, <2>1 DEF Follows
<1>8. Follows(f, lines, n)
  BY DEF Steps, n
<1>9. F[n] = f[n]
  BY <1>3, <1>7, <1>8, OneReplay
<1> QED
  BY <1>1, <1>9 DEF n

LEMMA ReplayNothing == Replay(<<>>) = NewConversation
<1> DEFINE f == [k \in 0 .. 0 |-> NewConversation]
<1>1. <<>> \in Seq(Line) /\ Len(<<>>) = 0
  OBVIOUS
<1>2. Steps(f, <<>>, 0)
  BY NewConversationType DEF Steps, Follows
<1>3. Replay(<<>>) = f[0]
  <2> HIDE DEF f
  <2> QED
    BY <1>1, <1>2, ReplayIs
<1> QED
  BY <1>3

LEMMA ReplayType ==
    ASSUME NEW lines \in Seq(Line)
    PROVE  Replay(lines) \in Memory /\ Ordered(Replay(lines))
<1>1. PICK f : Steps(f, lines, Len(lines))
  BY StepsExist
<1> DEFINE S == {n \in Nat : n <= Len(lines) => Ordered(f[n])}
<1>2. \A n \in Nat : n \in S
  <2>1. 0 \in S
    BY <1>1, NewConversationType DEF Steps, Follows
  <2>2. ASSUME NEW n \in Nat, n \in S
        PROVE  n + 1 \in S
    <3> SUFFICES ASSUME n + 1 <= Len(lines) PROVE Ordered(f[n + 1])
      OBVIOUS
    <3>1. n + 1 \in 1 .. Len(lines) /\ (n + 1) - 1 = n /\ n \in 0 .. Len(lines)
      OBVIOUS
    <3>2. f[n + 1] = Replayed(f[n], lines[n + 1]) /\ f[n] \in Memory /\ lines[n + 1] \in Line
      BY <1>1, <3>1 DEF Steps, Follows
    <3>3. Ordered(f[n])
      BY <2>2
    <3> QED
      BY <3>2, <3>3, ReplayedKeeps
  <2> HIDE DEF S
  <2> QED
    BY <2>1, <2>2, AllNumbers
<1>3. Replay(lines) = f[Len(lines)] /\ f[Len(lines)] \in Memory
  BY <1>1, ReplayIs DEF Steps, Follows
<1> QED
  BY <1>2, <1>3

\* Replaying one more line.
LEMMA ReplayOneMore ==
    ASSUME NEW lines \in Seq(Line), NEW l \in Line
    PROVE  Replay(Append(lines, l)) = Replayed(Replay(lines), l)
<1> DEFINE n == Len(lines)
           more == Append(lines, l)
<1>1. PICK f : Steps(f, lines, n)
  BY StepsExist
<1>2. more \in Seq(Line) /\ Len(more) = n + 1 /\ n \in Nat
      /\ more[n + 1] = l /\ \A k \in 1 .. n : more[k] = lines[k]
  OBVIOUS
<1>3. PICK g : Steps(g, more, n + 1)
  BY <1>2, StepsExist
<1>4. f[n] = g[n]
  <2>1. Follows(f, lines, n) /\ Follows(g, more, n + 1)
    BY <1>1, <1>3 DEF Steps
  <2>2. \A k \in 1 .. n : k \in 1 .. n + 1 /\ more[k] = lines[k]
    BY <1>2
  <2> HIDE DEF more, n
  <2>3. Follows(g, lines, n)
    BY <2>1, <2>2 DEF Follows
  <2> QED
    BY <1>2, <2>1, <2>3, OneReplay
<1>5. Replay(lines) = f[n]
  BY <1>1, ReplayIs
<1>6. Replay(more) = g[n + 1]
  BY <1>2, <1>3, ReplayIs
<1>7. g[n + 1] = Replayed(g[n], l)
  <2>1. n + 1 \in 1 .. n + 1 /\ (n + 1) - 1 = n
    BY <1>2
  <2> QED
    BY <1>2, <1>3, <2>1 DEF Steps, Follows
<1> QED
  BY <1>4, <1>5, <1>6, <1>7

----------------------------------------------------------------------------
(* Loading.                                                                *)

\* Memory is empty before a log is read, and then the replay of what was.
LoadInv ==
    /\ mode = "down" => conv = NewConversation
    /\ mode = "loading" => pos <= Len(wal.lines) /\ conv = Replay(SubSeq(wal.lines, 1, pos))

LEMMA InitLoad == Init => LoadInv
  BY DEF Init, LoadInv

LEMMA StepLoad == Inv /\ LoadInv /\ [Next]_vars => LoadInv'
<1> SUFFICES ASSUME Inv, LoadInv, [Next]_vars PROVE LoadInv'
  OBVIOUS
<1>0. wal.lines \in Seq(Line) /\ pos \in Nat /\ mode \in {"down", "loading", "up"}
  BY DEF Inv, TypeOK, File
<1>6. mode' = "up" \/ (mode' = "down" /\ conv' = NewConversation) => LoadInv'
  BY DEF LoadInv
<1>1. ASSUME NEW b \in Bucket, NEW t \in Tool, Admit(b, t) \/ CrashInAppend(b, t)
      PROVE  LoadInv'
  <2>1. Admit(b, t) => mode' = "up"
    BY DEF Admit
  <2>2. CrashInAppend(b, t) => mode' = "down" /\ conv' = NewConversation
    BY DEF CrashInAppend, StopWith
  <2> QED
    BY <1>1, <1>6, <2>1, <2>2
<1>7. ASSUME NEW b \in Bucket, NEW t \in Tool, NEW o \in Output,
             Attach(b, t, o) \/ CrashInAttach(b, t, o)
      PROVE  LoadInv'
  <2>1. Attach(b, t, o) => mode' = "up"
    BY DEF Attach
  <2>2. CrashInAttach(b, t, o) => mode' = "down" /\ conv' = NewConversation
    BY DEF CrashInAttach, StopWith
  <2> QED
    BY <1>6, <1>7, <2>1, <2>2
<1>8. CASE DropExpired \/ Forget \/ FinishLoad \/ Crash
  BY <1>6, <1>8 DEF DropExpired, Forget, FinishLoad, Crash, StopWith
<1>2. CASE GoIdle \/ Cut
  <2>1. mode # "loading" /\ mode' = mode /\ conv' = conv
    BY <1>2 DEF GoIdle, Cut, CutTo, CutInside
  <2> QED
    BY <2>1 DEF LoadInv
<1>3. CASE Start
  <2>1. CASE mode' = "up"
    BY <2>1 DEF LoadInv
  <2>2. CASE mode' = "loading"
    <3>1. pos' = 0 /\ conv' = NewConversation /\ wal' = wal
      BY <1>3, <2>2 DEF Start, LoadInv
    <3>2. SubSeq(wal.lines, 1, 0) = <<>> /\ 0 <= Len(wal.lines)
      BY <1>0
    <3> QED
      BY <2>2, <3>1, <3>2, ReplayNothing DEF LoadInv
  <2> QED
    BY <1>3, <2>1, <2>2 DEF Start
<1>4. CASE ReplayLine
  <2> DEFINE ls == SubSeq(wal.lines, 1, pos)
             l == wal.lines[pos + 1]
  <2>1. /\ mode' = mode /\ wal' = wal /\ pos' = pos + 1 /\ pos < Len(wal.lines)
        /\ conv' = Replayed(Replay(ls), l)
    BY <1>4 DEF ReplayLine, LoadInv
  <2>2. ls \in Seq(Line) /\ l \in Line
    BY <1>0, <2>1
  <2>3. SubSeq(wal.lines, 1, pos + 1) = Append(ls, l)
    BY <1>0, <2>1
  <2>4. conv' = Replay(SubSeq(wal.lines, 1, pos + 1))
    BY <2>1, <2>2, <2>3, ReplayOneMore
  <2>5. mode' # "down"
    BY <1>4, <2>1 DEF ReplayLine
  <2>6. pos + 1 <= Len(wal.lines)
    BY <1>0, <2>1
  <2> QED
    BY <2>1, <2>4, <2>5, <2>6 DEF LoadInv
<1>5. CASE UNCHANGED vars
  BY <1>5 DEF vars, LoadInv
<1> QED
  BY <1>1, <1>2, <1>3, <1>4, <1>5, <1>7, <1>8 DEF Next

\* The end of a load: memory is what the whole log makes of it.
LEMMA LoadedAll ==
    ASSUME Inv, LoadInv, FinishLoad
    PROVE  conv = Restored
<1>1. wal.lines \in Seq(Line) /\ pos = Len(wal.lines) /\ conv = Replay(SubSeq(wal.lines, 1, pos))
  BY DEF Inv, TypeOK, File, FinishLoad, LoadInv
<1>2. SubSeq(wal.lines, 1, Len(wal.lines)) = wal.lines
  BY <1>1
<1> QED
  BY <1>1, <1>2 DEF Restored

----------------------------------------------------------------------------
(* The log as an abstract history, when no write is torn and nobody else   *)
(* touches the file.                                                       *)

\* A write that is not torn leaves a whole line, or raises.
LEMMA WriteWithoutTear ==
    ASSUME "tear" \notin Fault, NEW f \in File, ~f.torn, NEW m \in Memory, NEW line \in Line,
           NEW r \in WriteResults(f, m, line)
    PROVE  \/ /\ r.done
              /\ r.file = [lines |-> Append(Repaired(f, m).lines, line),
                           torn |-> FALSE, short |-> FALSE]
           \/ /\ ~r.done /\ r.file \in {f, Repaired(f, m)}
              /\ (IF line.kind = "e" THEN "failCall" ELSE "failOutput") \in Fault
<1> DEFINE why == IF line.kind = "e" THEN "failCall" ELSE "failOutput"
<1>1. ~Repaired(f, m).torn /\ ~Repaired(f, m).short
  BY DEF Repaired, Rewritten, File
<1>2. CASE r = [file |-> Written(Repaired(f, m), line), done |-> TRUE]
  BY <1>1, <1>2 DEF Written, File, Repaired, Rewritten
<1>3. CASE why \in Fault /\ r \in {[file |-> g, done |-> FALSE] : g \in {f, Repaired(f, m)}}
  <2>1. PICK g \in {f, Repaired(f, m)} : r = [file |-> g, done |-> FALSE]
    BY <1>3
  <2> QED
    BY <1>3, <2>1
<1> QED
  BY <1>2, <1>3 DEF WriteResults

Clean == ~wal.torn /\ ~wal.short

CallLines == {EventLine(b, t, n, NoOutput) : b \in Bucket, t \in Tool, n \in Nat}
OutputLines == {AttachLine(b, t, o) : b \in Bucket, t \in Tool, o \in Output}

\* What a step may make of the lines.
Extended(lines, ls) ==
    \/ ls \in {lines, <<>>}
    \/ \E l \in CallLines : ls = Append(lines, l) \/ ls = Append(<<>>, l)
    \/ \E l \in OutputLines : ls = Append(lines, l)

\* What a step does to the lines of the log.
LEMMA LogStep ==
    ASSUME Fault \subseteq {"failCall", "failOutput"}, Inv, Clean, [Next]_vars
    PROVE  Clean' /\ Extended(wal.lines, wal'.lines)
<1>0. "tear" \notin Fault /\ "cut" \notin Fault /\ NoOutput \in Contents
  BY DEF Contents
<1>1. conv \in Memory /\ wal \in File /\ wal.lines \in Seq(Line)
  BY DEF Inv, TypeOK, File
<1>2. /\ Log \in File /\ ~Log.torn /\ ~Log.short /\ Log.lines \in {wal.lines, <<>>}
      /\ Held \in Memory /\ Held.nextSeq \in Nat
  BY <1>1, FoundType DEF Log, NoFile, Clean, Inv, Memory
<1> DEFINE Good(f) == f \in File /\ ~f.torn /\ ~f.short /\ Extended(wal.lines, f.lines)
<1>3. ASSUME NEW b \in Bucket, NEW t \in Tool,
             NEW r \in WriteResults(Log, Held, EventLine(b, t, Held.nextSeq, NoOutput))
      PROVE  Good(r.file)
  <2> DEFINE l == EventLine(b, t, Held.nextSeq, NoOutput)
  <2>1. l \in Line /\ l \in CallLines
    BY <1>0, <1>2, EventLineType DEF CallLines
  <2> HIDE DEF l
  <2>2. Repaired(Log, Held) = Log
    BY <1>2 DEF Repaired
  <2>3. r.file \in File
    BY <1>2, <2>1, WriteResultsType DEF l
  <2>4. r.file = Log \/ r.file = [lines |-> Append(Log.lines, l), torn |-> FALSE, short |-> FALSE]
    BY <1>0, <1>2, <2>1, <2>2, WriteWithoutTear DEF l
  <2> QED
    BY <1>2, <2>1, <2>3, <2>4 DEF Extended
<1>4. ASSUME NEW b \in Bucket, NEW t \in Tool, NEW o \in Output, NEW m \in Memory,
             NEW r \in WriteResults(wal, m, AttachLine(b, t, o))
      PROVE  Good(r.file)
  <2> DEFINE l == AttachLine(b, t, o)
  <2>1. l \in Line /\ l \in OutputLines
    BY AttachLineType DEF OutputLines
  <2> HIDE DEF l
  <2>2. Repaired(wal, m) = wal
    BY DEF Repaired, Clean
  <2>3. r.file \in File
    BY <1>1, <2>1, WriteResultsType DEF l
  <2>4. r.file = wal \/ r.file = [lines |-> Append(wal.lines, l), torn |-> FALSE, short |-> FALSE]
    BY <1>0, <1>1, <2>1, <2>2, WriteWithoutTear DEF l, Clean
  <2> QED
    BY <2>1, <2>3, <2>4 DEF Extended, Clean
<1>5. ASSUME NEW f \in File, Good(f), wal' = f \/ StopWith(f)
      PROVE  Good(wal')
  BY <1>5 DEF StopWith, File
<1>6. Good(NoFile) /\ Good(wal)
  BY <1>1, NoFileType DEF NoFile, Extended, Clean
<1> SUFFICES Good(wal')
  BY DEF Clean
<1> HIDE DEF Good
<1>7. ASSUME NEW b \in Bucket, NEW t \in Tool, Admit(b, t) \/ CrashInAppend(b, t)
      PROVE  Good(wal')
  <2>1. PICK r \in WriteResults(Log, Held, EventLine(b, t, Held.nextSeq, NoOutput)) :
           wal' = r.file \/ StopWith(r.file)
    BY <1>7 DEF Admit, CrashInAppend
  <2> QED
    BY <1>3, <1>5, <2>1 DEF Good
<1>8. ASSUME NEW b \in Bucket, NEW t \in Tool, NEW o \in Output,
             Attach(b, t, o) \/ CrashInAttach(b, t, o)
      PROVE  Good(wal')
  <2> DEFINE m == ApplyAttach(conv, b, t, o)
  <2>1. m \in Memory
    BY <1>1, ApplyAttachKeeps
  <2>2. PICK r \in WriteResults(wal, m, AttachLine(b, t, o)) :
           wal' = r.file \/ StopWith(r.file)
    BY <1>8 DEF Attach, CrashInAttach
  <2> HIDE DEF m
  <2> QED
    BY <1>4, <1>5, <2>1, <2>2 DEF Good
<1>9. CASE DropExpired \/ Forget \/ Start
  <2>1. wal' = NoFile \/ wal' = wal
    BY <1>9 DEF DropExpired, Forget, Start
  <2> QED
    BY <1>6, <2>1
<1>10. CASE Crash
  BY <1>1, <1>5, <1>6, <1>10 DEF Crash
<1>11. CASE GoIdle \/ ReplayLine \/ FinishLoad \/ UNCHANGED vars
  <2>1. wal' = wal
    BY <1>11 DEF GoIdle, ReplayLine, FinishLoad, vars
  <2> QED
    BY <1>6, <2>1
<1>12. ~Cut
  BY <1>0 DEF Cut, CutTo, CutInside
<1> QED
  BY <1>7, <1>8, <1>9, <1>10, <1>11, <1>12 DEF Next

LEMMA InitClean == Init => Clean
  BY DEF Init, Clean

\* What replaying the lines leaves to a reader.
Read(lines) == Content(Replay(lines).events)

LEMMA ReadType ==
    ASSUME NEW lines \in Seq(Line)
    PROVE  /\ Replay(lines).events \in Seq(Event)
           /\ Read(lines) \in Seq(H!Call)
           /\ Len(Read(lines)) = Len(Replay(lines).events)
<1> DEFINE evs == Replay(lines).events
           n == Len(evs)
<1>1. evs \in Seq(Event)
  BY ReplayType DEF Memory
<1>2. n \in Nat /\ DOMAIN evs = 1 .. n /\ \A i \in 1 .. n : evs[i] \in Event
  BY <1>1
<1> HIDE DEF evs
<1>3. Content(evs) = [i \in 1 .. n |-> [bucket |-> evs[i].bucket, tool |-> evs[i].tool,
                                          content |-> evs[i].content]]
  BY <1>2 DEF Content
<1>4. Content(evs) \in [1 .. n -> H!Call]
  BY <1>2, <1>3 DEF Event, H!Call
<1>5. Content(evs) \in Seq(H!Call) /\ Len(Content(evs)) = n
  BY <1>2, <1>4
<1> QED
  BY <1>1, <1>5 DEF Read, evs

\* A call's line adds the call.
LEMMA ReadCall ==
    ASSUME NEW lines \in Seq(Line), NEW b \in Bucket, NEW t \in Tool, NEW n \in Nat
    PROVE  Read(Append(lines, EventLine(b, t, n, NoOutput))) =
             Append(Read(lines), [bucket |-> b, tool |-> t, content |-> NoOutput])
<1> DEFINE l == EventLine(b, t, n, NoOutput)
           m == Replay(lines)
           k == IF n < m.nextSeq THEN m.nextSeq ELSE n
           e == [bucket |-> b, tool |-> t, seq |-> k, content |-> NoOutput]
           c == [bucket |-> b, tool |-> t, content |-> NoOutput]
<1>1. l \in Line
  BY EventLineType DEF Contents
<1>2. Replay(Append(lines, l)) = Replayed(m, l)
  BY <1>1, ReplayOneMore
<1>3. Replayed(m, l).events = Append(m.events, e)
  BY DEF Replayed, EventLine, WithEvent
<1>4. m.events \in Seq(Event) /\ Read(lines) \in Seq(H!Call) /\ Len(Read(lines)) = Len(m.events)
  BY ReadType
<1>5. Read(Append(lines, l)) = Content(Append(m.events, e))
  BY <1>2, <1>3 DEF Read
<1>6. e.bucket = b /\ e.tool = t /\ e.content = NoOutput
  OBVIOUS
<1> HIDE DEF m, e
<1>7. Content(Append(m.events, e)) = Append(Content(m.events), c)
  <2> DEFINE r == Content(Append(m.events, e))
             q == Append(Content(m.events), c)
             N == Len(m.events)
  <2>1. N \in Nat /\ DOMAIN m.events = 1 .. N
    BY <1>4
  <2>2. DOMAIN Append(m.events, e) = 1 .. N + 1
    BY <1>4
  <2>3. /\ Content(m.events) \in Seq(H!Call) /\ Len(Content(m.events)) = N
        /\ DOMAIN Content(m.events) = 1 .. N
    BY <1>4 DEF Read, m
  <2>4. q = [i \in 1 .. N + 1 |-> IF i = N + 1 THEN c ELSE Content(m.events)[i]]
    BY <2>1, <2>3
  <2>5. r = [i \in 1 .. N + 1 |-> [bucket |-> Append(m.events, e)[i].bucket,
                                    tool |-> Append(m.events, e)[i].tool,
                                    content |-> Append(m.events, e)[i].content]]
    BY <2>2 DEF Content
  <2>6. ASSUME NEW i \in 1 .. N PROVE r[i] = q[i]
    <3>1. Append(m.events, e)[i] = m.events[i] /\ i \in 1 .. N + 1 /\ i # N + 1
      BY <1>4, <2>1
    <3>2. Content(m.events)[i] = [bucket |-> m.events[i].bucket, tool |-> m.events[i].tool,
                                  content |-> m.events[i].content]
      BY <2>1 DEF Content
    <3>3. q[i] = Content(m.events)[i]
      BY <2>4, <3>1
    <3> QED
      BY <2>5, <3>1, <3>2, <3>3
  <2>7. r[N + 1] = q[N + 1]
    <3>1. Append(m.events, e)[N + 1] = e /\ N + 1 \in 1 .. N + 1
      BY <1>4, <2>1
    <3> HIDE DEF q
    <3>2. q[N + 1] = c
      BY <2>4, <3>1
    <3> QED
      BY <1>6, <2>5, <3>1, <3>2
  <2> HIDE DEF r, q
  <2>8. \A i \in 1 .. N + 1 : r[i] = q[i]
    BY <2>1, <2>6, <2>7
  <2> QED
    BY <2>4, <2>5, <2>8 DEF r, q
<1> QED
  BY <1>5, <1>7 DEF Read, m

\* g is h with o on its latest open call of b and t, or h.
Answered(h, g, b, t, o) ==
    LET open == {i \in DOMAIN h : h[i] = [bucket |-> b, tool |-> t, content |-> NoOutput]}
    IN  \/ g = h
        \/ \E i \in open : /\ \A j \in open : j <= i
                           /\ g = [h EXCEPT ![i].content = o]

\* An output's line answers the latest open call, or is nothing.
LEMMA ReadOutput ==
    ASSUME NEW lines \in Seq(Line), NEW b \in Bucket, NEW t \in Tool, NEW o \in Output
    PROVE  Answered(Read(lines), Read(Append(lines, AttachLine(b, t, o))), b, t, o)
<1> DEFINE l == AttachLine(b, t, o)
           m == Replay(lines)
           evs == m.events
           h == Read(lines)
           g == Read(Append(lines, l))
           c == [bucket |-> b, tool |-> t, content |-> NoOutput]
           open == {i \in DOMAIN h : h[i] = c}
           S == LatestUnanswered(evs, b, t)
           i == CHOOSE k \in S : TRUE
           w == [evs EXCEPT ![i] = [evs[i] EXCEPT !.content = o]]
<1>1. l \in Line
  BY AttachLineType
<1>2. Replay(Append(lines, l)) = ApplyAttach(m, b, t, o)
  BY <1>1, ReplayOneMore DEF Replayed, AttachLine
<1>3. CASE S = {}
  <2>1. ApplyAttach(m, b, t, o) = m
    BY <1>3 DEF ApplyAttach
  <2> QED
    BY <1>2, <2>1 DEF Read, Answered
<1>4. CASE S # {}
  <2>1. /\ evs \in Seq(Event) /\ h \in Seq(H!Call) /\ Len(h) = Len(evs)
        /\ \A k \in DOMAIN evs : evs[k] \in Event
    BY ReadType
  <2>2. ApplyAttach(m, b, t, o).events = w
    BY <1>4 DEF ApplyAttach, WithOutput
  <2>3. i \in S
    BY <1>4
  <2>4. g = Content(w)
    BY <1>2, <2>2 DEF Read
  <2>5. /\ DOMAIN h = DOMAIN evs
        /\ \A k \in DOMAIN h : h[k] = [bucket |-> evs[k].bucket, tool |-> evs[k].tool,
                                        content |-> evs[k].content]
    BY DEF Read, Content
  <2> HIDE DEF h, g, i, m, evs
  <2>6. open = Unanswered(evs, b, t)
    <3>1. \A k \in DOMAIN h :
             h[k] = c <=> /\ evs[k].bucket = b /\ evs[k].tool = t
                          /\ evs[k].content = NoOutput
      BY <2>5
    <3> QED
      BY <2>5, <3>1 DEF Unanswered
  <2> HIDE DEF open
  <2>7. i \in open /\ \A j \in open : j <= i
    BY <2>3, <2>6 DEF LatestUnanswered
  <2>8. i \in DOMAIN evs /\ i \in DOMAIN h
    BY <2>5, <2>7 DEF open
  <2>9. /\ DOMAIN w = DOMAIN evs
        /\ \A k \in DOMAIN evs : w[k] = IF k = i THEN [evs[i] EXCEPT !.content = o] ELSE evs[k]
    BY <2>1, <2>8
  <2> HIDE DEF w
  <2>10. g = [k \in DOMAIN h |-> [bucket |-> w[k].bucket, tool |-> w[k].tool,
                                   content |-> w[k].content]]
    BY <2>4, <2>5, <2>9 DEF Content
  <2>11. [h EXCEPT ![i].content = o] =
           [k \in DOMAIN h |-> IF k = i THEN [h[i] EXCEPT !.content = o] ELSE h[k]]
    OBVIOUS
  <2>12. [h[i] EXCEPT !.content = o] = [bucket |-> w[i].bucket, tool |-> w[i].tool,
                                       content |-> w[i].content]
    <3>1. w[i] = [evs[i] EXCEPT !.content = o] /\ evs[i] \in Event
      BY <2>1, <2>8, <2>9
    <3>2. w[i].bucket = evs[i].bucket /\ w[i].tool = evs[i].tool /\ w[i].content = o
      BY <3>1 DEF Event
    <3>3. h[i] = [bucket |-> evs[i].bucket, tool |-> evs[i].tool, content |-> evs[i].content]
      BY <2>5, <2>8
    <3> QED
      BY <3>2, <3>3
  <2>13. \A k \in DOMAIN h : k # i => h[k] = [bucket |-> w[k].bucket, tool |-> w[k].tool,
                                              content |-> w[k].content]
    BY <2>5, <2>9
  <2>14. g = [h EXCEPT ![i].content = o]
    BY <2>10, <2>11, <2>12, <2>13
  <2> QED
    BY <2>7, <2>14 DEF g, h, open, l, Answered
<1> QED
  BY <1>3, <1>4

LEMMA ReadNothing == Read(<<>>) = <<>>
<1>1. <<>> \in Seq(Line) /\ Replay(<<>>).events = <<>>
  BY ReplayNothing DEF NewConversation
<1>2. Read(<<>>) \in Seq(H!Call) /\ Len(Read(<<>>)) = Len(<<>>)
  BY <1>1, ReadType
<1> QED
  BY <1>2

LEMMA DurableIsRead == Durable = Read(wal.lines)
<1>1. \A x : (CHOOSE h \in {Content(evs) : evs \in {x}} : TRUE) = Content(x)
  OBVIOUS
<1> QED
  BY <1>1 DEF Durable, Restored, Read

LEMMA DurableIsReadNext == Durable' = Read(wal'.lines)
<1>1. \A x : (CHOOSE h \in {Content(evs) : evs \in {x}} : TRUE) = Content(x)
  OBVIOUS
<1> QED
  BY <1>1 DEF Durable, Restored, Read

\* Every operation, failing write, crash and restart is an operation of the
\* abstract history, or changes nothing a reader of the log can see.
LEMMA ExtendedIsHistory ==
    ASSUME Inv, wal'.lines \in Seq(Line), Extended(wal.lines, wal'.lines)
    PROVE  [H!Next]_Durable
<1>0. wal.lines \in Seq(Line) /\ <<>> \in Seq(Line)
  BY DEF Inv, TypeOK, File
<1>1. CASE wal'.lines = wal.lines
  BY <1>1, DurableIsRead, DurableIsReadNext
<1>2. CASE wal'.lines = <<>>
  <2>1. Durable' = <<>>
    BY <1>2, ReadNothing, DurableIsReadNext
  <2> QED
    BY <2>1 DEF H!Next, H!Forget
<1>3. ASSUME NEW l \in CallLines,
             wal'.lines = Append(wal.lines, l) \/ wal'.lines = Append(<<>>, l)
      PROVE  H!Next
  <2>1. PICK b \in Bucket, t \in Tool, n \in Nat : l = EventLine(b, t, n, NoOutput)
    BY DEF CallLines
  <2> DEFINE c == [bucket |-> b, tool |-> t, content |-> NoOutput]
  <2>2. CASE wal'.lines = Append(wal.lines, l)
    <3>1. Durable' = Append(Durable, c)
      BY <1>0, <2>1, <2>2, ReadCall, DurableIsRead, DurableIsReadNext
    <3> QED
      BY <3>1 DEF H!Next, H!Admit
  <2>3. CASE wal'.lines = Append(<<>>, l)
    <3>1. Read(Append(<<>>, EventLine(b, t, n, NoOutput))) = Append(Read(<<>>), c)
      BY <1>0, ReadCall
    <3>2. Durable' = <<c>>
      BY <2>1, <2>3, <3>1, ReadNothing, DurableIsReadNext
    <3> QED
      BY <3>2 DEF H!Next, H!Restart
  <2> QED
    BY <1>3, <2>2, <2>3
<1>4. ASSUME NEW l \in OutputLines, wal'.lines = Append(wal.lines, l)
      PROVE  [H!Next]_Durable
  <2>1. PICK b \in Bucket, t \in Tool, o \in Output : l = AttachLine(b, t, o)
    BY DEF OutputLines
  <2>2. Answered(Read(wal.lines), Read(Append(wal.lines, AttachLine(b, t, o))), b, t, o)
    BY <1>0, ReadOutput
  <2>3. Answered(Durable, Durable', b, t, o)
    BY <1>4, <2>1, <2>2, DurableIsRead, DurableIsReadNext
  <2>4. Durable' = Durable \/ H!Answer(b, t, o)
    BY <2>3 DEF Answered, H!Answer, H!Open
  <2> QED
    BY <2>4 DEF H!Next
<1> QED
  BY <1>1, <1>2, <1>3, <1>4 DEF Extended

\* When no write is torn and nobody else touches the file, the log is a
\* history to which calls are added, in which the latest open call is
\* answered, and which is forgotten whole: raised writes, crashes inside an
\* operation, restarts and expiry included.
THEOREM LogImplementsHistory ==
    ASSUME Fault \subseteq {"failCall", "failOutput"}
    PROVE  Spec => ImplementsHistory
<1>1. Init => H!Init
  <2> SUFFICES ASSUME Init PROVE Durable \in Seq(H!Call)
    BY DEF H!Init
  <2>1. wal.lines \in Seq(Line)
    BY InitInv DEF Inv, TypeOK, File
  <2> QED
    BY <2>1, ReadType, DurableIsRead
<1>2. Inv /\ Inv' /\ Clean /\ [Next]_vars => Clean' /\ [H!Next]_Durable
  <2> SUFFICES ASSUME Inv, Inv', Clean, [Next]_vars PROVE Clean' /\ [H!Next]_Durable
    OBVIOUS
  <2>1. Clean' /\ Extended(wal.lines, wal'.lines)
    BY LogStep
  <2>2. wal'.lines \in Seq(Line)
    BY DEF Inv, TypeOK, File
  <2> QED
    BY <2>1, <2>2, ExtendedIsHistory
<1> QED
  BY <1>1, <1>2, InitInv, StepInv, InitClean, PTL DEF Spec, ImplementsHistory, H!Spec

----------------------------------------------------------------------------
(* A restart gives back what memory had.                                   *)

\* The same events and counter; the attaches a reader was told of may differ.
Alike(x, m) == x.events = m.events /\ x.nextSeq = m.nextSeq

\* RestartKeepsHistory is not inductive: the next call's number needs the
\* counters to agree too, and the end of a load needs LoadInv.
RestartInv == Clean /\ LoadInv /\ (mode = "up" => Alike(Restored, conv))

\* Alike memories stay alike under one operation, replayed on one of them.
LEMMA AlikeCall ==
    ASSUME NEW x \in Memory, NEW m \in Memory, Alike(x, m), NEW b, NEW t
    PROVE  Alike(Replayed(x, EventLine(b, t, m.nextSeq, NoOutput)),
                 WithEvent(m, b, t, m.nextSeq, NoOutput))
<1>1. x.nextSeq = m.nextSeq /\ m.nextSeq \in Nat
  BY DEF Alike, Memory
<1>2. Replayed(x, EventLine(b, t, m.nextSeq, NoOutput)) =
        WithEvent(x, b, t, m.nextSeq, NoOutput)
  BY <1>1 DEF Replayed, EventLine
<1> QED
  BY <1>2 DEF Alike, WithEvent

LEMMA AlikeOutput ==
    ASSUME NEW x \in Memory, NEW m \in Memory, Alike(x, m), NEW b, NEW t, NEW o
    PROVE  Alike(Replayed(x, AttachLine(b, t, o)), ApplyAttach(m, b, t, o))
<1>1. Replayed(x, AttachLine(b, t, o)) = ApplyAttach(x, b, t, o)
  BY DEF Replayed, AttachLine
<1> QED
  BY <1>1 DEF Alike, ApplyAttach, WithOutput

LEMMA StepRestart ==
    ASSUME Fault \subseteq {"failCall"}, Inv, RestartInv, [Next]_vars
    PROVE  RestartInv'
<1>0. /\ wal \in File /\ wal.lines \in Seq(Line) /\ conv \in Memory
      /\ "tear" \notin Fault /\ "failOutput" \notin Fault /\ NoOutput \in Contents
  BY DEF Inv, TypeOK, File, Contents
<1>1. Clean' /\ LoadInv'
  BY LogStep, StepLoad DEF RestartInv
<1> DEFINE Good(f, m) == Alike(Replay(f.lines), m)
<1> SUFFICES ASSUME mode' = "up" PROVE Good(wal', conv')
  BY <1>1 DEF RestartInv, Restored
<1>2. Good(NoFile, NewConversation)
  BY ReplayNothing DEF Alike, NoFile
<1>3. mode = "up" => Good(wal, conv)
  BY DEF RestartInv, Restored
<1>4. ASSUME NEW b \in Bucket, NEW t \in Tool, Admit(b, t)
      PROVE  Good(wal', conv')
  <2> DEFINE l == EventLine(b, t, Held.nextSeq, NoOutput)
  <2>1. /\ Log \in File /\ Log.lines \in Seq(Line) /\ ~Log.torn /\ ~Log.short
        /\ Held \in Memory /\ Held.nextSeq \in Nat
    BY <1>0, FoundType DEF Log, NoFile, Clean, RestartInv, Inv, Memory, File
  <2>2. l \in Line
    BY <1>0, <2>1, EventLineType
  <2>3. Alike(Replay(Log.lines), Held)
    BY <1>2, <1>3, <1>4 DEF Admit, Log, Held
  <2>4. Repaired(Log, Held) = Log
    BY <2>1 DEF Repaired
  <2>5. PICK r \in WriteResults(Log, Held, l) :
           wal' = r.file /\ conv' = IF r.done THEN WithEvent(Held, b, t, Held.nextSeq, NoOutput)
                                               ELSE Held
    BY <1>4 DEF Admit, Unwritten
  <2> HIDE DEF l
  <2>6. CASE r.done /\ r.file = [lines |-> Append(Log.lines, l), torn |-> FALSE, short |-> FALSE]
    <3>1. Replay(Append(Log.lines, l)) = Replayed(Replay(Log.lines), l)
      BY <2>1, <2>2, ReplayOneMore
    <3>2. Alike(Replayed(Replay(Log.lines), l), WithEvent(Held, b, t, Held.nextSeq, NoOutput))
      BY <2>1, <2>3, ReplayType, AlikeCall DEF l
    <3> QED
      BY <2>5, <2>6, <3>1, <3>2
  <2>7. CASE ~r.done /\ r.file = Log
    BY <2>3, <2>5, <2>7
  <2> QED
    BY <1>0, <2>1, <2>2, <2>4, <2>6, <2>7, WriteWithoutTear
<1>5. ASSUME NEW b \in Bucket, NEW t \in Tool, NEW o \in Output, Attach(b, t, o)
      PROVE  Good(wal', conv')
  <2> DEFINE l == AttachLine(b, t, o)
             m == ApplyAttach(conv, b, t, o)
  <2>1. l \in Line /\ m \in Memory /\ l.kind = "a"
    BY <1>0, AttachLineType, ApplyAttachKeeps DEF AttachLine
  <2>2. PICK r \in WriteResults(wal, m, l) : wal' = r.file /\ conv' = m
    BY <1>5 DEF Attach
  <2> HIDE DEF l, m
  <2>3. Repaired(wal, m) = wal /\ ~wal.torn
    BY DEF Repaired, Clean, RestartInv
  <2>4. r.file = [lines |-> Append(wal.lines, l), torn |-> FALSE, short |-> FALSE]
    BY <1>0, <2>1, <2>2, <2>3, WriteWithoutTear
  <2>5. Replay(Append(wal.lines, l)) = Replayed(Replay(wal.lines), l)
    BY <1>0, <2>1, ReplayOneMore
  <2>6. Alike(Replayed(Replay(wal.lines), l), m)
    BY <1>0, <1>3, <1>5, ReplayType, AlikeOutput DEF l, m, Attach
  <2> QED
    BY <2>2, <2>4, <2>5, <2>6
<1>6. CASE DropExpired \/ Forget
  BY <1>2, <1>6 DEF DropExpired, Forget
<1>7. CASE Start
  <2>1. wal' = NoFile /\ conv' = NewConversation
    BY <1>7 DEF Start, RestartInv, LoadInv
  <2> QED
    BY <1>2, <2>1
<1>8. CASE FinishLoad
  <2>1. conv = Replay(wal.lines) /\ wal' = wal /\ conv' = conv
    BY <1>8, LoadedAll DEF FinishLoad, RestartInv, Restored
  <2> QED
    BY <2>1 DEF Alike
<1>9. CASE GoIdle \/ ReplayLine \/ UNCHANGED vars
  <2>1. CASE ReplayLine
    BY <2>1 DEF ReplayLine
  <2>2. CASE GoIdle \/ UNCHANGED vars
    <3>1. mode = "up" /\ wal' = wal /\ conv' = conv
      BY <2>2 DEF GoIdle, vars
    <3> QED
      BY <1>3, <3>1
  <2> QED
    BY <1>9, <2>1, <2>2
<1>10. CASE \/ \E b \in Bucket, t \in Tool : CrashInAppend(b, t)
            \/ \E b \in Bucket, t \in Tool, o \in Output : CrashInAttach(b, t, o)
            \/ Crash
  <2>1. mode' = "down"
    BY <1>10 DEF CrashInAppend, CrashInAttach, Crash, StopWith
  <2> QED
    BY <2>1
<1>11. ~Cut
  BY DEF Cut, CutTo, CutInside
<1> HIDE DEF Good
<1> QED
  BY <1>4, <1>5, <1>6, <1>7, <1>8, <1>9, <1>10, <1>11 DEF Next

\* When a call's write may raise, but no output's, nothing is torn and nobody
\* else touches the file, a restart at any moment restores every call the
\* memory had, in order and with its number, and every output on its call.
THEOREM RestartRestoresMemory ==
    ASSUME Fault \subseteq {"failCall"}
    PROVE  Spec => []RestartKeepsHistory
<1>1. Init => RestartInv
  BY InitLoad, InitClean DEF Init, RestartInv
<1>2. RestartInv => RestartKeepsHistory
  BY DEF RestartInv, RestartKeepsHistory, Alike
<1>3. Inv /\ RestartInv /\ [Next]_vars => RestartInv'
  BY StepRestart
<1> QED
  BY <1>1, <1>2, <1>3, InitInv, StepInv, PTL DEF Spec

----------------------------------------------------------------------------
(* Numbers without gaps.                                                   *)

\* What GapFree says of conv, of any memory.
Gapless(m) ==
    /\ \A i \in DOMAIN m.events : m.events[i].seq = i - 1
    /\ m.nextSeq = Len(m.events)

LEMMA WithEventGapless ==
    ASSUME NEW m \in Memory, Gapless(m), NEW b, NEW t, NEW o
    PROVE  Gapless(WithEvent(m, b, t, m.nextSeq, o))
<1> DEFINE e == [bucket |-> b, tool |-> t, seq |-> m.nextSeq, content |-> o]
           w == WithEvent(m, b, t, m.nextSeq, o)
<1>1. m.events \in Seq(Event) /\ e.seq = m.nextSeq
  BY DEF Memory
<1>2. w.events = Append(m.events, e) /\ w.nextSeq = m.nextSeq + 1
  BY DEF WithEvent
<1> HIDE DEF e, w
<1>3. /\ Len(w.events) = Len(m.events) + 1
      /\ \A i \in DOMAIN w.events : \/ i \in DOMAIN m.events /\ w.events[i] = m.events[i]
                                    \/ i = Len(m.events) + 1 /\ w.events[i] = e
  BY <1>1, <1>2
<1> QED
  BY <1>1, <1>2, <1>3 DEF Gapless, w

LEMMA ApplyAttachGapless ==
    ASSUME NEW m \in Memory, Gapless(m), NEW b \in Bucket, NEW t \in Tool, NEW o \in Output
    PROVE  Gapless(ApplyAttach(m, b, t, o)) /\ ApplyAttach(m, b, t, o).nextSeq = m.nextSeq
<1> DEFINE S == LatestUnanswered(m.events, b, t)
           i == CHOOSE k \in S : TRUE
           w == [m.events EXCEPT ![i] = [m.events[i] EXCEPT !.content = o]]
<1>1. CASE S = {}
  BY <1>1 DEF ApplyAttach
<1>2. CASE S # {}
  <2>1. m.events \in Seq(Event) /\ \A j \in DOMAIN m.events : m.events[j] \in Event
    BY DEF Memory
  <2>2. i \in DOMAIN m.events
    BY <1>2 DEF LatestUnanswered, Unanswered
  <2>3. ApplyAttach(m, b, t, o).events = w /\ ApplyAttach(m, b, t, o).nextSeq = m.nextSeq
    BY <1>2 DEF ApplyAttach, WithOutput
  <2> HIDE DEF i
  <2>4. [m.events[i] EXCEPT !.content = o].seq = m.events[i].seq
    BY <2>1, <2>2 DEF Event
  <2>5. /\ DOMAIN w = DOMAIN m.events /\ Len(w) = Len(m.events)
        /\ \A j \in DOMAIN w : w[j].seq = m.events[j].seq
    BY <2>1, <2>2, <2>4
  <2> QED
    BY <2>3, <2>5 DEF Gapless
<1> QED
  BY <1>1, <1>2

\* A line whose number does not run ahead of the counter makes no gap.
LEMMA ReplayedGapless ==
    ASSUME NEW m \in Memory, Gapless(m), NEW l \in Line, l.kind = "e" => l.seq <= m.nextSeq
    PROVE  Gapless(Replayed(m, l))
<1>1. CASE l.kind = "e"
  <2>1. l.seq \in Nat \cup {NoSeq} /\ m.nextSeq \in Nat
    BY <1>1 DEF Line, Junk, Memory
  <2>2. (IF l.seq < m.nextSeq THEN m.nextSeq ELSE l.seq) = m.nextSeq
    BY <1>1, <2>1 DEF NoSeq
  <2>3. Replayed(m, l) = WithEvent(m, l.bucket, l.tool, m.nextSeq, l.content)
    BY <1>1, <2>2 DEF Replayed
  <2> QED
    BY <2>3, WithEventGapless
<1>2. CASE l.kind = "a"
  <2>1. l.bucket \in Bucket /\ l.tool \in Tool /\ l.content \in Output
    BY <1>2 DEF Line, Junk
  <2> QED
    BY <1>2, <2>1, ApplyAttachGapless DEF Replayed
<1>3. CASE l.kind = "junk"
  BY <1>3 DEF Replayed
<1> QED
  BY <1>1, <1>2, <1>3 DEF Line, Junk

\* A log every beginning of which replays without a gap.
WholeLog(lines) == \A n \in 0 .. Len(lines) : Gapless(Replay(SubSeq(lines, 1, n)))

LEMMA WholeLogIsGapless ==
    ASSUME NEW lines \in Seq(Line), WholeLog(lines)
    PROVE  Gapless(Replay(lines))
<1>1. SubSeq(lines, 1, Len(lines)) = lines /\ Len(lines) \in 0 .. Len(lines)
  OBVIOUS
<1> QED
  BY <1>1 DEF WholeLog

LEMMA WholeNothing == WholeLog(<<>>)
<1>1. SubSeq(<<>>, 1, 0) = <<>> /\ \A n \in 0 .. Len(<<>>) : n = 0
  OBVIOUS
<1>2. Gapless(NewConversation)
  BY DEF Gapless, NewConversation
<1> QED
  BY <1>1, <1>2, ReplayNothing DEF WholeLog

LEMMA WholeOneMore ==
    ASSUME NEW lines \in Seq(Line), WholeLog(lines), NEW l \in Line,
           Gapless(Replayed(Replay(lines), l))
    PROVE  WholeLog(Append(lines, l))
<1> DEFINE more == Append(lines, l)
<1>1. Len(more) = Len(lines) + 1 /\ Len(lines) \in Nat
  OBVIOUS
<1>2. ASSUME NEW n \in 0 .. Len(lines) + 1
      PROVE  Gapless(Replay(SubSeq(more, 1, n)))
  <2>1. CASE n <= Len(lines)
    <3>1. SubSeq(more, 1, n) = SubSeq(lines, 1, n)
      BY <2>1
    <3>2. n \in 0 .. Len(lines)
      BY <2>1
    <3>3. Gapless(Replay(SubSeq(lines, 1, n)))
      BY <3>2 DEF WholeLog
    <3> HIDE DEF more
    <3> QED
      BY <3>1, <3>3
  <2>2. CASE n = Len(lines) + 1
    <3>1. SubSeq(more, 1, n) = more
      BY <2>2
    <3> QED
      BY <3>1, ReplayOneMore
  <2> QED
    BY <2>1, <2>2
<1> QED
  BY <1>1, <1>2 DEF WholeLog

LEMMA WholePrefix ==
    ASSUME NEW lines \in Seq(Line), WholeLog(lines), NEW k \in 0 .. Len(lines)
    PROVE  WholeLog(SubSeq(lines, 1, k))
<1>1. SubSeq(lines, 1, k) \in Seq(Line) /\ Len(SubSeq(lines, 1, k)) = k
  OBVIOUS
<1>2. \A n \in 0 .. k : n \in 0 .. Len(lines) /\ SubSeq(SubSeq(lines, 1, k), 1, n) = SubSeq(lines, 1, n)
  OBVIOUS
<1> QED
  BY <1>1, <1>2 DEF WholeLog

\* A log is whole when no line of it, read after the lines before it, runs
\* ahead of the counter.
LEMMA WholeLineByLine ==
    ASSUME NEW lines \in Seq(Line),
           \A n \in Nat : n < Len(lines) /\ Gapless(Replay(SubSeq(lines, 1, n))) =>
               (lines[n + 1].kind = "e" =>
                  lines[n + 1].seq <= Replay(SubSeq(lines, 1, n)).nextSeq)
    PROVE  WholeLog(lines)
<1> DEFINE S == {n \in Nat : n <= Len(lines) => Gapless(Replay(SubSeq(lines, 1, n)))}
<1>1. 0 \in S
  <2>1. SubSeq(lines, 1, 0) = <<>>
    OBVIOUS
  <2>2. Gapless(Replay(<<>>))
    BY ReplayNothing DEF Gapless, NewConversation
  <2>3. Gapless(Replay(SubSeq(lines, 1, 0)))
    BY <2>1, <2>2
  <2> QED
    BY <2>3
<1>2. ASSUME NEW n \in Nat, n \in S
      PROVE  n + 1 \in S
  <2> SUFFICES ASSUME n + 1 <= Len(lines) PROVE Gapless(Replay(SubSeq(lines, 1, n + 1)))
    OBVIOUS
  <2> DEFINE ls == SubSeq(lines, 1, n)
             l == lines[n + 1]
  <2>1. ls \in Seq(Line) /\ l \in Line /\ SubSeq(lines, 1, n + 1) = Append(ls, l)
    OBVIOUS
  <2>2. n < Len(lines) /\ Gapless(Replay(ls))
    BY <1>2
  <2>3. l.kind = "e" => l.seq <= Replay(ls).nextSeq
    BY <2>2
  <2>4. Replay(ls) \in Memory
    BY <2>1, ReplayType
  <2> HIDE DEF ls, l
  <2>5. Gapless(Replayed(Replay(ls), l))
    BY <2>1, <2>2, <2>3, <2>4, ReplayedGapless
  <2> QED
    BY <2>1, <2>5, ReplayOneMore
<1>3. \A n \in Nat : n \in S
  <2> HIDE DEF S
  <2> QED
    BY <1>1, <1>2, AllNumbers
<1> QED
  BY <1>3 DEF WholeLog

\* The log a repair writes is whole and leads to the same counter.
LEMMA RewrittenWhole ==
    ASSUME NEW m \in Memory, Gapless(m)
    PROVE  /\ WholeLog(Rewritten(m).lines)
           /\ Replay(Rewritten(m).lines).nextSeq = m.nextSeq
<1> DEFINE ls == Rewritten(m).lines
           k == Len(m.events)
           x(n) == Replay(SubSeq(ls, 1, n))
<1>1. m.events \in Seq(Event) /\ k \in Nat /\ ls \in Seq(Line)
  BY RewrittenType DEF Memory, File
<1>2. /\ Len(ls) = k
      /\ \A n \in 1 .. k : ls[n].kind = "e" /\ ls[n].seq = n - 1
  <2>1. ls = [i \in 1 .. k |-> EventLine(m.events[i].bucket, m.events[i].tool,
                                         m.events[i].seq, m.events[i].content)]
    BY <1>1 DEF Rewritten
  <2>2. Len(ls) = k
    BY <1>1, <2>1
  <2>3. \A n \in 1 .. k : m.events[n].seq = n - 1
    BY <1>1 DEF Gapless
  <2> HIDE DEF ls
  <2> QED
    BY <2>1, <2>2, <2>3 DEF EventLine
<1> HIDE DEF ls
<1> DEFINE S == {n \in Nat : n <= k => x(n).nextSeq = n}
<1>3. 0 \in S
  <2>1. SubSeq(ls, 1, 0) = <<>>
    BY <1>1
  <2>2. Replay(<<>>).nextSeq = 0
    BY ReplayNothing DEF NewConversation
  <2>3. x(0).nextSeq = 0
    BY <2>1, <2>2
  <2> HIDE DEF x
  <2> QED
    BY <2>3
<1>4. ASSUME NEW n \in Nat, n \in S
      PROVE  n + 1 \in S
  <2> SUFFICES ASSUME n + 1 <= k PROVE x(n + 1).nextSeq = n + 1
    OBVIOUS
  <2>1. /\ SubSeq(ls, 1, n) \in Seq(Line) /\ ls[n + 1] \in Line
        /\ SubSeq(ls, 1, n + 1) = Append(SubSeq(ls, 1, n), ls[n + 1])
    BY <1>1, <1>2
  <2>2. x(n + 1) = Replayed(x(n), ls[n + 1])
    BY <2>1, ReplayOneMore
  <2>3. ls[n + 1].kind = "e" /\ ls[n + 1].seq = n /\ x(n).nextSeq = n
    BY <1>2, <1>4
  <2> HIDE DEF x
  <2> QED
    BY <2>2, <2>3 DEF Replayed, WithEvent
<1>5. \A n \in Nat : n \in S
  <2> HIDE DEF S
  <2> QED
    BY <1>3, <1>4, AllNumbers
<1>6. \A n \in 0 .. k : x(n).nextSeq = n
  BY <1>1, <1>5
<1>7. WholeLog(ls)
  <2>1. \A n \in Nat : n < k => ls[n + 1].seq = n /\ x(n).nextSeq = n
    BY <1>1, <1>2, <1>6
  <2> QED
    BY <1>1, <1>2, <2>1, WholeLineByLine
<1>8. SubSeq(ls, 1, k) = ls
  BY <1>1, <1>2
<1>9. Replay(ls).nextSeq = k
  <2>1. x(k).nextSeq = k
    BY <1>1, <1>6
  <2> QED
    BY <1>8, <2>1
<1> QED
  BY <1>7, <1>9 DEF Gapless, ls

\* GapFree is not inductive: the numbers a replay gives depend on the log,
\* whose every beginning a cut may leave, and the number of the next call on
\* the counter that replaying the log would restore.
GapInv ==
    /\ ~wal.torn
    /\ Gapless(conv)
    /\ WholeLog(wal.lines)
    /\ mode = "up" /\ ~wal.short => Replay(wal.lines).nextSeq = conv.nextSeq

\* A log from before calls were numbered.
Unnumbered(lines) == \A i \in DOMAIN lines : lines[i].kind = "e" => lines[i].seq = NoSeq

\* What is left of a log of f when memory is m, in step with it.
InStep(f, m) ==
    /\ ~f.torn
    /\ WholeLog(f.lines)
    /\ ~f.short => Replay(f.lines).nextSeq = m.nextSeq

LEMMA RepairedInStep ==
    ASSUME NEW f \in File, NEW m \in Memory, Gapless(m), InStep(f, m)
    PROVE  /\ Repaired(f, m) \in File /\ InStep(Repaired(f, m), m)
           /\ Replay(Repaired(f, m).lines).nextSeq = m.nextSeq
<1>1. CASE f.short
  <2>1. Repaired(f, m) = Rewritten(m)
    BY <1>1 DEF Repaired
  <2>2. ~Rewritten(m).torn /\ Rewritten(m) \in File
    BY RewrittenType DEF Rewritten
  <2> QED
    BY <2>1, <2>2, RewrittenWhole DEF InStep
<1>2. CASE ~f.short
  BY <1>2 DEF Repaired, InStep
<1> QED
  BY <1>1, <1>2

\* A write keeps the log in step with memory m when the line leads from the
\* counter before it to m's.
LEMMA WriteInStep ==
    ASSUME "tear" \notin Fault, NEW f \in File, NEW m \in Memory, Gapless(m), InStep(f, m),
           NEW w \in Memory, NEW line \in Line,
           line.kind = "e" => line.seq <= m.nextSeq,
           \A x \in Memory : x.nextSeq = m.nextSeq => Replayed(x, line).nextSeq = w.nextSeq,
           NEW r \in WriteResults(f, m, line)
    PROVE  /\ r.done => InStep(r.file, w)
           /\ ~r.done => InStep(r.file, m)
<1> DEFINE g == Repaired(f, m)
           y == [lines |-> Append(g.lines, line), torn |-> FALSE, short |-> FALSE]
<1>1. /\ g \in File /\ g.lines \in Seq(Line) /\ InStep(g, m) /\ WholeLog(g.lines)
      /\ Replay(g.lines).nextSeq = m.nextSeq
  BY RepairedInStep DEF File, InStep
<1>2. Replay(g.lines) \in Memory /\ Gapless(Replay(g.lines))
  BY <1>1, ReplayType, WholeLogIsGapless
<1> HIDE DEF g
<1>3. Gapless(Replayed(Replay(g.lines), line))
  BY <1>1, <1>2, ReplayedGapless
<1>4. WholeLog(Append(g.lines, line))
  BY <1>1, <1>3, WholeOneMore
<1>5. Replay(Append(g.lines, line)).nextSeq = w.nextSeq
  BY <1>1, <1>2, ReplayOneMore
<1>6. InStep(y, w)
  BY <1>4, <1>5 DEF InStep
<1>7. ~f.torn
  BY DEF InStep
<1>8. (r.done /\ r.file = y) \/ (~r.done /\ r.file \in {f, g})
  BY <1>7, WriteWithoutTear DEF g
<1> HIDE DEF y
<1> QED
  BY <1>1, <1>6, <1>8

LEMMA StepGap ==
    ASSUME "tear" \notin Fault, Inv, Inv', LoadInv, LoadInv', GapInv, [Next]_vars
    PROVE  GapInv'
<1>0. /\ wal \in File /\ wal.lines \in Seq(Line) /\ conv \in Memory /\ conv.nextSeq \in Nat
      /\ NoOutput \in Contents /\ mode \in {"down", "loading", "up"}
  BY DEF Inv, TypeOK, File, Contents, Memory
<1>1. Gapless(NewConversation) /\ InStep(NoFile, NewConversation)
  BY ReplayNothing, WholeNothing DEF Gapless, NewConversation, InStep, NoFile
<1>2. mode = "up" => InStep(wal, conv)
  BY DEF GapInv, InStep
<1>3. ~wal.torn /\ Gapless(conv) /\ WholeLog(wal.lines)
  BY DEF GapInv
<1>4. ASSUME Gapless(conv'), InStep(wal', conv')
      PROVE  GapInv'
  BY <1>4 DEF GapInv, InStep
<1>5. ASSUME NEW f \in File, NEW m, InStep(f, m), StopWith(f)
      PROVE  GapInv'
  BY <1>1, <1>5 DEF GapInv, InStep, StopWith, File
<1>6. ASSUME NEW b \in Bucket, NEW t \in Tool, mode = "up",
             NEW r \in WriteResults(Log, Held, EventLine(b, t, Held.nextSeq, NoOutput))
      PROVE  /\ r.file \in File
             /\ Gapless(Held) /\ Gapless(WithEvent(Held, b, t, Held.nextSeq, NoOutput))
             /\ r.done => InStep(r.file, WithEvent(Held, b, t, Held.nextSeq, NoOutput))
             /\ ~r.done => InStep(r.file, Held)
  <2> DEFINE l == EventLine(b, t, Held.nextSeq, NoOutput)
             w == WithEvent(Held, b, t, Held.nextSeq, NoOutput)
  <2>1. /\ Log \in File /\ Held \in Memory /\ Held.nextSeq \in Nat
        /\ Gapless(Held) /\ InStep(Log, Held)
    BY <1>0, <1>1, <1>2, <1>3, <1>6, FoundType DEF Log, Held, Inv, Memory
  <2>2. l \in Line /\ w \in Memory /\ Gapless(w)
    BY <1>0, <2>1, EventLineType, WithEventKeeps, WithEventGapless
  <2>3. l.kind = "e" => l.seq <= Held.nextSeq
    BY <2>1 DEF EventLine
  <2>4. ASSUME NEW x \in Memory, x.nextSeq = Held.nextSeq
        PROVE  Replayed(x, l).nextSeq = w.nextSeq
    BY <2>1, <2>4 DEF Replayed, EventLine, WithEvent
  <2> HIDE DEF l, w
  <2>5. r \in WriteResults(Log, Held, l)
    BY <1>6 DEF l
  <2>6. r.file \in File
    BY <2>1, <2>2, <2>5, WriteResultsType
  <2>7. /\ r.done => InStep(r.file, w)
        /\ ~r.done => InStep(r.file, Held)
    BY <2>1, <2>2, <2>3, <2>4, <2>5, WriteInStep
  <2> QED
    BY <2>1, <2>2, <2>6, <2>7 DEF w
<1>7. ASSUME NEW b \in Bucket, NEW t \in Tool, NEW o \in Output, mode = "up",
             NEW r \in WriteResults(wal, ApplyAttach(conv, b, t, o), AttachLine(b, t, o))
      PROVE  /\ r.file \in File
             /\ Gapless(ApplyAttach(conv, b, t, o))
             /\ InStep(r.file, ApplyAttach(conv, b, t, o))
  <2> DEFINE l == AttachLine(b, t, o)
             m == ApplyAttach(conv, b, t, o)
  <2>1. m \in Memory /\ Gapless(m) /\ m.nextSeq = conv.nextSeq
    BY <1>0, <1>3, ApplyAttachKeeps, ApplyAttachGapless
  <2>2. InStep(wal, m)
    BY <1>2, <1>7, <2>1 DEF InStep
  <2>3. l \in Line /\ l.kind # "e"
    BY AttachLineType DEF AttachLine
  <2>4. ASSUME NEW x \in Memory, x.nextSeq = m.nextSeq
        PROVE  Replayed(x, l).nextSeq = m.nextSeq
    <3>1. Replayed(x, l) = ApplyAttach(x, b, t, o)
      BY DEF Replayed, AttachLine
    <3>2. ApplyAttach(x, b, t, o).nextSeq = x.nextSeq
      BY DEF ApplyAttach, WithOutput
    <3> QED
      BY <2>4, <3>1, <3>2
  <2> HIDE DEF l, m
  <2>5. r \in WriteResults(wal, m, l)
    BY <1>7 DEF l, m
  <2>6. r.file \in File
    BY <1>0, <2>1, <2>3, <2>5, WriteResultsType
  <2>7. r.done \in BOOLEAN
    BY <1>0, <2>1, <2>3, <2>5, WriteResultsType
  <2>8. InStep(r.file, m)
    BY <1>0, <2>1, <2>2, <2>3, <2>4, <2>5, <2>7, WriteInStep
  <2> QED
    BY <2>1, <2>6, <2>8 DEF m
<1>8. ASSUME NEW b \in Bucket, NEW t \in Tool, Admit(b, t)
      PROVE  GapInv'
  <2>1. PICK r \in WriteResults(Log, Held, EventLine(b, t, Held.nextSeq, NoOutput)) :
           wal' = r.file /\ conv' = IF r.done THEN WithEvent(Held, b, t, Held.nextSeq, NoOutput)
                                               ELSE Held
    BY <1>8 DEF Admit, Unwritten
  <2>2. mode = "up"
    BY <1>8 DEF Admit
  <2> QED
    BY <1>4, <1>6, <2>1, <2>2
<1>9. ASSUME NEW b \in Bucket, NEW t \in Tool, CrashInAppend(b, t)
      PROVE  GapInv'
  <2>1. PICK r \in WriteResults(Log, Held, EventLine(b, t, Held.nextSeq, NoOutput)) :
           StopWith(r.file)
    BY <1>9 DEF CrashInAppend
  <2>2. mode = "up"
    BY <1>9 DEF CrashInAppend
  <2> QED
    BY <1>5, <1>6, <2>1, <2>2
<1>10. ASSUME NEW b \in Bucket, NEW t \in Tool, NEW o \in Output, Attach(b, t, o)
       PROVE  GapInv'
  <2>1. PICK r \in WriteResults(wal, ApplyAttach(conv, b, t, o), AttachLine(b, t, o)) :
           wal' = r.file /\ conv' = ApplyAttach(conv, b, t, o)
    BY <1>10 DEF Attach
  <2>2. mode = "up"
    BY <1>10 DEF Attach
  <2> QED
    BY <1>4, <1>7, <2>1, <2>2
<1>11. ASSUME NEW b \in Bucket, NEW t \in Tool, NEW o \in Output, CrashInAttach(b, t, o)
       PROVE  GapInv'
  <2>1. PICK r \in WriteResults(wal, ApplyAttach(conv, b, t, o), AttachLine(b, t, o)) :
           StopWith(r.file)
    BY <1>11 DEF CrashInAttach
  <2>2. mode = "up"
    BY <1>11 DEF CrashInAttach
  <2> QED
    BY <1>5, <1>7, <2>1, <2>2
<1>12. CASE DropExpired \/ Forget
  <2>1. wal' = NoFile /\ conv' = NewConversation
    BY <1>12 DEF DropExpired, Forget
  <2> QED
    BY <1>1, <1>4, <2>1
<1>13. CASE Crash
  BY <1>1, <1>3, <1>13 DEF Crash, StopWith, GapInv, File, Inv, TypeOK
<1>14. CASE Start
  <2>1. /\ conv' = NewConversation
        /\ \/ mode' = "up" /\ wal' = NoFile
           \/ mode' = "loading" /\ wal' = wal
    BY <1>14 DEF Start, LoadInv
  <2> QED
    BY <1>1, <1>3, <1>4, <2>1 DEF GapInv
<1>15. CASE ReplayLine
  <2>1. mode' = "loading" /\ wal' = wal
    BY <1>15 DEF ReplayLine
  <2>2. pos' \in 0 .. Len(wal.lines) /\ conv' = Replay(SubSeq(wal.lines, 1, pos'))
    BY <2>1 DEF Inv, TypeOK, LoadInv
  <2>3. Gapless(conv')
    BY <1>3, <2>2 DEF WholeLog
  <2> QED
    BY <1>3, <2>1, <2>3 DEF GapInv
<1>16. CASE FinishLoad
  <2>1. conv' = conv /\ wal' = wal /\ conv = Replay(wal.lines)
    BY <1>16, LoadedAll DEF FinishLoad, Restored
  <2>2. InStep(wal, conv)
    BY <1>3, <2>1 DEF InStep
  <2> QED
    BY <1>3, <1>4, <2>1, <2>2
<1>17. CASE GoIdle \/ UNCHANGED vars
  <2>1. mode' = mode /\ wal' = wal /\ conv' = conv
    BY <1>17 DEF GoIdle, vars
  <2> QED
    BY <2>1 DEF GapInv
<1>18. CASE Cut
  <2>1. PICK n \in 0 .. Len(wal.lines) - 1 : CutTo(n)
    BY <1>18 DEF Cut, CutInside
  <2>2. n \in 0 .. Len(wal.lines)
    BY <1>0, <2>1
  <2>3. WholeLog(SubSeq(wal.lines, 1, n))
    BY <1>0, <1>3, <2>2, WholePrefix
  <2>4. conv' = conv /\ mode' = mode /\ wal'.lines = SubSeq(wal.lines, 1, n) /\ ~wal'.torn
        /\ wal'.short = (mode = "up")
    BY <2>1 DEF CutTo
  <2> QED
    BY <1>3, <2>3, <2>4 DEF GapInv
<1> QED
  BY <1>8, <1>9, <1>10, <1>11, <1>12, <1>13, <1>14, <1>15, <1>16, <1>17, <1>18 DEF Next

LEMMA InitGap ==
    ASSUME \A lines \in Legacy : Unnumbered(lines), Init
    PROVE  GapInv
<1>1. PICK lines \in Legacy : wal = [lines |-> lines, torn |-> FALSE, short |-> FALSE]
  BY DEF Init
<1>2. lines \in Seq(Line)
  BY LegacyAssumption
<1>3. ASSUME NEW n \in Nat, n < Len(lines), lines[n + 1].kind = "e"
      PROVE  lines[n + 1].seq <= Replay(SubSeq(lines, 1, n)).nextSeq
  <2>1. lines[n + 1].seq = NoSeq
    BY <1>2, <1>3 DEF Unnumbered
  <2>2. SubSeq(lines, 1, n) \in Seq(Line)
    BY <1>2, <1>3
  <2>3. Replay(SubSeq(lines, 1, n)).nextSeq \in Nat
    BY <2>2, ReplayType DEF Memory
  <2> QED
    BY <2>1, <2>3 DEF NoSeq
<1>4. WholeLog(lines)
  BY <1>2, <1>3, WholeLineByLine
<1>5. Gapless(conv) /\ mode = "down" /\ ~wal.torn /\ wal.lines = lines
  BY <1>1 DEF Init, Gapless, NewConversation
<1> QED
  BY <1>4, <1>5 DEF GapInv

\* When the logs found at the first start are from before calls were
\* numbered, a conversation's numbers are 0, 1, 2, ..., whatever is cut from
\* its log and whichever writes raise, as long as no write is torn.
THEOREM NumbersHaveNoGap ==
    ASSUME \A lines \in Legacy : Unnumbered(lines)
    PROVE  Spec => []GapFree
<1>1. CASE "tear" \in Fault
  <2>1. GapFree
    BY <1>1 DEF GapFree
  <2> QED
    BY <2>1, PTL
<1>2. CASE "tear" \notin Fault
  <2>1. Init => GapInv
    BY InitGap
  <2>2. Inv /\ Inv' /\ LoadInv /\ LoadInv' /\ GapInv /\ [Next]_vars => GapInv'
    BY <1>2, StepGap
  <2>3. GapInv => GapFree
    BY DEF GapInv, Gapless, GapFree
  <2> QED
    BY <2>1, <2>2, <2>3, InitInv, StepInv, InitLoad, StepLoad, PTL DEF Spec
<1> QED
  BY <1>1, <1>2
=============================================================================
