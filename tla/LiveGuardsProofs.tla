--------------------------- MODULE LiveGuardsProofs ---------------------------
(***************************************************************************)
(* A guard kept between calls decides as one rebuilt from the history      *)
(* would, for all buckets, tools, outputs and restored conversations, and  *)
(* for any number of calls.                                                *)
(***************************************************************************)
EXTENDS LiveGuards, SequenceTheorems, WellFoundedInduction, TLAPS

----------------------------------------------------------------------------
(* What a guard grounds.                                                   *)

\* What grounding keeps of one event.
MaskOne(b, e) == IF b \in Reads THEN e ELSE [e EXCEPT !.content = NoOutput]

\* The ground is the beginning of the trace, as grounding keeps it.
WellGrounded(b, g) ==
    /\ Len(g.ground) <= Len(g.trace)
    /\ g.ground = Mask(b, SubSeq(g.trace, 1, Len(g.ground)))

LEMMA MaskOneType ==
    ASSUME NEW b, NEW e \in Held
    PROVE  MaskOne(b, e) \in Held
  BY DEF MaskOne, Held

LEMMA MaskType ==
    ASSUME NEW b, NEW s \in Seq(Held)
    PROVE  /\ Mask(b, s) \in Seq(Held)
           /\ Len(Mask(b, s)) = Len(s)
           /\ \A i \in 1 .. Len(s) : Mask(b, s)[i] = MaskOne(b, s[i])
<1>1. CASE b \in Reads
  BY <1>1 DEF Mask, MaskOne
<1>2. CASE b \notin Reads
  <2>1. Mask(b, s) = [i \in 1 .. Len(s) |-> MaskOne(b, s[i])]
    BY <1>2 DEF Mask, MaskOne
  <2>2. Len(s) \in Nat
    OBVIOUS
  <2>3. \A i \in 1 .. Len(s) : MaskOne(b, s[i]) \in Held
    BY ElementOfSeq, MaskOneType
  <2>4. [i \in 1 .. Len(s) |-> MaskOne(b, s[i])] \in Seq(Held)
    BY <2>2, <2>3
  <2> QED
    BY <2>1, <2>2, <2>4
<1> QED
  BY <1>1, <1>2

\* The first k elements, and those after them.
LEMMA FrontOfSeq ==
    ASSUME NEW S, NEW s \in Seq(S), NEW k \in Nat, k <= Len(s)
    PROVE  /\ SubSeq(s, 1, k) \in Seq(S)
           /\ Len(SubSeq(s, 1, k)) = k
           /\ \A i \in 1 .. k : SubSeq(s, 1, k)[i] = s[i]
<1>1. \A i \in 1 .. k : s[i] \in S
  BY ElementOfSeq
<1>2. /\ SubSeq(s, 1, k) \in Seq(S)
      /\ Len(SubSeq(s, 1, k)) = IF 1 <= k THEN k - 1 + 1 ELSE 0
      /\ \A i \in 1 .. k - 1 + 1 : SubSeq(s, 1, k)[i] = s[1 + i - 1]
  BY <1>1, SubSeqProperties
<1> QED
  BY <1>2

LEMMA BackOfSeq ==
    ASSUME NEW S, NEW s \in Seq(S), NEW k \in Nat, k <= Len(s)
    PROVE  /\ SubSeq(s, k + 1, Len(s)) \in Seq(S)
           /\ Len(SubSeq(s, k + 1, Len(s))) = Len(s) - k
           /\ \A i \in 1 .. Len(s) - k : SubSeq(s, k + 1, Len(s))[i] = s[k + i]
<1> DEFINE n == Len(s)
<1>1. n \in Nat
  OBVIOUS
<1>2. \A i \in k + 1 .. n : s[i] \in S
  BY ElementOfSeq
<1> HIDE DEF n
<1>3. /\ SubSeq(s, k + 1, n) \in Seq(S)
      /\ Len(SubSeq(s, k + 1, n)) = IF k + 1 <= n THEN n - (k + 1) + 1 ELSE 0
      /\ \A i \in 1 .. n - (k + 1) + 1 : SubSeq(s, k + 1, n)[i] = s[(k + 1) + i - 1]
  BY <1>1, <1>2, SubSeqProperties
<1>4. k <= n
  BY DEF n
<1>5. Len(SubSeq(s, k + 1, n)) = n - k
  BY <1>1, <1>3, <1>4
<1>6. ASSUME NEW i \in 1 .. n - k
      PROVE  SubSeq(s, k + 1, n)[i] = s[k + i]
  <2>1. i \in 1 .. n - (k + 1) + 1 /\ (k + 1) + i - 1 = k + i
    BY <1>1
  <2> QED
    BY <1>3, <2>1
<1> QED
  BY <1>3, <1>5, <1>6 DEF n

\* A well grounded guard decides by its whole trace.
LEMMA GroundedIsMask ==
    ASSUME NEW b, NEW g \in Guard, WellGrounded(b, g)
    PROVE  Grounded(b, g) = Mask(b, g.trace)
<1> DEFINE k == Len(g.ground)
           n == Len(g.trace)
           front == SubSeq(g.trace, 1, k)
           back == SubSeq(g.trace, k + 1, n)
<1>1. g.trace \in Seq(Held) /\ g.ground \in Seq(Held)
  BY DEF Guard
<1>2. k \in Nat /\ n \in Nat /\ k <= n
  BY <1>1 DEF WellGrounded
<1>3. /\ front \in Seq(Held) /\ Len(front) = k
      /\ \A i \in 1 .. k : front[i] = g.trace[i]
  BY <1>1, <1>2, FrontOfSeq
<1>4. /\ back \in Seq(Held) /\ Len(back) = n - k
      /\ \A i \in 1 .. n - k : back[i] = g.trace[k + i]
  BY <1>1, <1>2, BackOfSeq
<1>5. Grounded(b, g) = Mask(b, front) \o Mask(b, back)
  BY DEF Grounded, WellGrounded
<1>6. /\ Mask(b, g.trace) \in Seq(Held) /\ Len(Mask(b, g.trace)) = n
      /\ \A i \in 1 .. n : Mask(b, g.trace)[i] = MaskOne(b, g.trace[i])
  BY <1>1, MaskType
<1> HIDE DEF front, back, k, n
<1>7. /\ Mask(b, front) \in Seq(Held) /\ Len(Mask(b, front)) = k
      /\ \A i \in 1 .. k : Mask(b, front)[i] = MaskOne(b, g.trace[i])
  <2>1. /\ Mask(b, front) \in Seq(Held) /\ Len(Mask(b, front)) = Len(front)
        /\ \A i \in 1 .. Len(front) : Mask(b, front)[i] = MaskOne(b, front[i])
    BY <1>3, MaskType
  <2> QED
    BY <1>3, <2>1
<1>8. /\ Mask(b, back) \in Seq(Held) /\ Len(Mask(b, back)) = n - k
      /\ \A i \in 1 .. n - k : Mask(b, back)[i] = MaskOne(b, g.trace[k + i])
  <2>1. /\ Mask(b, back) \in Seq(Held) /\ Len(Mask(b, back)) = Len(back)
        /\ \A i \in 1 .. Len(back) : Mask(b, back)[i] = MaskOne(b, back[i])
    BY <1>4, MaskType
  <2> QED
    BY <1>4, <2>1
<1>9. /\ Grounded(b, g) \in Seq(Held)
      /\ Len(Grounded(b, g)) = k + (n - k)
      /\ \A i \in 1 .. k + (n - k) :
            Grounded(b, g)[i] = IF i <= k THEN Mask(b, front)[i] ELSE Mask(b, back)[i - k]
  <2> DEFINE x == Mask(b, front)
             y == Mask(b, back)
  <2>1. x \in Seq(Held) /\ Len(x) = k /\ y \in Seq(Held) /\ Len(y) = n - k
    BY <1>7, <1>8
  <2>2. Grounded(b, g) = x \o y
    BY <1>5
  <2> HIDE DEF x, y
  <2>3. /\ x \o y \in Seq(Held)
        /\ Len(x \o y) = Len(x) + Len(y)
        /\ \A i \in 1 .. Len(x) + Len(y) :
              (x \o y)[i] = IF i <= Len(x) THEN x[i] ELSE y[i - Len(x)]
    BY <2>1, ConcatProperties
  <2>4. /\ Grounded(b, g) \in Seq(Held)
        /\ Len(Grounded(b, g)) = k + (n - k)
        /\ \A i \in 1 .. k + (n - k) :
              Grounded(b, g)[i] = IF i <= k THEN x[i] ELSE y[i - k]
    BY <2>1, <2>2, <2>3
  <2> QED
    BY <2>4 DEF x, y
<1>10. ASSUME NEW i \in 1 .. n
       PROVE  Grounded(b, g)[i] = Mask(b, g.trace)[i]
  <2>0. i \in 1 .. k + (n - k)
    BY <1>2
  <2>1. CASE i <= k
    <3>1. i \in 1 .. k
      BY <2>1, <1>2
    <3> QED
      BY <1>6, <1>7, <1>9, <2>0, <2>1, <3>1
  <2>2. CASE ~(i <= k)
    <3>1. i - k \in 1 .. n - k /\ k + (i - k) = i
      BY <1>2, <2>2
    <3>2. Grounded(b, g)[i] = Mask(b, back)[i - k]
      BY <1>9, <2>0, <2>2
    <3>3. Mask(b, back)[i - k] = MaskOne(b, g.trace[k + (i - k)])
      BY <1>8, <3>1
    <3> QED
      BY <1>6, <3>1, <3>2, <3>3
  <2> QED
    BY <2>1, <2>2
<1>11. Len(Grounded(b, g)) = n
  BY <1>2, <1>9
<1> QED
  BY <1>6, <1>9, <1>10, <1>11, SeqEqual

\* A guard that grounded its whole trace is well grounded.
LEMMA WholeGround ==
    ASSUME NEW b, NEW s \in Seq(Held)
    PROVE  /\ [trace |-> s, ground |-> Mask(b, s)] \in Guard
           /\ WellGrounded(b, [trace |-> s, ground |-> Mask(b, s)])
<1> DEFINE g == [trace |-> s, ground |-> Mask(b, s)]
<1>1. Len(Mask(b, s)) = Len(s) /\ Mask(b, s) \in Seq(Held) /\ Len(s) \in Nat
  BY MaskType
<1>2. SubSeq(s, 1, Len(s)) = s
  BY SubSeqFull
<1>3. g.trace = s /\ g.ground = Mask(b, s)
  OBVIOUS
<1>4. g \in Guard
  BY <1>1 DEF Guard
<1>5. WellGrounded(b, g)
  <2>1. Len(g.ground) <= Len(g.trace)
    BY <1>1
  <2>2. SubSeq(g.trace, 1, Len(g.ground)) = s
    BY <1>1, <1>2
  <2> QED
    BY <2>1, <2>2, <1>3 DEF WellGrounded
<1> QED
  BY <1>4, <1>5

LEMMA RolledBackGuard ==
    ASSUME NEW b, NEW g \in Guard, WellGrounded(b, g)
    PROVE  /\ RolledBack(b, g) \in Guard /\ WellGrounded(b, RolledBack(b, g))
           /\ RolledBack(b, g).trace = g.trace
<1>1. RolledBack(b, g) = [trace |-> g.trace, ground |-> Mask(b, g.trace)]
  BY GroundedIsMask DEF RolledBack, Guard
<1>2. g.trace \in Seq(Held)
  BY DEF Guard
<1> QED
  BY <1>1, <1>2, WholeGround

LEMMA ExtendedGuard ==
    ASSUME NEW b, NEW g \in Guard, WellGrounded(b, g), NEW t \in Tool
    PROVE  /\ Extended(b, g, t) \in Guard /\ WellGrounded(b, Extended(b, g, t))
           /\ Extended(b, g, t).trace = Append(g.trace, Candidate(g, t))
<1> DEFINE c == Candidate(g, t)
           s == Append(g.trace, c)
           h == [g EXCEPT !.trace = s]
           k == Len(g.ground)
<1>1. g.trace \in Seq(Held) /\ g.ground \in Seq(Held)
  BY DEF Guard
<1>2. c \in Held
  BY <1>1 DEF Candidate, Held
<1>3. k \in Nat /\ Len(g.trace) \in Nat /\ k <= Len(g.trace)
  BY <1>1 DEF WellGrounded
<1>4. h.trace = s /\ h.ground = g.ground
  BY DEF Guard
<1>5. Extended(b, g, t) = [trace |-> s, ground |-> Grounded(b, h)]
  BY DEF Extended
<1> HIDE DEF c
<1>6. s \in Seq(Held) /\ Len(s) = Len(g.trace) + 1
      /\ \A i \in 1 .. Len(g.trace) : s[i] = g.trace[i]
  BY <1>1, <1>2, AppendProperties
<1>7. h \in Guard
  BY <1>6 DEF Guard
<1> HIDE DEF s, h, k
<1>8. k <= Len(s)
  BY <1>3, <1>6
<1>9. SubSeq(s, 1, k) = SubSeq(g.trace, 1, k)
  <2>1. /\ SubSeq(s, 1, k) \in Seq(Held) /\ Len(SubSeq(s, 1, k)) = k
        /\ \A i \in 1 .. k : SubSeq(s, 1, k)[i] = s[i]
    BY <1>3, <1>6, <1>8, FrontOfSeq
  <2>2. /\ SubSeq(g.trace, 1, k) \in Seq(Held) /\ Len(SubSeq(g.trace, 1, k)) = k
        /\ \A i \in 1 .. k : SubSeq(g.trace, 1, k)[i] = g.trace[i]
    BY <1>1, <1>3, FrontOfSeq
  <2>3. \A i \in 1 .. k : i \in 1 .. Len(g.trace)
    BY <1>3
  <2> QED
    BY <1>6, <2>1, <2>2, <2>3, SeqEqual
<1>10. WellGrounded(b, h)
  BY <1>4, <1>8, <1>9 DEF WellGrounded, k
<1>11. Grounded(b, h) = Mask(b, s)
  BY <1>4, <1>7, <1>10, GroundedIsMask
<1>12. Extended(b, g, t) = [trace |-> s, ground |-> Mask(b, s)]
  BY <1>5, <1>11
<1>13. Extended(b, g, t) \in Guard /\ WellGrounded(b, Extended(b, g, t))
  BY <1>6, <1>12, WholeGround
<1> QED
  BY <1>12, <1>13 DEF s, c

----------------------------------------------------------------------------
(* The stored events, as a guard holds them.                               *)

RecordOf(e) == [ts |-> e.seq, tool |-> e.tool, content |-> e.content]

LEMMA RecordOfType ==
    ASSUME NEW e \in Event
    PROVE  RecordOf(e) \in Held
  BY DEF RecordOf, Event, Held

LEMMA MemoryType ==
    ASSUME NEW m \in Memory
    PROVE  /\ m.events \in Seq(Event) /\ m.attaches \in Seq(Attached) /\ m.nextSeq \in Nat
           /\ Len(m.events) \in Nat /\ Len(m.attaches) \in Nat
           /\ DOMAIN m.events = 1 .. Len(m.events)
           /\ DOMAIN m.attaches = 1 .. Len(m.attaches)
           /\ \A i \in 1 .. Len(m.events) : m.events[i] \in Event
           /\ \A k \in 1 .. Len(m.attaches) : m.attaches[k] \in Attached
<1>1. m.events \in Seq(Event) /\ m.attaches \in Seq(Attached) /\ m.nextSeq \in Nat
  BY DEF Memory
<1> QED
  BY <1>1, ElementOfSeq

LEMMA RecordsType ==
    ASSUME NEW m \in Memory
    PROVE  /\ Records(m) \in Seq(Held)
           /\ Len(Records(m)) = Len(m.events)
           /\ \A i \in 1 .. Len(m.events) : Records(m)[i] = RecordOf(m.events[i])
<1>1. /\ Len(m.events) \in Nat /\ DOMAIN m.events = 1 .. Len(m.events)
      /\ \A i \in 1 .. Len(m.events) : RecordOf(m.events[i]) \in Held
  BY MemoryType, RecordOfType
<1>2. Records(m) = [i \in 1 .. Len(m.events) |-> RecordOf(m.events[i])]
  BY <1>1 DEF Records, RecordOf
<1>3. [i \in 1 .. Len(m.events) |-> RecordOf(m.events[i])] \in Seq(Held)
  BY <1>1
<1> QED
  BY <1>1, <1>2, <1>3

\* The content an event had when a guard was synced to rev: none if its
\* output was attached since.
OutputBy(m, i, rev) ==
    IF \E k \in rev.attaches + 1 .. Len(m.attaches) : m.attaches[k].at = i
    THEN NoOutput ELSE m.events[i].content

EventBy(m, i, rev) ==
    [ts |-> m.events[i].seq, tool |-> m.events[i].tool, content |-> OutputBy(m, i, rev)]

\* What a guard synced to rev held (AsOf, of any memory).
EventsBy(m, rev) == [i \in 1 .. rev.events |-> EventBy(m, i, rev)]

Identity(n) == [i \in 1 .. n |-> i]

\* A kept guard, against the memory m of its conversation.
Kept(m, b, l) ==
    /\ l.rev.events <= Len(m.events)
    /\ l.rev.attaches <= Len(m.attaches)
    /\ l.positions = Identity(l.rev.events)
    /\ l.guard.trace = EventsBy(m, l.rev)
    /\ WellGrounded(b, l.guard)

LEMMA IdentityType ==
    ASSUME NEW n \in Nat
    PROVE  /\ Identity(n) \in Positions /\ Len(Identity(n)) = n
           /\ \A i \in 1 .. n : Identity(n)[i] = i
<1>1. \A i \in 1 .. n : i \in Nat \ {0}
  OBVIOUS
<1> QED
  BY <1>1 DEF Identity, Positions

LEMMA EventByType ==
    ASSUME NEW m \in Memory, NEW i \in 1 .. Len(m.events), NEW rev
    PROVE  EventBy(m, i, rev) \in Held
<1>1. m.events[i] \in Event
  BY MemoryType
<1>2. OutputBy(m, i, rev) \in Output \cup {NoOutput}
  BY <1>1 DEF OutputBy, Event
<1> QED
  BY <1>1, <1>2 DEF EventBy, Held, Event

LEMMA EventsByType ==
    ASSUME NEW m \in Memory, NEW rev \in Revision, rev.events <= Len(m.events)
    PROVE  /\ EventsBy(m, rev) \in Seq(Held)
           /\ Len(EventsBy(m, rev)) = rev.events
           /\ \A i \in 1 .. rev.events : EventsBy(m, rev)[i] = EventBy(m, i, rev)
<1>1. rev.events \in Nat /\ Len(m.events) \in Nat
  BY MemoryType DEF Revision
<1>2. \A i \in 1 .. rev.events : EventBy(m, i, rev) \in Held
  BY <1>1, EventByType
<1> QED
  BY <1>1, <1>2 DEF EventsBy

LEMMA LiveType ==
    ASSUME NEW l \in Live
    PROVE  /\ l.guard \in Guard /\ l.rev \in Revision /\ l.positions \in Positions
           /\ l.guard.trace \in Seq(Held) /\ l.guard.ground \in Seq(Held)
           /\ l.rev.gen \in Nat /\ l.rev.events \in Nat /\ l.rev.attaches \in Nat
  BY DEF Live, Guard, Revision

----------------------------------------------------------------------------
(* What happens to the conversation keeps its guards kept.                 *)

\* An event more leaves what is attached, and the events before it.
LEMMA WithEventIs ==
    ASSUME NEW m \in Memory, NEW b \in Bucket, NEW t \in Tool, NEW n \in Nat
    PROVE  LET w == WithEvent(m, b, t, n, NoOutput)
               e == [bucket |-> b, tool |-> t, seq |-> n, content |-> NoOutput]
           IN /\ w \in Memory
              /\ e \in Event
              /\ Len(w.events) = Len(m.events) + 1
              /\ \A i \in 1 .. Len(m.events) : w.events[i] = m.events[i]
              /\ w.events[Len(m.events) + 1] = e
              /\ w.attaches = m.attaches
              /\ w.nextSeq = n + 1
<1> DEFINE w == WithEvent(m, b, t, n, NoOutput)
           e == [bucket |-> b, tool |-> t, seq |-> n, content |-> NoOutput]
<1>1. e \in Event
  BY DEF Event
<1>2. m.events \in Seq(Event) /\ m.attaches \in Seq(Attached) /\ m.nextSeq \in Nat
  BY MemoryType
<1>3. w = [events |-> Append(m.events, e), attaches |-> m.attaches, nextSeq |-> n + 1]
  BY DEF WithEvent
<1> HIDE DEF e
<1>4. /\ Append(m.events, e) \in Seq(Event)
      /\ Len(Append(m.events, e)) = Len(m.events) + 1
      /\ \A i \in 1 .. Len(m.events) : Append(m.events, e)[i] = m.events[i]
      /\ Append(m.events, e)[Len(m.events) + 1] = e
  BY <1>1, <1>2, AppendProperties
<1>5. w.events = Append(m.events, e) /\ w.attaches = m.attaches /\ w.nextSeq = n + 1
  BY <1>3
<1>6. w \in Memory
  BY <1>2, <1>3, <1>4 DEF Memory
<1> HIDE DEF w
<1>7. /\ w \in Memory
      /\ e \in Event
      /\ Len(w.events) = Len(m.events) + 1
      /\ \A i \in 1 .. Len(m.events) : w.events[i] = m.events[i]
      /\ w.events[Len(m.events) + 1] = e
      /\ w.attaches = m.attaches
      /\ w.nextSeq = n + 1
  BY <1>1, <1>4, <1>5, <1>6
<1> QED
  BY <1>7 DEF w, e

\* An output changes the content of one event that waited for it, or nothing.
LEMMA ApplyAttachIs ==
    ASSUME NEW m \in Memory, NEW b \in Bucket, NEW t \in Tool, NEW o \in Output
    PROVE  LET w == ApplyAttach(m, b, t, o)
           IN \/ w = m
              \/ \E i \in 1 .. Len(m.events) :
                    /\ w \in Memory
                    /\ m.events[i].content = NoOutput
                    /\ w.events[i] = [m.events[i] EXCEPT !.content = o]
                    /\ \A j \in 1 .. Len(m.events) : j # i => w.events[j] = m.events[j]
                    /\ Len(w.events) = Len(m.events)
                    /\ Len(w.attaches) = Len(m.attaches) + 1
                    /\ w.attaches[Len(m.attaches) + 1] = [at |-> i, content |-> o]
                    /\ \A k \in 1 .. Len(m.attaches) : w.attaches[k] = m.attaches[k]
                    /\ w.nextSeq = m.nextSeq
<1> DEFINE w == ApplyAttach(m, b, t, o)
           S == LatestUnanswered(m.events, b, t)
           i == CHOOSE k \in S : TRUE
           e == [m.events[i] EXCEPT !.content = o]
           a == [at |-> i, content |-> o]
<1>1. CASE S = {}
  BY <1>1 DEF ApplyAttach
<1>2. CASE S # {}
  <2>1. /\ m.events \in Seq(Event) /\ m.attaches \in Seq(Attached) /\ m.nextSeq \in Nat
        /\ DOMAIN m.events = 1 .. Len(m.events)
        /\ \A j \in 1 .. Len(m.events) : m.events[j] \in Event
    BY MemoryType
  <2>2. i \in 1 .. Len(m.events) /\ m.events[i].content = NoOutput
    BY <1>2, <2>1 DEF LatestUnanswered, Unanswered
  <2>3. w = [events |-> [m.events EXCEPT ![i] = e],
             attaches |-> Append(m.attaches, a), nextSeq |-> m.nextSeq]
    BY <1>2 DEF ApplyAttach, WithOutput
  <2> HIDE DEF i
  <2>4. e \in Event
    BY <2>1, <2>2 DEF Event
  <2>5. a \in Attached
    BY <2>2 DEF Attached
  <2> HIDE DEF e, a
  <2>6. /\ [m.events EXCEPT ![i] = e] \in Seq(Event)
        /\ Len([m.events EXCEPT ![i] = e]) = Len(m.events)
        /\ \A j \in 1 .. Len(m.events) :
              [m.events EXCEPT ![i] = e][j] = IF j = i THEN e ELSE m.events[j]
    BY <2>1, <2>2, <2>4, ExceptSeq
  <2>7. /\ Append(m.attaches, a) \in Seq(Attached)
        /\ Len(Append(m.attaches, a)) = Len(m.attaches) + 1
        /\ \A k \in 1 .. Len(m.attaches) : Append(m.attaches, a)[k] = m.attaches[k]
        /\ Append(m.attaches, a)[Len(m.attaches) + 1] = a
    BY <2>1, <2>5, AppendProperties
  <2>8. /\ w.events = [m.events EXCEPT ![i] = e]
        /\ w.attaches = Append(m.attaches, a) /\ w.nextSeq = m.nextSeq
    BY <2>3
  <2>9. w \in Memory
    BY <2>1, <2>3, <2>6, <2>7 DEF Memory
  <2> HIDE DEF w
  <2>10. /\ w \in Memory
         /\ m.events[i].content = NoOutput
         /\ w.events[i] = e
         /\ \A j \in 1 .. Len(m.events) : j # i => w.events[j] = m.events[j]
         /\ Len(w.events) = Len(m.events)
         /\ Len(w.attaches) = Len(m.attaches) + 1
         /\ w.attaches[Len(m.attaches) + 1] = a
         /\ \A k \in 1 .. Len(m.attaches) : w.attaches[k] = m.attaches[k]
         /\ w.nextSeq = m.nextSeq
    BY <2>2, <2>6, <2>7, <2>8, <2>9
  <2> QED
    BY <2>2, <2>10 DEF w, e, a
<1> QED
  BY <1>1, <1>2

LEMMA NewConversationType == NewConversation \in Memory /\ Loadable(NewConversation)
  BY DEF NewConversation, Memory, Loadable

\* An event numbered by the counter keeps the numbers in order.
LEMMA WithEventLoadable ==
    ASSUME NEW m \in Memory, Loadable(m), NEW b \in Bucket, NEW t \in Tool
    PROVE  Loadable(WithEvent(m, b, t, m.nextSeq, NoOutput))
<1> DEFINE n == Len(m.events)
           w == WithEvent(m, b, t, m.nextSeq, NoOutput)
           e == [bucket |-> b, tool |-> t, seq |-> m.nextSeq, content |-> NoOutput]
<1>1. /\ n \in Nat /\ m.nextSeq \in Nat
      /\ DOMAIN m.events = 1 .. n /\ DOMAIN m.attaches = 1 .. Len(m.attaches)
      /\ \A i \in 1 .. n : m.events[i] \in Event
      /\ m.events \in Seq(Event)
  BY MemoryType
<1>2. /\ w \in Memory
      /\ Len(w.events) = n + 1
      /\ \A i \in 1 .. n : w.events[i] = m.events[i]
      /\ w.events[n + 1] = e
      /\ w.attaches = m.attaches
      /\ w.nextSeq = m.nextSeq + 1
  BY <1>1, WithEventIs
<1>3. DOMAIN w.events = 1 .. n + 1 /\ w.events # <<>>
  BY <1>1, <1>2, MemoryType
<1>4. e.seq = m.nextSeq
  OBVIOUS
<1> HIDE DEF w, e
<1>5. \A i \in 1 .. n : m.events[i].seq \in Nat
  BY <1>1 DEF Event
<1>6. ASSUME NEW i \in 1 .. n
      PROVE  m.events[i].seq < m.nextSeq
  <2>1. m.events # <<>> /\ n \in 1 .. n
    BY <1>1
  <2>2. m.nextSeq = m.events[n].seq + 1
    BY <2>1 DEF Loadable
  <2>3. i = n \/ m.events[i].seq < m.events[n].seq
    <3>1. i = n \/ i < n
      BY <1>1
    <3> QED
      BY <1>1, <2>1, <3>1 DEF Loadable
  <2> QED
    BY <1>1, <1>5, <2>1, <2>2, <2>3
<1>7. ASSUME NEW i \in 1 .. n + 1, NEW j \in 1 .. n + 1, i < j
      PROVE  w.events[i].seq < w.events[j].seq
  <2>1. i \in 1 .. n
    BY <1>1, <1>7
  <2>2. CASE j \in 1 .. n
    BY <1>1, <1>2, <1>7, <2>1, <2>2 DEF Loadable
  <2>3. CASE j = n + 1
    BY <1>2, <1>4, <1>6, <2>1, <2>3
  <2> QED
    BY <1>1, <2>2, <2>3
<1>8. w.nextSeq = w.events[Len(w.events)].seq + 1
  BY <1>2, <1>4
<1>9. ASSUME NEW k \in DOMAIN m.attaches
      PROVE  /\ m.attaches[k].at \in 1 .. n + 1
             /\ w.events[m.attaches[k].at].content = m.attaches[k].content
  <2>1. m.attaches[k].at \in 1 .. n /\ m.events[m.attaches[k].at].content = m.attaches[k].content
    BY <1>1 DEF Loadable
  <2> QED
    BY <1>1, <1>2, <2>1
<1>10. Loadable(w)
  BY <1>2, <1>3, <1>7, <1>8, <1>9 DEF Loadable
<1> QED
  BY <1>10 DEF w

\* An event that waits for an output has none attached: the next is its own.
LEMMA ApplyAttachLoadable ==
    ASSUME NEW m \in Memory, Loadable(m), NEW b \in Bucket, NEW t \in Tool, NEW o \in Output
    PROVE  ApplyAttach(m, b, t, o) \in Memory /\ Loadable(ApplyAttach(m, b, t, o))
<1> DEFINE w == ApplyAttach(m, b, t, o)
           n == Len(m.events)
           l == Len(m.attaches)
<1>1. /\ n \in Nat /\ l \in Nat
      /\ DOMAIN m.events = 1 .. n /\ DOMAIN m.attaches = 1 .. l
      /\ \A i \in 1 .. n : m.events[i] \in Event
      /\ \A k \in 1 .. l : m.attaches[k] \in Attached
      /\ m.events \in Seq(Event)
  BY MemoryType
<1>2. CASE w = m
  BY <1>2
<1>3. CASE w # m
  <2>1. PICK i \in 1 .. n :
           /\ w \in Memory
           /\ m.events[i].content = NoOutput
           /\ w.events[i] = [m.events[i] EXCEPT !.content = o]
           /\ \A j \in 1 .. n : j # i => w.events[j] = m.events[j]
           /\ Len(w.events) = n
           /\ Len(w.attaches) = l + 1
           /\ w.attaches[l + 1] = [at |-> i, content |-> o]
           /\ \A k \in 1 .. l : w.attaches[k] = m.attaches[k]
           /\ w.nextSeq = m.nextSeq
    BY <1>3, ApplyAttachIs
  <2>2. DOMAIN w.events = 1 .. n /\ DOMAIN w.attaches = 1 .. l + 1
    BY <2>1, MemoryType
  <2>3. m.events[i] \in Event
    BY <1>1
  <2>4. w.events[i].seq = m.events[i].seq /\ w.events[i].content = o
    BY <2>1, <2>3 DEF Event
  <2>5. w.attaches[l + 1].at = i /\ w.attaches[l + 1].content = o
    BY <2>1
  <2> HIDE DEF w
  <2>6. \A j \in 1 .. n : w.events[j].seq = m.events[j].seq
    BY <2>1, <2>4
  <2>7. \A j, k \in 1 .. n : j < k => w.events[j].seq < w.events[k].seq
    BY <1>1, <2>6 DEF Loadable
  <2>8. w.nextSeq = IF w.events = <<>> THEN 0 ELSE w.events[Len(w.events)].seq + 1
    <3>1. m.events # <<>> /\ n \in 1 .. n
      BY <1>1
    <3>2. w.events # <<>>
      BY <2>1, <2>2, <3>1
    <3>3. m.nextSeq = m.events[n].seq + 1
      BY <3>1 DEF Loadable
    <3> QED
      BY <2>1, <2>6, <3>1, <3>2, <3>3
  <2>9. ASSUME NEW k \in 1 .. l + 1
        PROVE  /\ w.attaches[k].at \in 1 .. n
               /\ w.events[w.attaches[k].at].content = w.attaches[k].content
    <3>1. CASE k \in 1 .. l
      <4>1. /\ m.attaches[k].at \in 1 .. n
            /\ m.events[m.attaches[k].at].content = m.attaches[k].content
        BY <1>1, <3>1 DEF Loadable
      <4>2. m.attaches[k].content # NoOutput
        BY <1>1, <3>1, NoOutputAssumption DEF Attached
      <4>3. m.attaches[k].at # i
        BY <2>1, <4>1, <4>2
      <4> QED
        BY <2>1, <3>1, <4>1, <4>3
    <3>2. CASE k = l + 1
      BY <2>4, <2>5, <3>2
    <3> QED
      BY <1>1, <3>1, <3>2
  <2>10. Loadable(w)
    BY <2>2, <2>7, <2>8, <2>9 DEF Loadable
  <2> QED
    BY <2>1, <2>10 DEF w
<1> QED
  BY <1>2, <1>3

\* A call stored after its revision leaves a kept guard kept.
LEMMA KeptByEvent ==
    ASSUME NEW m \in Memory, NEW l \in Live, NEW b, Kept(m, b, l),
           NEW c \in Bucket, NEW t \in Tool, NEW n \in Nat
    PROVE  Kept(WithEvent(m, c, t, n, NoOutput), b, l)
<1> DEFINE w == WithEvent(m, c, t, n, NoOutput)
<1>1. /\ Len(m.events) \in Nat
      /\ Len(w.events) = Len(m.events) + 1
      /\ \A i \in 1 .. Len(m.events) : w.events[i] = m.events[i]
      /\ w.attaches = m.attaches
  BY MemoryType, WithEventIs
<1>2. l.rev.events \in Nat
  BY LiveType
<1> HIDE DEF w
<1>3. \A i \in 1 .. l.rev.events : EventBy(w, i, l.rev) = EventBy(m, i, l.rev)
  <2>1. l.rev.events <= Len(m.events)
    BY DEF Kept
  <2>2. \A i \in 1 .. l.rev.events : w.events[i] = m.events[i]
    BY <1>1, <1>2, <2>1
  <2> QED
    BY <1>1, <2>2 DEF EventBy, OutputBy
<1>4. EventsBy(w, l.rev) = EventsBy(m, l.rev)
  BY <1>3 DEF EventsBy
<1>5. Kept(w, b, l)
  BY <1>1, <1>2, <1>4 DEF Kept
<1> QED
  BY <1>5 DEF w

\* So does an output attached after it: the event waited for it.
LEMMA KeptByOutput ==
    ASSUME NEW m \in Memory, NEW l \in Live, NEW b, Kept(m, b, l),
           NEW c \in Bucket, NEW t \in Tool, NEW o \in Output
    PROVE  Kept(ApplyAttach(m, c, t, o), b, l)
<1> DEFINE w == ApplyAttach(m, c, t, o)
           x == Len(m.attaches)
<1>1. CASE w = m
  BY <1>1
<1>2. CASE w # m
  <2>1. PICK i \in 1 .. Len(m.events) :
           /\ m.events[i].content = NoOutput
           /\ w.events[i] = [m.events[i] EXCEPT !.content = o]
           /\ \A j \in 1 .. Len(m.events) : j # i => w.events[j] = m.events[j]
           /\ Len(w.events) = Len(m.events)
           /\ Len(w.attaches) = x + 1
           /\ w.attaches[x + 1] = [at |-> i, content |-> o]
           /\ \A k \in 1 .. x : w.attaches[k] = m.attaches[k]
    BY <1>2, ApplyAttachIs
  <2>2. /\ x \in Nat /\ Len(m.events) \in Nat /\ l.rev.events \in Nat /\ l.rev.attaches \in Nat
        /\ m.events[i] \in Event
    BY MemoryType, LiveType
  <2>3. l.rev.events <= Len(m.events) /\ l.rev.attaches <= x
    BY DEF Kept
  <2>4. w.events[i].seq = m.events[i].seq /\ w.events[i].tool = m.events[i].tool
    BY <2>1, <2>2 DEF Event
  <2>5. w.attaches[x + 1].at = i
    BY <2>1
  <2> HIDE DEF w, x
  <2>6. ASSUME NEW j \in 1 .. l.rev.events
        PROVE  EventBy(w, j, l.rev) = EventBy(m, j, l.rev)
    <3>1. w.events[j].seq = m.events[j].seq /\ w.events[j].tool = m.events[j].tool
      <4>1. j \in 1 .. Len(m.events)
        BY <2>2, <2>3
      <4>2. CASE j = i
        BY <2>4, <4>2
      <4>3. CASE j # i
        <5>1. w.events[j] = m.events[j]
          BY <2>1, <4>1, <4>3
        <5> QED
          BY <5>1
      <4> QED
        BY <4>2, <4>3
    <3>2. OutputBy(w, j, l.rev) = OutputBy(m, j, l.rev)
      <4>1. CASE j = i
        <5>1. x + 1 \in l.rev.attaches + 1 .. Len(w.attaches)
          BY <2>1, <2>2, <2>3
        <5>2. OutputBy(w, j, l.rev) = NoOutput
          BY <2>5, <4>1, <5>1 DEF OutputBy
        <5>3. OutputBy(m, j, l.rev) = NoOutput
          BY <2>1, <4>1 DEF OutputBy
        <5> QED
          BY <5>2, <5>3
      <4>2. CASE j # i
        <5>1. w.events[j] = m.events[j]
          BY <2>1, <2>2, <2>3, <4>2
        <5>2. \A k \in l.rev.attaches + 1 .. x + 1 :
                 k = x + 1 \/ (k \in l.rev.attaches + 1 .. x /\ w.attaches[k] = m.attaches[k])
          BY <2>1, <2>2
        <5>3. \A k \in l.rev.attaches + 1 .. x :
                 k \in l.rev.attaches + 1 .. x + 1 /\ w.attaches[k] = m.attaches[k]
          BY <2>1, <2>2
        <5>4. (\E k \in l.rev.attaches + 1 .. x + 1 : w.attaches[k].at = j)
                 <=> (\E k \in l.rev.attaches + 1 .. x : m.attaches[k].at = j)
          BY <2>5, <4>2, <5>2, <5>3
        <5> QED
          BY <2>1, <5>1, <5>4 DEF OutputBy, x
      <4> QED
        BY <4>1, <4>2
    <3> QED
      BY <3>1, <3>2 DEF EventBy
  <2>7. EventsBy(w, l.rev) = EventsBy(m, l.rev)
    BY <2>6 DEF EventsBy
  <2>8. l.rev.events <= Len(w.events) /\ l.rev.attaches <= Len(w.attaches)
    BY <2>1, <2>2, <2>3
  <2>9. Kept(w, b, l)
    BY <2>7, <2>8 DEF Kept
  <2> QED
    BY <2>9 DEF w
<1> QED
  BY <1>1, <1>2

\* A guard that holds the whole history is kept, synced to it.
LEMMA KeptNow ==
    ASSUME NEW m \in Memory, NEW b, NEW g \in Guard, WellGrounded(b, g),
           g.trace = Records(m), NEW i \in Nat
    PROVE  LET l == [guard |-> g,
                     rev |-> [gen |-> i, events |-> Len(m.events), attaches |-> Len(m.attaches)],
                     positions |-> Identity(Len(m.events))]
           IN l \in Live /\ Kept(m, b, l)
<1> DEFINE r == [gen |-> i, events |-> Len(m.events), attaches |-> Len(m.attaches)]
           l == [guard |-> g, rev |-> r, positions |-> Identity(Len(m.events))]
<1>1. Len(m.events) \in Nat /\ Len(m.attaches) \in Nat
  BY MemoryType
<1>2. r \in Revision
  BY <1>1 DEF Revision
<1>3. Identity(Len(m.events)) \in Positions
  BY <1>1, IdentityType
<1>4. l \in Live
  BY <1>2, <1>3 DEF Live
<1>5. r.events = Len(m.events) /\ r.attaches = Len(m.attaches)
  OBVIOUS
<1>6. l.guard = g /\ l.rev = r /\ l.positions = Identity(Len(m.events))
  OBVIOUS
<1> HIDE DEF l, r
<1>7. EventsBy(m, r) = Records(m)
  <2>1. \A j \in 1 .. Len(m.events) : OutputBy(m, j, r) = m.events[j].content
    BY <1>1, <1>5 DEF OutputBy
  <2>2. \A j \in 1 .. Len(m.events) : EventBy(m, j, r) = RecordOf(m.events[j])
    BY <2>1 DEF EventBy, RecordOf
  <2>3. /\ EventsBy(m, r) \in Seq(Held) /\ Len(EventsBy(m, r)) = Len(m.events)
        /\ \A j \in 1 .. Len(m.events) : EventsBy(m, r)[j] = EventBy(m, j, r)
    BY <1>1, <1>2, <1>5, EventsByType
  <2>4. /\ Records(m) \in Seq(Held) /\ Len(Records(m)) = Len(m.events)
        /\ \A j \in 1 .. Len(m.events) : Records(m)[j] = RecordOf(m.events[j])
    BY RecordsType
  <2> QED
    BY <2>2, <2>3, <2>4, SeqEqual
<1>8. Kept(m, b, l)
  BY <1>1, <1>5, <1>6, <1>7 DEF Kept
<1>9. l \in Live /\ Kept(m, b, l)
  BY <1>4, <1>8
<1> QED
  BY <1>9 DEF l, r

----------------------------------------------------------------------------
(* _sync of a kept guard: it succeeds, and holds what a new guard would.   *)

StoreInv == Loadable(conv) /\ (~known => conv = NewConversation)

LEMMA KeptPlaced ==
    ASSUME conv \in Memory, NEW b, NEW l \in Live, Kept(conv, b, l)
    PROVE  Placed(l) = Identity(Len(conv.events))
<1> DEFINE r == l.rev.events
           n == Len(conv.events)
<1>1. r \in Nat /\ n \in Nat /\ r <= n
  BY MemoryType, LiveType DEF Kept
<1>2. l.positions = Identity(r) /\ DOMAIN l.positions = 1 .. r
  BY DEF Kept, Identity
<1>3. Len(l.guard.trace) = r
  BY <1>1, LiveType, EventsByType DEF Kept
<1>4. NewEvents(l.rev) = r + 1 .. n
  BY DEF NewEvents
<1>5. DOMAIN l.positions \cup NewEvents(l.rev) = 1 .. n
  BY <1>1, <1>2, <1>4
<1>6. ASSUME NEW i \in 1 .. n
      PROVE  (IF i \in NewEvents(l.rev) THEN Len(l.guard.trace) + i - l.rev.events
                                        ELSE l.positions[i]) = i
  <2>1. CASE i \in r + 1 .. n
    BY <1>1, <1>3, <1>4, <2>1
  <2>2. CASE i \notin r + 1 .. n
    <3>1. i \in 1 .. r
      BY <1>1, <2>2
    <3> QED
      BY <1>2, <1>4, <2>2, <3>1 DEF Identity
  <2> QED
    BY <2>1, <2>2
<1> QED
  BY <1>5, <1>6 DEF Placed, Identity

LEMMA KeptLengthened ==
    ASSUME conv \in Memory, NEW b, NEW l \in Live, Kept(conv, b, l)
    PROVE  /\ Lengthened(l) \in Seq(Held)
           /\ Len(Lengthened(l)) = Len(conv.events)
           /\ \A i \in 1 .. Len(conv.events) :
                 Lengthened(l)[i] = IF i <= l.rev.events THEN EventBy(conv, i, l.rev)
                                                         ELSE RecordOf(conv.events[i])
<1> DEFINE r == l.rev.events
           n == Len(conv.events)
           x == l.guard.trace
           y == SubSeq(Records(conv), r + 1, n)
<1>1. r \in Nat /\ n \in Nat /\ r <= n /\ l.rev \in Revision
  BY MemoryType, LiveType DEF Kept
<1>2. /\ x \in Seq(Held) /\ Len(x) = r
      /\ \A i \in 1 .. r : x[i] = EventBy(conv, i, l.rev)
  BY <1>1, EventsByType DEF Kept
<1>3. /\ Records(conv) \in Seq(Held) /\ Len(Records(conv)) = n
      /\ \A i \in 1 .. n : Records(conv)[i] = RecordOf(conv.events[i])
  BY RecordsType
<1>4. /\ y \in Seq(Held) /\ Len(y) = n - r
      /\ \A i \in 1 .. n - r : y[i] = Records(conv)[r + i]
  <2> DEFINE z == Records(conv)
  <2>1. z \in Seq(Held) /\ Len(z) = n
    BY <1>3
  <2> HIDE DEF z
  <2>2. /\ SubSeq(z, r + 1, Len(z)) \in Seq(Held)
        /\ Len(SubSeq(z, r + 1, Len(z))) = Len(z) - r
        /\ \A i \in 1 .. Len(z) - r : SubSeq(z, r + 1, Len(z))[i] = z[r + i]
    BY <1>1, <2>1, BackOfSeq
  <2> QED
    BY <2>1, <2>2 DEF z
<1>5. Lengthened(l) = x \o y
  BY DEF Lengthened
<1> HIDE DEF x, y
<1>6. /\ x \o y \in Seq(Held)
      /\ Len(x \o y) = Len(x) + Len(y)
      /\ \A i \in 1 .. Len(x) + Len(y) :
            (x \o y)[i] = IF i <= Len(x) THEN x[i] ELSE y[i - Len(x)]
  BY <1>2, <1>4, ConcatProperties
<1> HIDE DEF r, n
<1>7. Len(x) + Len(y) = n
  BY <1>1, <1>2, <1>4
<1>8. ASSUME NEW i \in 1 .. n
      PROVE  (x \o y)[i] = IF i <= r THEN EventBy(conv, i, l.rev) ELSE RecordOf(conv.events[i])
  <2>0. (x \o y)[i] = IF i <= r THEN x[i] ELSE y[i - r]
    BY <1>2, <1>6, <1>7
  <2>1. CASE i <= r
    <3>1. i \in 1 .. r
      BY <1>1, <2>1
    <3> QED
      BY <1>2, <2>0, <2>1, <3>1
  <2>2. CASE ~(i <= r)
    <3>1. i - r \in 1 .. n - r /\ r + (i - r) = i
      BY <1>1, <2>2
    <3>2. y[i - r] = Records(conv)[i]
      BY <1>4, <3>1
    <3> QED
      BY <1>3, <2>0, <2>2, <3>2
  <2> QED
    BY <2>1, <2>2
<1> QED
  BY <1>5, <1>6, <1>7, <1>8 DEF r, n

\* None of _sync's tests fails.
LEMMA KeptCanSync ==
    ASSUME conv \in Memory, Loadable(conv), Found,
           NEW b, NEW l \in Live, l.rev.gen = gen, Kept(conv, b, l)
    PROVE  CanSync(l)
<1> DEFINE r == l.rev.events
           n == Len(conv.events)
<1>1. /\ r \in Nat /\ n \in Nat /\ r <= n /\ l.rev.attaches \in Nat
      /\ Len(conv.attaches) \in Nat
      /\ DOMAIN conv.events = 1 .. n /\ DOMAIN conv.attaches = 1 .. Len(conv.attaches)
      /\ \A i \in 1 .. n : conv.events[i] \in Event
  BY MemoryType, LiveType DEF Kept
<1>2. IsPast(l.rev)
  BY DEF IsPast, Kept
<1>3. Len(l.guard.trace) = r
  BY <1>1, LiveType, EventsByType DEF Kept
<1>4. Len(l.guard.trace) = Len(l.positions)
  BY <1>1, <1>3, IdentityType DEF Kept
<1>5. ASSUME NEW i \in r + 1 .. n, i > 1
      PROVE  Lengthened(l)[i - 1].ts <= Lengthened(l)[i].ts
  <2>1. i \in 1 .. n /\ i - 1 \in 1 .. n /\ i - 1 < i /\ ~(i <= r)
    BY <1>1, <1>5
  <2>2. \A j \in 1 .. n : Lengthened(l)[j].ts = conv.events[j].seq
    <3>1. \A j \in 1 .. n :
             Lengthened(l)[j] = IF j <= r THEN EventBy(conv, j, l.rev)
                                          ELSE RecordOf(conv.events[j])
      BY KeptLengthened
    <3>2. \A j \in 1 .. n : /\ EventBy(conv, j, l.rev).ts = conv.events[j].seq
                            /\ RecordOf(conv.events[j]).ts = conv.events[j].seq
      BY DEF EventBy, RecordOf
    <3> QED
      BY <3>1, <3>2
  <2>3. conv.events[i - 1].seq < conv.events[i].seq
    BY <1>1, <2>1 DEF Loadable
  <2>4. conv.events[i - 1].seq \in Nat /\ conv.events[i].seq \in Nat
    BY <1>1, <2>1 DEF Event
  <2> QED
    BY <2>1, <2>2, <2>3, <2>4
<1>6. InOrder(Lengthened(l), Len(l.guard.trace))
  <2>1. Len(Lengthened(l)) = n
    BY KeptLengthened
  <2> QED
    BY <1>3, <1>5, <2>1 DEF InOrder
<1>7. \A k \in NewAttaches(l.rev) : conv.attaches[k].at \in DOMAIN Placed(l)
  <2>1. Placed(l) = Identity(n)
    BY KeptPlaced
  <2>2. \A k \in NewAttaches(l.rev) : k \in DOMAIN conv.attaches
    BY <1>1 DEF NewAttaches
  <2>3. DOMAIN Identity(n) = DOMAIN conv.events
    BY <1>1 DEF Identity
  <2> QED
    BY <2>1, <2>2, <2>3 DEF Loadable
<1> QED
  BY <1>2, <1>4, <1>6, <1>7 DEF CanSync

\* A set of numbers up to n has a greatest.
LEMMA GreatestOf ==
    ASSUME NEW n \in Nat, NEW H, H \subseteq 0 .. n, H # {}
    PROVE  \E k \in H : \A j \in H : j <= k
<1> DEFINE Left == {x \in 0 .. n : n - x \in H}
           Less == OpToRel(<, Nat)
<1>1. \A i, j \in Nat : <<i, j>> \in Less <=> i < j
  BY DEF OpToRel
<1>2. IsWellFoundedOn(Less, Nat)
  BY NatLessThanWellFounded
<1>3. \A k \in H : k \in 0 .. n /\ n - k \in 0 .. n /\ n - (n - k) = k
  OBVIOUS
<1>4. \A k \in H : n - k \in Left
  BY <1>3
<1>5. Left \subseteq Nat /\ Left # {}
  <2>1. Left \subseteq 0 .. n
    OBVIOUS
  <2>2. 0 .. n \subseteq Nat
    OBVIOUS
  <2> HIDE DEF Left
  <2> QED
    BY <1>4, <2>1, <2>2
<1>6. \A x \in Left : n - x \in H /\ x \in 0 .. n
  OBVIOUS
<1> HIDE DEF Less, Left
<1>7. PICK x \in Left : \A m \in Left : ~(<<m, x>> \in Less)
  BY <1>2, <1>5, WFMin, Zenon
<1>8. PICK k \in H : x = n - k
  BY <1>6
<1>9. ASSUME NEW j \in H
      PROVE  j <= k
  <2>1. n - j \in Left /\ n - j \in Nat /\ x \in Nat
    BY <1>3, <1>4, <1>5
  <2>2. ~(n - j < x)
    BY <1>1, <1>7, <2>1
  <2>3. j \in Int /\ k \in Int
    OBVIOUS
  <2> QED
    BY <1>3, <1>8, <2>2, <2>3
<1> QED
  BY <1>9

\* The new outputs on an event.
OutputsOn(l, i) == {k \in NewAttaches(l.rev) : conv.attaches[k].at = i}

LEMMA KeptSynced ==
    ASSUME conv \in Memory, Loadable(conv),
           NEW b, NEW l \in Live, Kept(conv, b, l)
    PROVE  WithOutputs(Lengthened(l), l.rev, Placed(l)) = Records(conv)
<1> DEFINE r == l.rev.events
           n == Len(conv.events)
           a == Len(conv.attaches)
           s == Lengthened(l)
           w == WithOutputs(s, l.rev, Placed(l))
           Out(H) == conv.attaches[CHOOSE k \in H : \A j \in H : j <= k].content
<1>1. /\ r \in Nat /\ n \in Nat /\ r <= n /\ l.rev.attaches \in Nat /\ a \in Nat
      /\ DOMAIN conv.events = 1 .. n /\ DOMAIN conv.attaches = 1 .. a
      /\ \A i \in 1 .. n : conv.events[i] \in Event
  BY MemoryType, LiveType DEF Kept
<1>2. /\ s \in Seq(Held) /\ Len(s) = n
      /\ \A i \in 1 .. n : s[i] = IF i <= r THEN EventBy(conv, i, l.rev)
                                           ELSE RecordOf(conv.events[i])
  BY KeptLengthened
<1>3. \A k \in NewAttaches(l.rev) :
         k \in 1 .. a /\ conv.attaches[k].at \in 1 .. n
         /\ conv.events[conv.attaches[k].at].content = conv.attaches[k].content
  BY <1>1 DEF NewAttaches, Loadable
<1>4. Placed(l) = Identity(n)
  BY KeptPlaced
<1>5. \A k \in NewAttaches(l.rev) : Placed(l)[conv.attaches[k].at] = conv.attaches[k].at
  BY <1>1, <1>3, <1>4, IdentityType
<1>6. \A i : {k \in NewAttaches(l.rev) : Placed(l)[conv.attaches[k].at] = i} = OutputsOn(l, i)
  BY <1>5 DEF OutputsOn
<1> HIDE DEF s
<1>7. DOMAIN s = 1 .. n
  BY <1>1, <1>2
<1>8. w = [i \in 1 .. n |-> IF OutputsOn(l, i) = {} THEN s[i]
                            ELSE [s[i] EXCEPT !.content = Out(OutputsOn(l, i))]]
  <2> DEFINE Put(i) == {k \in NewAttaches(l.rev) : Placed(l)[conv.attaches[k].at] = i}
             With(i, H) == IF H = {} THEN s[i] ELSE [s[i] EXCEPT !.content = Out(H)]
  <2>1. w = [i \in 1 .. n |-> With(i, Put(i))]
    BY <1>7, Zenon DEF WithOutputs
  <2>2. \A i : Put(i) = OutputsOn(l, i)
    BY <1>6
  <2> HIDE DEF w, Put, With
  <2>3. w = [i \in 1 .. n |-> With(i, OutputsOn(l, i))]
    BY <2>1, <2>2
  <2> QED
    BY <2>3 DEF With
<1>9. Records(conv) = [i \in 1 .. n |-> RecordOf(conv.events[i])]
  BY <1>1 DEF Records, RecordOf
<1> HIDE DEF w, n, a, r
<1>10. ASSUME NEW i \in 1 .. n
       PROVE  (IF OutputsOn(l, i) = {} THEN s[i]
               ELSE [s[i] EXCEPT !.content = Out(OutputsOn(l, i))]) = RecordOf(conv.events[i])
  <2>1. s[i] = EventBy(conv, i, l.rev) \/ s[i] = RecordOf(conv.events[i])
    BY <1>2
  <2>2. CASE OutputsOn(l, i) = {}
    <3>1. OutputBy(conv, i, l.rev) = conv.events[i].content
      BY <2>2 DEF OutputBy, OutputsOn, NewAttaches
    <3>2. EventBy(conv, i, l.rev) = RecordOf(conv.events[i])
      BY <3>1 DEF EventBy, RecordOf
    <3> QED
      BY <2>1, <2>2, <3>2
  <2>3. CASE OutputsOn(l, i) # {}
    <3> DEFINE H == OutputsOn(l, i)
    <3>1. H \subseteq 0 .. a /\ H # {} /\ H \subseteq NewAttaches(l.rev)
          /\ \A k \in H : conv.attaches[k].at = i
      BY <1>1, <1>3, <2>3 DEF OutputsOn
    <3> HIDE DEF H
    <3>2. \E k \in H : \A j \in H : j <= k
      BY <1>1, <3>1, GreatestOf
    <3>3. (CHOOSE k \in H : \A j \in H : j <= k) \in H
      BY <3>2
    <3>4. Out(H) = conv.events[i].content
      BY <1>3, <3>1, <3>3
    <3>5. [s[i] EXCEPT !.content = conv.events[i].content] = RecordOf(conv.events[i])
      BY <2>1 DEF EventBy, RecordOf
    <3> HIDE DEF Out
    <3> QED
      BY <2>3, <3>4, <3>5 DEF H
  <2> QED
    BY <2>2, <2>3
<1>11. w = Records(conv)
  BY <1>8, <1>9, <1>10
<1> QED
  BY <1>11 DEF w, s

LEMMA HereType ==
    ASSUME conv \in Memory, gen \in Nat
    PROVE  /\ Here \in Revision
           /\ Here.gen = gen /\ Here.events = Len(conv.events)
           /\ Here.attaches = Len(conv.attaches)
  BY MemoryType DEF Here, Revision

\* What grounding keeps does not depend on an output, where none is read.
LEMMA MaskPastContent ==
    ASSUME NEW m \in Memory, NEW b, b \notin Reads, NEW rev \in Revision,
           NEW i \in 1 .. Len(m.events)
    PROVE  MaskOne(b, EventBy(m, i, rev)) = MaskOne(b, RecordOf(m.events[i]))
  BY DEF MaskOne, EventBy, RecordOf

LEMMA SyncedIs ==
    ASSUME conv \in Memory, Loadable(conv), gen \in Nat,
           NEW b, NEW l \in Live, Kept(conv, b, l)
    PROVE  /\ Synced(b, l).guard \in Guard
           /\ Synced(b, l).guard.trace = Records(conv)
           /\ WellGrounded(b, Synced(b, l).guard)
           /\ Synced(b, l).rev = Here
           /\ Synced(b, l).positions = Identity(Len(conv.events))
<1> DEFINE r == l.rev.events
           n == Len(conv.events)
           z == Records(conv)
           x == l.guard.trace
           q == l.guard.ground
           p == Regrounded(b, l)
           g == [trace |-> z, ground |-> p]
<1>1. /\ r \in Nat /\ n \in Nat /\ r <= n /\ l.rev.attaches \in Nat /\ l.rev \in Revision
      /\ x \in Seq(Held) /\ q \in Seq(Held)
  BY MemoryType, LiveType DEF Kept
<1>2. /\ z \in Seq(Held) /\ Len(z) = n
      /\ \A i \in 1 .. n : z[i] = RecordOf(conv.events[i])
  BY RecordsType
<1>3. Synced(b, l) = [guard |-> g, rev |-> Here, positions |-> Identity(n)]
  BY KeptSynced, KeptPlaced DEF Synced
<1>4. p \in Seq(Held)
  BY <1>1 DEF Regrounded
<1>5. /\ Len(x) = r /\ \A i \in 1 .. r : x[i] = EventBy(conv, i, l.rev)
  BY <1>1, EventsByType DEF Kept
<1>6. Len(q) \in Nat /\ Len(q) <= r /\ q = Mask(b, SubSeq(x, 1, Len(q)))
  BY <1>1, <1>5 DEF Kept, WellGrounded
<1>7. g.trace = z /\ g.ground = p
  OBVIOUS
<1> HIDE DEF n, z, x, r
<1>8. g \in Guard
  BY <1>2, <1>4 DEF Guard
<1>9. CASE p = <<>>
  <2>1. Len(p) = 0 /\ SubSeq(z, 1, 0) = <<>>
    BY <1>2, <1>9
  <2>2. Mask(b, <<>>) = <<>>
    BY DEF Mask
  <2> HIDE DEF p
  <2>3. g.ground = <<>> /\ Len(g.ground) = 0 /\ g.trace = z
    BY <1>7, <1>9, <2>1
  <2> HIDE DEF g
  <2>4. Mask(b, SubSeq(g.trace, 1, Len(g.ground))) = <<>>
    BY <2>1, <2>2, <2>3
  <2>5. Len(g.ground) <= Len(g.trace)
    BY <1>1, <1>2, <2>3
  <2>6. WellGrounded(b, g)
    BY <2>3, <2>4, <2>5 DEF WellGrounded
  <2> QED
    BY <1>3, <1>8, <2>6 DEF z, n, g, p
<1>10. CASE p # <<>>
  <2>1. p = q /\ (b \in Reads => NewAttaches(l.rev) = {})
    BY <1>10 DEF Regrounded
  <2> DEFINE c == Len(q)
             u == SubSeq(z, 1, c)
             v == SubSeq(x, 1, c)
  <2>2. c \in Nat /\ c <= n /\ c <= r /\ c <= Len(x) /\ c <= Len(z)
    BY <1>1, <1>2, <1>5, <1>6
  <2>3. u \in Seq(Held) /\ Len(u) = c /\ \A i \in 1 .. c : u[i] = z[i]
    BY <1>2, <2>2, FrontOfSeq
  <2>4. v \in Seq(Held) /\ Len(v) = c /\ \A i \in 1 .. c : v[i] = x[i]
    BY <1>1, <2>2, FrontOfSeq
  <2>5. q = Mask(b, v)
    BY <1>6
  <2> HIDE DEF c, u, v
  <2>6. ASSUME NEW i \in 1 .. c
        PROVE  MaskOne(b, u[i]) = MaskOne(b, v[i])
    <3>1. i \in 1 .. n /\ i \in 1 .. r
      BY <1>1, <2>2
    <3>2. u[i] = RecordOf(conv.events[i]) /\ v[i] = EventBy(conv, i, l.rev)
      BY <1>2, <1>5, <2>3, <2>4, <3>1
    <3>3. CASE b \in Reads
      <4>1. OutputBy(conv, i, l.rev) = conv.events[i].content
        BY <2>1, <3>3 DEF OutputBy, NewAttaches
      <4>2. u[i] = v[i]
        BY <3>2, <4>1 DEF RecordOf, EventBy
      <4> QED
        BY <4>2
    <3>4. CASE b \notin Reads
      <4>1. i \in 1 .. Len(conv.events)
        BY <3>1 DEF n
      <4> QED
        BY <1>1, <3>2, <3>4, <4>1, MaskPastContent
    <3> QED
      BY <3>3, <3>4
  <2>7. /\ Mask(b, u) \in Seq(Held) /\ Len(Mask(b, u)) = c
        /\ \A i \in 1 .. c : Mask(b, u)[i] = MaskOne(b, u[i])
    <3>1. /\ Mask(b, u) \in Seq(Held) /\ Len(Mask(b, u)) = Len(u)
          /\ \A i \in 1 .. Len(u) : Mask(b, u)[i] = MaskOne(b, u[i])
      BY <2>3, MaskType
    <3> QED
      BY <2>3, <3>1
  <2>8. /\ Mask(b, v) \in Seq(Held) /\ Len(Mask(b, v)) = c
        /\ \A i \in 1 .. c : Mask(b, v)[i] = MaskOne(b, v[i])
    <3>1. /\ Mask(b, v) \in Seq(Held) /\ Len(Mask(b, v)) = Len(v)
          /\ \A i \in 1 .. Len(v) : Mask(b, v)[i] = MaskOne(b, v[i])
      BY <2>4, MaskType
    <3> QED
      BY <2>4, <3>1
  <2>9. Mask(b, u) = Mask(b, v)
    BY <2>6, <2>7, <2>8, SeqEqual
  <2>10. g.ground = Mask(b, SubSeq(g.trace, 1, Len(g.ground))) /\ Len(g.ground) <= Len(g.trace)
    BY <1>7, <2>1, <2>2, <2>5, <2>9 DEF u, c
  <2>11. WellGrounded(b, g)
    BY <2>10 DEF WellGrounded
  <2> QED
    BY <1>3, <1>8, <2>11 DEF z, n
<1> QED
  BY <1>9, <1>10

LEMMA BuiltGuard ==
    ASSUME NEW m \in Memory, NEW b
    PROVE  /\ Built(m) \in Guard /\ WellGrounded(b, Built(m))
           /\ Built(m).trace = Records(m)
<1> DEFINE z == Records(m)
           g == [trace |-> z, ground |-> <<>>]
<1>1. z \in Seq(Held) /\ Len(z) \in Nat
  BY RecordsType, MemoryType
<1>2. g.trace = z /\ g.ground = <<>> /\ Built(m) = g
  BY DEF Built
<1> HIDE DEF z
<1>3. <<>> \in Seq(Held) /\ Len(<<>>) = 0
  OBVIOUS
<1>4. g \in Guard
  BY <1>1, <1>3 DEF Guard
<1>5. Mask(b, SubSeq(z, 1, 0)) = <<>>
  <2>1. SubSeq(z, 1, 0) = <<>>
    BY <1>1
  <2>2. Mask(b, <<>>) = <<>>
    BY DEF Mask
  <2> QED
    BY <2>1, <2>2
<1>6. WellGrounded(b, g)
  BY <1>1, <1>2, <1>3, <1>5 DEF WellGrounded
<1> QED
  BY <1>2, <1>4, <1>6 DEF z

----------------------------------------------------------------------------
(* The inductive invariant.                                                *)

\* An entry of the cache is of no generation to come, and of the one that is
\* there it is kept.  Stated of any store, to be moved from state to state.
EntryIn(m, k, i, b, l) ==
    /\ l.rev.gen <= i
    /\ k /\ l.rev.gen = i => Kept(m, b, l)

CacheInv == \A b \in Bucket : cache[b] # None => EntryIn(conv, known, gen, b, cache[b])

\* The call under way, from the build of its guard to the return.
CallInv ==
    /\ pc \in {"decide", "append", "return", "adopt"} => WellGrounded(call.bucket, call.guard)
    /\ pc = "decide" => call.guard.trace = Records(conv)
    /\ pc = "append" =>
          call.guard.trace = Append(Records(conv), [ts |-> Len(conv.events), tool |-> call.tool,
                                                    content |-> NoOutput])
    /\ pc \in {"return", "adopt"} =>
          (SameEvents(call.guard.trace, Records(conv)) => call.guard.trace = Records(conv))
    /\ pc = "adopt" => call.rev = Here

\* The trace s ends with the call that m stored last; all before it is the
\* history.  Its number in the guard may still be another than the store's.
RecordedIn(m, s) ==
    LET n == Len(m.events)
    IN /\ n > 0
       /\ Len(s) = n
       /\ \A i \in 1 .. n - 1 : s[i] = RecordOf(m.events[i])
       /\ s[n] = [ts |-> n - 1, tool |-> m.events[n].tool, content |-> NoOutput]
       /\ m.events[n].content = NoOutput
       /\ m.events[n].seq = IF n = 1 THEN 0 ELSE m.events[n - 1].seq + 1

\* A reused guard on its way back, if its conversation is still there: the
\* call was stored and is in its trace; only in its trace; or in neither.
Returning(x) ==
    x.rev.gen = gen =>
        /\ x.positions = Identity(x.rev.events)
        /\ x.rev.attaches = Len(conv.attaches)
        /\ \/ call.guard.trace = Records(conv) /\ Len(conv.events) = x.rev.events
           \/ Len(call.guard.trace) = Len(conv.events) + 1 /\ Len(conv.events) = x.rev.events
           \/ RecordedIn(conv, call.guard.trace) /\ Len(conv.events) = x.rev.events + 1

BusyInv ==
    busy # None =>
        /\ pc \in {"decide", "append", "return"}
        /\ pc \in {"decide", "append"} =>
              busy.rev = Here /\ busy.positions = Identity(Len(conv.events))
        /\ pc = "return" => busy.rev.gen <= gen /\ Returning(busy)

IInv == TypeOK /\ StoreInv /\ CacheInv /\ CallInv /\ BusyInv

----------------------------------------------------------------------------
(* What a step may do to the store.                                        *)

LEMMA CurrentType ==
    ASSUME TypeOK, StoreInv
    PROVE  /\ Current \in Memory /\ Loadable(Current)
           /\ Access => Current = conv'
  BY NewConversationType DEF Current, TypeOK, StoreInv, Access, Found, Expired

StoreNow ==
    /\ conv' \in Memory
    /\ known' \in BOOLEAN
    /\ idle' \in BOOLEAN
    /\ gen' \in Nat
    /\ StoreInv'

\* An entry of any bucket keeps its promise.
EntriesStay ==
    \A b \in Bucket, l \in Live :
        EntryIn(conv, known, gen, b, l) => EntryIn(conv', known', gen', b, l)

LEMMA StoreSame ==
    ASSUME TypeOK, StoreInv, UNCHANGED <<conv, known, gen>>, idle' \in BOOLEAN
    PROVE  StoreNow /\ EntriesStay
  BY DEF StoreNow, EntriesStay, TypeOK, StoreInv

LEMMA StoreAccess ==
    ASSUME TypeOK, StoreInv, Access
    PROVE  StoreNow /\ EntriesStay
<1>1. /\ conv \in Memory /\ known \in BOOLEAN /\ idle \in BOOLEAN /\ gen \in Nat
      /\ Loadable(conv) /\ (~known => conv = NewConversation)
  BY DEF TypeOK, StoreInv
<1>2. CASE Expired
  <2>1. conv' = NewConversation /\ known' = FALSE /\ idle' = FALSE /\ gen' = gen
    BY <1>1, <1>2 DEF Access, Expired, Found
  <2> QED
    BY <1>1, <2>1, NewConversationType DEF StoreNow, StoreInv, EntriesStay, EntryIn
<1>3. CASE ~Expired
  <2>1. conv' = conv /\ known' = known /\ idle' = idle /\ gen' = gen
    BY <1>1, <1>3 DEF Access, Expired, Found
  <2> QED
    BY <1>1, <2>1 DEF StoreNow, StoreInv, EntriesStay
<1> QED
  BY <1>2, <1>3

LEMMA GenGrows ==
    ASSUME NEW i \in Nat, NEW m, NEW w, NEW k, NEW h, NEW b, NEW l \in Live,
           EntryIn(m, k, i, b, l)
    PROVE  EntryIn(w, h, i + 1, b, l)
<1>1. l.rev.gen \in Nat
  BY LiveType
<1> QED
  BY <1>1 DEF EntryIn

LEMMA StoreWritten ==
    ASSUME TypeOK, StoreInv, NEW c \in Bucket, NEW t \in Tool,
           NEW m \in {WithEvent(Current, c, t, Current.nextSeq, NoOutput), Current},
           Written(m)
    PROVE  StoreNow /\ EntriesStay
<1>1. /\ conv \in Memory /\ known \in BOOLEAN /\ idle \in BOOLEAN /\ gen \in Nat
      /\ Loadable(conv)
  BY DEF TypeOK, StoreInv
<1>2. Current \in Memory /\ Loadable(Current) /\ Current.nextSeq \in Nat
  BY CurrentType, MemoryType
<1>3. m \in Memory /\ Loadable(m)
  BY <1>2, WithEventIs, WithEventLoadable
<1>4. conv' = m /\ known' = TRUE /\ idle' = FALSE /\ gen' = IF Found THEN gen ELSE gen + 1
  BY DEF Written
<1>5. StoreNow
  <2>1. conv' \in Memory /\ Loadable(conv') /\ known' = TRUE
    BY <1>3, <1>4
  <2>2. gen' \in Nat
    <3>1. gen + 1 \in Nat
      BY <1>1
    <3> QED
      BY <1>1, <1>4, <3>1
  <2>3. idle' \in BOOLEAN /\ known' \in BOOLEAN
    BY <1>4, Zenon
  <2> QED
    BY <2>1, <2>2, <2>3 DEF StoreNow, StoreInv
<1>6. CASE Found
  <2>1. Current = conv /\ known /\ gen' = gen
    BY <1>4, <1>6 DEF Current, Found
  <2>2. ASSUME NEW b \in Bucket, NEW l \in Live, EntryIn(conv, known, gen, b, l)
        PROVE  EntryIn(conv', known', gen', b, l)
    <3>1. l.rev.gen <= gen'
      BY <2>1, <2>2 DEF EntryIn
    <3>2. ASSUME l.rev.gen = gen
          PROVE  Kept(m, b, l)
      <4>1. Kept(conv, b, l)
        BY <2>1, <2>2, <3>2 DEF EntryIn
      <4> QED
        BY <1>1, <1>2, <2>1, <4>1, KeptByEvent
    <3> QED
      BY <1>4, <2>1, <3>1, <3>2 DEF EntryIn
  <2> QED
    BY <1>5, <2>2 DEF EntriesStay
<1>7. CASE ~Found
  BY <1>1, <1>4, <1>5, <1>7, GenGrows DEF EntriesStay
<1> QED
  BY <1>6, <1>7

LEMMA StoreAttached ==
    ASSUME TypeOK, StoreInv, Found, NEW c \in Bucket, NEW t \in Tool, NEW o \in Output,
           conv' = ApplyAttach(conv, c, t, o), UNCHANGED <<known, idle, gen>>
    PROVE  StoreNow /\ EntriesStay
<1>1. /\ conv \in Memory /\ known \in BOOLEAN /\ idle \in BOOLEAN /\ gen \in Nat
      /\ Loadable(conv) /\ known
  BY DEF TypeOK, StoreInv, Found
<1>2. conv' \in Memory /\ Loadable(conv')
  BY <1>1, ApplyAttachLoadable
<1>3. StoreNow
  BY <1>1, <1>2 DEF StoreNow, StoreInv
<1>4. \A b \in Bucket, l \in Live : Kept(conv, b, l) => Kept(conv', b, l)
  BY <1>1, KeptByOutput
<1>5. EntriesStay
  BY <1>4 DEF EntriesStay, EntryIn
<1> QED
  BY <1>3, <1>5

\* The cache after a step that drops entries, or adds one that is kept.
LEMMA CacheStays ==
    ASSUME TypeOK, CacheInv, EntriesStay, NEW D \in SUBSET Bucket,
           cache' = [b \in Bucket |-> IF b \in D THEN None ELSE cache[b]]
    PROVE  CacheInv' /\ cache' \in [Bucket -> Live \cup {None}]
<1>1. cache \in [Bucket -> Live \cup {None}]
  BY DEF TypeOK
<1>2. cache' \in [Bucket -> Live \cup {None}]
  BY <1>1
<1>3. ASSUME NEW b \in Bucket, cache'[b] # None
      PROVE  EntryIn(conv', known', gen', b, cache'[b])
  <2>1. cache'[b] = cache[b] /\ cache[b] # None /\ cache[b] \in Live
    BY <1>1, <1>3
  <2>2. EntryIn(conv, known, gen, b, cache[b])
    BY <2>1 DEF CacheInv
  <2> QED
    BY <2>1, <2>2 DEF EntriesStay
<1> QED
  BY <1>2, <1>3 DEF CacheInv

LEMMA CacheGains ==
    ASSUME TypeOK, CacheInv, EntriesStay, NEW b \in Bucket, NEW l \in Live,
           EntryIn(conv', known', gen', b, l),
           cache' = [cache EXCEPT ![b] = l]
    PROVE  CacheInv' /\ cache' \in [Bucket -> Live \cup {None}]
<1>1. cache \in [Bucket -> Live \cup {None}]
  BY DEF TypeOK
<1>2. cache' \in [Bucket -> Live \cup {None}]
  BY <1>1
<1>3. ASSUME NEW c \in Bucket, cache'[c] # None
      PROVE  EntryIn(conv', known', gen', c, cache'[c])
  <2>1. CASE c = b
    BY <1>1, <2>1
  <2>2. CASE c # b
    <3>1. cache'[c] = cache[c] /\ cache[c] # None /\ cache[c] \in Live
      BY <1>1, <1>3, <2>2
    <3>2. EntryIn(conv, known, gen, c, cache[c])
      BY <3>1 DEF CacheInv
    <3> QED
      BY <3>1, <3>2 DEF EntriesStay
  <2> QED
    BY <2>1, <2>2
<1> QED
  BY <1>2, <1>3 DEF CacheInv

----------------------------------------------------------------------------
(* One lemma per action.                                                   *)

Call == [bucket : Bucket, tool : Tool, guard : Guard,
         context : BOOLEAN, rev : Revision \cup {None}]

Busy == [rev : Revision, positions : Positions]

LEMMA CallIsNotNoCall ==
    ASSUME NEW c \in Call
    PROVE  c # NoCall
<1>1. DOMAIN c = {"bucket", "tool", "guard", "context", "rev"}
  BY DEF Call
<1>2. DOMAIN NoCall = {"bucket"}
  BY DEF NoCall
<1>3. "tool" \in DOMAIN c /\ "tool" \notin DOMAIN NoCall
  BY <1>1, <1>2
<1> QED
  BY <1>3

LEMMA UnderWay ==
    ASSUME TypeOK, pc # "free"
    PROVE  /\ call \in Call
           /\ call.bucket \in Bucket /\ call.tool \in Tool /\ call.guard \in Guard
           /\ call.context \in BOOLEAN /\ call.rev \in Revision \cup {None}
           /\ call.guard.trace \in Seq(Held) /\ call.guard.ground \in Seq(Held)
<1>1. call \in {NoCall} \cup Call /\ call # NoCall
  BY DEF TypeOK, Call
<1>2. call \in Call
  BY <1>1
<1>3. call.guard \in Guard
  BY <1>2 DEF Call
<1> QED
  BY <1>2, <1>3 DEF Call, Guard

\* What is left of the type invariant, after the store and the cache.
RestNow ==
    /\ pc' \in {"free", "build", "decide", "append", "return", "adopt"}
    /\ call' \in {NoCall} \cup Call
    /\ (call' = NoCall) <=> (pc' = "free")
    /\ busy' \in Busy \cup {None}
    /\ pending' \subseteq [bucket : Bucket, tool : Tool]

LEMMA Together ==
    ASSUME StoreNow, CacheInv', cache' \in [Bucket -> Live \cup {None}], RestNow,
           CallInv', BusyInv'
    PROVE  IInv'
<1>1. TypeOK'
  BY DEF TypeOK, StoreNow, RestNow, Call, Busy
<1> QED
  BY <1>1 DEF IInv, StoreNow

LEMMA CacheSame ==
    ASSUME TypeOK, CacheInv, EntriesStay, cache' = cache
    PROVE  CacheInv' /\ cache' \in [Bucket -> Live \cup {None}]
<1>1. cache' = [b \in Bucket |-> IF b \in {} THEN None ELSE cache[b]]
  BY DEF TypeOK
<1>2. {} \in SUBSET Bucket
  OBVIOUS
<1> QED
  BY <1>1, <1>2, CacheStays

LEMMA CacheDrops ==
    ASSUME TypeOK, CacheInv, EntriesStay, NEW b \in Bucket,
           cache' = [cache EXCEPT ![b] = None]
    PROVE  CacheInv' /\ cache' \in [Bucket -> Live \cup {None}]
<1>1. cache' = [c \in Bucket |-> IF c \in {b} THEN None ELSE cache[c]]
  BY DEF TypeOK
<1>2. {b} \in SUBSET Bucket
  OBVIOUS
<1> QED
  BY <1>1, <1>2, CacheStays

LEMMA CacheEmpties ==
    ASSUME TypeOK, CacheInv, EntriesStay, cache' = [b \in Bucket |-> None]
    PROVE  CacheInv' /\ cache' \in [Bucket -> Live \cup {None}]
<1>1. cache' = [c \in Bucket |-> IF c \in Bucket THEN None ELSE cache[c]]
  OBVIOUS
<1>2. Bucket \in SUBSET Bucket
  OBVIOUS
<1> QED
  BY <1>1, <1>2, CacheStays

\* A step that leaves no call under way, and no guard checked out.
LEMMA Freed ==
    ASSUME TypeOK, pc' = "free", call' = NoCall, busy' = None,
           pending' \subseteq [bucket : Bucket, tool : Tool]
    PROVE  RestNow /\ CallInv' /\ BusyInv'
  BY DEF RestNow, CallInv, BusyInv

\* While no call is under way, no guard is checked out.
LEMMA FreeIsFree ==
    ASSUME IInv, pc = "free"
    PROVE  call = NoCall /\ busy = None
  BY DEF IInv, TypeOK, BusyInv

LEMMA CommitStep ==
    ASSUME IInv, NEW b \in Bucket, NEW t \in Tool, Commit(b, t)
    PROVE  IInv'
<1>1. TypeOK /\ StoreInv /\ CacheInv
  BY DEF IInv
<1>2. StoreNow /\ EntriesStay
  BY <1>1, StoreWritten DEF Commit
<1>3. CacheInv' /\ cache' \in [Bucket -> Live \cup {None}]
  BY <1>1, <1>2, CacheSame DEF Commit
<1>4. RestNow /\ CallInv' /\ BusyInv'
  BY <1>1, FreeIsFree, Freed DEF Commit, TypeOK
<1> QED
  BY <1>2, <1>3, <1>4, Together

LEMMA AttachStep ==
    ASSUME IInv, NEW b \in Bucket, NEW t \in Tool, NEW o \in Output, Attach(b, t, o)
    PROVE  IInv'
<1>1. TypeOK /\ StoreInv /\ CacheInv
  BY DEF IInv
<1>2. StoreNow /\ EntriesStay
  BY <1>1, StoreAttached DEF Attach
<1>3. CacheInv' /\ cache' \in [Bucket -> Live \cup {None}]
  BY <1>1, <1>2, CacheSame DEF Attach
<1>4. RestNow /\ CallInv' /\ BusyInv'
  BY <1>1, FreeIsFree, Freed DEF Attach, TypeOK
<1> QED
  BY <1>2, <1>3, <1>4, Together

LEMMA AttachGoneStep ==
    ASSUME IInv, AttachGone
    PROVE  IInv'
<1>1. TypeOK /\ StoreInv /\ CacheInv
  BY DEF IInv
<1>2. StoreNow /\ EntriesStay
  BY <1>1, StoreAccess DEF AttachGone
<1>3. CacheInv' /\ cache' \in [Bucket -> Live \cup {None}]
  BY <1>1, <1>2, CacheSame DEF AttachGone
<1>4. RestNow /\ CallInv' /\ BusyInv'
  BY <1>1, FreeIsFree, Freed DEF AttachGone, TypeOK
<1> QED
  BY <1>2, <1>3, <1>4, Together

\* A step that leaves the conversation and the call as they are.
LEMMA CallSame ==
    ASSUME IInv, UNCHANGED <<conv, gen, pc, call, pending>>, busy' \in {busy, None}
    PROVE  RestNow /\ CallInv' /\ BusyInv'
<1>1. RestNow
  BY DEF IInv, TypeOK, RestNow, Call, Busy
<1>2. CallInv'
  BY DEF IInv, CallInv, Here
<1>3. BusyInv'
  <2>1. CASE busy' = None
    BY <2>1 DEF BusyInv
  <2>2. CASE busy' = busy
    BY <2>2 DEF IInv, BusyInv, Here, Returning
  <2> QED
    BY <2>1, <2>2
<1> QED
  BY <1>1, <1>2, <1>3

LEMMA GoIdleStep ==
    ASSUME IInv, GoIdle
    PROVE  IInv'
<1>1. TypeOK /\ StoreInv /\ CacheInv
  BY DEF IInv
<1>2. StoreNow /\ EntriesStay
  BY <1>1, StoreSame DEF GoIdle
<1>3. CacheInv' /\ cache' \in [Bucket -> Live \cup {None}]
  BY <1>1, <1>2, CacheSame DEF GoIdle
<1>4. RestNow /\ CallInv' /\ BusyInv'
  BY CallSame DEF GoIdle
<1> QED
  BY <1>2, <1>3, <1>4, Together

LEMMA EvictStep ==
    ASSUME IInv, NEW b \in Bucket, Evict(b)
    PROVE  IInv'
<1>1. TypeOK /\ StoreInv /\ CacheInv /\ idle \in BOOLEAN
  BY DEF IInv, TypeOK
<1>2. StoreNow /\ EntriesStay
  BY <1>1, StoreSame DEF Evict, store
<1>3. CacheInv' /\ cache' \in [Bucket -> Live \cup {None}]
  BY <1>1, <1>2, CacheDrops DEF Evict
<1>4. RestNow /\ CallInv' /\ BusyInv'
  BY CallSame DEF Evict, store
<1> QED
  BY <1>2, <1>3, <1>4, Together

LEMMA ClearStep ==
    ASSUME IInv, Clear
    PROVE  IInv'
<1>1. TypeOK /\ StoreInv /\ CacheInv /\ idle \in BOOLEAN
  BY DEF IInv, TypeOK
<1>2. StoreNow /\ EntriesStay
  BY <1>1, StoreSame DEF Clear, store
<1>3. CacheInv' /\ cache' \in [Bucket -> Live \cup {None}]
  BY <1>1, <1>2, CacheEmpties DEF Clear
<1>4. RestNow /\ CallInv' /\ BusyInv'
  BY CallSame DEF Clear, store
<1> QED
  BY <1>2, <1>3, <1>4, Together

LEMMA StutterStep ==
    ASSUME IInv, UNCHANGED vars
    PROVE  IInv'
<1>1. TypeOK /\ StoreInv /\ CacheInv /\ idle \in BOOLEAN
  BY DEF IInv, TypeOK
<1>2. StoreNow /\ EntriesStay
  BY <1>1, StoreSame DEF vars
<1>3. CacheInv' /\ cache' \in [Bucket -> Live \cup {None}]
  BY <1>1, <1>2, CacheSame DEF vars
<1>4. RestNow /\ CallInv' /\ BusyInv'
  BY CallSame DEF vars
<1> QED
  BY <1>2, <1>3, <1>4, Together

\* The call a step begins.
LEMMA BegunType ==
    ASSUME NEW b \in Bucket, NEW t \in Tool, NEW g \in Guard, Begin(b, t, g)
    PROVE  /\ call' \in Call /\ call' # NoCall
           /\ call'.bucket = b /\ call'.tool = t /\ call'.guard = g
<1>1. call' = [bucket |-> b, tool |-> t, guard |-> g, context |-> FALSE, rev |-> None]
  BY DEF Begin
<1>2. call' \in Call
  BY <1>1 DEF Call
<1> QED
  BY <1>1, <1>2, CallIsNotNoCall

\* A kept guard is synced, or a new one is to be built.
LEMMA CheckoutStep ==
    ASSUME IInv, NEW b \in Bucket, NEW t \in Tool, Checkout(b, t)
    PROVE  IInv'
<1> DEFINE l == cache[b]
<1>1. /\ TypeOK /\ StoreInv /\ CacheInv /\ idle \in BOOLEAN
      /\ conv \in Memory /\ Loadable(conv) /\ gen \in Nat
      /\ l \in Live \cup {None} /\ pending' \subseteq [bucket : Bucket, tool : Tool]
  BY DEF IInv, TypeOK, StoreInv, Checkout
<1>2. StoreNow /\ EntriesStay
  <2>1. CASE l = None
    BY <1>1, <2>1, StoreSame DEF Checkout, store
  <2>2. CASE l # None
    BY <1>1, <2>2, StoreAccess DEF Checkout
  <2> QED
    BY <2>1, <2>2
<1>3. CacheInv' /\ cache' \in [Bucket -> Live \cup {None}]
  BY <1>1, <1>2, CacheDrops DEF Checkout
<1>4. CASE l # None /\ CanSync(l)
  <2> DEFINE s == Synced(b, l)
  <2>1. l \in Live /\ Found /\ l.rev.gen = gen /\ known
    BY <1>1, <1>4 DEF CanSync, IsPast, Found
  <2>2. Kept(conv, b, l)
    BY <1>1, <1>4, <2>1 DEF CacheInv, EntryIn
  <2>3. /\ s.guard \in Guard /\ s.guard.trace = Records(conv) /\ WellGrounded(b, s.guard)
        /\ s.rev = Here /\ s.positions = Identity(Len(conv.events))
    BY <1>1, <2>1, <2>2, SyncedIs
  <2>4. conv' = conv /\ gen' = gen
    BY <1>4, <2>1 DEF Checkout, Access, Expired, Found
  <2>5. /\ Begin(b, t, s.guard) /\ pc' = "decide"
        /\ busy' = [rev |-> s.rev, positions |-> s.positions]
    BY <1>4 DEF Checkout
  <2> HIDE DEF s
  <2>6. /\ call' \in Call /\ call' # NoCall
        /\ call'.bucket = b /\ call'.tool = t /\ call'.guard = s.guard
    BY <2>3, <2>5, BegunType
  <2>7. Here \in Revision /\ Identity(Len(conv.events)) \in Positions
    BY <1>1, HereType, IdentityType, MemoryType
  <2>8. busy'.rev = Here /\ busy'.positions = Identity(Len(conv.events)) /\ busy' \in Busy
    BY <2>3, <2>5, <2>7 DEF Busy
  <2>9. RestNow
    BY <1>1, <2>5, <2>6, <2>8 DEF RestNow
  <2>10. CallInv'
    BY <2>3, <2>4, <2>5, <2>6 DEF CallInv
  <2>11. BusyInv'
    BY <2>4, <2>5, <2>8 DEF BusyInv, Here
  <2> QED
    BY <1>2, <1>3, <2>9, <2>10, <2>11, Together
<1>5. CASE ~(l # None /\ CanSync(l))
  <2>1. Begin(b, t, Built(NewConversation)) /\ pc' = "build" /\ busy' = None
    BY <1>5 DEF Checkout
  <2>2. Built(NewConversation) \in Guard
    BY BuiltGuard, NewConversationType
  <2>3. call' \in Call /\ call' # NoCall
    BY <2>1, <2>2, BegunType
  <2>4. RestNow
    BY <1>1, <2>1, <2>3 DEF RestNow
  <2>5. CallInv' /\ BusyInv'
    BY <2>1 DEF CallInv, BusyInv
  <2> QED
    BY <1>2, <1>3, <2>4, <2>5, Together
<1> QED
  BY <1>4, <1>5

\* A change of some fields of the call under way.
LEMMA ChangedCall ==
    ASSUME NEW c \in Call, NEW g \in Guard, NEW r \in Revision \cup {None}
    PROVE  /\ [c EXCEPT !.guard = g] \in Call
           /\ [c EXCEPT !.guard = g].guard = g
           /\ [c EXCEPT !.guard = g].bucket = c.bucket
           /\ [c EXCEPT !.rev = r] \in Call
           /\ [c EXCEPT !.rev = r].guard = c.guard
           /\ [c EXCEPT !.rev = r].bucket = c.bucket
           /\ [c EXCEPT !.rev = r].rev = r
  BY DEF Call

LEMMA BuildStep ==
    ASSUME IInv, Build
    PROVE  IInv'
<1>1. /\ TypeOK /\ StoreInv /\ CacheInv /\ busy = None
      /\ pending \subseteq [bucket : Bucket, tool : Tool]
  BY DEF IInv, TypeOK, BusyInv, Build
<1>2. StoreNow /\ EntriesStay
  BY <1>1, StoreAccess DEF Build
<1>3. CacheInv' /\ cache' \in [Bucket -> Live \cup {None}]
  BY <1>1, <1>2, CacheSame DEF Build
<1>4. Current = conv' /\ Current \in Memory
  BY <1>1, CurrentType DEF Build
<1>5. call \in Call
  BY <1>1, UnderWay DEF Build
<1> DEFINE g == Built(Current)
<1>6. g \in Guard /\ WellGrounded(call.bucket, g) /\ g.trace = Records(Current)
  BY <1>4, BuiltGuard
<1>7. call' = [call EXCEPT !.guard = g] /\ pc' = "decide" /\ busy' = None /\ pending' = pending
  BY <1>1 DEF Build
<1> HIDE DEF g
<1>8. call' \in Call /\ call'.guard = g /\ call'.bucket = call.bucket
  BY <1>5, <1>6, <1>7, ChangedCall
<1>9. call' # NoCall
  BY <1>8, CallIsNotNoCall
<1>10. RestNow
  BY <1>1, <1>7, <1>8, <1>9 DEF RestNow
<1>11. CallInv'
  BY <1>4, <1>6, <1>7, <1>8 DEF CallInv
<1>12. BusyInv'
  BY <1>7 DEF BusyInv
<1> QED
  BY <1>2, <1>3, <1>10, <1>11, <1>12, Together

LEMMA DecideDiscardingStep ==
    ASSUME IInv, DecideDiscarding
    PROVE  IInv'
<1>1. /\ TypeOK /\ StoreInv /\ CacheInv /\ idle \in BOOLEAN
  BY DEF IInv, TypeOK
<1>2. StoreNow /\ EntriesStay
  BY <1>1, StoreSame DEF DecideDiscarding, store
<1>3. call.bucket \in Bucket /\ call.tool \in Tool
  BY <1>1, UnderWay DEF DecideDiscarding
<1>4. CacheInv' /\ cache' \in [Bucket -> Live \cup {None}]
  BY <1>1, <1>2, <1>3, CacheDrops DEF DecideDiscarding, Discard
<1>5. pending' \subseteq [bucket : Bucket, tool : Tool]
  BY <1>1, <1>3 DEF DecideDiscarding, TypeOK
<1>6. RestNow /\ CallInv' /\ BusyInv'
  BY <1>1, <1>5, Freed DEF DecideDiscarding, Discard
<1> QED
  BY <1>2, <1>4, <1>6, Together

LEMMA ReturnContextStep ==
    ASSUME IInv, ReturnContext
    PROVE  IInv'
<1>1. /\ TypeOK /\ StoreInv /\ CacheInv /\ idle \in BOOLEAN
      /\ pending \subseteq [bucket : Bucket, tool : Tool]
  BY DEF IInv, TypeOK
<1>2. StoreNow /\ EntriesStay
  BY <1>1, StoreSame DEF ReturnContext, store
<1>3. call.bucket \in Bucket
  BY <1>1, UnderWay DEF ReturnContext
<1>4. CacheInv' /\ cache' \in [Bucket -> Live \cup {None}]
  BY <1>1, <1>2, <1>3, CacheDrops DEF ReturnContext, Discard
<1>5. RestNow /\ CallInv' /\ BusyInv'
  BY <1>1, Freed DEF ReturnContext, Discard, Finish
<1> QED
  BY <1>2, <1>4, <1>5, Together

LEMMA ReturnGoneStep ==
    ASSUME IInv, ReturnGone
    PROVE  IInv'
<1>1. /\ TypeOK /\ StoreInv /\ CacheInv
      /\ pending \subseteq [bucket : Bucket, tool : Tool]
  BY DEF IInv, TypeOK
<1>2. StoreNow /\ EntriesStay
  BY <1>1, StoreAccess DEF ReturnGone
<1>3. CacheInv' /\ cache' \in [Bucket -> Live \cup {None}]
  BY <1>1, <1>2, CacheSame DEF ReturnGone
<1>4. RestNow /\ CallInv' /\ BusyInv'
  BY <1>1, Freed DEF ReturnGone, Finish
<1> QED
  BY <1>2, <1>3, <1>4, Together

LEMMA ReturnNewStep ==
    ASSUME IInv, ReturnNew
    PROVE  IInv'
<1>1. /\ TypeOK /\ StoreInv /\ CacheInv /\ CallInv /\ idle \in BOOLEAN
      /\ conv \in Memory /\ gen \in Nat
      /\ pending \subseteq [bucket : Bucket, tool : Tool]
  BY DEF IInv, TypeOK
<1>2. StoreNow /\ EntriesStay
  BY <1>1, StoreSame DEF ReturnNew, store
<1>3. CacheInv' /\ cache' \in [Bucket -> Live \cup {None}]
  BY <1>1, <1>2, CacheSame DEF ReturnNew
<1>4. call \in Call /\ call.guard \in Guard
  BY <1>1, UnderWay DEF ReturnNew
<1>5. Here \in Revision
  BY <1>1, HereType
<1>6. /\ call' = [call EXCEPT !.rev = Here] /\ pc = "return" /\ pc' = "adopt"
      /\ busy' = None /\ pending' = pending /\ conv' = conv /\ gen' = gen
  BY DEF ReturnNew, store
<1>7. /\ call' \in Call /\ call'.guard = call.guard /\ call'.bucket = call.bucket
      /\ call'.rev = Here
  <2> DEFINE h == Here
  <2>1. h \in Revision \cup {None} /\ call' = [call EXCEPT !.rev = h]
    BY <1>5, <1>6
  <2> HIDE DEF h
  <2>2. call' \in Call /\ call'.guard = call.guard /\ call'.bucket = call.bucket /\ call'.rev = h
    BY <1>4, <2>1, ChangedCall
  <2> QED
    BY <2>2 DEF h
<1>8. call' # NoCall
  BY <1>7, CallIsNotNoCall
<1>9. RestNow
  BY <1>1, <1>6, <1>7, <1>8 DEF RestNow
<1>10. Here' = Here
  BY <1>6 DEF Here
<1>11. CallInv'
  BY <1>1, <1>6, <1>7, <1>10 DEF CallInv
<1>12. BusyInv'
  BY <1>6 DEF BusyInv
<1> QED
  BY <1>2, <1>3, <1>9, <1>11, <1>12, Together

LEMMA AdoptStep ==
    ASSUME IInv, Adopt
    PROVE  IInv'
<1>1. /\ TypeOK /\ StoreInv /\ CacheInv /\ CallInv /\ busy = None /\ pc = "adopt"
      /\ conv \in Memory /\ gen \in Nat
      /\ pending \subseteq [bucket : Bucket, tool : Tool]
  BY DEF IInv, TypeOK, BusyInv, Adopt
<1>2. StoreNow /\ EntriesStay
  BY <1>1, StoreAccess DEF Adopt
<1>3. RestNow /\ CallInv' /\ BusyInv'
  BY <1>1, Freed DEF Adopt, Finish
<1>4. call.bucket \in Bucket /\ call.guard \in Guard /\ WellGrounded(call.bucket, call.guard)
      /\ call.rev = Here
  BY <1>1, UnderWay DEF CallInv
<1>5. CASE cache' = cache
  BY <1>1, <1>2, <1>3, <1>5, CacheSame, Together
<1>6. CASE cache' # cache
  <2> DEFINE p == [i \in DOMAIN Current.events |-> i]
             l == [guard |-> call.guard, rev |-> Here, positions |-> p]
  <2>1. /\ SameEvents(call.guard.trace, Records(Current))
        /\ cache' = [cache EXCEPT ![call.bucket] = l]
    BY <1>4, <1>6 DEF Adopt, Keep
  <2>2. Current \in Memory /\ DOMAIN Current.events = 1 .. Len(Current.events)
    BY <1>1, CurrentType, MemoryType
  <2>3. p = Identity(Len(Current.events))
    BY <2>2 DEF Identity
  <2>4. Here \in Revision /\ Here.gen = gen
    BY <1>1, HereType
  <2>5. p \in Positions
    BY <2>2, <2>3, MemoryType, IdentityType
  <2> HIDE DEF p
  <2>6. l \in Live /\ l.rev = Here
    BY <1>4, <2>4, <2>5 DEF Live
  <2>7. CASE Found
    <3>1. Current = conv /\ conv' = conv /\ known' = TRUE /\ gen' = gen
      BY <2>7 DEF Current, Adopt, Access, Expired, Found
    <3>2. call.guard.trace = Records(conv)
      BY <1>1, <2>1, <3>1 DEF CallInv
    <3>3. l = [guard |-> call.guard,
               rev |-> [gen |-> gen, events |-> Len(conv.events), attaches |-> Len(conv.attaches)],
               positions |-> Identity(Len(conv.events))]
      BY <2>3, <3>1 DEF Here
    <3> HIDE DEF l
    <3>4. Kept(conv, call.bucket, l)
      BY <1>1, <1>4, <3>2, <3>3, KeptNow
    <3>5. EntryIn(conv', known', gen', call.bucket, l)
      BY <1>1, <2>4, <2>6, <3>1, <3>4 DEF EntryIn
    <3>6. CacheInv' /\ cache' \in [Bucket -> Live \cup {None}]
      BY <1>1, <1>2, <1>4, <2>1, <2>6, <3>5, CacheGains DEF l
    <3> QED
      BY <1>2, <1>3, <3>6, Together
  <2>8. CASE ~Found
    <3>1. known' = FALSE /\ gen' = gen
      BY <2>8 DEF Adopt, Access, Found
    <3> HIDE DEF l
    <3>2. EntryIn(conv', known', gen', call.bucket, l)
      BY <1>1, <2>4, <2>6, <3>1 DEF EntryIn
    <3>3. CacheInv' /\ cache' \in [Bucket -> Live \cup {None}]
      BY <1>1, <1>2, <1>4, <2>1, <2>6, <3>2, CacheGains DEF l
    <3> QED
      BY <1>2, <1>3, <3>3, Together
  <2> QED
    BY <2>7, <2>8
<1> QED
  BY <1>5, <1>6

LEMMA DecidedCall ==
    ASSUME NEW c \in Call, NEW g \in Guard, NEW x \in BOOLEAN
    PROVE  /\ [c EXCEPT !.guard = g, !.context = x] \in Call
           /\ [c EXCEPT !.guard = g, !.context = x].guard = g
           /\ [c EXCEPT !.guard = g, !.context = x].bucket = c.bucket
           /\ [c EXCEPT !.guard = g, !.context = x].tool = c.tool
  BY DEF Call

\* The guard of a call that stays in its trace, or is rolled back.
LEMMA DecidedGuard ==
    ASSUME IInv, pc = "decide"
    PROVE  LET e == Extended(call.bucket, call.guard, call.tool)
               k == RolledBack(call.bucket, call.guard)
           IN /\ call \in Call
              /\ e \in Guard /\ WellGrounded(call.bucket, e)
              /\ e.trace = Append(Records(conv), [ts |-> Len(conv.events), tool |-> call.tool,
                                                  content |-> NoOutput])
              /\ Len(e.trace) = Len(conv.events) + 1
              /\ k \in Guard /\ WellGrounded(call.bucket, k) /\ k.trace = Records(conv)
<1>1. /\ TypeOK /\ conv \in Memory /\ call.guard.trace = Records(conv)
      /\ WellGrounded(call.bucket, call.guard)
  BY DEF IInv, TypeOK, CallInv
<1>2. call \in Call /\ call.tool \in Tool /\ call.guard \in Guard
  BY <1>1, UnderWay
<1> DEFINE c == [ts |-> Len(conv.events), tool |-> call.tool, content |-> NoOutput]
           z == Records(conv)
<1>3. z \in Seq(Held) /\ Len(z) = Len(conv.events) /\ Len(conv.events) \in Nat
  BY <1>1, RecordsType, MemoryType
<1>4. Candidate(call.guard, call.tool) = c
  BY <1>1, <1>3 DEF Candidate
<1>5. c \in Held
  BY <1>2, <1>3 DEF Held
<1>6. /\ Extended(call.bucket, call.guard, call.tool) \in Guard
      /\ WellGrounded(call.bucket, Extended(call.bucket, call.guard, call.tool))
      /\ Extended(call.bucket, call.guard, call.tool).trace
            = Append(call.guard.trace, Candidate(call.guard, call.tool))
  BY <1>1, <1>2, ExtendedGuard
<1>7. /\ RolledBack(call.bucket, call.guard) \in Guard
      /\ WellGrounded(call.bucket, RolledBack(call.bucket, call.guard))
      /\ RolledBack(call.bucket, call.guard).trace = call.guard.trace
  BY <1>1, <1>2, RolledBackGuard
<1> HIDE DEF c, z
<1>8. Len(Append(z, c)) = Len(conv.events) + 1
  BY <1>3, <1>5, AppendProperties
<1> QED
  BY <1>1, <1>2, <1>4, <1>6, <1>7, <1>8 DEF c, z

LEMMA DecideAllowedStep ==
    ASSUME IInv, DecideAllowed
    PROVE  IInv'
<1> DEFINE e == Extended(call.bucket, call.guard, call.tool)
<1>1. /\ TypeOK /\ StoreInv /\ CacheInv /\ idle \in BOOLEAN /\ BusyInv /\ pc = "decide"
      /\ pending \subseteq [bucket : Bucket, tool : Tool] /\ busy \in Busy \cup {None}
  BY DEF IInv, TypeOK, DecideAllowed, Busy
<1>2. StoreNow /\ EntriesStay
  BY <1>1, StoreSame DEF DecideAllowed, store
<1>3. CacheInv' /\ cache' \in [Bucket -> Live \cup {None}]
  BY <1>1, <1>2, CacheSame DEF DecideAllowed
<1>4. /\ call \in Call
      /\ e \in Guard /\ WellGrounded(call.bucket, e)
      /\ e.trace = Append(Records(conv), [ts |-> Len(conv.events), tool |-> call.tool,
                                          content |-> NoOutput])
  BY <1>1, DecidedGuard
<1>5. PICK x \in BOOLEAN : call' = [call EXCEPT !.guard = e, !.context = x]
  BY DEF DecideAllowed
<1>6. /\ pc' = "append" /\ busy' = busy /\ pending' = pending /\ conv' = conv /\ gen' = gen
  BY DEF DecideAllowed, store
<1> HIDE DEF e
<1>7. /\ call' \in Call /\ call'.guard = e /\ call'.bucket = call.bucket
      /\ call'.tool = call.tool
  BY <1>4, <1>5, DecidedCall
<1>8. call' # NoCall
  BY <1>7, CallIsNotNoCall
<1>9. RestNow
  BY <1>1, <1>6, <1>7, <1>8 DEF RestNow
<1>10. CallInv'
  BY <1>4, <1>6, <1>7 DEF CallInv
<1>11. BusyInv'
  BY <1>1, <1>6 DEF BusyInv, Here
<1> QED
  BY <1>2, <1>3, <1>9, <1>10, <1>11, Together

\* A trace longer than the history is not taken for it.
LEMMA LongerIsOther ==
    ASSUME NEW m \in Memory, NEW s, Len(s) = Len(m.events) + 1
    PROVE  ~SameEvents(s, Records(m))
  BY RecordsType, MemoryType DEF SameEvents

LEMMA DecideDeniedStep ==
    ASSUME IInv, DecideDenied
    PROVE  IInv'
<1> DEFINE e == Extended(call.bucket, call.guard, call.tool)
           k == RolledBack(call.bucket, call.guard)
<1>1. /\ TypeOK /\ StoreInv /\ CacheInv /\ idle \in BOOLEAN /\ BusyInv /\ pc = "decide"
      /\ pending \subseteq [bucket : Bucket, tool : Tool] /\ busy \in Busy \cup {None}
      /\ conv \in Memory /\ gen \in Nat
  BY DEF IInv, TypeOK, DecideDenied, Busy
<1>2. StoreNow /\ EntriesStay
  BY <1>1, StoreSame DEF DecideDenied, store
<1>3. CacheInv' /\ cache' \in [Bucket -> Live \cup {None}]
  BY <1>1, <1>2, CacheSame DEF DecideDenied
<1>4. /\ call \in Call
      /\ e \in Guard /\ WellGrounded(call.bucket, e)
      /\ Len(e.trace) = Len(conv.events) + 1
      /\ k \in Guard /\ WellGrounded(call.bucket, k) /\ k.trace = Records(conv)
  BY <1>1, DecidedGuard
<1>5. PICK x \in BOOLEAN, g \in {k, e} : call' = [call EXCEPT !.guard = g, !.context = x]
  BY DEF DecideDenied
<1>6. /\ pc' = "return" /\ busy' = busy /\ pending' = pending /\ conv' = conv /\ gen' = gen
  BY DEF DecideDenied, store
<1> HIDE DEF e, k
<1>7. /\ g \in Guard /\ WellGrounded(call.bucket, g)
      /\ \/ g.trace = Records(conv)
         \/ Len(g.trace) = Len(conv.events) + 1
  BY <1>4, <1>5
<1>8. /\ call' \in Call /\ call'.guard = g /\ call'.bucket = call.bucket
  BY <1>4, <1>5, <1>7, DecidedCall
<1>9. call' # NoCall
  BY <1>8, CallIsNotNoCall
<1>10. RestNow
  BY <1>1, <1>6, <1>8, <1>9 DEF RestNow
<1>11. CallInv'
  <2>1. SameEvents(g.trace, Records(conv)) => g.trace = Records(conv)
    BY <1>1, <1>7, LongerIsOther
  <2> QED
    BY <1>6, <1>7, <1>8, <2>1 DEF CallInv
<1>12. BusyInv'
  <2>1. CASE busy = None
    BY <1>6, <2>1 DEF BusyInv
  <2>2. CASE busy # None
    <3>1. busy.rev = Here /\ busy.positions = Identity(Len(conv.events))
      BY <1>1, <2>2 DEF BusyInv
    <3>2. /\ busy.rev.gen = gen /\ busy.rev.events = Len(conv.events)
          /\ busy.rev.attaches = Len(conv.attaches)
      BY <1>1, <3>1, HereType
    <3>3. gen <= gen
      BY <1>1
    <3>4. Returning(busy)'
      BY <1>6, <1>7, <1>8, <3>1, <3>2 DEF Returning
    <3> QED
      BY <1>6, <2>2, <3>2, <3>3, <3>4 DEF BusyInv
  <2> QED
    BY <2>1, <2>2
<1> QED
  BY <1>2, <1>3, <1>10, <1>11, <1>12, Together

\* A memory with one event more than the history the trace ends after.
LEMMA StoredIsRecorded ==
    ASSUME NEW m \in Memory, Loadable(m), NEW b \in Bucket, NEW t \in Tool, NEW s,
           s = Append(Records(m), [ts |-> Len(m.events), tool |-> t, content |-> NoOutput]),
           conv' = WithEvent(m, b, t, m.nextSeq, NoOutput)
    PROVE  /\ RecordedIn(conv', s)
           /\ Len(conv'.events) = Len(m.events) + 1 /\ conv'.attaches = m.attaches
           /\ SameEvents(s, Records(conv')) => s = Records(conv')
<1> DEFINE n == Len(m.events)
           w == conv'
           e == [bucket |-> b, tool |-> t, seq |-> m.nextSeq, content |-> NoOutput]
           c == [ts |-> Len(m.events), tool |-> t, content |-> NoOutput]
           z == Records(m)
<1>1. n \in Nat /\ m.nextSeq \in Nat /\ DOMAIN m.events = 1 .. n /\ m.events \in Seq(Event)
  BY MemoryType
<1>2. /\ w \in Memory
      /\ Len(w.events) = n + 1
      /\ \A i \in 1 .. n : w.events[i] = m.events[i]
      /\ w.events[n + 1] = e
      /\ w.attaches = m.attaches
  BY <1>1, WithEventIs
<1>3. z \in Seq(Held) /\ Len(z) = n /\ \A i \in 1 .. n : z[i] = RecordOf(m.events[i])
  BY RecordsType
<1>4. c \in Held
  BY <1>1 DEF Held
<1>5. e.seq = m.nextSeq /\ e.tool = t /\ e.content = NoOutput
      /\ c.ts = n /\ c.tool = t /\ c.content = NoOutput
  OBVIOUS
<1>6. s = Append(z, c)
  OBVIOUS
<1>7. m.nextSeq = IF n = 0 THEN 0 ELSE m.events[n].seq + 1
  <2>1. n = 0 <=> m.events = <<>>
    BY <1>1
  <2> QED
    BY <2>1 DEF Loadable
<1>8. c = [ts |-> n, tool |-> t, content |-> NoOutput]
  OBVIOUS
<1> HIDE DEF w, e, c, z, n
<1>9. /\ s \in Seq(Held) /\ Len(s) = n + 1
      /\ \A i \in 1 .. n : s[i] = z[i]
      /\ s[n + 1] = c
  <2>1. /\ Append(z, c) \in Seq(Held)
        /\ Len(Append(z, c)) = Len(z) + 1
        /\ \A i \in 1 .. Len(z) : Append(z, c)[i] = z[i]
        /\ Append(z, c)[Len(z) + 1] = c
    BY <1>3, <1>4, AppendProperties
  <2> QED
    BY <1>3, <1>6, <2>1
<1>10. \A i \in 1 .. n : s[i] = RecordOf(w.events[i])
  BY <1>2, <1>3, <1>9
<1>11. RecordedIn(conv', s)
  <2>1. (n + 1) - 1 = n /\ n + 1 > 0 /\ (n + 1 = 1 <=> n = 0)
    BY <1>1
  <2>2. w.events[n + 1].seq = IF n + 1 = 1 THEN 0 ELSE w.events[(n + 1) - 1].seq + 1
    <3>1. CASE n = 0
      BY <1>2, <1>5, <1>7, <2>1, <3>1
    <3>2. CASE n # 0
      <4>1. n \in 1 .. n
        BY <1>1, <3>2
      <4> QED
        BY <1>2, <1>5, <1>7, <2>1, <3>2, <4>1
    <3> QED
      BY <3>1, <3>2
  <2>3. s[n + 1] = [ts |-> (n + 1) - 1, tool |-> w.events[n + 1].tool, content |-> NoOutput]
    BY <1>2, <1>5, <1>8, <1>9, <2>1
  <2> QED
    BY <1>2, <1>5, <1>9, <1>10, <2>1, <2>2, <2>3 DEF RecordedIn, w
<1>12. ASSUME SameEvents(s, Records(w))
       PROVE  s = Records(w)
  <2> DEFINE y == Records(w)
  <2>1. y \in Seq(Held) /\ Len(y) = n + 1 /\ \A i \in 1 .. n + 1 : y[i] = RecordOf(w.events[i])
    BY <1>2, RecordsType
  <2>2. DOMAIN s = 1 .. n + 1 /\ n + 1 \in 1 .. n + 1
    BY <1>1, <1>9
  <2>3. c.ts = y[n + 1].ts
    BY <1>9, <1>12, <2>2 DEF SameEvents
  <2>4. y[n + 1] = c
    <3>1. y[n + 1] = [ts |-> e.seq, tool |-> t, content |-> NoOutput]
      BY <1>2, <1>5, <2>1, <2>2 DEF RecordOf
    <3> HIDE DEF y
    <3>2. e.seq = n
      BY <1>5, <2>3, <3>1
    <3> QED
      BY <1>8, <3>1, <3>2
  <2> HIDE DEF y
  <2>5. \A i \in 1 .. n + 1 : s[i] = y[i]
    <3>1. \A i \in 1 .. n + 1 : i \in 1 .. n \/ i = n + 1
      BY <1>1
    <3> QED
      BY <1>9, <1>10, <2>1, <2>4, <3>1
  <2>6. s = y
    BY <1>9, <2>1, <2>5, SeqEqual
  <2> QED
    BY <2>6 DEF y
<1> QED
  BY <1>2, <1>11, <1>12 DEF w, n

LEMMA OtherLength ==
    ASSUME NEW m \in Memory, NEW s, Len(s) # Len(m.events)
    PROVE  ~SameEvents(s, Records(m))
  BY RecordsType DEF SameEvents

LEMMA AppendCallStep ==
    ASSUME IInv, AppendCall
    PROVE  IInv'
<1> DEFINE s == call.guard.trace
           n == Len(conv.events)
<1>1. /\ TypeOK /\ StoreInv /\ CacheInv /\ CallInv /\ BusyInv /\ pc = "append"
      /\ pending \subseteq [bucket : Bucket, tool : Tool] /\ busy \in Busy \cup {None}
      /\ conv \in Memory /\ gen \in Nat /\ Loadable(conv) /\ n \in Nat
  BY MemoryType DEF IInv, TypeOK, StoreInv, AppendCall, Busy
<1>2. /\ call \in Call /\ call.bucket \in Bucket /\ call.tool \in Tool
      /\ WellGrounded(call.bucket, call.guard)
      /\ s = Append(Records(conv), [ts |-> n, tool |-> call.tool, content |-> NoOutput])
  BY <1>1, UnderWay DEF CallInv
<1>3. PICK m \in {WithEvent(Current, call.bucket, call.tool, Current.nextSeq, NoOutput),
                  Current} : Written(m)
  BY DEF AppendCall
<1>4. StoreNow /\ EntriesStay
  BY <1>1, <1>2, <1>3, StoreWritten
<1>5. CacheInv' /\ cache' \in [Bucket -> Live \cup {None}]
  BY <1>1, <1>4, CacheSame DEF AppendCall
<1>6. /\ pc' = "return" /\ call' = call /\ busy' = busy /\ pending' = pending
      /\ conv' = m /\ gen' = IF Found THEN gen ELSE gen + 1
  BY <1>3 DEF AppendCall, Written
<1>7. RestNow
  BY <1>1, <1>2, <1>6, CallIsNotNoCall DEF RestNow
<1>8. Len(s) = n + 1
  <2> DEFINE z == Records(conv)
             c == [ts |-> n, tool |-> call.tool, content |-> NoOutput]
  <2>1. z \in Seq(Held) /\ Len(z) = n
    BY <1>1, RecordsType
  <2>2. c \in Held
    BY <1>1, <1>2 DEF Held
  <2> HIDE DEF z, c
  <2>3. Len(Append(z, c)) = n + 1
    BY <2>1, <2>2, AppendProperties
  <2> QED
    BY <1>2, <2>3 DEF z, c
<1>9. Current \in Memory /\ Loadable(Current) /\ conv' \in Memory
  BY <1>1, <1>4, CurrentType DEF StoreNow
<1> HIDE DEF s, n
<1>10. /\ SameEvents(s, Records(conv')) => s = Records(conv')
       /\ Found => \/ RecordedIn(conv', s) /\ Len(conv'.events) = n + 1 /\ conv'.attaches = conv.attaches
                   \/ conv' = conv
  <2>1. CASE Found
    <3>1. Current = conv
      BY <2>1 DEF Current
    <3>2. CASE m = Current
      BY <1>6, <1>8, <1>9, <3>1, <3>2, LongerIsOther DEF n
    <3>3. CASE m # Current
      <4>1. conv' = WithEvent(conv, call.bucket, call.tool, conv.nextSeq, NoOutput)
        BY <1>3, <1>6, <3>1, <3>3
      <4>2. /\ RecordedIn(conv', s)
            /\ Len(conv'.events) = n + 1 /\ conv'.attaches = conv.attaches
            /\ SameEvents(s, Records(conv')) => s = Records(conv')
        BY <1>1, <1>2, <4>1, StoredIsRecorded DEF n
      <4> QED
        BY <4>2
    <3> QED
      BY <3>2, <3>3
  <2>2. CASE ~Found
    <3> DEFINE w == NewConversation
    <3>1. Current = w /\ w \in Memory /\ Loadable(w) /\ w.events = <<>> /\ Len(w.events) = 0
      BY <2>2, NewConversationType DEF Current, NewConversation
    <3>2. CASE Len(s) # Len(conv'.events)
      BY <1>9, <2>2, <3>2, OtherLength
    <3>3. CASE Len(s) = Len(conv'.events)
      <4>1. m # Current
        BY <1>1, <1>6, <1>8, <3>1, <3>3
      <4>2. conv' = WithEvent(w, call.bucket, call.tool, w.nextSeq, NoOutput)
        BY <1>3, <1>6, <3>1, <4>1
      <4>3. Len(conv'.events) = 1
        <5>1. w.nextSeq \in Nat
          BY <3>1, MemoryType
        <5> HIDE DEF w
        <5>2. Len(conv'.events) = Len(w.events) + 1
          BY <1>2, <3>1, <4>2, <5>1, WithEventIs
        <5> QED
          BY <3>1, <5>2
      <4>4. n = 0
        <5>1. n \in Nat
          BY <1>1
        <5>2. n + 1 = 1
          BY <1>8, <3>3, <4>3
        <5> QED
          BY <5>1, <5>2
      <4>5. Records(conv) = Records(w)
        BY <1>1, <3>1, <4>4, RecordsType, SeqEqual DEF n
      <4> HIDE DEF w
      <4>6. s = Append(Records(w), [ts |-> Len(w.events), tool |-> call.tool, content |-> NoOutput])
        BY <1>2, <3>1, <4>4, <4>5
      <4>7. SameEvents(s, Records(conv')) => s = Records(conv')
        BY <1>2, <3>1, <4>2, <4>6, StoredIsRecorded
      <4> QED
        BY <2>2, <4>7
    <3> QED
      BY <3>2, <3>3
  <2> QED
    BY <2>1, <2>2
<1>11. CallInv'
  BY <1>2, <1>6, <1>10 DEF CallInv, s
<1>12. BusyInv'
  <2>1. CASE busy = None
    BY <1>6, <2>1 DEF BusyInv
  <2>2. CASE busy # None
    <3>1. busy.rev = Here /\ busy.positions = Identity(n)
      BY <1>1, <2>2 DEF BusyInv, n
    <3>2. /\ busy.rev.gen = gen /\ busy.rev.events = n
          /\ busy.rev.attaches = Len(conv.attaches)
      BY <1>1, <3>1, HereType DEF n
    <3>3. CASE Found
      <4>1. Returning(busy)'
        <5>1. call'.guard.trace = s /\ busy' = busy
          BY <1>6 DEF s
        <5>2. CASE RecordedIn(conv', s) /\ Len(conv'.events) = n + 1 /\ conv'.attaches = conv.attaches
          BY <3>1, <3>2, <5>1, <5>2 DEF Returning
        <5>3. CASE conv' = conv
          <6>1. Len(conv'.events) = n /\ conv'.attaches = conv.attaches
            BY <5>3 DEF n
          <6> QED
            BY <1>8, <3>1, <3>2, <5>1, <6>1 DEF Returning
        <5> QED
          BY <1>10, <3>3, <5>2, <5>3
      <4>2. gen' = gen /\ gen <= gen
        BY <1>1, <1>6, <3>3
      <4> QED
        BY <1>6, <2>2, <3>2, <4>1, <4>2 DEF BusyInv
    <3>4. CASE ~Found
      <4>1. gen' = gen + 1
        BY <1>6, <3>4
      <4>2. busy.rev.gen <= gen' /\ busy.rev.gen # gen'
        BY <1>1, <3>2, <4>1
      <4>3. Returning(busy)'
        BY <1>6, <4>2 DEF Returning
      <4> QED
        BY <1>6, <4>2, <4>3 DEF BusyInv
    <3> QED
      BY <3>3, <3>4
  <2> QED
    BY <2>1, <2>2
<1> QED
  BY <1>4, <1>5, <1>7, <1>11, <1>12, Together

\* Induction over the numbers, as a set that holds 0 and is closed.
LEMMA AllNumbers ==
    ASSUME NEW S, 0 \in S, \A n \in Nat : n \in S => n + 1 \in S
    PROVE  \A n \in Nat : n \in S
<1> DEFINE Out == {n \in Nat : n \notin S}
           Less == OpToRel(<, Nat)
<1> SUFFICES ASSUME Out # {} PROVE FALSE
  OBVIOUS
<1>1. \A i, j \in Nat : <<i, j>> \in Less <=> i < j
  BY DEF OpToRel
<1>2. IsWellFoundedOn(Less, Nat)
  BY NatLessThanWellFounded
<1>3. Out \subseteq Nat /\ \A n \in Nat : n \in Out <=> n \notin S
  OBVIOUS
<1> HIDE DEF Less, Out
<1>4. PICK k \in Out : \A m \in Out : ~(<<m, k>> \in Less)
  BY <1>2, <1>3, WFMin, Zenon
<1>5. k \in Nat /\ k \notin S /\ k # 0
  BY <1>3, <1>4
<1>6. k - 1 \in Nat /\ k - 1 < k /\ (k - 1) + 1 = k
  BY <1>5
<1>7. k - 1 \notin Out
  BY <1>1, <1>4, <1>5, <1>6
<1> QED
  BY <1>3, <1>5, <1>6, <1>7

\* Numbers in strict order are not below their positions, counted from 0.
LEMMA NumbersRise ==
    ASSUME NEW m \in Memory, Loadable(m)
    PROVE  \A i \in 1 .. Len(m.events) : m.events[i].seq >= i - 1
<1> DEFINE n == Len(m.events)
           q(i) == m.events[i].seq
           S == {k \in Nat : k + 1 <= n => q(k + 1) >= k}
<1>1. /\ n \in Nat /\ DOMAIN m.events = 1 .. n
      /\ \A i \in 1 .. n : m.events[i] \in Event
  BY MemoryType
<1>2. \A i \in 1 .. n : q(i) \in Nat
  BY <1>1 DEF Event
<1>3. \A i, j \in 1 .. n : i < j => q(i) < q(j)
  BY <1>1 DEF Loadable
<1> HIDE DEF n, q
<1>4. 0 \in S
  <2>1. 1 <= n => 1 \in 1 .. n
    BY <1>1
  <2> QED
    BY <1>2, <2>1
<1>5. ASSUME NEW k \in Nat, k \in S
      PROVE  k + 1 \in S
  <2> SUFFICES ASSUME (k + 1) + 1 <= n PROVE q((k + 1) + 1) >= k + 1
    OBVIOUS
  <2>1. k + 1 \in 1 .. n /\ (k + 1) + 1 \in 1 .. n /\ k + 1 < (k + 1) + 1
    BY <1>1
  <2>2. q(k + 1) >= k
    BY <1>1, <1>5, <2>1
  <2>3. q(k + 1) < q((k + 1) + 1) /\ q(k + 1) \in Nat /\ q((k + 1) + 1) \in Nat
    BY <1>2, <1>3, <2>1
  <2> QED
    BY <2>2, <2>3
<1>6. \A k \in Nat : k \in S
  <2> HIDE DEF S
  <2> QED
    BY <1>4, <1>5, AllNumbers
<1>7. ASSUME NEW i \in 1 .. n
      PROVE  q(i) >= i - 1
  <2>1. i - 1 \in Nat /\ (i - 1) + 1 = i /\ i <= n
    BY <1>1
  <2>2. i - 1 \in S
    BY <1>6, <2>1
  <2> QED
    BY <2>1, <2>2
<1> QED
  BY <1>7 DEF n, q

\* A guard _advance keeps holds the history as it is now.
LEMMA AdvancedIsHistory ==
    ASSUME conv \in Memory, Loadable(conv), NEW x \in Busy, Returning(x),
           call.guard.trace \in Seq(Held), NEW p \in Advance(call.guard.trace, x)
    PROVE  call.guard.trace = Records(conv) /\ p = Identity(Len(conv.events))
<1> DEFINE s == call.guard.trace
           n == Len(conv.events)
           r == x.rev.events
           v == conv.events
<1>1. /\ n \in Nat /\ r \in Nat /\ DOMAIN v = 1 .. n
      /\ \A i \in 1 .. n : v[i] \in Event
      /\ x.positions = Identity(r) /\ Len(x.positions) = r
      /\ x.rev.gen = gen
  <2>1. x.rev.gen = gen
    BY DEF Advance
  <2>2. x.positions = Identity(r)
    BY <2>1 DEF Returning
  <2>3. r \in Nat
    BY DEF Busy, Revision
  <2> QED
    BY <2>1, <2>2, <2>3, MemoryType, IdentityType
<1>2. \/ s = Records(conv) /\ n = r
      \/ Len(s) = n + 1 /\ n = r
      \/ RecordedIn(conv, s) /\ n = r + 1
  BY <1>1 DEF Returning
<1>3. /\ \/ n = r + 1 /\ Len(s) = r + 1 /\ (Len(s) >= 2 => s[Len(s) - 1].ts < s[Len(s)].ts)
         \/ n = r /\ Len(s) = r
      /\ p = [i \in 1 .. n |-> IF i = r + 1 THEN Len(s) ELSE x.positions[i]]
  BY <1>1 DEF Advance
<1> HIDE DEF s, n, r, v
<1>4. p = Identity(n)
  <2>1. \A i \in 1 .. n : (IF i = r + 1 THEN Len(s) ELSE x.positions[i]) = i
    <3>1. n \in {r, r + 1} /\ (n = r + 1 => Len(s) = n)
      BY <1>1, <1>3
    <3>2. ASSUME NEW i \in 1 .. n, i # r + 1
          PROVE  x.positions[i] = i
      <4>1. i \in 1 .. r
        BY <1>1, <3>1, <3>2
      <4> QED
        BY <1>1, <4>1, IdentityType
    <3>3. ASSUME NEW i \in 1 .. n, i = r + 1
          PROVE  Len(s) = i
      BY <1>1, <3>1, <3>3
    <3> QED
      BY <3>2, <3>3
  <2> QED
    BY <1>3, <2>1 DEF Identity
<1>5. CASE s = Records(conv)
  BY <1>4, <1>5 DEF s, n
<1>6. CASE Len(s) = n + 1 /\ n = r
  BY <1>1, <1>3, <1>6
<1>7. CASE RecordedIn(conv, s) /\ n = r + 1
  <2>1. /\ n > 0 /\ Len(s) = n
        /\ \A i \in 1 .. n - 1 : s[i] = RecordOf(v[i])
        /\ s[n] = [ts |-> n - 1, tool |-> v[n].tool, content |-> NoOutput]
        /\ v[n].content = NoOutput
        /\ v[n].seq = IF n = 1 THEN 0 ELSE v[n - 1].seq + 1
    BY <1>7 DEF RecordedIn, n, v
  <2>2. n \in 1 .. n
    BY <1>1, <2>1
  <2>3. v[n].seq = n - 1
    <3>1. CASE n = 1
      BY <2>1, <3>1
    <3>2. CASE n # 1
      <4>1. n - 1 \in 1 .. n /\ n - 1 \in 1 .. n - 1 /\ Len(s) >= 2
        BY <1>1, <2>1, <3>2
      <4>2. s[n - 1].ts < s[n].ts
        BY <1>1, <1>3, <1>7, <2>1, <4>1
      <4>3. s[n - 1].ts = v[n - 1].seq /\ s[n].ts = n - 1
        <5>1. s[n - 1] = RecordOf(v[n - 1])
          BY <2>1, <4>1
        <5> QED
          BY <2>1, <5>1 DEF RecordOf
      <4>4. v[n - 1].seq >= (n - 1) - 1
        BY <4>1, NumbersRise DEF n, v
      <4>5. v[n - 1].seq \in Nat
        BY <1>1, <4>1 DEF Event
      <4>6. v[n].seq = v[n - 1].seq + 1
        BY <2>1, <3>2
      <4> QED
        BY <1>1, <4>2, <4>3, <4>4, <4>5, <4>6
    <3> QED
      BY <3>1, <3>2
  <2>4. s[n] = RecordOf(v[n])
    BY <2>1, <2>3 DEF RecordOf
  <2>5. \A i \in 1 .. n : s[i] = RecordOf(v[i])
    <3>1. \A i \in 1 .. n : i \in 1 .. n - 1 \/ i = n
      BY <1>1
    <3> QED
      BY <2>1, <2>4, <3>1
  <2>6. /\ Records(conv) \in Seq(Held) /\ Len(Records(conv)) = n
        /\ \A i \in 1 .. n : Records(conv)[i] = RecordOf(v[i])
    BY RecordsType DEF n, v
  <2>7. s \in Seq(Held)
    BY DEF s
  <2>8. s = Records(conv)
    BY <2>1, <2>5, <2>6, <2>7, SeqEqual
  <2> QED
    BY <1>4, <2>8 DEF s, n
<1> QED
  BY <1>2, <1>5, <1>6, <1>7

LEMMA ReturnReusedStep ==
    ASSUME IInv, ReturnReused
    PROVE  IInv'
<1>1. /\ TypeOK /\ StoreInv /\ CacheInv /\ CallInv /\ BusyInv /\ idle \in BOOLEAN
      /\ busy \in Busy /\ pc = "return" /\ Found
      /\ conv \in Memory /\ gen \in Nat /\ Loadable(conv)
      /\ pending \subseteq [bucket : Bucket, tool : Tool]
  BY DEF IInv, TypeOK, StoreInv, ReturnReused, Busy
<1>2. StoreNow /\ EntriesStay
  BY <1>1, StoreSame DEF ReturnReused, store
<1>3. RestNow /\ CallInv' /\ BusyInv'
  BY <1>1, Freed DEF ReturnReused, Finish
<1>4. /\ call.bucket \in Bucket /\ call.guard \in Guard /\ call.guard.trace \in Seq(Held)
      /\ WellGrounded(call.bucket, call.guard)
  BY <1>1, UnderWay DEF CallInv
<1>5. CASE UNCHANGED cache
  BY <1>1, <1>2, <1>3, <1>5, CacheSame, Together
<1>6. CASE \E p \in Advance(call.guard.trace, busy) : Keep(call.guard, Here, p)
  <2>1. PICK p \in Advance(call.guard.trace, busy) : Keep(call.guard, Here, p)
    BY <1>6
  <2>2. Returning(busy)
    BY <1>1, NoneAssumption DEF BusyInv, ReturnReused
  <2>3. call.guard.trace = Records(conv) /\ p = Identity(Len(conv.events))
    BY <1>1, <1>4, <2>2, AdvancedIsHistory
  <2> DEFINE l == [guard |-> call.guard,
                   rev |-> [gen |-> gen, events |-> Len(conv.events),
                            attaches |-> Len(conv.attaches)],
                   positions |-> Identity(Len(conv.events))]
  <2>4. cache' = [cache EXCEPT ![call.bucket] = l]
    BY <2>1, <2>3 DEF Keep, Here
  <2>5. l.rev.gen = gen
    OBVIOUS
  <2>6. l \in Live /\ Kept(conv, call.bucket, l)
    BY <1>1, <1>4, <2>3, KeptNow
  <2> HIDE DEF l
  <2>7. conv' = conv /\ gen' = gen
    BY DEF ReturnReused, store
  <2>8. EntryIn(conv', known', gen', call.bucket, l)
    BY <1>1, <2>5, <2>6, <2>7 DEF EntryIn
  <2>9. CacheInv' /\ cache' \in [Bucket -> Live \cup {None}]
    BY <1>1, <1>2, <1>4, <2>4, <2>6, <2>8, CacheGains
  <2> QED
    BY <1>2, <1>3, <2>9, Together
<1> QED
  BY <1>5, <1>6 DEF ReturnReused

LEMMA InitInv ==
    ASSUME Init
    PROVE  IInv
<1>1. conv \in Memory /\ Loadable(conv)
  BY LoggedAssumption DEF Init
<1>2. known = (conv.events # <<>>) /\ idle = FALSE /\ gen = IF known THEN 1 ELSE 0
  BY DEF Init
<1>3. gen \in Nat
  BY <1>2
<1>4. known \in BOOLEAN /\ idle \in BOOLEAN
  BY <1>2, Zenon
<1>5. ASSUME ~known
      PROVE  conv = NewConversation
  <2>1. conv.events = <<>> /\ DOMAIN conv.events = {}
    <3>1. conv.events = <<>>
      BY <1>2, <1>5, Zenon
    <3> QED
      BY <3>1
  <2>2. conv.attaches \in Seq(Attached) /\ DOMAIN conv.attaches = {}
    BY <1>1, <2>1, MemoryType DEF Loadable
  <2>3. conv.attaches = <<>>
    <3>1. Len(conv.attaches) \in Nat /\ DOMAIN conv.attaches = 1 .. Len(conv.attaches)
      BY <2>2, LenProperties
    <3>2. Len(conv.attaches) = 0
      <4>1. 1 \notin 1 .. Len(conv.attaches)
        BY <2>2, <3>1
      <4> QED
        BY <3>1, <4>1
    <3> QED
      BY <2>2, <3>2, EmptySeq
  <2>4. conv.nextSeq = 0
    BY <1>1, <2>1 DEF Loadable
  <2> QED
    BY <1>1, <2>1, <2>3, <2>4 DEF Memory, NewConversation
<1>6. StoreInv
  BY <1>1, <1>5 DEF StoreInv
<1>7. /\ cache = [b \in Bucket |-> None] /\ pc = "free" /\ call = NoCall /\ busy = None
      /\ pending = {}
  BY DEF Init
<1>8. TypeOK
  BY <1>1, <1>3, <1>4, <1>7 DEF TypeOK
<1>9. CacheInv
  BY <1>7 DEF CacheInv
<1>10. CallInv /\ BusyInv
  BY <1>7 DEF CallInv, BusyInv
<1> QED
  BY <1>6, <1>8, <1>9, <1>10 DEF IInv

LEMMA NextInv ==
    ASSUME IInv, [Next]_vars
    PROVE  IInv'
<1>1. CASE UNCHANGED vars
  BY <1>1, StutterStep
<1>2. ASSUME NEW b \in Bucket, NEW t \in Tool, Checkout(b, t) \/ Commit(b, t)
      PROVE  IInv'
  BY <1>2, CheckoutStep, CommitStep
<1>3. CASE Build
  BY <1>3, BuildStep
<1>4. CASE DecideAllowed \/ DecideDenied \/ DecideDiscarding
  BY <1>4, DecideAllowedStep, DecideDeniedStep, DecideDiscardingStep
<1>5. CASE AppendCall
  BY <1>5, AppendCallStep
<1>6. CASE ReturnContext \/ ReturnGone \/ ReturnReused \/ ReturnNew \/ Adopt
  BY <1>6, ReturnContextStep, ReturnGoneStep, ReturnReusedStep, ReturnNewStep, AdoptStep
<1>7. ASSUME NEW b \in Bucket, NEW t \in Tool, NEW o \in Output, Attach(b, t, o)
      PROVE  IInv'
  BY <1>7, AttachStep
<1>8. CASE AttachGone
  BY <1>8, AttachGoneStep
<1>9. CASE GoIdle
  BY <1>9, GoIdleStep
<1>10. ASSUME NEW b \in Bucket, Evict(b)
       PROVE  IInv'
  BY <1>10, EvictStep
<1>11. CASE Clear
  BY <1>11, ClearStep
<1> QED
  BY <1>1, <1>2, <1>3, <1>4, <1>5, <1>6, <1>7, <1>8, <1>9, <1>10, <1>11, Zenon DEF Next

LEMMA Always == Spec => []IInv
<1>1. Init => IInv
  BY InitInv
<1>2. IInv /\ [Next]_vars => IInv'
  BY NextInv
<1> QED
  BY <1>1, <1>2, PTL DEF Spec

----------------------------------------------------------------------------
(* The properties.                                                         *)

\* The variables keep their types, for any restored conversations.
THEOREM GuardTypes == Spec => []TypeOK
<1>1. IInv => TypeOK
  BY DEF IInv
<1> QED
  BY <1>1, Always, PTL

\* "The reused guard must decide exactly as a rebuilt one would": whatever
\* calls, outputs, expiries, evictions and reloads came before, the call is
\* decided by the grounded trace a guard built from the store would have.
THEOREM ReusedDecidesAsRebuilt == Spec => []ReusedAsRebuilt
<1>1. ASSUME IInv, pc = "decide"
      PROVE  Grounded(call.bucket, call.guard) = Grounded(call.bucket, Built(conv))
  <2>1. /\ TypeOK /\ conv \in Memory /\ call.guard.trace = Records(conv)
        /\ WellGrounded(call.bucket, call.guard)
    BY <1>1 DEF IInv, TypeOK, CallInv
  <2>2. call.guard \in Guard
    BY <1>1, <2>1, UnderWay
  <2>3. /\ Built(conv) \in Guard /\ WellGrounded(call.bucket, Built(conv))
        /\ Built(conv).trace = Records(conv)
    BY <2>1, BuiltGuard
  <2>4. Grounded(call.bucket, call.guard) = Mask(call.bucket, Records(conv))
    BY <2>1, <2>2, GroundedIsMask
  <2>5. Grounded(call.bucket, Built(conv)) = Mask(call.bucket, Records(conv))
    BY <2>3, GroundedIsMask
  <2> QED
    BY <2>4, <2>5
<1>2. IInv => ReusedAsRebuilt
  BY <1>1 DEF ReusedAsRebuilt
<1> QED
  BY <1>2, Always, PTL

\* A cached guard can be synced as long as its conversation lives: its
\* number of events, its order and its positions never stop fitting.
THEOREM GuardsOutliveEverythingElse == Spec => []DroppedOnlyWithConversation
<1>1. ASSUME IInv, NEW b \in Bucket, cache[b] # None, Found, cache[b].rev.gen = gen
      PROVE  CanSync(cache[b])
  <2>1. /\ conv \in Memory /\ Loadable(conv) /\ cache[b] \in Live /\ CacheInv
    BY <1>1 DEF IInv, TypeOK, StoreInv
  <2>2. Kept(conv, b, cache[b])
    BY <1>1, <2>1 DEF CacheInv, EntryIn, Found
  <2> QED
    BY <1>1, <2>1, <2>2, KeptCanSync
<1>2. IInv => DroppedOnlyWithConversation
  BY <1>1 DEF DroppedOnlyWithConversation
<1> QED
  BY <1>2, Always, PTL

\* A cached guard holds the history as it was when the guard was last used:
\* neither a call of its own nor one of another bucket, nor an output, is in
\* it that was not stored by then.
THEOREM CachedGuardsArePast == Spec => []KeptIsPast
<1>1. ASSUME IInv, NEW b \in Bucket, cache[b] # None, known, cache[b].rev.gen = gen
      PROVE  LET l == cache[b]
             IN /\ l.rev.events <= Len(conv.events)
                /\ l.rev.attaches <= Len(conv.attaches)
                /\ l.positions = [i \in 1 .. l.rev.events |-> i]
                /\ l.guard.trace = AsOf(l.rev)
                /\ l.guard.ground =
                     Mask(b, SubSeq(AsOf(l.rev), 1, Len(l.guard.ground)))
  <2>1. Kept(conv, b, cache[b])
    BY <1>1 DEF IInv, CacheInv, EntryIn
  <2>2. \A rev : AsOf(rev) = EventsBy(conv, rev)
    BY DEF AsOf, OutputAt, NewAttaches, EventsBy, EventBy, OutputBy
  <2> QED
    BY <2>1, <2>2 DEF Kept, WellGrounded, Identity
<1>2. IInv => KeptIsPast
  BY <1>1 DEF KeptIsPast
<1> QED
  BY <1>2, Always, PTL
=============================================================================
