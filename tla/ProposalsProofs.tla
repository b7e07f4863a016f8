-------------------------- MODULE ProposalsProofs --------------------------
(* A change is applied once for each approval, for any number of proposals *)
(* and admin threads; the audit log does what its specification says, and  *)
(* what is taken out of it is seen.                                        *)
EXTENDS Proposals, SequenceTheorems, WellFoundedInduction, TLAPS

\* Numbers grow along the chain, and what a process remembers is in it.
Growing(f) == \A i, j \in Chained(f, Len(f)) : i < j => f[i].seq < f[j].seq
NoCuts(f) == \A i \in DOMAIN f : ~f[i].cut
HeadsHeld == \A p \in Proc : head[p] # NoHead => Has(lines, head[p])

\* ChainUnbroken is not inductive: that no append finds its last record gone
\* needs HeadsHeld, and that it looks far enough for it needs Growing.
Whole == Unbroken(lines) /\ NoCuts(lines) /\ Growing(lines) /\ HeadsHeld

AuditInv == AuditTypeOK /\ (~removed => Whole)

----------------------------------------------------------------------------
(* The last chained record.                                                *)

\* A set of positions that is not empty has a greatest one.
LEMMA GreatestPosition ==
    ASSUME NEW n \in Nat, NEW S \in SUBSET (1 .. n), S # {}
    PROVE  \E i \in S : \A j \in S : j <= i
<1> DEFINE Left == {k \in Nat : n - k \in S}
<1>1. PICK s \in S : TRUE
  OBVIOUS
<1>2. n - s \in Left
  BY <1>1
<1>3. PICK k \in Left : \A m \in Left : k <= m
  <2> DEFINE Less == OpToRel(<, Nat)
  <2>1. \A i, j \in Nat : <<i, j>> \in Less <=> i < j
    BY DEF OpToRel
  <2>2. IsWellFoundedOn(Less, Nat)
    BY NatLessThanWellFounded
  <2>3. Left \subseteq Nat /\ Left # {}
    BY <1>2
  <2> HIDE DEF Less, Left
  <2>4. PICK k \in Left : \A m \in Left : ~(<<m, k>> \in Less)
    BY <2>2, <2>3, WFMin, Zenon
  <2>5. \A m \in Left : m \in Nat
    BY <2>3
  <2>6. k \in Nat /\ \A m \in Left : ~(m < k)
    BY <2>1, <2>4, <2>5
  <2>7. \A m \in Left : k <= m
    BY <2>5, <2>6
  <2> QED
    BY <2>4, <2>7
<1>4. k \in Nat /\ n - k \in S
  BY <1>3
<1>5. ASSUME NEW j \in S PROVE j <= n - k
  <2>1. j \in Nat /\ n - j \in Nat /\ n - (n - j) = j
    OBVIOUS
  <2>2. n - j \in Left
    BY <2>1
  <2>3. k <= n - j
    BY <1>3, <2>2
  <2> QED
    BY <1>4, <2>1, <2>3
<1> QED
  BY <1>4, <1>5

\* The last chained record is a number and a hash, no lower than any before
\* it when numbers grow.
LEMMA LastUpToIsLink ==
    ASSUME NEW f \in Seq(Line), NEW n \in 0 .. Len(f)
    PROVE  /\ LastUpTo(f, n) \in Link
           /\ Chained(f, n) # {} =>
                  \E i \in Chained(f, n) :
                      /\ \A j \in Chained(f, n) : j <= i
                      /\ LastUpTo(f, n) = [seq |-> f[i].seq, id |-> f[i].id]
<1>1. CASE Chained(f, n) = {}
  BY <1>1 DEF LastUpTo, NoHead, Link
<1>2. CASE Chained(f, n) # {}
  <2>1. n \in Nat /\ Chained(f, n) \in SUBSET (1 .. n)
    BY DEF Chained
  <2>2. \E i \in Chained(f, n) : \A j \in Chained(f, n) : j <= i
    BY <1>2, <2>1, GreatestPosition
  <2> DEFINE i == CHOOSE i \in Chained(f, n) : \A j \in Chained(f, n) : j <= i
  <2>3. i \in Chained(f, n) /\ \A j \in Chained(f, n) : j <= i
    BY <2>2
  <2>4. LastUpTo(f, n) = [seq |-> f[i].seq, id |-> f[i].id]
    BY <1>2 DEF LastUpTo
  <2> HIDE DEF i
  <2>5. f[i] \in Line
    BY <2>1, <2>3
  <2> QED
    BY <2>3, <2>4, <2>5 DEF Link, Line
<1> QED
  BY <1>1, <1>2

\* It depends on the first n lines alone.
LEMMA LastUpToLocal ==
    ASSUME NEW f \in Seq(Line), NEW x \in Line, NEW n \in 0 .. Len(f)
    PROVE  /\ Chained(Append(f, x), n) = Chained(f, n)
           /\ LastUpTo(Append(f, x), n) = LastUpTo(f, n)
<1> DEFINE g == Append(f, x)
<1>1. \A i \in 1 .. n : g[i] = f[i]
  OBVIOUS
<1>2. Chained(g, n) = Chained(f, n)
  BY <1>1 DEF Chained
<1> HIDE DEF g
<1>3. CASE Chained(f, n) = {}
  BY <1>2, <1>3 DEF LastUpTo, g
<1>4. CASE Chained(f, n) # {}
  <2> DEFINE i == CHOOSE i \in Chained(f, n) : \A j \in Chained(f, n) : j <= i
  <2>1. i \in Chained(f, n)
    <3>1. n \in Nat /\ Chained(f, n) \in SUBSET (1 .. n)
      BY DEF Chained
    <3> QED
      BY <1>4, <3>1, GreatestPosition
  <2>2. LastUpTo(f, n) = [seq |-> f[i].seq, id |-> f[i].id]
    BY <1>4 DEF LastUpTo
  <2>3. LastUpTo(g, n) = [seq |-> g[i].seq, id |-> g[i].id]
    BY <1>2, <1>4 DEF LastUpTo
  <2> HIDE DEF i
  <2>4. g[i] = f[i]
    BY <1>1, <2>1 DEF Chained
  <2> QED
    BY <1>2, <2>2, <2>3, <2>4 DEF g
<1> QED
  BY <1>3, <1>4, <1>2 DEF g

----------------------------------------------------------------------------
(* Types.                                                                  *)

LEMMA NewIsLines ==
    ASSUME AuditTypeOK, NEW p \in Proc
    PROVE  /\ Cut(p) \in Seq(Line) /\ Len(Cut(p)) \in {0, 1}
           /\ Record(p) \in Line
           /\ New(p) \in Seq(Line)
           /\ Len(New(p)) = Len(Cut(p)) + 1
           /\ New(p)[Len(New(p))] = Record(p)
<1> USE DEF AuditTypeOK
<1>1. ASSUME NEW l \in Link, NEW i \in Nat, NEW c \in BOOLEAN
      PROVE  After(l, i, c) \in Line
  BY <1>1 DEF After, Link, Line
<1>2. head[p] \in Link /\ ids + 1 \in Nat
  OBVIOUS
<1>3. After(head[p], ids + 1, TRUE) \in Line
  BY <1>1, <1>2
<1>4. Cut(p) = <<After(head[p], ids + 1, TRUE)>> \/ Cut(p) = <<>>
  BY DEF Cut
<1>5. Cut(p) \in Seq(Line) /\ Len(Cut(p)) \in {0, 1}
  <2> DEFINE report == After(head[p], ids + 1, TRUE)
  <2> HIDE DEF report
  <2>1. report \in Line /\ (Cut(p) = <<report>> \/ Cut(p) = <<>>)
    BY <1>3, <1>4 DEF report
  <2>2. <<report>> \in Seq(Line) /\ Len(<<report>>) = 1
    BY <2>1
  <2>3. << >> \in Seq(Line) /\ Len(<< >>) = 0
    BY EmptySeq
  <2> QED
    BY <2>1, <2>2, <2>3
<1>6. lines \o Cut(p) \in Seq(Line)
  BY <1>5
<1>7. Last(lines \o Cut(p)) \in Link
  <2>1. Len(lines \o Cut(p)) \in 0 .. Len(lines \o Cut(p))
    BY <1>6
  <2> QED
    BY <1>6, <2>1, LastUpToIsLink DEF Last
<1>8. Record(p) \in Line
  <2>1. ids + Len(Cut(p)) + 1 \in Nat
    BY <1>5
  <2> QED
    BY <1>1, <1>7, <2>1 DEF Record
<1> QED
  BY <1>5, <1>8 DEF New

\* However far a write gets, the file is lines.
LEMMA WroteTypes ==
    ASSUME AuditTypeOK, NEW p \in Proc, NEW n \in Nat,
           NEW rest \in {"nothing", "part", "line"}, Wrote(p, n, rest)
    PROVE  lines' \in Seq(Line) /\ torn' \in BOOLEAN /\ ids' \in Nat
<1> DEFINE whole == lines \o SubSeq(New(p), 1, n)
<1>1. n \in 0 .. Len(New(p)) /\ (rest # "nothing" => n < Len(New(p)))
  BY DEF Wrote
<1>2. New(p) \in Seq(Line) /\ lines \in Seq(Line)
  BY NewIsLines DEF AuditTypeOK
<1>3. SubSeq(New(p), 1, n) \in Seq(Line)
  BY <1>1, <1>2
<1>4. whole \in Seq(Line)
  BY <1>2, <1>3
<1>5. Junk \in Line
  BY DEF Junk, Line
<1>6. rest # "nothing" => New(p)[n + 1] \in Line
  BY <1>1, <1>2
<1>7. \/ rest = "nothing" /\ lines' = whole
      \/ rest = "part" /\ lines' = Append(whole, Junk)
      \/ rest = "line" /\ lines' = Append(whole, New(p)[n + 1])
  BY DEF Wrote
<1> HIDE DEF whole
<1>8. lines' \in Seq(Line)
  BY <1>4, <1>5, <1>6, <1>7
<1> QED
  BY <1>8 DEF Wrote, AuditTypeOK

LEMMA RememberedTypes ==
    ASSUME AuditTypeOK, NEW p \in Proc, NEW n \in 0 .. Len(New(p)), Remembered(p, n)
    PROVE  head' \in [Proc -> Link] /\ mine' \in [Proc -> SUBSET Nat]
<1>1. New(p) \in Seq(Line)
  BY NewIsLines
<1>2. \A i \in 1 .. n : New(p)[i] \in Line
  BY <1>1
<1>3. n # 0 => [seq |-> New(p)[n].seq, id |-> New(p)[n].id] \in Link
  BY <1>2 DEF Line, Link
<1>4. {New(p)[i].id : i \in 1 .. n} \subseteq Nat
  BY <1>2 DEF Line
<1> QED
  BY <1>3, <1>4 DEF Remembered, AuditTypeOK

LEMMA RestartedTypes ==
    ASSUME AuditTypeOK, NEW p \in Proc, Restarted(p)
    PROVE  head' \in [Proc -> Link] /\ mine' \in [Proc -> SUBSET Nat]
BY DEF Restarted, AuditTypeOK, NoHead, Link

LEMMA AuditInitTypes == AuditInit => AuditTypeOK
<1> SUFFICES ASSUME AuditInit PROVE AuditTypeOK
  OBVIOUS
<1>1. lines \in Seq(Line)
  BY DEF AuditInit
<1>2. head \in [Proc -> Link]
  BY DEF AuditInit, NoHead, Link
<1>3. ids \in Nat /\ mine \in [Proc -> SUBSET Nat]
  BY DEF AuditInit
<1>4. torn \in BOOLEAN /\ removed \in BOOLEAN
  BY DEF AuditInit
<1> QED
  BY <1>1, <1>2, <1>3, <1>4 DEF AuditTypeOK

LEMMA AuditNextTypes == AuditTypeOK /\ [AuditNext]_avars => AuditTypeOK'
<1> SUFFICES ASSUME AuditTypeOK, [AuditNext]_avars PROVE AuditTypeOK'
  OBVIOUS
<1>1. CASE UNCHANGED avars
  BY <1>1 DEF avars, AuditTypeOK
<1>2. ASSUME NEW p \in Proc, AppendRecord(p) PROVE AuditTypeOK'
  <2>1. Len(New(p)) \in Nat /\ Len(New(p)) \in 0 .. Len(New(p))
    BY NewIsLines
  <2>2. lines' \in Seq(Line) /\ torn' \in BOOLEAN /\ ids' \in Nat
    BY <1>2, <2>1, WroteTypes DEF AppendRecord
  <2>3. head' \in [Proc -> Link] /\ mine' \in [Proc -> SUBSET Nat]
    BY <1>2, <2>1, RememberedTypes DEF AppendRecord
  <2> QED
    BY <1>2, <2>2, <2>3 DEF AppendRecord, AuditTypeOK
<1>3. ASSUME NEW p \in Proc, AppendFails(p) PROVE AuditTypeOK'
  <2>1. CASE UNCHANGED avars
    BY <2>1, <1>1
  <2>2. ASSUME NEW n \in 0 .. 1, NEW rest \in {"nothing", "part", "line"},
               n < Len(New(p)), Wrote(p, n, rest), Remembered(p, n), UNCHANGED removed
        PROVE  AuditTypeOK'
    <3>1. n \in Nat /\ n \in 0 .. Len(New(p))
      BY <2>2, NewIsLines
    <3>2. lines' \in Seq(Line) /\ torn' \in BOOLEAN /\ ids' \in Nat
      BY <2>2, <3>1, WroteTypes
    <3>3. head' \in [Proc -> Link] /\ mine' \in [Proc -> SUBSET Nat]
      BY <2>2, <3>1, RememberedTypes
    <3> QED
      BY <2>2, <3>2, <3>3 DEF AuditTypeOK
  <2> QED
    BY <1>3, <2>1, <2>2 DEF AppendFails
<1>4. ASSUME NEW p \in Proc, Crash(p) PROVE AuditTypeOK'
  <2>1. PICK n \in 0 .. 2, rest \in {"nothing", "part", "line"} :
            Wrote(p, n, rest) /\ Restarted(p) /\ UNCHANGED removed
    BY <1>4 DEF Crash
  <2>2. lines' \in Seq(Line) /\ torn' \in BOOLEAN /\ ids' \in Nat
    BY <2>1, WroteTypes
  <2> QED
    BY <2>1, <2>2, RestartedTypes DEF AuditTypeOK
<1>5. ASSUME NEW p \in Proc, Restart(p) PROVE AuditTypeOK'
  BY <1>5, RestartedTypes DEF Restart, AuditTypeOK
<1>6. ASSUME NEW from \in 1 .. MaxLines, NEW to \in 1 .. MaxLines, Remove(from, to)
      PROVE  AuditTypeOK'
  <2>1. lines \in Seq(Line) /\ from \in 1 .. Len(lines) /\ to \in 1 .. Len(lines)
    BY <1>6, BoundsAssumption DEF Remove, AuditTypeOK
  <2>2. SubSeq(lines, 1, from - 1) \in Seq(Line)
    BY <2>1
  <2>3. SubSeq(lines, to + 1, Len(lines)) \in Seq(Line)
    BY <2>1
  <2>4. lines' \in Seq(Line)
    BY <1>6, <2>2, <2>3 DEF Remove
  <2> QED
    BY <1>6, <2>4 DEF Remove, AuditTypeOK
<1> QED
  BY <1>1, <1>2, <1>3, <1>4, <1>5, <1>6 DEF AuditNext

\* The file stays lines and parts of lines, and what a process remembers a
\* number and a hash.
THEOREM AuditTypeCorrect == AuditSpec => []AuditTypeOK
BY AuditInitTypes, AuditNextTypes, PTL DEF AuditSpec

----------------------------------------------------------------------------
(* The chain.                                                              *)

\* A line that follows the last chained record, or is no record, leaves the
\* chain whole and every record in it.
LEMMA AppendKeepsWhole ==
    ASSUME NEW f \in Seq(Line), NEW x \in Line, ~x.cut,
           x.id # 0 => x.prev = Last(f).id /\ x.seq = Last(f).seq + 1,
           Unbroken(f), NoCuts(f), Growing(f)
    PROVE  /\ Unbroken(Append(f, x)) /\ NoCuts(Append(f, x)) /\ Growing(Append(f, x))
           /\ \A link : Has(f, link) => Has(Append(f, x), link)
           /\ x.id # 0 => Has(Append(f, x), [seq |-> x.seq, id |-> x.id])
<1> DEFINE g == Append(f, x)
           l == Len(f)
<1>1. g \in Seq(Line) /\ Len(g) = l + 1 /\ l \in Nat /\ g[l + 1] = x
  OBVIOUS
<1>2. \A i \in 1 .. l : g[i] = f[i] /\ f[i] \in Line
  OBVIOUS
<1>3. \A n \in 0 .. l : LastUpTo(g, n) = LastUpTo(f, n)
  BY LastUpToLocal
<1>4. DOMAIN g = 1 .. l + 1 /\ DOMAIN f = 1 .. l
  OBVIOUS
<1> HIDE DEF g, l
<1>5. Chained(g, l + 1) = Chained(f, l) \cup (IF x.id # 0 THEN {l + 1} ELSE {})
  BY <1>1, <1>2 DEF Chained
<1>6. Chained(f, l) \subseteq 1 .. l
  BY DEF Chained
<1>7. Unbroken(g)
  <2> SUFFICES ASSUME NEW i \in Chained(g, l + 1) PROVE Follows(g, i)
    BY <1>1 DEF Unbroken
  <2>1. CASE i \in Chained(f, l)
    <3>1. Follows(f, i)
      BY <2>1 DEF Unbroken, l
    <3>2. i \in 1 .. l /\ i - 1 \in 0 .. l /\ g[i] = f[i]
      BY <1>1, <1>2, <1>6, <2>1
    <3>3. LastUpTo(g, i - 1) = LastUpTo(f, i - 1)
      BY <1>3, <3>2
    <3> QED
      BY <3>1, <3>2, <3>3 DEF Follows
  <2>2. CASE i = l + 1 /\ x.id # 0
    <3>1. LastUpTo(g, i - 1) = Last(f)
      BY <1>1, <1>3, <2>2 DEF Last, l
    <3> QED
      BY <1>1, <2>2, <3>1 DEF Follows
  <2> QED
    BY <1>5, <2>1, <2>2
<1>8. NoCuts(g)
  BY <1>1, <1>2, <1>4 DEF NoCuts
<1>9. Growing(g)
  <2> SUFFICES ASSUME NEW i \in Chained(g, l + 1), NEW j \in Chained(g, l + 1), i < j
               PROVE  g[i].seq < g[j].seq
    BY <1>1 DEF Growing
  <2>1. CASE j \in Chained(f, l)
    <3>1. i \in Chained(f, l)
      BY <1>1, <1>5, <1>6, <2>1
    <3> QED
      BY <1>2, <1>6, <2>1, <3>1 DEF Growing, l
  <2>2. CASE j = l + 1 /\ x.id # 0
    <3>1. i \in Chained(f, l)
      BY <1>1, <1>5, <1>6, <2>2
    <3>2. PICK k \in Chained(f, l) : /\ \A m \in Chained(f, l) : m <= k
                                     /\ Last(f) = [seq |-> f[k].seq, id |-> f[k].id]
      BY <1>1, <3>1, LastUpToIsLink DEF Last, l
    <3>3. f[i].seq <= f[k].seq
      <4>1. i = k \/ i < k
        BY <1>6, <3>1, <3>2
      <4>2. f[i].seq \in Nat /\ f[k].seq \in Nat
        BY <1>2, <1>6, <3>1 DEF Line
      <4> QED
        BY <3>1, <4>1, <4>2 DEF Growing, l
    <3>4. g[j].seq = f[k].seq + 1 /\ g[i] = f[i]
      BY <1>1, <1>2, <1>6, <2>2, <3>1, <3>2
    <3>5. f[i].seq \in Nat /\ f[k].seq \in Nat
      BY <1>2, <1>6, <3>1 DEF Line
    <3> QED
      BY <3>3, <3>4, <3>5
  <2> QED
    BY <1>5, <2>1, <2>2
<1>10. ASSUME NEW link, Has(f, link) PROVE Has(g, link)
  <2>1. PICK i \in Chained(f, l) : f[i].seq = link.seq /\ f[i].id = link.id
    BY <1>10 DEF Has, l
  <2>2. i \in Chained(g, Len(g)) /\ g[i] = f[i]
    BY <1>1, <1>2, <1>5, <1>6, <2>1
  <2> QED
    BY <2>1, <2>2 DEF Has
<1>11. ASSUME x.id # 0 PROVE Has(g, [seq |-> x.seq, id |-> x.id])
  BY <1>1, <1>5, <1>11 DEF Has
<1> QED
  BY <1>7, <1>8, <1>9, <1>10, <1>11 DEF g

\* While nothing was taken out, an append finds the record it remembers.
LEMMA NothingToReport ==
    ASSUME AuditTypeOK, Whole, NEW p \in Proc
    PROVE  Cut(p) = <<>>
<1> SUFFICES ASSUME head[p] # NoHead PROVE Holds(lines, head[p])
  BY DEF Cut
<1>1. PICK i \in Chained(lines, Len(lines)) :
          lines[i].seq = head[p].seq /\ lines[i].id = head[p].id
  BY DEF Whole, HeadsHeld, Has
<1>2. \A j \in Chained(lines, Len(lines)) : j > i => lines[j].seq > head[p].seq
  <2> TAKE j \in Chained(lines, Len(lines))
  <2> HAVE j > i
  <2>1. i \in Nat /\ j \in Nat /\ lines[i] \in Line /\ lines[j] \in Line
    BY DEF Chained, AuditTypeOK
  <2>2. lines[i].seq < lines[j].seq
    BY <2>1 DEF Whole, Growing
  <2> QED
    BY <1>1, <2>1, <2>2 DEF Line
<1> QED
  BY <1>1, <1>2 DEF Holds

\* So it writes its record, a part of it, or nothing.
LEMMA WroteOneLine ==
    ASSUME AuditTypeOK, Whole, NEW p \in Proc, NEW n \in Nat,
           NEW rest \in {"nothing", "part", "line"}, Wrote(p, n, rest)
    PROVE  /\ n \in 0 .. 1
           /\ n = 1 => New(p)[n] = Record(p) /\ lines' = Append(lines, Record(p))
           /\ \/ lines' = lines
              \/ lines' = Append(lines, Record(p))
              \/ lines' = Append(lines, Junk)
<1>1. Cut(p) = <<>> /\ lines \in Seq(Line) /\ Record(p) \in Line
  BY NothingToReport, NewIsLines DEF AuditTypeOK
<1> DEFINE r == Record(p)
<1> HIDE DEF r
<1>2. New(p) = <<r>> /\ r \in Line
  BY <1>1 DEF New, r
<1>3. n \in 0 .. 1 /\ (rest # "nothing" => n = 0)
  BY <1>2 DEF Wrote
<1>4. SubSeq(<<r>>, 1, 0) = <<>> /\ SubSeq(<<r>>, 1, 1) = <<r>> /\ <<r>>[1] = r
  <2>1. <<r>> \in Seq(Line) /\ Len(<<r>>) = 1 /\ <<r>>[1] = r
    BY <1>2
  <2>2. SubSeq(<<r>>, 1, 0) = <<>>
    BY SubSeqEmpty
  <2>3. SubSeq(<<r>>, 1, Len(<<r>>)) = <<r>>
    BY <2>1, SubSeqFull, Zenon
  <2> QED
    BY <2>1, <2>2, <2>3
<1>5. lines \o <<>> = lines /\ lines \o <<r>> = Append(lines, r)
  BY <1>1, <1>2
<1>6. CASE n = 0
  <2>1. lines \o SubSeq(New(p), 1, n) = lines
    BY <1>2, <1>4, <1>5, <1>6
  <2>2. New(p)[n + 1] = r
    BY <1>2, <1>4, <1>6
  <2>3. lines' = lines \/ lines' = Append(lines, r) \/ lines' = Append(lines, Junk)
    BY <2>1, <2>2 DEF Wrote
  <2> QED
    BY <1>6, <2>3 DEF r
<1>7. CASE n = 1
  <2>1. lines \o SubSeq(New(p), 1, n) = Append(lines, r)
    BY <1>2, <1>4, <1>5, <1>7
  <2>2. rest = "nothing"
    BY <1>3, <1>7
  <2>3. lines' = Append(lines, r)
    BY <2>1, <2>2 DEF Wrote
  <2>4. New(p)[n] = r
    BY <1>2, <1>4, <1>7
  <2> QED
    BY <1>7, <2>3, <2>4 DEF r
<1> QED
  BY <1>3, <1>6, <1>7

\* A write keeps the chain whole and every record in it.
LEMMA WroteWhole ==
    ASSUME AuditTypeOK, Whole, NEW p \in Proc, NEW n \in Nat,
           NEW rest \in {"nothing", "part", "line"}, Wrote(p, n, rest)
    PROVE  /\ Unbroken(lines') /\ NoCuts(lines') /\ Growing(lines')
           /\ \A link : Has(lines, link) => Has(lines', link)
           /\ n # 0 => Has(lines', [seq |-> New(p)[n].seq, id |-> New(p)[n].id])
<1>1. lines \in Seq(Line) /\ ids \in Nat /\ Cut(p) = <<>>
  BY NothingToReport DEF AuditTypeOK
<1>2. Record(p) = After(Last(lines), ids + 1, FALSE) /\ Record(p) \in Line
  <2>1. lines \o <<>> = lines /\ ids + Len(<<>>) + 1 = ids + 1
    BY <1>1
  <2>2. Record(p) = After(Last(lines), ids + 1, FALSE)
    BY <1>1, <2>1 DEF Record
  <2> QED
    BY <2>2, NewIsLines
<1>3. /\ Record(p).id # 0 /\ ~Record(p).cut
      /\ Record(p).prev = Last(lines).id /\ Record(p).seq = Last(lines).seq + 1
  BY <1>1, <1>2 DEF After
<1>4. CASE lines' = lines /\ n # 1
  <2>1. n = 0
    BY <1>4, WroteOneLine
  <2> QED
    BY <1>4, <2>1 DEF Whole
<1>5. CASE lines' = Append(lines, Record(p))
  <2>1. n # 0 => New(p)[n] = Record(p)
    BY WroteOneLine
  <2> QED
    BY <1>1, <1>2, <1>3, <1>5, <2>1, AppendKeepsWhole DEF Whole
<1>6. CASE lines' = Append(lines, Junk) /\ n # 1
  <2>1. Junk \in Line /\ ~Junk.cut /\ Junk.id = 0
    BY DEF Junk, Line
  <2>2. n = 0
    BY <1>6, WroteOneLine
  <2> QED
    BY <1>1, <1>6, <2>1, <2>2, AppendKeepsWhole DEF Whole
<1> QED
  BY <1>4, <1>5, <1>6, WroteOneLine

LEMMA RememberedHeld ==
    ASSUME AuditTypeOK, Whole, NEW p \in Proc, NEW n \in Nat,
           NEW rest \in {"nothing", "part", "line"}, Wrote(p, n, rest),
           Remembered(p, n) \/ Restarted(p)
    PROVE  Whole'
<1>1. /\ Unbroken(lines') /\ NoCuts(lines') /\ Growing(lines')
      /\ \A link : Has(lines, link) => Has(lines', link)
      /\ n # 0 => Has(lines', [seq |-> New(p)[n].seq, id |-> New(p)[n].id])
  BY WroteWhole
<1>2. HeadsHeld'
  <2> SUFFICES ASSUME NEW q \in Proc, head'[q] # NoHead PROVE Has(lines', head'[q])
    BY DEF HeadsHeld
  <2>1. CASE head'[q] = head[q]
    BY <1>1, <2>1 DEF Whole, HeadsHeld
  <2>2. CASE head'[q] # head[q]
    <3>1. q = p /\ n # 0 /\ head'[q] = [seq |-> New(p)[n].seq, id |-> New(p)[n].id]
      BY <2>2 DEF Remembered, Restarted, AuditTypeOK
    <3> QED
      BY <1>1, <3>1
  <2> QED
    BY <2>1, <2>2
<1> QED
  BY <1>1, <1>2 DEF Whole

LEMMA AuditInitInv == AuditInit => AuditInv
<1> SUFFICES ASSUME AuditInit PROVE Whole
  BY AuditInitTypes DEF AuditInv
<1>1. Len(lines) = 0 /\ DOMAIN lines = {}
  BY DEF AuditInit
<1>2. Chained(lines, Len(lines)) = {}
  BY <1>1 DEF Chained
<1>3. HeadsHeld
  BY DEF AuditInit, HeadsHeld
<1> QED
  BY <1>1, <1>2, <1>3 DEF Whole, Unbroken, NoCuts, Growing

LEMMA AuditNextInv == AuditInv /\ [AuditNext]_avars => AuditInv'
<1> SUFFICES ASSUME AuditInv, [AuditNext]_avars, ~removed' PROVE Whole'
  BY AuditNextTypes DEF AuditInv
<1>1. AuditTypeOK /\ Whole
  <2>1. ~removed
    <3>1. AuditNext => removed' = removed \/ removed' = TRUE
      BY DEF AuditNext, AppendRecord, AppendFails, Crash, Restart, Remove, avars
    <3>2. UNCHANGED avars => removed' = removed
      BY DEF avars
    <3> QED
      BY <3>1, <3>2
  <2> QED
    BY <2>1 DEF AuditInv
<1>2. CASE UNCHANGED avars
  BY <1>1, <1>2 DEF avars, Whole, HeadsHeld
<1>3. ASSUME NEW p \in Proc, AppendRecord(p) PROVE Whole'
  <2>1. Len(New(p)) \in Nat
    BY <1>1, NewIsLines
  <2> QED
    BY <1>1, <1>3, <2>1, RememberedHeld DEF AppendRecord
<1>4. ASSUME NEW p \in Proc, AppendFails(p) PROVE Whole'
  <2>1. CASE UNCHANGED avars
    BY <1>2, <2>1
  <2>2. CASE \E n \in 0 .. 1, rest \in {"nothing", "part", "line"} :
                 Wrote(p, n, rest) /\ Remembered(p, n)
    BY <1>1, <2>2, RememberedHeld
  <2> QED
    BY <1>4, <2>1, <2>2 DEF AppendFails
<1>5. ASSUME NEW p \in Proc, Crash(p) PROVE Whole'
  BY <1>1, <1>5, RememberedHeld DEF Crash
<1>6. ASSUME NEW p \in Proc, Restart(p) PROVE Whole'
  <2>1. lines' = lines /\ head' = [head EXCEPT ![p] = NoHead]
    BY <1>6 DEF Restart, Restarted
  <2>2. HeadsHeld'
    BY <1>1, <2>1 DEF AuditTypeOK, Whole, HeadsHeld
  <2> QED
    BY <1>1, <2>1, <2>2 DEF Whole
<1> QED
  BY <1>2, <1>3, <1>4, <1>5, <1>6 DEF AuditNext, Remove

LEMMA WholeIsUnbroken == AuditInv => ChainUnbroken
BY DEF AuditInv, Whole, NoCuts, ChainUnbroken

\* Failed and torn writes, crashes and any number of appending processes
\* leave the chain whole, and tell of no cut, until lines are taken out.
THEOREM AuditChainUnbroken == AuditSpec => []ChainUnbroken
BY AuditInitInv, AuditNextInv, WholeIsUnbroken, PTL DEF AuditSpec

----------------------------------------------------------------------------
(* The record of a cut.  Where one process remembers what it appended, the *)
(* record it appended last descends, by the hashes before it, from all     *)
(* that it appended: so no unbroken chain has that one without the others. *)

Records(f) == {f[i] : i \in Chained(f, Len(f))}
HasId(f, id) == \E r \in Records(f) : r.id = id

\* Records that have the one before each of them among them.
Closed(S) == \A r \in S : r.prev = 0 \/ \E q \in S : q.id = r.prev
AllIn(M, S) == \A m \in M : \E q \in S : q.id = m

\* Hashes are used in order, up to k.
Ordered(f, k) ==
    /\ \A i, j \in Chained(f, Len(f)) : i < j => f[i].id < f[j].id
    /\ \A r \in Records(f) : r.id <= k /\ r.prev <= k

\* As long as the file has the record h, it is found from the end; and what
\* has the records before it, and it or a later one, has all of M.
Found(f, h, M) ==
    HasId(f, h.id) =>
        /\ \A r \in Records(f) : r.id > h.id => r.seq > h.seq
        /\ \A S \in SUBSET Records(f) :
               Closed(S) /\ (\E r \in S : r.id >= h.id) => AllIn(M, S)

Descends(f, k, h, M) ==
    /\ Ordered(f, k)
    /\ h.id <= k
    /\ IF h = NoHead THEN M = {} ELSE h.id # 0
    /\ \A r \in Records(f) : r.id = h.id => r.seq = h.seq
    /\ Found(f, h, M)

LEMMA RecordsAreLines ==
    ASSUME NEW f \in Seq(Line)
    PROVE  /\ Records(f) \subseteq Line
           /\ \A r \in Records(f) : r.id # 0
           /\ \A i \in Chained(f, Len(f)) : i \in 1 .. Len(f) /\ f[i] \in Records(f)
BY DEF Records, Chained

\* A line more is a record more, or none.
LEMMA RecordsOfAppend ==
    ASSUME NEW f \in Seq(Line), NEW x \in Line
    PROVE  /\ Append(f, x) \in Seq(Line)
           /\ Len(Append(f, x)) = Len(f) + 1
           /\ \A i \in 1 .. Len(f) : Append(f, x)[i] = f[i]
           /\ Append(f, x)[Len(f) + 1] = x
           /\ Chained(Append(f, x), Len(f) + 1) =
                  Chained(f, Len(f)) \cup (IF x.id # 0 THEN {Len(f) + 1} ELSE {})
           /\ Records(Append(f, x)) = Records(f) \cup (IF x.id # 0 THEN {x} ELSE {})
<1> DEFINE g == Append(f, x)
           l == Len(f)
<1>1. g \in Seq(Line) /\ Len(g) = l + 1 /\ l \in Nat /\ g[l + 1] = x
  OBVIOUS
<1>2. \A i \in 1 .. l : g[i] = f[i]
  OBVIOUS
<1> HIDE DEF g, l
<1>3. Chained(g, l + 1) = Chained(f, l) \cup (IF x.id # 0 THEN {l + 1} ELSE {})
  BY <1>1, <1>2 DEF Chained
<1>4. \A i \in Chained(f, l) : g[i] = f[i] /\ i # l + 1
  BY <1>1, <1>2 DEF Chained
<1>5. Records(g) = Records(f) \cup (IF x.id # 0 THEN {x} ELSE {})
  <2>1. Records(g) = {g[i] : i \in Chained(g, l + 1)} /\ Records(f) = {f[i] : i \in Chained(f, l)}
    BY <1>1 DEF Records, l
  <2>2. CASE x.id # 0
    BY <1>1, <1>3, <1>4, <2>1, <2>2
  <2>3. CASE x.id = 0
    BY <1>1, <1>3, <1>4, <2>1, <2>3
  <2> QED
    BY <2>2, <2>3
<1> QED
  BY <1>1, <1>2, <1>3, <1>5 DEF g, l

\* The last record has the greatest hash.
LEMMA LastIsLatest ==
    ASSUME NEW f \in Seq(Line), NEW k \in Nat, Ordered(f, k)
    PROVE  /\ Last(f) \in Link
           /\ Last(f).id <= k
           /\ Records(f) = {} => Last(f) = NoHead
           /\ Records(f) # {} =>
                  \E r \in Records(f) : /\ Last(f) = [seq |-> r.seq, id |-> r.id]
                                        /\ \A q \in Records(f) : q.id <= r.id
<1>1. Len(f) \in Nat /\ Len(f) \in 0 .. Len(f)
  OBVIOUS
<1>2. Last(f) \in Link
  BY <1>1, LastUpToIsLink DEF Last
<1>3. CASE Chained(f, Len(f)) = {}
  <2>1. Records(f) = {} /\ Last(f) = NoHead
    BY <1>3 DEF Records, Last, LastUpTo
  <2> QED
    BY <1>2, <2>1 DEF NoHead
<1>4. CASE Chained(f, Len(f)) # {}
  <2>1. PICK i \in Chained(f, Len(f)) :
            /\ \A j \in Chained(f, Len(f)) : j <= i
            /\ Last(f) = [seq |-> f[i].seq, id |-> f[i].id]
    BY <1>1, <1>4, LastUpToIsLink DEF Last
  <2>2. f[i] \in Records(f) /\ f[i] \in Line
    BY RecordsAreLines
  <2>3. \A q \in Records(f) : q.id <= f[i].id
    <3> SUFFICES ASSUME NEW j \in Chained(f, Len(f)) PROVE f[j].id <= f[i].id
      BY DEF Records
    <3>1. i \in Nat /\ j \in Nat /\ j <= i /\ f[j] \in Line
      BY <2>1, RecordsAreLines DEF Chained
    <3>2. CASE j = i
      BY <2>2, <3>2 DEF Line
    <3>3. CASE j < i
      <4>1. f[j].id < f[i].id
        BY <2>1, <3>3 DEF Ordered
      <4>2. f[i].id \in Nat /\ f[j].id \in Nat
        BY <2>2, <3>1 DEF Line
      <4> QED
        BY <4>1, <4>2
    <3> QED
      BY <3>1, <3>2, <3>3
  <2> QED
    BY <1>2, <2>1, <2>2, <2>3 DEF Ordered
<1> QED
  BY <1>3, <1>4

\* A new hash at the end keeps them in order.
LEMMA OrderedAppend ==
    ASSUME NEW f \in Seq(Line), NEW k \in Nat, Ordered(f, k), NEW x \in Line,
           x.id = k + 1, x.prev <= k
    PROVE  Ordered(Append(f, x), k + 1)
<1> DEFINE g == Append(f, x)
           l == Len(f)
<1>1. /\ Len(g) = l + 1 /\ g[l + 1] = x /\ l \in Nat
      /\ \A i \in 1 .. l : g[i] = f[i]
      /\ Chained(g, l + 1) = Chained(f, l) \cup {l + 1}
      /\ Records(g) = Records(f) \cup {x}
  BY RecordsOfAppend
<1>2. \A i \in Chained(f, l) : i \in 1 .. l /\ f[i] \in Records(f) /\ f[i] \in Line
  BY RecordsAreLines
<1>3. \A i, j \in Chained(f, l) : i < j => f[i].id < f[j].id
  BY DEF Ordered
<1>4. \A r \in Records(f) : r.id <= k /\ r.prev <= k /\ r.id \in Nat /\ r.prev \in Nat
  BY RecordsAreLines DEF Ordered, Line
<1> HIDE DEF g, l
<1>5. ASSUME NEW i \in Chained(g, l + 1), NEW j \in Chained(g, l + 1), i < j
      PROVE  g[i].id < g[j].id
  <2>1. CASE j \in Chained(f, l)
    <3>1. i \in 1 .. l /\ j \in 1 .. l /\ i \in Chained(f, l)
      BY <1>1, <1>2, <1>5, <2>1
    <3>2. g[i] = f[i] /\ g[j] = f[j]
      BY <1>1, <3>1
    <3> QED
      BY <1>3, <1>5, <2>1, <3>1, <3>2
  <2>2. CASE j = l + 1
    <3>1. i \in Chained(f, l)
      BY <1>1, <1>5, <2>2
    <3>2. g[i] = f[i] /\ f[i].id <= k /\ f[i].id \in Nat
      BY <1>1, <1>2, <1>4, <3>1
    <3> QED
      BY <1>1, <2>2, <3>2
  <2> QED
    BY <1>1, <2>1, <2>2
<1>6. \A r \in Records(g) : r.id <= k + 1 /\ r.prev <= k + 1
  BY <1>1, <1>4 DEF Line
<1> QED
  BY <1>1, <1>5, <1>6 DEF Ordered, g

\* Nothing has a new record's hash before it.
LEMMA ClosedWithout ==
    ASSUME NEW f \in Seq(Line), NEW k \in Nat, Ordered(f, k), NEW x \in Line, x.id = k + 1,
           NEW S \in SUBSET (Records(f) \cup {x}), Closed(S)
    PROVE  S \ {x} \in SUBSET Records(f) /\ Closed(S \ {x})
<1>1. \A r \in Records(f) : r.prev <= k /\ r.prev \in Nat
  BY RecordsAreLines DEF Ordered, Line
<1>2. ASSUME NEW r \in S \ {x}, r.prev # 0 PROVE \E q \in S \ {x} : q.id = r.prev
  <2>1. PICK q \in S : q.id = r.prev
    BY <1>2 DEF Closed
  <2>2. q # x
    BY <1>1, <1>2, <2>1
  <2> QED
    BY <2>1, <2>2
<1> QED
  BY <1>2 DEF Closed

\* A record after the last one, which this process does not remember.
LEMMA FollowingRecord ==
    ASSUME NEW f \in Seq(Line), NEW k \in Nat, NEW h \in Link, NEW M, Descends(f, k, h, M),
           NEW x \in Line, x.id = k + 1, x.prev = Last(f).id, x.seq = Last(f).seq + 1
    PROVE  Descends(Append(f, x), k + 1, h, M)
<1> DEFINE g == Append(f, x)
<1>1. Records(g) = Records(f) \cup {x}
  BY RecordsOfAppend
<1>2. Ordered(f, k) /\ h.id <= k /\ h.id \in Nat /\ h.seq \in Nat
  BY DEF Descends, Link
<1>3. Last(f) \in Link /\ Last(f).id <= k
  BY <1>2, LastIsLatest
<1>4. Ordered(g, k + 1)
  BY <1>2, <1>3, OrderedAppend
<1> HIDE DEF g
<1>5. x.id # h.id
  BY <1>2
<1>6. \A r \in Records(g) : r.id = h.id => r.seq = h.seq
  BY <1>1, <1>5 DEF Descends
<1>7. ASSUME HasId(g, h.id)
      PROVE  /\ HasId(f, h.id)
             /\ \E r \in Records(f) : /\ r.id = x.prev /\ r.id >= h.id
                                      /\ x.prev # 0 /\ x.seq > h.seq
  <2>1. HasId(f, h.id)
    BY <1>1, <1>5, <1>7 DEF HasId
  <2>2. PICK r \in Records(f) : /\ Last(f) = [seq |-> r.seq, id |-> r.id]
                                /\ \A q \in Records(f) : q.id <= r.id
    BY <1>2, <2>1, LastIsLatest DEF HasId
  <2>3. h.id <= r.id
    BY <2>1, <2>2 DEF HasId
  <2>4. r \in Line /\ r.id # 0
    BY RecordsAreLines
  <2>5. r.seq >= h.seq
    <3>1. CASE r.id = h.id
      BY <1>2, <3>1 DEF Descends
    <3>2. CASE r.id > h.id
      <4>1. r.seq > h.seq
        BY <2>1, <3>2 DEF Descends, Found
      <4>2. r.seq \in Nat
        BY <2>4 DEF Line
      <4> QED
        BY <1>2, <4>1, <4>2
    <3>3. r.id \in Nat
      BY <2>4 DEF Line
    <3> QED
      BY <1>2, <2>3, <3>1, <3>2, <3>3
  <2>6. r.seq \in Nat /\ r.id \in Nat
    BY <2>4 DEF Line
  <2>7. x.prev = r.id /\ x.seq = r.seq + 1
    BY <2>2
  <2>8. r.id >= h.id /\ x.prev # 0 /\ x.seq > h.seq
    BY <1>2, <2>3, <2>4, <2>5, <2>6, <2>7
  <2> QED
    BY <2>1, <2>7, <2>8
<1>8. Found(g, h, M)
  <2> SUFFICES ASSUME HasId(g, h.id)
               PROVE  /\ \A r \in Records(g) : r.id > h.id => r.seq > h.seq
                      /\ \A S \in SUBSET Records(g) :
                             Closed(S) /\ (\E r \in S : r.id >= h.id) => AllIn(M, S)
    BY DEF Found
  <2>1. PICK last \in Records(f) : /\ last.id = x.prev /\ last.id >= h.id
                                   /\ x.prev # 0 /\ x.seq > h.seq
    BY <1>7
  <2>2. /\ \A r \in Records(f) : r.id > h.id => r.seq > h.seq
        /\ \A S \in SUBSET Records(f) :
               Closed(S) /\ (\E r \in S : r.id >= h.id) => AllIn(M, S)
    BY <1>7 DEF Descends, Found
  <2>3. ASSUME NEW S \in SUBSET Records(g), Closed(S), NEW r \in S, r.id >= h.id
        PROVE  AllIn(M, S)
    <3>1. S \ {x} \in SUBSET Records(f) /\ Closed(S \ {x})
      BY <1>1, <1>2, <2>3, ClosedWithout
    <3>2. \E q \in S \ {x} : q.id >= h.id
      <4>1. CASE r # x
        BY <2>3, <4>1
      <4>2. CASE r = x
        <5>1. PICK q \in S : q.id = x.prev
          BY <2>1, <2>3, <4>2 DEF Closed
        <5>2. q.id # x.id
          BY <1>2, <1>3, <5>1 DEF Link
        <5> QED
          BY <2>1, <5>1, <5>2
      <4> QED
        BY <4>1, <4>2
    <3>3. AllIn(M, S \ {x})
      BY <2>2, <3>1, <3>2
    <3> QED
      BY <3>3 DEF AllIn
  <2> QED
    BY <1>1, <2>1, <2>2, <2>3
<1> QED
  BY <1>2, <1>4, <1>6, <1>8 DEF Descends, g

\* A record after the last one that this process remembers, which is there.
LEMMA RememberedRecord ==
    ASSUME NEW f \in Seq(Line), NEW k \in Nat, NEW h \in Link, NEW M, Descends(f, k, h, M),
           h # NoHead => HasId(f, h.id),
           NEW x \in Line, x.id = k + 1, x.prev = Last(f).id, x.seq = Last(f).seq + 1
    PROVE  Descends(Append(f, x), k + 1, [seq |-> x.seq, id |-> x.id], M \cup {x.id})
<1> DEFINE g == Append(f, x)
           u == [seq |-> x.seq, id |-> x.id]
<1>1. Records(g) = Records(f) \cup {x}
  BY RecordsOfAppend
<1>2. Ordered(f, k) /\ h.id <= k /\ h.id \in Nat
  BY DEF Descends, Link
<1>3. Last(f) \in Link /\ Last(f).id <= k
  BY <1>2, LastIsLatest
<1>4. Ordered(g, k + 1)
  BY <1>2, <1>3, OrderedAppend
<1>5. u.id = k + 1 /\ u.seq = x.seq /\ u # NoHead
  BY DEF NoHead
<1>6. \A r \in Records(f) : r.id \in Nat /\ r.id <= k
  BY <1>2, RecordsAreLines DEF Ordered, Line
<1> HIDE DEF g, u
<1>7. \A r \in Records(g) : r.id >= u.id => r = x
  BY <1>1, <1>5, <1>6
<1>8. ASSUME NEW S \in SUBSET Records(g), Closed(S), NEW r \in S, r.id >= u.id
      PROVE  AllIn(M \cup {x.id}, S)
  <2>1. x \in S
    BY <1>7, <1>8
  <2>2. S \ {x} \in SUBSET Records(f) /\ Closed(S \ {x})
    BY <1>1, <1>2, <1>8, ClosedWithout
  <2>3. AllIn(M, S)
    <3>1. CASE h = NoHead
      BY <3>1 DEF Descends, AllIn
    <3>2. CASE h # NoHead
      <4>1. PICK last \in Records(f) :
                /\ Last(f) = [seq |-> last.seq, id |-> last.id]
                /\ \A q \in Records(f) : q.id <= last.id
        BY <1>2, <3>2, LastIsLatest DEF HasId
      <4>2. last.id >= h.id /\ last.id # 0 /\ x.prev = last.id /\ last.id \in Nat
        BY <1>2, <1>6, <3>2, <4>1, RecordsAreLines DEF HasId
      <4>3. PICK q \in S : q.id = last.id
        BY <1>8, <2>1, <4>2 DEF Closed
      <4>4. q # x
        BY <1>6, <4>1, <4>3
      <4>5. AllIn(M, S \ {x})
        BY <2>2, <3>2, <4>2, <4>3, <4>4 DEF Descends, Found
      <4> QED
        BY <4>5 DEF AllIn
    <3> QED
      BY <3>1, <3>2
  <2> QED
    BY <2>1, <2>3 DEF AllIn
<1>9. Found(g, u, M \cup {x.id})
  <2>1. ~(x.id > u.id)
    BY <1>5
  <2>2. \A r \in Records(g) : ~(r.id > u.id)
    <3> SUFFICES ASSUME NEW r \in Records(g), r.id > u.id PROVE FALSE
      OBVIOUS
    <3>1. r.id \in Nat /\ u.id \in Nat
      BY <1>1, <1>5, <1>6
    <3> QED
      BY <1>7, <2>1, <3>1
  <2> QED
    BY <1>8, <2>2 DEF Found
<1> QED
  BY <1>4, <1>5, <1>6, <1>1, <1>9 DEF Descends, g, u

\* The report of a cut is chained to a record that is gone, so no records
\* with the one before each of them have it.
LEMMA CutRecord ==
    ASSUME NEW f \in Seq(Line), NEW k \in Nat, NEW h \in Link, NEW M, Descends(f, k, h, M),
           h # NoHead, ~HasId(f, h.id),
           NEW x \in Line, x.id = k + 1, x.prev = h.id
    PROVE  /\ Descends(Append(f, x), k + 1, h, M)
           /\ Descends(Append(f, x), k + 1, [seq |-> x.seq, id |-> x.id], M \cup {x.id})
           /\ HasId(Append(f, x), x.id)
<1> DEFINE g == Append(f, x)
           u == [seq |-> x.seq, id |-> x.id]
<1>1. Records(g) = Records(f) \cup {x}
  BY RecordsOfAppend
<1>2. Ordered(f, k) /\ h.id <= k /\ h.id \in Nat /\ h.id # 0
  BY DEF Descends, Link
<1>3. Ordered(g, k + 1)
  BY <1>2, OrderedAppend
<1>4. u.id = k + 1 /\ u.seq = x.seq /\ u # NoHead
  BY DEF NoHead
<1>5. \A r \in Records(f) : r.id \in Nat /\ r.id <= k
  BY <1>2, RecordsAreLines DEF Ordered, Line
<1> HIDE DEF g, u
<1>6. ~HasId(g, h.id)
  BY <1>1, <1>2 DEF HasId
<1>7. Descends(g, k + 1, h, M)
  BY <1>1, <1>2, <1>3, <1>6 DEF Descends, Found, HasId
<1>8. \A r \in Records(g) : r.id >= u.id => r = x
  BY <1>1, <1>4, <1>5
<1>9. ASSUME NEW S \in SUBSET Records(g), Closed(S), NEW r \in S, r.id >= u.id
      PROVE  FALSE
  <2>1. x \in S
    BY <1>8, <1>9
  <2>2. PICK q \in S : q.id = h.id
    BY <1>2, <1>9, <2>1 DEF Closed
  <2> QED
    BY <1>6, <1>9, <2>2 DEF HasId
<1>10. Found(g, u, M \cup {x.id})
  <2>1. ~(x.id > u.id)
    BY <1>4
  <2>2. \A r \in Records(g) : ~(r.id > u.id)
    <3> SUFFICES ASSUME NEW r \in Records(g), r.id > u.id PROVE FALSE
      OBVIOUS
    <3>1. r.id \in Nat /\ u.id \in Nat
      BY <1>1, <1>4, <1>5
    <3> QED
      BY <1>8, <2>1, <3>1
  <2> QED
    BY <1>9, <2>2 DEF Found
<1>11. Descends(g, k + 1, u, M \cup {x.id})
  BY <1>3, <1>4, <1>5, <1>1, <1>10 DEF Descends
<1> QED
  BY <1>1, <1>7, <1>11 DEF HasId, g, u

\* A part of a line changes nothing.
LEMMA PartOfLine ==
    ASSUME NEW f \in Seq(Line), NEW k \in Nat, NEW h \in Link, NEW M, Descends(f, k, h, M)
    PROVE  Descends(Append(f, Junk), k, h, M)
<1> DEFINE g == Append(f, Junk)
           l == Len(f)
<1>1. Junk \in Line /\ Junk.id = 0
  BY DEF Junk, Line
<1>2. /\ Len(g) = l + 1 /\ Records(g) = Records(f) /\ Chained(g, l + 1) = Chained(f, l)
      /\ \A i \in 1 .. l : g[i] = f[i]
  <2> DEFINE x == Junk
  <2>1. x \in Line /\ x.id = 0
    BY <1>1
  <2> HIDE DEF x
  <2>2. /\ Len(Append(f, x)) = l + 1 /\ Records(Append(f, x)) = Records(f)
        /\ Chained(Append(f, x), l + 1) = Chained(f, l)
        /\ \A i \in 1 .. l : Append(f, x)[i] = f[i]
    <3>1. (IF x.id # 0 THEN {x} ELSE {}) = {} /\ (IF x.id # 0 THEN {l + 1} ELSE {}) = {}
      BY <2>1
    <3>2. /\ Len(Append(f, x)) = l + 1
          /\ \A i \in 1 .. l : Append(f, x)[i] = f[i]
          /\ Records(Append(f, x)) = Records(f) \cup (IF x.id # 0 THEN {x} ELSE {})
          /\ Chained(Append(f, x), l + 1) =
                 Chained(f, l) \cup (IF x.id # 0 THEN {l + 1} ELSE {})
      BY <2>1, RecordsOfAppend, Zenon
    <3> HIDE DEF l
    <3> QED
      BY <3>1, <3>2
  <2> QED
    BY <2>2 DEF x
<1>3. \A i \in Chained(f, l) : i \in 1 .. l
  BY RecordsAreLines
<1>4. Ordered(g, k)
  <2>1. \A i, j \in Chained(g, Len(g)) : i < j => g[i].id < g[j].id
    BY <1>2, <1>3 DEF Descends, Ordered
  <2> QED
    BY <1>2, <2>1 DEF Descends, Ordered
<1> HIDE DEF g
<1> QED
  BY <1>2, <1>4 DEF Descends, Found, HasId, g

LEMMA ForgetsAll ==
    ASSUME NEW f \in Seq(Line), NEW k \in Nat, NEW h, NEW M, Descends(f, k, h, M)
    PROVE  Descends(f, k, NoHead, {})
<1>1. NoHead.id = 0 /\ ~HasId(f, NoHead.id)
  BY RecordsAreLines DEF NoHead, HasId
<1> QED
  BY <1>1, RecordsAreLines DEF Descends, Found, HasId

----------------------------------------------------------------------------
\* Taking lines out takes records out and leaves the rest in order.
LEMMA RemoveDescends ==
    ASSUME NEW f \in Seq(Line), NEW k \in Nat, NEW h, NEW M, Descends(f, k, h, M),
           NEW from \in 1 .. Len(f), NEW to \in from .. Len(f)
    PROVE  Descends(SubSeq(f, 1, from - 1) \o SubSeq(f, to + 1, Len(f)), k, h, M)
<1> DEFINE s == SubSeq(f, 1, from - 1)
           e == SubSeq(f, to + 1, Len(f))
           g == s \o e
           l == Len(f)
           was(i) == IF i < from THEN i ELSE i + (to + 1 - from)
<1>1. l \in Nat /\ from \in Nat /\ to \in Nat /\ 1 <= from /\ from <= to /\ to <= l
  OBVIOUS
<1>2. s \in Seq(Line) /\ Len(s) = from - 1 /\ \A i \in 1 .. from - 1 : s[i] = f[i]
  BY <1>1
<1>3. e \in Seq(Line) /\ Len(e) = l - to /\ \A i \in 1 .. l - to : e[i] = f[i + to]
  BY <1>1
<1>4. /\ Len(g) = (from - 1) + (l - to)
      /\ \A i \in 1 .. Len(g) : g[i] = IF i < from THEN s[i] ELSE e[i - (from - 1)]
  <2> HIDE DEF s, e, l
  <2>1. Len(g) = Len(s) + Len(e)
    BY <1>2, <1>3, ConcatProperties, Zenon
  <2>2. \A i \in 1 .. Len(s) + Len(e) : g[i] = IF i <= Len(s) THEN s[i] ELSE e[i - Len(s)]
    BY <1>2, <1>3
  <2> QED
    BY <1>1, <1>2, <1>3, <2>1, <2>2
<1> HIDE DEF s, e, g, l
<1>5. \A i \in 1 .. Len(g) : was(i) \in 1 .. l /\ g[i] = f[was(i)]
  <2> SUFFICES ASSUME NEW i \in 1 .. Len(g) PROVE was(i) \in 1 .. l /\ g[i] = f[was(i)]
    OBVIOUS
  <2>1. CASE i < from
    <3>1. i \in 1 .. from - 1 /\ was(i) = i /\ i \in 1 .. l
      BY <1>1, <1>4, <2>1
    <3>2. g[i] = s[i] /\ s[i] = f[i]
      BY <1>2, <1>4, <2>1, <3>1
    <3> QED
      BY <3>1, <3>2
  <2>2. CASE ~(i < from)
    <3>1. i - (from - 1) \in 1 .. l - to
      BY <1>1, <1>4, <2>2
    <3>2. i - (from - 1) + to = i + (to + 1 - from) /\ was(i) \in 1 .. l
      BY <1>1, <1>4, <2>2
    <3>3. g[i] = e[i - (from - 1)]
      BY <1>4, <2>2
    <3> QED
      BY <1>3, <2>2, <3>1, <3>2, <3>3
  <2> QED
    BY <2>1, <2>2
<1>6. \A i, j \in 1 .. Len(g) : i < j => was(i) < was(j)
  BY <1>1, <1>4
<1> HIDE DEF was
<1>7. \A i \in Chained(g, Len(g)) :
          i \in 1 .. Len(g) /\ was(i) \in Chained(f, l) /\ g[i] = f[was(i)]
  BY <1>5 DEF Chained
<1>8. Records(g) \subseteq Records(f)
  <2> SUFFICES ASSUME NEW i \in Chained(g, Len(g)) PROVE g[i] \in Records(f)
    BY DEF Records
  <2> QED
    BY <1>7 DEF Records, l
<1>9. Ordered(g, k)
  <2>1. \A i, j \in Chained(f, l) : i < j => f[i].id < f[j].id
    BY DEF Descends, Ordered, l
  <2>2. \A i, j \in Chained(g, Len(g)) : i < j => g[i].id < g[j].id
    BY <1>6, <1>7, <2>1
  <2> QED
    BY <1>8, <2>2 DEF Descends, Ordered
<1>10. HasId(g, h.id) => HasId(f, h.id)
  BY <1>8 DEF HasId
<1>11. Found(g, h, M)
  BY <1>8, <1>10 DEF Descends, Found
<1>12. Descends(g, k, h, M)
  BY <1>8, <1>9, <1>11 DEF Descends
<1> QED
  BY <1>12 DEF g, s, e, l

----------------------------------------------------------------------------
\* What an append writes.  The record a process remembers is not taken for
\* gone while the file has it ...
LEMMA ReportIsTrue ==
    ASSUME AuditTypeOK, NEW p \in Proc, Descends(lines, ids, head[p], mine[p]),
           HasId(lines, head[p].id)
    PROVE  Cut(p) = <<>>
<1> SUFFICES ASSUME head[p] # NoHead PROVE Holds(lines, head[p])
  BY DEF Cut
<1>1. lines \in Seq(Line) /\ head[p] \in Link /\ ids \in Nat
  BY DEF AuditTypeOK
<1>2. PICK i \in Chained(lines, Len(lines)) : lines[i].id = head[p].id
  BY DEF HasId, Records
<1>3. \A j \in Chained(lines, Len(lines)) : j \in Nat /\ lines[j] \in Records(lines)
  BY <1>1, RecordsAreLines DEF Chained
<1>4. lines[i].seq = head[p].seq
  BY <1>2, <1>3 DEF Descends
<1>5. ASSUME NEW j \in Chained(lines, Len(lines)), j > i PROVE lines[j].seq > head[p].seq
  <2>1. i \in Nat /\ j \in Nat /\ i < j
    BY <1>3, <1>5
  <2>2. lines[i].id < lines[j].id
    BY <2>1 DEF Descends, Ordered
  <2>3. lines[j] \in Line
    BY <1>1, <1>3, RecordsAreLines
  <2>4. lines[j].id > head[p].id
    BY <1>1, <1>2, <2>2, <2>3 DEF Line, Link
  <2> QED
    BY <1>3, <2>4 DEF Descends, Found
<1> QED
  BY <1>2, <1>4, <1>5 DEF Holds

\* ... and is gone when it is reported.
LEMMA ReportedIsGone ==
    ASSUME AuditTypeOK, NEW p \in Proc, Descends(lines, ids, head[p], mine[p])
    PROVE  \/ Cut(p) = <<>> /\ (head[p] # NoHead => HasId(lines, head[p].id))
           \/ /\ head[p] # NoHead /\ ~HasId(lines, head[p].id)
              /\ Cut(p) = <<After(head[p], ids + 1, TRUE)>>
<1>1. CASE HasId(lines, head[p].id)
  BY <1>1, ReportIsTrue
<1>2. CASE ~HasId(lines, head[p].id)
  <2>1. ~Holds(lines, head[p])
    BY <1>2 DEF Holds, HasId, Records
  <2> QED
    BY <1>2, <2>1 DEF Cut
<1> QED
  BY <1>1, <1>2

LEMMA OneLine ==
    ASSUME NEW x \in Line
    PROVE  /\ Len(<<x>>) = 1 /\ <<x>>[1] = x
           /\ SubSeq(<<x>>, 1, 0) = <<>> /\ SubSeq(<<x>>, 1, 1) = <<x>>
           /\ Append(<<>>, x) = <<x>>
<1>1. <<x>> \in Seq(Line) /\ Len(<<x>>) = 1 /\ <<x>>[1] = x
  OBVIOUS
<1>2. SubSeq(<<x>>, 1, 0) = <<>>
  BY SubSeqEmpty
<1>3. SubSeq(<<x>>, 1, Len(<<x>>)) = <<x>>
  BY <1>1, SubSeqFull, Zenon
<1>4. Append(<<>>, x) = <<x>>
  OBVIOUS
<1> QED
  BY <1>1, <1>2, <1>3, <1>4

LEMMA TwoLines ==
    ASSUME NEW x \in Line, NEW y \in Line
    PROVE  /\ Len(<<x, y>>) = 2 /\ <<x, y>>[1] = x /\ <<x, y>>[2] = y
           /\ SubSeq(<<x, y>>, 1, 0) = <<>>
           /\ SubSeq(<<x, y>>, 1, 1) = <<x>>
           /\ SubSeq(<<x, y>>, 1, 2) = <<x, y>>
           /\ Append(<<x>>, y) = <<x, y>>
<1> DEFINE s == <<x, y>>
<1>1. s \in Seq(Line) /\ Len(s) = 2 /\ s[1] = x /\ s[2] = y
  OBVIOUS
<1>2. SubSeq(s, 1, 0) = <<>>
  BY SubSeqEmpty
<1>3. SubSeq(s, 1, Len(s)) = s
  BY <1>1, SubSeqFull, Zenon
<1>4. SubSeq(s, 1, 1) = <<x>>
  <2> HIDE DEF s
  <2>1. /\ SubSeq(s, 1, 1) \in Seq(Line) /\ Len(SubSeq(s, 1, 1)) = 1
        /\ SubSeq(s, 1, 1)[1] = x
    BY <1>1
  <2>2. <<x>> \in Seq(Line) /\ Len(<<x>>) = 1 /\ <<x>>[1] = x
    OBVIOUS
  <2>3. \A i \in 1 .. 1 : SubSeq(s, 1, 1)[i] = <<x>>[i]
    BY <2>1, <2>2
  <2> QED
    BY <2>1, <2>2, <2>3, SeqEqual
<1>5. Append(<<x>>, y) = s
  <2> DEFINE a == <<x>>
  <2>1. a \in Seq(Line) /\ Len(a) = 1 /\ a[1] = x
    OBVIOUS
  <2> HIDE DEF a, s
  <2>2. /\ Append(a, y) \in Seq(Line) /\ Len(Append(a, y)) = Len(a) + 1
        /\ \A i \in 1 .. Len(a) : Append(a, y)[i] = a[i]
        /\ Append(a, y)[Len(a) + 1] = y
    BY <2>1, RecordsOfAppend
  <2>3. \A i \in 1 .. 2 : i = 1 \/ i = 2
    OBVIOUS
  <2>4. \A i \in 1 .. 2 : Append(a, y)[i] = s[i]
    <3>1. Append(a, y)[1] = x /\ Append(a, y)[2] = y
      BY <2>1, <2>2
    <3> QED
      BY <1>1, <2>3, <3>1, Zenon
  <2>5. Len(Append(a, y)) = 2
    BY <2>1, <2>2
  <2>6. Append(a, y) = s
    BY <1>1, <2>2, <2>4, <2>5, SeqEqual, Zenon
  <2> QED
    BY <2>6 DEF a
<1> QED
  BY <1>1, <1>2, <1>3, <1>4, <1>5

LEMMA Joined ==
    ASSUME NEW f \in Seq(Line), NEW x \in Line, NEW y \in Line
    PROVE  /\ f \o <<>> = f
           /\ f \o <<x>> = Append(f, x)
           /\ f \o <<x, y>> = Append(Append(f, x), y)
           /\ Append(f, x) \in Seq(Line)
OBVIOUS

\* With nothing to report: a record, a part of it, or nothing.
LEMMA WroteRecord ==
    ASSUME AuditTypeOK, NEW p \in Proc, NEW n \in Nat,
           NEW rest \in {"nothing", "part", "line"}, Wrote(p, n, rest), Cut(p) = <<>>
    PROVE  \E x \in Line :
               /\ x.id = ids + 1 /\ x.prev = Last(lines).id /\ x.seq = Last(lines).seq + 1
               /\ New(p) = <<x>>
               /\ \/ n = 0 /\ lines' = lines /\ ids' = ids
                  \/ n = 0 /\ lines' = Append(lines, Junk) /\ ids' = ids
                  \/ n \in {0, 1} /\ lines' = Append(lines, x) /\ ids' = ids + 1
<1> DEFINE x == Record(p)
<1>1. lines \in Seq(Line) /\ x \in Line /\ ids \in Nat
  BY NewIsLines DEF AuditTypeOK
<1>2. x = After(Last(lines), ids + 1, FALSE)
  <2>1. lines \o Cut(p) = lines /\ Len(Cut(p)) = 0
    BY <1>1
  <2>2. ids + Len(Cut(p)) + 1 = ids + 1
    BY <1>1, <2>1
  <2> QED
    BY <2>1, <2>2 DEF Record
<1>3. x.id = ids + 1 /\ x.prev = Last(lines).id /\ x.seq = Last(lines).seq + 1
  BY <1>2 DEF After
<1>4. New(p) = <<x>>
  <2>1. New(p) = Append(<<>>, x)
    BY DEF New
  <2> HIDE DEF x
  <2> QED
    BY <2>1, OneLine
<1> HIDE DEF x
<1>5. n \in 0 .. 1 /\ (rest # "nothing" => n = 0)
  BY <1>4, OneLine DEF Wrote
<1>6. CASE n = 0
  <2>1. lines \o SubSeq(New(p), 1, n) = lines /\ New(p)[n + 1] = x
    BY <1>1, <1>4, <1>6, OneLine, Joined
  <2>2. \/ lines' = lines /\ rest = "nothing"
        \/ lines' = Append(lines, Junk) /\ rest = "part"
        \/ lines' = Append(lines, x) /\ rest = "line"
    BY <2>1 DEF Wrote
  <2>3. ids' = ids + (IF rest = "line" THEN 1 ELSE 0)
    BY <1>1, <1>6 DEF Wrote
  <2> QED
    BY <1>1, <1>3, <1>4, <1>6, <2>2, <2>3
<1>7. CASE n = 1
  <2>1. lines \o SubSeq(New(p), 1, n) = Append(lines, x)
    BY <1>1, <1>4, <1>7, OneLine, Joined
  <2>2. lines' = Append(lines, x) /\ ids' = ids + 1
    BY <1>1, <1>5, <1>7, <2>1 DEF Wrote
  <2> QED
    BY <1>1, <1>3, <1>4, <1>7, <2>2
<1> QED
  BY <1>5, <1>6, <1>7

\* With a cut to report: the report first, and then the record.
LEMMA WroteReport ==
    ASSUME AuditTypeOK, NEW p \in Proc, NEW n \in Nat,
           NEW rest \in {"nothing", "part", "line"}, Wrote(p, n, rest),
           Cut(p) = <<After(head[p], ids + 1, TRUE)>>
    PROVE  \E c, x \in Line :
               /\ c.id = ids + 1 /\ c.prev = head[p].id
               /\ LET f == Append(lines, c)
                  IN  x.id = ids + 2 /\ x.prev = Last(f).id /\ x.seq = Last(f).seq + 1
               /\ New(p) = <<c, x>>
               /\ \/ n = 0 /\ lines' = lines /\ ids' = ids
                  \/ n = 0 /\ lines' = Append(lines, Junk) /\ ids' = ids
                  \/ n \in {0, 1} /\ lines' = Append(lines, c) /\ ids' = ids + 1
                  \/ n = 1 /\ lines' = Append(Append(lines, c), Junk) /\ ids' = ids + 1
                  \/ n \in {1, 2} /\ lines' = Append(Append(lines, c), x) /\ ids' = ids + 2
<1> DEFINE c == After(head[p], ids + 1, TRUE)
           x == Record(p)
           f == Append(lines, c)
<1>1. lines \in Seq(Line) /\ x \in Line /\ ids \in Nat
  BY NewIsLines DEF AuditTypeOK
<1>2. c.id = ids + 1 /\ c.prev = head[p].id /\ c \in Line
  BY DEF After, AuditTypeOK, Link, Line
<1>3. x = After(Last(lines \o Cut(p)), ids + Len(Cut(p)) + 1, FALSE)
  BY DEF Record
<1>4. New(p) = Append(Cut(p), x) /\ Cut(p) = <<c>>
  BY DEF New
<1> HIDE DEF c, x
<1>5. Cut(p) = <<c>> /\ New(p) = <<c, x>>
  BY <1>1, <1>2, <1>4, TwoLines
<1>6. x = After(Last(f), ids + 2, FALSE)
  <2>1. Cut(p) = <<c>> /\ Len(<<c>>) = 1 /\ lines \o <<c>> = f
    BY <1>1, <1>2, <1>5, OneLine, Joined
  <2>2. ids + 1 + 1 = ids + 2
    BY <1>1
  <2> QED
    BY <1>3, <2>1, <2>2
<1>7. x.id = ids + 2 /\ x.prev = Last(f).id /\ x.seq = Last(f).seq + 1
  BY <1>6 DEF After
<1> HIDE DEF f
<1>8. n \in 0 .. 2 /\ (rest # "nothing" => n < 2)
  BY <1>5, TwoLines DEF Wrote
<1>9. CASE n = 0
  <2>1. lines \o SubSeq(New(p), 1, n) = lines /\ New(p)[n + 1] = c
    BY <1>1, <1>2, <1>5, <1>9, TwoLines, Joined
  <2>2. \/ lines' = lines /\ rest = "nothing"
        \/ lines' = Append(lines, Junk) /\ rest = "part"
        \/ lines' = f /\ rest = "line"
    BY <2>1 DEF Wrote, f
  <2>3. ids' = ids + (IF rest = "line" THEN 1 ELSE 0)
    BY <1>1, <1>9 DEF Wrote
  <2> QED
    BY <1>1, <1>2, <1>5, <1>7, <1>9, <2>2, <2>3 DEF f
<1>10. CASE n = 1
  <2>1. lines \o SubSeq(New(p), 1, n) = f /\ New(p)[n + 1] = x
    BY <1>1, <1>2, <1>5, <1>10, TwoLines, Joined DEF f
  <2>2. \/ lines' = f /\ rest = "nothing"
        \/ lines' = Append(f, Junk) /\ rest = "part"
        \/ lines' = Append(f, x) /\ rest = "line"
    BY <2>1 DEF Wrote
  <2>3. ids' = ids + 1 + (IF rest = "line" THEN 1 ELSE 0)
    BY <1>1, <1>10 DEF Wrote
  <2> QED
    BY <1>1, <1>2, <1>5, <1>7, <1>10, <2>2, <2>3 DEF f
<1>11. CASE n = 2
  <2>1. lines \o SubSeq(New(p), 1, n) = Append(f, x)
    BY <1>1, <1>2, <1>5, <1>11, TwoLines, Joined DEF f
  <2>2. rest = "nothing"
    BY <1>8, <1>11
  <2>3. lines' = Append(f, x)
    BY <2>1, <2>2 DEF Wrote
  <2>4. ids' = ids + 2
    BY <1>1, <1>11, <2>2 DEF Wrote
  <2> QED
    BY <1>1, <1>2, <1>5, <1>7, <1>11, <2>3, <2>4 DEF f
<1> QED
  BY <1>8, <1>9, <1>10, <1>11

\* An append of the process itself, written whole or not ...
LEMMA OwnAppendDescends ==
    ASSUME AuditTypeOK, NEW p \in Proc, Descends(lines, ids, head[p], mine[p]),
           NEW n \in Nat, NEW rest \in {"nothing", "part", "line"}, Wrote(p, n, rest),
           Remembered(p, n)
    PROVE  Descends(lines', ids', head'[p], mine'[p])
<1>1. lines \in Seq(Line) /\ ids \in Nat /\ head[p] \in Link /\ NoHead \in Link
  BY DEF AuditTypeOK, NoHead, Link
<1>2. /\ head'[p] = IF n = 0 THEN head[p] ELSE [seq |-> New(p)[n].seq, id |-> New(p)[n].id]
      /\ mine'[p] = mine[p] \cup {New(p)[i].id : i \in 1 .. n}
  BY DEF Remembered, AuditTypeOK
<1>3. n = 0 => head'[p] = head[p] /\ mine'[p] = mine[p]
  BY <1>2
<1>4. CASE Cut(p) = <<>> /\ (head[p] # NoHead => HasId(lines, head[p].id))
  <2>1. PICK x \in Line :
             /\ x.id = ids + 1 /\ x.prev = Last(lines).id /\ x.seq = Last(lines).seq + 1
             /\ New(p) = <<x>>
             /\ \/ n = 0 /\ lines' = lines /\ ids' = ids
                \/ n = 0 /\ lines' = Append(lines, Junk) /\ ids' = ids
                \/ n \in {0, 1} /\ lines' = Append(lines, x) /\ ids' = ids + 1
    BY <1>4, WroteRecord
  <2>2. n = 1 => /\ head'[p] = [seq |-> x.seq, id |-> x.id]
                 /\ mine'[p] = mine[p] \cup {x.id}
    BY <1>2, <2>1, OneLine
  <2>3. CASE lines' = lines /\ n = 0 /\ ids' = ids
    BY <1>3, <2>3
  <2>4. CASE lines' = Append(lines, Junk) /\ n = 0 /\ ids' = ids
    BY <1>1, <1>3, <2>4, PartOfLine
  <2>5. CASE lines' = Append(lines, x) /\ n = 0 /\ ids' = ids + 1
    BY <1>1, <1>3, <2>1, <2>5, FollowingRecord
  <2>6. CASE lines' = Append(lines, x) /\ n = 1 /\ ids' = ids + 1
    BY <1>1, <1>4, <2>1, <2>2, <2>6, RememberedRecord
  <2> QED
    BY <2>1, <2>3, <2>4, <2>5, <2>6
<1>5. CASE /\ head[p] # NoHead /\ ~HasId(lines, head[p].id)
           /\ Cut(p) = <<After(head[p], ids + 1, TRUE)>>
  <2>1. PICK c \in Line, x \in Line :
             /\ c.id = ids + 1 /\ c.prev = head[p].id
             /\ LET f == Append(lines, c)
                IN  x.id = ids + 2 /\ x.prev = Last(f).id /\ x.seq = Last(f).seq + 1
             /\ New(p) = <<c, x>>
             /\ \/ n = 0 /\ lines' = lines /\ ids' = ids
                \/ n = 0 /\ lines' = Append(lines, Junk) /\ ids' = ids
                \/ n \in {0, 1} /\ lines' = Append(lines, c) /\ ids' = ids + 1
                \/ n = 1 /\ lines' = Append(Append(lines, c), Junk) /\ ids' = ids + 1
                \/ n \in {1, 2} /\ lines' = Append(Append(lines, c), x) /\ ids' = ids + 2
    BY <1>5, WroteReport
  <2> DEFINE f == Append(lines, c)
             u == [seq |-> c.seq, id |-> c.id]
  <2>2. n = 1 => head'[p] = u /\ mine'[p] = mine[p] \cup {c.id}
    BY <1>2, <2>1, TwoLines
  <2>3. n = 2 => /\ head'[p] = [seq |-> x.seq, id |-> x.id]
                 /\ mine'[p] = (mine[p] \cup {c.id}) \cup {x.id}
    <3>1. 1 .. 2 = {1, 2}
      OBVIOUS
    <3> QED
      BY <1>2, <2>1, <3>1, TwoLines
  <2>4. /\ Descends(f, ids + 1, head[p], mine[p])
        /\ Descends(f, ids + 1, u, mine[p] \cup {c.id})
        /\ HasId(f, c.id)
    BY <1>1, <1>5, <2>1, CutRecord
  <2>5. f \in Seq(Line) /\ ids + 1 \in Nat /\ u \in Link /\ u.id = c.id
    BY <1>1 DEF Line, Link
  <2>6. x.id = (ids + 1) + 1 /\ x.prev = Last(f).id /\ x.seq = Last(f).seq + 1
    BY <1>1, <2>1
  <2>7. \/ n = 0 /\ lines' = lines /\ ids' = ids
        \/ n = 0 /\ lines' = Append(lines, Junk) /\ ids' = ids
        \/ n \in {0, 1} /\ lines' = f /\ ids' = ids + 1
        \/ n = 1 /\ lines' = Append(f, Junk) /\ ids' = ids + 1
        \/ n \in {1, 2} /\ lines' = Append(f, x) /\ ids' = (ids + 1) + 1
    BY <1>1, <2>1
  <2> HIDE DEF f, u
  <2>8. CASE n = 0 /\ lines' = lines /\ ids' = ids
    BY <1>3, <2>8
  <2>9. CASE n = 0 /\ lines' = Append(lines, Junk) /\ ids' = ids
    BY <1>1, <1>3, <2>9, PartOfLine
  <2>10. CASE n = 0 /\ lines' = f /\ ids' = ids + 1
    BY <1>3, <2>4, <2>10
  <2>11. CASE n = 1 /\ lines' = f /\ ids' = ids + 1
    BY <2>2, <2>4, <2>11
  <2>12. CASE n = 1 /\ lines' = Append(f, Junk) /\ ids' = ids + 1
    BY <2>2, <2>4, <2>5, <2>12, PartOfLine
  <2>13. CASE n = 1 /\ lines' = Append(f, x) /\ ids' = (ids + 1) + 1
    BY <2>2, <2>4, <2>5, <2>6, <2>13, FollowingRecord
  <2>14. CASE n = 2 /\ lines' = Append(f, x) /\ ids' = (ids + 1) + 1
    BY <2>3, <2>4, <2>5, <2>6, <2>14, RememberedRecord
  <2> QED
    BY <2>7, <2>8, <2>9, <2>10, <2>11, <2>12, <2>13, <2>14
<1> QED
  BY <1>4, <1>5, ReportedIsGone

\* ... or cut short by its end, when it forgets ...
LEMMA CrashDescends ==
    ASSUME AuditTypeOK, NEW p \in Proc, Descends(lines, ids, head[p], mine[p]),
           NEW n \in Nat, NEW rest \in {"nothing", "part", "line"}, Wrote(p, n, rest)
    PROVE  Descends(lines', ids', NoHead, {})
<1>1. lines \in Seq(Line) /\ ids \in Nat /\ head[p] \in Link /\ NoHead \in Link
  BY DEF AuditTypeOK, NoHead, Link
<1>2. ASSUME NEW f \in Seq(Line), NEW k \in Nat, NEW h \in Link, NEW M, Descends(f, k, h, M)
      PROVE  Descends(f, k, NoHead, {})
  BY <1>2, ForgetsAll
<1>3. CASE Cut(p) = <<>> /\ (head[p] # NoHead => HasId(lines, head[p].id))
  <2>1. PICK x \in Line :
             /\ x.id = ids + 1 /\ x.prev = Last(lines).id /\ x.seq = Last(lines).seq + 1
             /\ New(p) = <<x>>
             /\ \/ n = 0 /\ lines' = lines /\ ids' = ids
                \/ n = 0 /\ lines' = Append(lines, Junk) /\ ids' = ids
                \/ n \in {0, 1} /\ lines' = Append(lines, x) /\ ids' = ids + 1
    BY <1>3, WroteRecord
  <2>2. Descends(lines, ids, NoHead, {})
    BY <1>1, <1>2
  <2>3. CASE lines' = lines /\ ids' = ids
    BY <2>2, <2>3
  <2>4. CASE lines' = Append(lines, Junk) /\ ids' = ids
    BY <1>1, <2>2, <2>4, PartOfLine
  <2>5. CASE lines' = Append(lines, x) /\ ids' = ids + 1
    BY <1>1, <2>1, <2>2, <2>5, FollowingRecord
  <2> QED
    BY <2>1, <2>3, <2>4, <2>5
<1>4. CASE /\ head[p] # NoHead /\ ~HasId(lines, head[p].id)
           /\ Cut(p) = <<After(head[p], ids + 1, TRUE)>>
  <2>1. PICK c \in Line, x \in Line :
             /\ c.id = ids + 1 /\ c.prev = head[p].id
             /\ LET f == Append(lines, c)
                IN  x.id = ids + 2 /\ x.prev = Last(f).id /\ x.seq = Last(f).seq + 1
             /\ New(p) = <<c, x>>
             /\ \/ n = 0 /\ lines' = lines /\ ids' = ids
                \/ n = 0 /\ lines' = Append(lines, Junk) /\ ids' = ids
                \/ n \in {0, 1} /\ lines' = Append(lines, c) /\ ids' = ids + 1
                \/ n = 1 /\ lines' = Append(Append(lines, c), Junk) /\ ids' = ids + 1
                \/ n \in {1, 2} /\ lines' = Append(Append(lines, c), x) /\ ids' = ids + 2
    BY <1>4, WroteReport
  <2> DEFINE f == Append(lines, c)
  <2>2. f \in Seq(Line) /\ ids + 1 \in Nat
    BY <1>1
  <2>3. Descends(f, ids + 1, head[p], mine[p])
    BY <1>1, <1>4, <2>1, CutRecord
  <2>4. x.id = (ids + 1) + 1 /\ x.prev = Last(f).id /\ x.seq = Last(f).seq + 1
    BY <1>1, <2>1
  <2>5. \/ lines' = lines /\ ids' = ids
        \/ lines' = Append(lines, Junk) /\ ids' = ids
        \/ lines' = f /\ ids' = ids + 1
        \/ lines' = Append(f, Junk) /\ ids' = ids + 1
        \/ lines' = Append(f, x) /\ ids' = (ids + 1) + 1
    BY <1>1, <2>1
  <2> HIDE DEF f
  <2>6. Descends(lines, ids, NoHead, {}) /\ Descends(f, ids + 1, NoHead, {})
    BY <1>1, <1>2, <2>2, <2>3
  <2>7. CASE \/ lines' = lines /\ ids' = ids
             \/ lines' = f /\ ids' = ids + 1
    BY <2>6, <2>7
  <2>8. CASE lines' = Append(lines, Junk) /\ ids' = ids
    BY <1>1, <2>6, <2>8, PartOfLine
  <2>9. CASE lines' = Append(f, Junk) /\ ids' = ids + 1
    BY <1>1, <2>2, <2>6, <2>9, PartOfLine
  <2>10. CASE lines' = Append(f, x) /\ ids' = (ids + 1) + 1
    BY <1>1, <2>2, <2>4, <2>6, <2>10, FollowingRecord
  <2> QED
    BY <2>5, <2>7, <2>8, <2>9, <2>10
<1> QED
  BY <1>3, <1>4, ReportedIsGone

\* ... and one of a process that remembers nothing.
LEMMA OtherAppendDescends ==
    ASSUME AuditTypeOK, NEW p \in Proc, Descends(lines, ids, head[p], mine[p]),
           NEW q \in Proc, head[q] = NoHead,
           NEW n \in Nat, NEW rest \in {"nothing", "part", "line"}, Wrote(q, n, rest)
    PROVE  Descends(lines', ids', head[p], mine[p])
<1>1. lines \in Seq(Line) /\ ids \in Nat /\ head[p] \in Link
  BY DEF AuditTypeOK
<1>2. Cut(q) = <<>>
  BY DEF Cut
<1>3. PICK x \in Line :
           /\ x.id = ids + 1 /\ x.prev = Last(lines).id /\ x.seq = Last(lines).seq + 1
           /\ New(q) = <<x>>
           /\ \/ n = 0 /\ lines' = lines /\ ids' = ids
              \/ n = 0 /\ lines' = Append(lines, Junk) /\ ids' = ids
              \/ n \in {0, 1} /\ lines' = Append(lines, x) /\ ids' = ids + 1
  BY <1>2, WroteRecord
<1>4. CASE lines' = lines /\ ids' = ids
  BY <1>4
<1>5. CASE lines' = Append(lines, Junk) /\ ids' = ids
  BY <1>1, <1>5, PartOfLine
<1>6. CASE lines' = Append(lines, x) /\ ids' = ids + 1
  BY <1>1, <1>3, <1>6, FollowingRecord
<1> QED
  BY <1>3, <1>4, <1>5, <1>6

\* An unbroken chain has the record before each of its records, so if it has
\* what the process appended last it has all of it.
LEMMA VerifiedHasAll ==
    ASSUME AuditTypeOK, NEW p \in Proc, Descends(lines, ids, head[p], mine[p]), Verifies(p),
           NEW id \in mine[p]
    PROVE  \E i \in DOMAIN lines : lines[i].id = id
<1>1. lines \in Seq(Line) /\ head[p] \in Link /\ DOMAIN lines = 1 .. Len(lines)
  BY DEF AuditTypeOK
<1>2. head[p] # NoHead
  BY DEF Descends
<1>3. PICK i \in Chained(lines, Len(lines)) : lines[i].id = head[p].id
  BY <1>2 DEF Verifies, Has
<1> DEFINE S == Records(lines)
<1>4. lines[i] \in S /\ HasId(lines, head[p].id)
  BY <1>1, <1>3, RecordsAreLines DEF HasId
<1>5. Closed(S)
  <2> SUFFICES ASSUME NEW j \in Chained(lines, Len(lines)), lines[j].prev # 0
               PROVE  \E q \in S : q.id = lines[j].prev
    BY DEF Closed, Records
  <2>1. j \in 1 .. Len(lines) /\ lines[j].prev = LastUpTo(lines, j - 1).id
    BY <1>1, RecordsAreLines DEF Verifies, Unbroken, Follows
  <2>2. j - 1 \in 0 .. Len(lines)
    BY <1>1, <2>1
  <2>3. Chained(lines, j - 1) # {}
    BY <2>1 DEF LastUpTo, NoHead
  <2>4. PICK m \in Chained(lines, j - 1) :
            LastUpTo(lines, j - 1) = [seq |-> lines[m].seq, id |-> lines[m].id]
    BY <1>1, <2>2, <2>3, LastUpToIsLink
  <2>5. m \in Chained(lines, Len(lines))
    BY <1>1, <2>1, <2>2, <2>4 DEF Chained
  <2>6. lines[m] \in S
    BY <1>1, <2>5, RecordsAreLines
  <2>7. LastUpTo(lines, j - 1).id = lines[m].id
    BY <2>4
  <2> HIDE DEF S
  <2> QED
    BY <2>1, <2>6, <2>7
<1>6. lines[i].id >= head[p].id
  BY <1>1, <1>3 DEF Link
<1>7. AllIn(mine[p], S)
  BY <1>4, <1>5, <1>6 DEF Descends, Found
<1>8. PICK q \in S : q.id = id
  BY <1>7 DEF AllIn
<1> QED
  BY <1>1, <1>8, RecordsAreLines DEF Records
-----------------------------------------------------------------------------

Holding == [by : Thread, id : Proposal, approve : BOOLEAN]
Tasks == [pc : {"idle", "audit", "write", "round"}] \cup [pc : {"decide"}, id : Proposal]

Shapes ==
    /\ status \in [Proposal -> {"none", PENDING, APPROVED, REJECTED}]
    /\ applied \in [Proposal -> Nat]
    /\ gap \in [Proposal -> 0 .. MaxGap]
    /\ answer \subseteq Proposal
    /\ refused \subseteq Proposal
    /\ holder \in {NoOne} \cup Holding
    /\ task \in [Thread -> Tasks]
    /\ decision \in [Proposal -> [approve : BOOLEAN, right : BOOLEAN, made : BOOLEAN]]

\* Who holds the lock is about to write: its proposal is still pending, and
\* room was left for the change to go unwritten.
Held == holder # NoOne => /\ task[holder.by].pc = "write"
                          /\ status[holder.id] = PENDING
                          /\ gap[holder.id] < MaxGap

PInv == Shapes /\ Held /\ AppliedOnce

----------------------------------------------------------------------------
\* Nobody is a thread, so a lock that a thread holds is held.
LEMMA HolderIsThread ==
    ASSUME Shapes, NEW t \in Thread, holder.by = t
    PROVE  holder \in Holding /\ holder # NoOne
BY ThreadAssumption DEF Shapes, Thread, Holding, NoOne

LEMMA HoldingIsSomeone ==
    ASSUME NEW h \in Holding
    PROVE  h # NoOne
BY ThreadAssumption DEF Thread, Holding, NoOne

LEMMA InitInv == Init => PInv
<1> SUFFICES ASSUME Init PROVE PInv
  OBVIOUS
<1> USE DEF Init
<1>1. Shapes
  BY ProcessAssumption DEF Shapes, Idle, Tasks, NoDecision
<1>2. Held /\ AppliedOnce
  BY DEF Held, AppliedOnce, APPROVED
<1> QED
  BY <1>1, <1>2 DEF PInv

\* A step of a thread that does not hold the lock, and changes no status.
LEMMA OutsideLock ==
    ASSUME PInv, NEW t \in Thread, task[t].pc # "write", NEW what \in Tasks,
           UNCHANGED <<status, applied, gap, holder>>,
           task' = [task EXCEPT ![t] = what] \/ UNCHANGED task,
           answer' \subseteq Proposal, refused' \subseteq Proposal, UNCHANGED decision
    PROVE  PInv'
<1> USE DEF PInv
<1>1. Shapes'
  BY DEF Shapes
<1>2. Held'
  <2> SUFFICES ASSUME holder # NoOne PROVE task'[holder.by].pc = "write"
    BY DEF Held
  <2> QED
    BY DEF Held, Shapes, Holding
<1>3. AppliedOnce'
  BY DEF AppliedOnce
<1> QED
  BY <1>1, <1>2, <1>3

\* The lock is free and is taken, with the change made if there is one.
LEMMA TakeInv ==
    ASSUME PInv, NEW t \in Thread, NEW p \in Proposal, NEW approve \in BOOLEAN,
           Take(t, p, approve),
           UNCHANGED <<status, gap, answer, decided, refused, told, decision>>
    PROVE  PInv'
<1> USE DEF PInv, Take, Becomes
<1>1. holder' \in Holding /\ holder' # NoOne
  BY HoldingIsSomeone DEF Holding
<1>2. Shapes'
  BY <1>1 DEF Shapes, Tasks
<1>3. Held'
  BY DEF Held, Shapes
<1>4. AppliedOnce'
  BY <1>1 DEF AppliedOnce, Shapes, PENDING, APPROVED
<1> QED
  BY <1>2, <1>3, <1>4

\* It is let go with the proposal's file written ...
LEMMA WriteInv ==
    ASSUME PInv, NEW t \in Thread, Write(t)
    PROVE  PInv'
<1> USE DEF PInv, Write, Becomes
<1>1. holder \in Holding /\ holder # NoOne
  BY HolderIsThread
<1>2. Shapes'
  BY <1>1 DEF Shapes, Tasks, Audit, Holding
<1>3. Held'
  BY DEF Held
<1>4. AppliedOnce'
  BY <1>1 DEF AppliedOnce, Held, Shapes, Holding, PENDING, APPROVED, REJECTED
<1> QED
  BY <1>2, <1>3, <1>4

\* ... or not, and then the change is one too many.
LEMMA LostInv ==
    ASSUME PInv, Lost, holder' = NoOne, UNCHANGED <<status, applied>>
    PROVE  /\ gap' \in [Proposal -> 0 .. MaxGap]
           /\ Held' /\ AppliedOnce'
<1> USE DEF PInv, Lost
<1>1. CASE holder = NoOne \/ ~holder.approve
  BY <1>1 DEF Held, AppliedOnce, Shapes
<1>2. CASE holder # NoOne /\ holder.approve
  <2>1. holder \in Holding
    BY <1>2 DEF Shapes
  <2>2. gap' \in [Proposal -> 0 .. MaxGap]
    BY <1>2, <2>1, ProcessAssumption DEF Held, Shapes, Holding
  <2>3. AppliedOnce'
    BY <1>2, <2>1 DEF Held, AppliedOnce, Shapes, Holding, PENDING, APPROVED
  <2> QED
    BY <2>2, <2>3 DEF Held
<1> QED
  BY <1>1, <1>2

\* A refusal leaves the sync in its round or at its record.
LEMMA RefuseShapes ==
    ASSUME Shapes, NEW p \in Proposal, Refuse(p)
    PROVE  /\ refused' \subseteq Proposal
           /\ \E what \in Tasks : task' = [task EXCEPT ![Sync] = what]
<1> DEFINE what == IF p \in refused THEN [pc |-> "round"] ELSE Audit
<1>1. what \in Tasks
  BY DEF Tasks, Audit
<1>2. task' = [task EXCEPT ![Sync] = what]
  BY DEF Refuse, Becomes
<1> HIDE DEF what
<1> QED
  BY <1>1, <1>2 DEF Shapes, Refuse

LEMMA StoreNextInv ==
    ASSUME PInv, StoreNext
    PROVE  PInv'
<1> USE DEF PInv
<1>0. Sync \in Thread /\ Agent \in Thread /\ Admin \subseteq Thread
  BY DEF Thread
<1>1. ASSUME NEW p \in Proposal, Submit(p) PROVE PInv'
  <2>1. Shapes'
    BY <1>0, <1>1 DEF Submit, Becomes, Shapes, Tasks, Audit
  <2>2. Held' /\ AppliedOnce'
    BY <1>1 DEF Submit, Held, AppliedOnce, Shapes, PENDING, APPROVED
  <2> QED
    BY <2>1, <2>2
<1>2. ASSUME NEW p \in Proposal, Look(p) PROVE PInv'
  <2>1. task[Sync].pc # "write"
    BY <1>2 DEF Look
  <2>2. \E what \in Tasks : task' = [task EXCEPT ![Sync] = what] \/ UNCHANGED task
    <3>1. CASE UNCHANGED task
      <4>1. Idle \in Tasks
        BY DEF Idle, Tasks
      <4> QED
        BY <3>1, <4>1
    <3>2. CASE Refuse(p)
      BY <3>2, RefuseShapes
    <3>3. CASE Becomes(Sync, [pc |-> "decide", id |-> p])
      <4> DEFINE what == [pc |-> "decide", id |-> p]
      <4>1. what \in Tasks
        BY DEF Tasks
      <4>2. task' = [task EXCEPT ![Sync] = what]
        BY <3>3 DEF Becomes
      <4> HIDE DEF what
      <4> QED
        BY <4>1, <4>2
    <3> QED
      BY <1>2, <3>1, <3>2, <3>3 DEF Look
  <2>3. refused' \subseteq Proposal
    BY <1>2, RefuseShapes DEF Look, Shapes
  <2>4. answer' \subseteq Proposal
    BY <1>2 DEF Look, Shapes
  <2> QED
    BY <1>0, <1>2, <2>1, <2>2, <2>3, <2>4, OutsideLock DEF Look
<1>3. ASSUME NEW p \in Proposal, NEW approve \in BOOLEAN, NEW t \in Admin,
             Decide(t, p, approve)
      PROVE  PInv'
  BY <1>0, <1>3, TakeInv DEF Decide
<1>4. ASSUME NEW p \in Proposal, NEW approve \in BOOLEAN, NEW right \in BOOLEAN,
             PersonDecides(p, approve, right)
      PROVE  PInv'
  <2>1. Shapes'
    BY <1>4 DEF PersonDecides, Shapes
  <2>2. Held' /\ AppliedOnce'
    BY <1>4 DEF PersonDecides, Held, AppliedOnce
  <2> QED
    BY <2>1, <2>2
<1>5. ASSUME NEW t \in Thread, Write(t) PROVE PInv'
  BY <1>5, WriteInv
<1>6. ASSUME NEW t \in Thread, WriteFails(t) PROVE PInv'
  <2>1. holder \in Holding
    BY <1>6, HolderIsThread DEF WriteFails
  <2>2. gap' \in [Proposal -> 0 .. MaxGap] /\ Held' /\ AppliedOnce'
    BY <1>6, LostInv DEF WriteFails
  <2>3. refused' \subseteq Proposal /\ task' \in [Thread -> Tasks]
    <3>1. CASE Refuse(holder.id)
      <4>1. holder.id \in Proposal
        BY <2>1 DEF Holding
      <4>2. refused' \subseteq Proposal
            /\ \E what \in Tasks : task' = [task EXCEPT ![Sync] = what]
        BY <3>1, <4>1, RefuseShapes
      <4> QED
        BY <4>2 DEF Shapes
    <3>2. CASE Becomes(t, Idle) /\ UNCHANGED refused
      BY <3>2 DEF Becomes, Idle, Tasks, Shapes
    <3> QED
      BY <1>6, <3>1, <3>2 DEF WriteFails
  <2>4. Shapes'
    BY <1>6, <2>2, <2>3 DEF WriteFails, Shapes
  <2> QED
    BY <2>2, <2>4
<1>7. CASE Upload
  <2>1. task[Sync].pc # "write" /\ [pc |-> "round"] \in Tasks
    BY <1>7 DEF Upload, Idle, Tasks
  <2>2. answer' \subseteq Proposal
    BY <1>7 DEF Upload, Shapes
  <2> QED
    BY <1>0, <1>7, <2>1, <2>2, OutsideLock DEF Upload, Becomes, Shapes
<1>8. CASE SyncDecide
  <2> DEFINE p == task[Sync].id
  <2>1. p \in Proposal
    BY <1>0, <1>8 DEF SyncDecide, Shapes, Tasks
  <2>2. decision[p].approve \in BOOLEAN
    BY <2>1 DEF Shapes
  <2>3. /\ Take(Sync, p, decision[p].approve)
        /\ UNCHANGED <<status, gap, answer, decided, refused, told, decision>>
    BY <1>8 DEF SyncDecide
  <2> HIDE DEF p
  <2> QED
    BY <1>0, <2>1, <2>2, <2>3, TakeInv
<1>9. CASE SyncCannot
  <2>1. task[Sync].pc # "write" /\ task[Sync].id \in Proposal
    BY <1>0, <1>9 DEF SyncCannot, Shapes, Tasks
  <2>2. /\ refused' \subseteq Proposal
        /\ \E what \in Tasks : task' = [task EXCEPT ![Sync] = what]
    BY <1>9, <2>1, RefuseShapes DEF SyncCannot
  <2>3. UNCHANGED <<status, applied, gap, holder, answer, decision>>
    BY <1>9 DEF SyncCannot
  <2> QED
    BY <1>0, <2>1, <2>2, <2>3, OutsideLock DEF Shapes
<1>10. CASE EndRound
  <2>1. task[Sync].pc # "write" /\ Idle \in Tasks
    BY <1>10 DEF EndRound, Idle, Tasks
  <2> QED
    BY <1>0, <1>10, <2>1, OutsideLock DEF EndRound, Becomes, Shapes
<1> QED
  BY <1>1, <1>2, <1>3, <1>4, <1>5, <1>6, <1>7, <1>8, <1>9, <1>10 DEF StoreNext

LEMMA NextInv == PInv /\ [Next]_<<pvars, avars>> => PInv'
<1> SUFFICES ASSUME PInv, [Next]_<<pvars, avars>> PROVE PInv'
  OBVIOUS
<1>1. CASE UNCHANGED pvars
  BY <1>1 DEF pvars, PInv, Shapes, Held, AppliedOnce
<1>2. CASE StoreNext
  BY <1>2, StoreNextInv
<1>3. ASSUME NEW t \in Thread, Audited(t) PROVE PInv'
  <2>1. task[t].pc # "write"
    BY <1>3 DEF Audited
  <2>2. \E what \in Tasks : task' = [task EXCEPT ![t] = what]
    <3> DEFINE what == IF t = Sync THEN [pc |-> "round"] ELSE Idle
    <3>1. what \in Tasks
      BY DEF Tasks, Idle
    <3>2. task' = [task EXCEPT ![t] = what]
      BY <1>3 DEF Audited, Onward, Becomes
    <3> HIDE DEF what
    <3> QED
      BY <3>1, <3>2
  <2>3. UNCHANGED <<status, applied, gap, holder, answer, refused, decision>>
    BY <1>3 DEF Audited
  <2> QED
    BY <2>1, <2>2, <2>3, OutsideLock DEF PInv, Shapes
<1>4. CASE DaemonEnds
  <2>1. gap' \in [Proposal -> 0 .. MaxGap] /\ Held' /\ AppliedOnce'
    BY <1>4, LostInv DEF DaemonEnds
  <2>2. task' \in [Thread -> Tasks]
    BY <1>4 DEF DaemonEnds, Idle, Tasks
  <2>3. Shapes'
    BY <1>4, <2>1, <2>2 DEF DaemonEnds, PInv, Shapes
  <2> QED
    BY <2>1, <2>3 DEF PInv
<1> QED
  BY <1>1, <1>2, <1>3, <1>4 DEF Next, pvars

----------------------------------------------------------------------------
\* Whatever the store and the log's other users do, each step is a step of
\* the audit log or leaves it alone.
LEMMA StepIsAudit == [Next]_<<pvars, avars>> => [AuditNext]_avars
<1> SUFFICES ASSUME [Next]_<<pvars, avars>>, ~UNCHANGED avars PROVE AuditNext
  OBVIOUS
<1>1. CASE LogNext
  BY <1>1 DEF LogNext, AuditNext
<1>2. ASSUME NEW t \in Thread, Audited(t) PROVE AuditNext
  BY <1>2, ProcessAssumption DEF Audited, AuditNext
<1>3. CASE DaemonEnds
  BY <1>3, ProcessAssumption DEF DaemonEnds, AuditNext
<1> QED
  BY <1>1, <1>2, <1>3 DEF Next

\* The proposals' own log appends, and those of the command line beside it,
\* implement the audit log.
THEOREM ImplementsAuditLog == Spec => AuditSpec
<1>1. Init => AuditInit
  BY DEF Init
<1> QED
  BY <1>1, StepIsAudit, PTL DEF Spec, AuditSpec

\* The chain of the log they share is whole until lines are taken out of it.
THEOREM SharedChainUnbroken == Spec => []ChainUnbroken
BY ImplementsAuditLog, AuditChainUnbroken, PTL

\* Every proposal, thread, decision and record keeps its shape, and only a
\* thread that is about to write holds the store's lock.
THEOREM ProposalsTypeCorrect == Spec => []TypeOK
<1>1. PInv /\ AuditTypeOK => TypeOK
  BY DEF PInv, Shapes, Held, TypeOK, Holding
<1>2. Spec => []PInv
  BY InitInv, NextInv, PTL DEF Spec
<1>3. Spec => []AuditTypeOK
  BY ImplementsAuditLog, AuditTypeCorrect, PTL
<1> QED
  BY <1>1, <1>2, <1>3, PTL

\* A change is made once for each approval, whoever decides and however the
\* daemon ends, but for those cut short between the change and the file.
THEOREM ChangesAppliedOnce == Spec => []AppliedOnce
<1>1. PInv => AppliedOnce
  BY DEF PInv
<1> QED
  BY <1>1, InitInv, NextInv, PTL DEF Spec

----------------------------------------------------------------------------
(* What was taken out of the log is seen.  CutIsSeen is not inductive: it  *)
(* needs that the daemon's last record descends from all it appended, and  *)
(* that whoever else appends remembers nothing.                            *)

DaemonRemembers ==
    /\ AuditTypeOK
    /\ Descends(lines, ids, head[Daemon], mine[Daemon])
    /\ \A p \in Proc \ {Daemon} : head[p] = NoHead /\ mine[p] = {}

LEMMA InitRemembers == Init => DaemonRemembers
<1> SUFFICES ASSUME Init PROVE DaemonRemembers
  OBVIOUS
<1>1. AuditTypeOK
  BY AuditInitTypes DEF Init
<1>2. /\ lines = <<>> /\ ids = 0
      /\ \A p \in Proc : head[p] = NoHead /\ mine[p] = {}
  BY DEF Init, AuditInit
<1>3. Chained(lines, Len(lines)) = {} /\ Records(lines) = {}
  <2>1. Len(lines) = 0
    BY <1>2
  <2> QED
    BY <2>1 DEF Chained, Records
<1>4. Descends(lines, 0, NoHead, {})
  BY <1>3 DEF Descends, Ordered, Found, HasId, NoHead
<1> QED
  BY <1>1, <1>2, <1>4, ProcessAssumption DEF DaemonRemembers

LEMMA CrashRemembers ==
    ASSUME DaemonRemembers, NEW p \in Proc, Crash(p), AuditTypeOK'
    PROVE  DaemonRemembers'
<1>1. PICK n \in 0 .. 2, rest \in {"nothing", "part", "line"} : Wrote(p, n, rest) /\ Restarted(p)
  BY DEF Crash
<1>2. n \in Nat /\ Daemon \in Proc
  BY ProcessAssumption
<1>3. /\ head' = [head EXCEPT ![p] = NoHead] /\ mine' = [mine EXCEPT ![p] = {}]
      /\ head \in [Proc -> Link] /\ mine \in [Proc -> SUBSET Nat]
  BY <1>1 DEF Restarted, DaemonRemembers, AuditTypeOK
<1>4. CASE p = Daemon
  <2>1. Descends(lines', ids', NoHead, {})
    BY <1>1, <1>2, <1>4, CrashDescends DEF DaemonRemembers
  <2>2. head'[Daemon] = NoHead /\ mine'[Daemon] = {}
    BY <1>2, <1>3, <1>4
  <2>3. \A q \in Proc \ {Daemon} : head'[q] = NoHead /\ mine'[q] = {}
    BY <1>3, <1>4 DEF DaemonRemembers
  <2> QED
    BY <2>1, <2>2, <2>3 DEF DaemonRemembers
<1>5. CASE p # Daemon
  <2>1. Descends(lines', ids', head[Daemon], mine[Daemon])
    BY <1>1, <1>2, <1>5, OtherAppendDescends DEF DaemonRemembers
  <2>2. head'[Daemon] = head[Daemon] /\ mine'[Daemon] = mine[Daemon]
    BY <1>2, <1>3, <1>5
  <2>3. \A q \in Proc \ {Daemon} : head'[q] = NoHead /\ mine'[q] = {}
    BY <1>3 DEF DaemonRemembers
  <2> QED
    BY <2>1, <2>2, <2>3 DEF DaemonRemembers
<1> QED
  BY <1>4, <1>5

LEMMA AppendRemembers ==
    ASSUME DaemonRemembers, AppendRecord(Daemon) \/ AppendFails(Daemon), AuditTypeOK'
    PROVE  DaemonRemembers'
<1>1. CASE UNCHANGED avars
  BY <1>1 DEF avars, DaemonRemembers
<1>2. CASE \E n \in Nat, rest \in {"nothing", "part", "line"} :
               Wrote(Daemon, n, rest) /\ Remembered(Daemon, n)
  <2>1. PICK n \in Nat, rest \in {"nothing", "part", "line"} :
            Wrote(Daemon, n, rest) /\ Remembered(Daemon, n)
    BY <1>2
  <2>2. Descends(lines', ids', head'[Daemon], mine'[Daemon])
    BY <2>1, ProcessAssumption, OwnAppendDescends DEF DaemonRemembers
  <2>3. \A q \in Proc \ {Daemon} : head'[q] = head[q] /\ mine'[q] = mine[q]
    BY <2>1 DEF Remembered, DaemonRemembers, AuditTypeOK
  <2> QED
    BY <2>2, <2>3 DEF DaemonRemembers
<1>3. AppendRecord(Daemon) =>
          \E n \in Nat, rest \in {"nothing", "part", "line"} :
              Wrote(Daemon, n, rest) /\ Remembered(Daemon, n)
  <2>1. Len(New(Daemon)) \in Nat
    BY ProcessAssumption, NewIsLines DEF DaemonRemembers
  <2> QED
    BY <2>1 DEF AppendRecord
<1> QED
  BY <1>1, <1>2, <1>3 DEF AppendFails

LEMMA NextRemembers == DaemonRemembers /\ [Next]_<<pvars, avars>> => DaemonRemembers'
<1> SUFFICES ASSUME DaemonRemembers, [Next]_<<pvars, avars>> PROVE DaemonRemembers'
  OBVIOUS
<1>1. AuditTypeOK'
  BY StepIsAudit, AuditNextTypes DEF DaemonRemembers
<1>2. CASE UNCHANGED avars
  BY <1>1, <1>2 DEF avars, DaemonRemembers
<1>3. CASE LogNext
  <2>1. CASE \E p \in Proc \ {Daemon} : Crash(p)
    BY <1>1, <2>1, CrashRemembers
  <2>2. ASSUME NEW from \in 1 .. MaxLines, NEW to \in 1 .. MaxLines, Remove(from, to)
        PROVE  DaemonRemembers'
    <3>1. lines \in Seq(Line) /\ ids \in Nat
      BY DEF DaemonRemembers, AuditTypeOK
    <3>2. from \in 1 .. Len(lines) /\ to \in from .. Len(lines)
      BY <2>2, <3>1, BoundsAssumption DEF Remove
    <3>3. lines' = SubSeq(lines, 1, from - 1) \o SubSeq(lines, to + 1, Len(lines))
      BY <2>2 DEF Remove
    <3>4. Descends(lines', ids, head[Daemon], mine[Daemon])
      BY <3>1, <3>2, <3>3, RemoveDescends DEF DaemonRemembers
    <3> QED
      BY <1>1, <2>2, <3>4 DEF Remove, DaemonRemembers
  <2> QED
    BY <1>3, <2>1, <2>2 DEF LogNext
<1>4. ASSUME NEW t \in Thread, Audited(t) PROVE DaemonRemembers'
  BY <1>1, <1>4, AppendRemembers DEF Audited
<1>5. CASE DaemonEnds
  <2>1. CASE Crash(Daemon)
    BY <1>1, <2>1, ProcessAssumption, CrashRemembers
  <2>2. CASE Restart(Daemon)
    <3>1. /\ head' = [head EXCEPT ![Daemon] = NoHead] /\ mine' = [mine EXCEPT ![Daemon] = {}]
          /\ lines' = lines /\ ids' = ids
      BY <2>2 DEF Restart, Restarted
    <3>2. /\ head'[Daemon] = NoHead /\ mine'[Daemon] = {}
          /\ \A q \in Proc \ {Daemon} : head'[q] = head[q] /\ mine'[q] = mine[q]
      BY <3>1, ProcessAssumption DEF DaemonRemembers, AuditTypeOK
    <3>3. Descends(lines, ids, NoHead, {})
      BY ForgetsAll DEF DaemonRemembers, AuditTypeOK
    <3> QED
      BY <1>1, <3>1, <3>2, <3>3 DEF DaemonRemembers
  <2> QED
    BY <1>5, <2>1, <2>2 DEF DaemonEnds
<1> QED
  BY <1>2, <1>3, <1>4, <1>5 DEF Next

LEMMA RememberingSees == DaemonRemembers => CutIsSeen
<1> SUFFICES ASSUME DaemonRemembers, NEW p \in Proc, NEW id \in mine[p],
                    \A i \in DOMAIN lines : lines[i].id # id, Verifies(p)
             PROVE  FALSE
  BY DEF CutIsSeen
<1>1. p = Daemon
  BY DEF DaemonRemembers
<1>2. \E i \in DOMAIN lines : lines[i].id = id
  BY <1>1, VerifiedHasAll DEF DaemonRemembers
<1> QED
  BY <1>2

\* When a record the running daemon appended is gone, verify with what the
\* daemon remembers says so, whatever was taken out, how often, and whatever
\* the daemon and the command line appended since.
THEOREM CutsAreSeen == Spec => []CutIsSeen
BY InitRemembers, NextRemembers, RememberingSees, PTL DEF Spec

\* As long as the log has the daemon's last record, no cut is reported: what
\* the command line appends, and what is taken out before that record or
\* after it, is not taken for a cut.
THEOREM ReportsAreTrue == Spec => []HeldIsFound
<1>1. DaemonRemembers => HeldIsFound
  <2> SUFFICES ASSUME DaemonRemembers, NEW p \in Proc, head[p] # NoHead,
                      Has(lines, head[p])
               PROVE  Cut(p) = <<>>
    BY DEF HeldIsFound
  <2>1. p = Daemon
    BY DEF DaemonRemembers
  <2>2. HasId(lines, head[p].id)
    BY DEF Has, HasId, Records
  <2> QED
    BY <2>1, <2>2, ReportIsTrue DEF DaemonRemembers
<1> QED
  BY <1>1, InitRemembers, NextRemembers, PTL DEF Spec
=============================================================================
