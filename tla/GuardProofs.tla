---------------------------- MODULE GuardProofs -----------------------------
(* Theorems about the guard, for any contracts, any events, any threads    *)
(* and any length of the trace.                                            *)
(*                                                                         *)
(* The incremental verifier is right because what it keeps of a formula is *)
(* the formula progressed through the valuations it read, and progression  *)
(* keeps what the reference evaluator says of the rest of the trace.  That *)
(* is shown for every formula, as a finite construction, from what one     *)
(* step of each recursive function does.  Then VerifierInv says what the   *)
(* verifier holds of the trace after every step, and TypeOK, CachesAgree   *)
(* and the three promises on what a check reports follow from it.  What    *)
(* grounding accumulates is followed along the trace: it is what the       *)
(* history says, some of its numbers only grow, which gives every refused  *)
(* call its cause, and each rule of the pattern library, over it, says of  *)
(* the events what the pattern reference says it means.                    *)
EXTENDS GuardProperties, FiniteSetTheorems, WellFoundedInduction, TLAPS

----------------------------------------------------------------------------
(* Numbers and sequences.                                                  *)

\* Induction on the natural numbers, for a set of them.
LEMMA AllNumbers ==
    ASSUME NEW S, 0 \in S, \A n \in Nat : n \in S => n + 1 \in S
    PROVE  \A n \in Nat : n \in S
<1> DEFINE Out == {n \in Nat : n \notin S}
           Less == OpToRel(<, Nat)
<1> SUFFICES ASSUME Out # {} PROVE FALSE
  OBVIOUS
<1>1. \A i, j \in Nat : <<i, j>> \in Less <=> i < j
  BY DEF OpToRel
<1>2. IsWellFoundedOn(Less, Nat)
  BY NatLessThanWellFounded
<1>3. Out \subseteq Nat /\ \A n \in Nat : n \in Out <=> n \notin S
  OBVIOUS
<1> HIDE DEF Less, Out
<1>4. PICK k \in Out : \A m \in Out : ~(<<m, k>> \in Less)
  BY <1>2, <1>3, WFMin, Zenon
<1>5. k \in Nat /\ k \notin S /\ k # 0
  BY <1>3, <1>4
<1>6. k - 1 \in Nat /\ k - 1 < k /\ (k - 1) + 1 = k
  BY <1>5
<1> QED
  BY <1>1, <1>3, <1>4, <1>5, <1>6

\* Sequences of anything: an event, a valuation and a state are records whose
\* fields range over no set that is named.
Sequence(s) == \E S : s \in Seq(S)

\* What a sequence is.
LEMMA SequenceIs ==
    ASSUME NEW s, Sequence(s)
    PROVE  /\ Len(s) \in Nat
           /\ DOMAIN s = 1 .. Len(s)
           /\ s = [i \in 1 .. Len(s) |-> s[i]]
<1>1. PICK S : s \in Seq(S)
  BY DEF Sequence
<1> QED
  BY <1>1

\* A function on 1 .. n is a sequence of length n.
LEMMA MadeSequence ==
    ASSUME NEW n \in Nat, NEW s, s = [i \in 1 .. n |-> s[i]]
    PROVE  Sequence(s) /\ Len(s) = n
<1> DEFINE S == {s[i] : i \in 1 .. n}
<1>1. s \in Seq(S) /\ Len(s) = n
  OBVIOUS
<1> QED
  BY <1>1 DEF Sequence

\* A sequence with one more element.
LEMMA Appended ==
    ASSUME NEW s, NEW e, Sequence(s)
    PROVE  /\ Sequence(Append(s, e))
           /\ Len(Append(s, e)) = Len(s) + 1
           /\ Append(s, e)[Len(s) + 1] = e
           /\ \A i \in 1 .. Len(s) : Append(s, e)[i] = s[i]
           /\ Append(s, e) # <<>>
           /\ SubSeq(Append(s, e), 1, Len(s)) = s
<1>1. PICK S : s \in Seq(S)
  BY DEF Sequence
<1> DEFINE T == S \cup {e}
<1>2. s \in Seq(T) /\ e \in T
  BY <1>1
<1> QED
  BY <1>2 DEF Sequence

\* A prefix of a sequence.
LEMMA Prefix ==
    ASSUME NEW s, Sequence(s), NEW n \in 0 .. Len(s)
    PROVE  /\ Sequence(SubSeq(s, 1, n))
           /\ Len(SubSeq(s, 1, n)) = n
           /\ \A i \in 1 .. n : SubSeq(s, 1, n)[i] = s[i]
<1>1. PICK S : s \in Seq(S)
  BY DEF Sequence
<1> QED
  BY <1>1 DEF Sequence

\* Sequences that agree so far have the same prefix.
LEMMA SamePrefix ==
    ASSUME NEW s, NEW t, Sequence(s), Sequence(t),
           NEW n \in 0 .. Len(s), n <= Len(t), \A i \in 1 .. n : s[i] = t[i]
    PROVE  SubSeq(s, 1, n) = SubSeq(t, 1, n)
<1> DEFINE p == SubSeq(s, 1, n)
           q == SubSeq(t, 1, n)
<1> HIDE DEF p, q
<1> QED
  BY SequenceIs, Prefix DEF p, q

\* The longest prefix is the sequence.
LEMMA WholePrefix ==
    ASSUME NEW s, Sequence(s)
    PROVE  SubSeq(s, 1, Len(s)) = s
<1>1. PICK S : s \in Seq(S)
  BY DEF Sequence
<1> QED
  BY <1>1

\* The empty sequence.
LEMMA EmptySequence ==
    Sequence(<<>>) /\ Len(<<>>) = 0
  BY DEF Sequence

\* Only the empty sequence has no length.
LEMMA NoLength ==
    ASSUME NEW s, Sequence(s), Len(s) = 0
    PROVE  s = <<>>
<1>1. PICK S : s \in Seq(S)
  BY DEF Sequence
<1> QED
  BY <1>1

\* An output changes an event, not their number.
LEMMA AttachedIs ==
    ASSUME NEW events, NEW out, Sequence(events)
    PROVE  Sequence(Attached(events, out)) /\ Len(Attached(events, out)) = Len(events)
<1> DEFINE a == Attached(events, out)
<1>1. CASE a = events
  BY <1>1
<1>2. CASE a # events
  <2>1. PICK k, x : a = [events EXCEPT ![k] = x]
    BY <1>2 DEF Attached
  <2> HIDE DEF a
  <2> QED
    BY <2>1, MadeSequence, SequenceIs DEF a
<1> QED
  BY <1>1, <1>2

----------------------------------------------------------------------------
(* The history.                                                            *)

HistoryInv ==
    /\ book \in {Books[name] : name \in DOMAIN Books}
    /\ Sequence(trace)
    /\ Sequence(admitted)
    /\ call = NoCall \/ call.by \in Thread
    /\ ~overlapped =>
           IF call # NoCall /\ Undone(call.probe, call.results)
           THEN trace # <<>> /\ SubSeq(trace, 1, Len(trace) - 1) = admitted
           ELSE trace = admitted

\* At first the trace is the imported one, and admitted.
LEMMA InitHistory == Init => HistoryInv
<1> SUFFICES ASSUME Init PROVE HistoryInv
  OBVIOUS
<1>1. PICK name \in DOMAIN Books : book = Books[name]
  BY DEF Init
<1> QED
  BY <1>1, BooksAssumption DEF HistoryInv, Sequence, Init

\* Every step keeps HistoryInv.
LEMMA StepHistory == HistoryInv /\ [Next]_vars => HistoryInv'
<1> SUFFICES ASSUME HistoryInv, [Next]_vars PROVE HistoryInv'
  OBVIOUS
<1> USE DEF HistoryInv
<1>1. ASSUME NEW b, NEW results, UNCHANGED mode
      PROVE  Undone(b, results)' <=> Undone(b, results)
  BY <1>1 DEF Undone
<1>2. ASSUME NEW t \in Thread, NEW e, NEW probe \in BOOLEAN, Check(t, e, probe)
      PROVE  HistoryInv'
  <2>1. /\ call = NoCall /\ trace' = Append(trace, e) /\ UNCHANGED <<book, mode, overlapped>>
        /\ call'.by = t /\ call'.probe = probe
        /\ admitted' = IF Undone(probe, call'.results) THEN admitted ELSE Append(admitted, e)
    BY <1>2 DEF Check, Recorded, LockFree
  <2> QED
    BY <2>1, ThreadAssumption, Appended, SequenceIs DEF NoCall, Undone
<1>3. ASSUME NEW t \in Thread, Settle(t)
      PROVE  HistoryInv'
  <2>1. call.by = t /\ call' = NoCall /\ UNCHANGED <<book, mode, admitted, overlapped>>
    BY <1>3 DEF Settle
  <2>2. call # NoCall
    BY <2>1, ThreadAssumption DEF NoCall
  <2>3. CASE Undone(call.probe, call.results) /\ trace # <<>>
    <3>1. trace' = SubSeq(trace, 1, Len(trace) - 1)
      BY <1>3, <2>3 DEF Settle
    <3> QED
      BY <2>1, <2>2, <2>3, <3>1, Prefix, SequenceIs, NoLength
  <2>4. CASE ~(Undone(call.probe, call.results) /\ trace # <<>>)
    BY <1>3, <2>1, <2>2, <2>4 DEF Settle
  <2> QED
    BY <2>3, <2>4
<1>4. ASSUME NEW t \in Thread, NEW e, Observe(t, e)
      PROVE  HistoryInv'
  BY <1>4, Appended DEF Undone, Observe, Recorded, Overlapping
<1>5. ASSUME NEW t \in Thread, NEW out, ObserveOutput(t, out)
      PROVE  HistoryInv'
  BY <1>5, AttachedIs DEF Undone, ObserveOutput, Overlapping
<1>6. ASSUME NEW t \in Thread, Finish(t) \/ Rotate(t)
      PROVE  HistoryInv'
  BY <1>6 DEF Undone, Finish, Rotate, Finished
<1>7. ASSUME NEW t \in Thread, Wipe(t)
      PROVE  HistoryInv'
  BY <1>7, EmptySequence DEF Wipe, Wiped, LockFree
<1>8. ASSUME NEW t \in Thread, Reset(t)
      PROVE  HistoryInv'
  BY <1>8, EmptySequence DEF Undone, Reset, Wiped, Overlapping
<1>9. CASE UNCHANGED vars
  BY <1>9 DEF vars, Undone
<1> QED
  BY <1>2, <1>3, <1>4, <1>5, <1>6, <1>7, <1>8, <1>9 DEF Next

\* Between calls the trace is every event admitted or observed, in order, and
\* nothing of a refused call or a probe, for any contracts and any threads:
\* until a call is settled its event is one the history has not, or the last.
THEOREM TraceIsTheHistory == Spec => []HistoryIsAdmitted
<1>1. HistoryInv => HistoryIsAdmitted
  BY DEF HistoryInv, HistoryIsAdmitted, LockFree
<1> QED
  BY <1>1, InitHistory, StepHistory, PTL DEF Spec

----------------------------------------------------------------------------
(* The formulas.                                                           *)

\* f is one operator on top of members of S.
Built(f, S) ==
    \/ f \in {Top, Bottom}
    \/ \E k : f = Atom(k)
    \/ \E l, r : f = Le(l, r) \/ f = Ge(l, r)
    \/ \E g \in S : f \in {Not(g), G(g), F(g), X(g)}
    \/ \E g, h \in S : f \in {Implies(g, h), U(g, h)}
    \/ \E P \in SUBSET S : IsFiniteSet(P) /\ f \in {And(P), Or(P)}

\* The same of what progression leaves.
BuiltOrOwed(f, S) == Built(f, S) \/ \E g \in S : f = Pending(g)

\* s[1], ..., s[n] are each built from those before.
Builds(s, n) == \A i \in 1 .. n : Built(s[i], {s[j] : j \in 1 .. i - 1})
BuildsOwed(s, n) == \A i \in 1 .. n : BuiltOrOwed(s[i], {s[j] : j \in 1 .. i - 1})

\* A formula of the language, and a residual of one: built in finitely many
\* steps, over any keys and any terms.
Formula(f) == \E s : \E n \in Nat \ {0} : Builds(s, n) /\ f = s[n]
Residue(f) == \E s : \E n \in Nat \ {0} : BuildsOwed(s, n) /\ f = s[n]

\* What is built from some parts is built from more.
LEMMA BuiltFromMore ==
    ASSUME NEW f, NEW S, NEW T, S \subseteq T
    PROVE  /\ Built(f, S) => Built(f, T)
           /\ BuiltOrOwed(f, S) => BuiltOrOwed(f, T)
<1>1. ASSUME Built(f, S) PROVE Built(f, T)
  <2>1. CASE \E g \in S : f \in {Not(g), G(g), F(g), X(g)}
    BY <2>1 DEF Built
  <2>2. CASE \E g, h \in S : f \in {Implies(g, h), U(g, h)}
    BY <2>2 DEF Built
  <2>3. CASE \E P \in SUBSET S : IsFiniteSet(P) /\ f \in {And(P), Or(P)}
    <3>1. PICK P \in SUBSET S : IsFiniteSet(P) /\ f \in {And(P), Or(P)}
      BY <2>3
    <3> QED
      BY <3>1 DEF Built
  <2>4. CASE \/ f \in {Top, Bottom}
             \/ \E k : f = Atom(k)
             \/ \E l, r : f = Le(l, r) \/ f = Ge(l, r)
    BY <2>4 DEF Built
  <2> QED
    BY <1>1, <2>1, <2>2, <2>3, <2>4 DEF Built
<1> QED
  BY <1>1 DEF BuiltOrOwed

\* The parts of a formula are formulas, those of a residual are residuals.
LEMMA FormulaParts ==
    ASSUME NEW f, Formula(f)
    PROVE  \E S : Built(f, S) /\ \A g \in S : Formula(g)
<1>1. PICK s : \E n \in Nat \ {0} : Builds(s, n) /\ f = s[n]
  BY DEF Formula
<1>2. PICK n \in Nat \ {0} : Builds(s, n) /\ f = s[n]
  BY <1>1
<1> DEFINE S == {s[j] : j \in 1 .. n - 1}
<1>3. Built(f, S)
  <2>1. n \in 1 .. n
    OBVIOUS
  <2> QED
    BY <1>2, <2>1 DEF Builds
<1>4. ASSUME NEW j \in 1 .. n - 1 PROVE Formula(s[j])
  <2>1. j \in Nat \ {0} /\ 1 .. j \subseteq 1 .. n
    OBVIOUS
  <2> QED
    BY <1>2, <2>1 DEF Formula, Builds
<1> QED
  BY <1>3, <1>4

\* The parts of a residual are residuals.
LEMMA ResidueParts ==
    ASSUME NEW f, Residue(f)
    PROVE  \E S : BuiltOrOwed(f, S) /\ \A g \in S : Residue(g)
<1>1. PICK s : \E n \in Nat \ {0} : BuildsOwed(s, n) /\ f = s[n]
  BY DEF Residue
<1>2. PICK n \in Nat \ {0} : BuildsOwed(s, n) /\ f = s[n]
  BY <1>1
<1> DEFINE S == {s[j] : j \in 1 .. n - 1}
<1>3. BuiltOrOwed(f, S)
  <2>1. n \in 1 .. n
    OBVIOUS
  <2> QED
    BY <1>2, <2>1 DEF BuildsOwed
<1>4. ASSUME NEW j \in 1 .. n - 1 PROVE Residue(s[j])
  <2>1. j \in Nat \ {0} /\ 1 .. j \subseteq 1 .. n
    OBVIOUS
  <2> QED
    BY <1>2, <2>1 DEF Residue, BuildsOwed
<1> QED
  BY <1>3, <1>4

\* A formula is a residual: the initial one.
LEMMA FormulasAreResidues ==
    ASSUME NEW f, Formula(f)
    PROVE  Residue(f)
  BY DEF Formula, Residue, Builds, BuildsOwed, BuiltOrOwed

\* Two constructions, one after the other.
Joins(u, s, n, t, m) ==
    /\ BuildsOwed(u, n + m)
    /\ \A i \in 1 .. n : u[i] = s[i]
    /\ \A j \in 1 .. m : u[n + j] = t[j]

\* Two constructions, one after the other, are one.
LEMMA BuildsBoth ==
    ASSUME NEW s, NEW t, NEW n \in Nat, NEW m \in Nat, BuildsOwed(s, n), BuildsOwed(t, m)
    PROVE  \E u : Joins(u, s, n, t, m)
<1> DEFINE u == [i \in 1 .. n + m |-> IF i <= n THEN s[i] ELSE t[i - n]]
<1>1. \A i \in 1 .. n : u[i] = s[i]
  OBVIOUS
<1>2. \A j \in 1 .. m : u[n + j] = t[j]
  <2> TAKE j \in 1 .. m
  <2>1. n + j \in 1 .. n + m /\ ~(n + j <= n) /\ (n + j) - n = j
    OBVIOUS
  <2> QED
    BY <2>1
<1> HIDE DEF u
<1>3. ASSUME NEW i \in 1 .. n + m
      PROVE  BuiltOrOwed(u[i], {u[j] : j \in 1 .. i - 1})
  <2>1. CASE i <= n
    <3>1. i \in 1 .. n /\ \A j \in 1 .. i - 1 : j \in 1 .. n
      BY <2>1
    <3>2. {u[j] : j \in 1 .. i - 1} = {s[j] : j \in 1 .. i - 1}
      BY <1>1, <3>1
    <3> QED
      BY <1>1, <3>1, <3>2 DEF BuildsOwed
  <2>2. CASE ~(i <= n)
    <3> DEFINE k == i - n
    <3>1. k \in 1 .. m /\ n + k = i
      BY <2>2
    <3>2. \A j \in 1 .. k - 1 : n + j \in 1 .. i - 1 /\ j \in 1 .. m
      BY <3>1
    <3>3. {t[j] : j \in 1 .. k - 1} \subseteq {u[j] : j \in 1 .. i - 1}
      BY <1>2, <3>2
    <3>4. BuiltOrOwed(t[k], {t[j] : j \in 1 .. k - 1})
      BY <3>1 DEF BuildsOwed
    <3>5. u[i] = t[k]
      BY <1>2, <3>1
    <3> HIDE DEF k
    <3> QED
      BY <3>3, <3>4, <3>5, BuiltFromMore
  <2> QED
    BY <2>1, <2>2
<1>4. BuildsOwed(u, n + m)
  BY <1>3 DEF BuildsOwed
<1> QED
  BY <1>1, <1>2, <1>4 DEF Joins

\* Finitely many residuals have one construction.
LEMMA BuildsAll ==
    ASSUME NEW P, IsFiniteSet(P), \A p \in P : Residue(p)
    PROVE  \E s : \E n \in Nat : BuildsOwed(s, n) /\ P \subseteq {s[i] : i \in 1 .. n}
<1>1. PICK N \in Nat : ExistsBijection(1 .. N, P)
  BY FS_NatBijection
<1>2. PICK e : e \in Bijection(1 .. N, P)
  BY <1>1 DEF ExistsBijection
<1>3. /\ \A i \in 1 .. N : e[i] \in P
      /\ \A p \in P : \E i \in 1 .. N : e[i] = p
  BY <1>2 DEF Bijection, Surjection, Injection
<1> DEFINE Covers(k, s, n) == BuildsOwed(s, n) /\ \A i \in 1 .. k : \E j \in 1 .. n : s[j] = e[i]
           S == {k \in Nat : k <= N => \E s : \E n \in Nat : Covers(k, s, n)}
<1>4. 0 \in S
  BY DEF BuildsOwed
<1>5. ASSUME NEW k \in Nat, k \in S PROVE k + 1 \in S
  <2> SUFFICES ASSUME k + 1 <= N PROVE \E s : \E n \in Nat : Covers(k + 1, s, n)
    OBVIOUS
  <2>1. PICK s : \E n \in Nat : Covers(k, s, n)
    BY <1>5
  <2>2. PICK n \in Nat : Covers(k, s, n)
    BY <2>1
  <2>3. PICK t : \E m \in Nat \ {0} : BuildsOwed(t, m) /\ e[k + 1] = t[m]
    BY <1>3 DEF Residue
  <2>4. PICK m \in Nat \ {0} : BuildsOwed(t, m) /\ e[k + 1] = t[m]
    BY <2>3
  <2>5. PICK u : Joins(u, s, n, t, m)
    BY <2>2, <2>4, BuildsBoth
  <2>6. ASSUME NEW i \in 1 .. k + 1 PROVE \E j \in 1 .. n + m : u[j] = e[i]
    <3>1. CASE i = k + 1
      BY <2>4, <2>5, <3>1 DEF Joins
    <3>2. CASE i # k + 1
      <4>1. PICK j \in 1 .. n : s[j] = e[i]
        BY <2>2, <3>2
      <4> QED
        BY <2>5, <4>1 DEF Joins
    <3> QED
      BY <3>1, <3>2
  <2> QED
    BY <2>5, <2>6 DEF Joins
<1>6. \A k \in Nat : k \in S
  <2> HIDE DEF S
  <2> QED
    BY <1>4, <1>5, AllNumbers
<1>7. PICK s : \E n \in Nat : Covers(N, s, n)
  BY <1>6
<1>8. PICK n \in Nat : Covers(N, s, n)
  BY <1>7
<1> QED
  BY <1>3, <1>8

\* What is built from finitely many residuals is a residual.
LEMMA ResidueOf ==
    ASSUME NEW P, IsFiniteSet(P), \A p \in P : Residue(p), NEW f, BuiltOrOwed(f, P)
    PROVE  Residue(f)
<1>1. PICK s : \E n \in Nat : BuildsOwed(s, n) /\ P \subseteq {s[i] : i \in 1 .. n}
  BY BuildsAll
<1>2. PICK n \in Nat : BuildsOwed(s, n) /\ P \subseteq {s[i] : i \in 1 .. n}
  BY <1>1
<1> DEFINE t == [i \in 1 .. n + 1 |-> IF i <= n THEN s[i] ELSE f]
<1>3. t[n + 1] = f /\ \A i \in 1 .. n : t[i] = s[i]
  OBVIOUS
<1> HIDE DEF t
<1>4. ASSUME NEW i \in 1 .. n + 1
      PROVE  BuiltOrOwed(t[i], {t[j] : j \in 1 .. i - 1})
  <2>1. CASE i <= n
    <3>1. i \in 1 .. n /\ \A j \in 1 .. i - 1 : j \in 1 .. n
      BY <2>1
    <3>2. {t[j] : j \in 1 .. i - 1} = {s[j] : j \in 1 .. i - 1}
      BY <1>3, <3>1
    <3> QED
      BY <1>2, <1>3, <3>1, <3>2 DEF BuildsOwed
  <2>2. CASE i = n + 1
    <3>1. {t[j] : j \in 1 .. i - 1} = {s[j] : j \in 1 .. n}
      BY <1>3, <2>2
    <3> QED
      BY <1>2, <1>3, <2>2, <3>1, BuiltFromMore
  <2> QED
    BY <2>1, <2>2
<1>5. BuildsOwed(t, n + 1)
  BY <1>4, Zenon DEF BuildsOwed
<1>6. n + 1 \in Nat \ {0}
  OBVIOUS
<1> QED
  BY <1>3, <1>5, <1>6 DEF Residue

\* What is built from residuals is one.
LEMMA ResidueBuilt ==
    /\ Residue(Top) /\ Residue(Bottom)
    /\ \A f : Residue(f) => Residue(Not(f)) /\ Residue(Pending(f))
    /\ \A f, g : Residue(f) /\ Residue(g) => Residue(Implies(f, g))
    /\ \A P : IsFiniteSet(P) /\ (\A p \in P : Residue(p)) => Residue(And(P)) /\ Residue(Or(P))
<1>1. ASSUME NEW f, Residue(f) PROVE Residue(Not(f)) /\ Residue(Pending(f))
  BY <1>1, ResidueOf, FS_Singleton DEF BuiltOrOwed, Built
<1>2. ASSUME NEW f, NEW g, Residue(f), Residue(g) PROVE Residue(Implies(f, g))
  <2>1. IsFiniteSet({f, g})
    <3>1. IsFiniteSet({f}) /\ {f, g} = {f} \cup {g}
      BY FS_Singleton
    <3> QED
      BY <3>1, FS_AddElement
  <2> QED
    BY <1>2, <2>1, ResidueOf DEF BuiltOrOwed, Built
<1>3. ASSUME NEW P, IsFiniteSet(P), \A p \in P : Residue(p)
      PROVE  Residue(And(P)) /\ Residue(Or(P))
  BY <1>3, ResidueOf DEF BuiltOrOwed, Built
<1> QED
  BY <1>1, <1>2, <1>3, ResidueOf, FS_EmptySet DEF BuiltOrOwed, Built

----------------------------------------------------------------------------
(* The progression of a formula over a trace.                              *)

\* The evaluators are defined by recursion on the formula, as the code has
\* them.  It is all that is asked of the constants.
Recursion ==
    /\ \A f, vals, pos : Formula(f) =>
           (Evaluate(f, vals, pos) <=> EvaluateBy(Evaluate, f, vals, pos))
    /\ \A f : Formula(f) => (Temporal(f) <=> TemporalBy(Temporal, f))
    /\ \A f : Formula(f) => AggregatesOf(f) = AggregatesBy(AggregatesOf, f)
    /\ \A f : Residue(f) => Simplify(f) = SimplifyBy(Simplify, f)
    /\ \A f, v : Residue(f) => Progress(f, v) = ProgressBy(Progress, f, v)
    /\ \A f : Residue(f) => Finalize(f) = FinalizeBy(Finalize, f)

\* The two constants differ.
LEMMA Constants == Top # Bottom
  BY DEF Top, Bottom

\* What each function does to each operator.
LEMMA SimplifyIs ==
    ASSUME Recursion
    PROVE  /\ \A f : Residue(Not(f)) => Simplify(Not(f)) = Negated(Simplify(f))
           /\ \A P : Residue(And(P)) =>
                  Simplify(And(P)) = Fold("and", Top, Bottom, {Simplify(p) : p \in P})
           /\ \A P : Residue(Or(P)) =>
                  Simplify(Or(P)) = Fold("or", Bottom, Top, {Simplify(p) : p \in P})
           /\ \A f, g : Residue(Implies(f, g)) =>
                  Simplify(Implies(f, g)) = Implied(Simplify(f), Simplify(g))
           /\ \A f : Residue(f) /\ f.op \notin {"not", "and", "or", "implies"} => Simplify(f) = f
<1>1. \A f : Residue(f) => Simplify(f) = SimplifyBy(Simplify, f)
  BY DEF Recursion
<1>2. ASSUME NEW f, Residue(Not(f)) PROVE Simplify(Not(f)) = Negated(Simplify(f))
  <2>1. Simplify(Not(f)) = SimplifyBy(Simplify, Not(f))
    BY <1>1, <1>2
  <2> QED
    BY <2>1 DEF SimplifyBy, Not
<1>3. ASSUME NEW P, Residue(And(P))
      PROVE  Simplify(And(P)) = Fold("and", Top, Bottom, {Simplify(p) : p \in P})
  BY <1>1, <1>3 DEF SimplifyBy, And
<1>4. ASSUME NEW P, Residue(Or(P))
      PROVE  Simplify(Or(P)) = Fold("or", Bottom, Top, {Simplify(p) : p \in P})
  <2>1. Simplify(Or(P)) = SimplifyBy(Simplify, Or(P))
    BY <1>1, <1>4
  <2> QED
    BY <2>1 DEF SimplifyBy, Or
<1>5. ASSUME NEW f, NEW g, Residue(Implies(f, g))
      PROVE  Simplify(Implies(f, g)) = Implied(Simplify(f), Simplify(g))
  <2>1. Simplify(Implies(f, g)) = SimplifyBy(Simplify, Implies(f, g))
    BY <1>1, <1>5
  <2> QED
    BY <2>1 DEF SimplifyBy, Implies
<1>6. ASSUME NEW f, Residue(f), f.op \notin {"not", "and", "or", "implies"}
      PROVE  Simplify(f) = f
  BY <1>1, <1>6 DEF SimplifyBy
<1> QED
  BY <1>2, <1>3, <1>4, <1>5, <1>6

\* What progressing by a valuation does to each operator.
LEMMA ProgressIs ==
    ASSUME Recursion, NEW v
    PROVE  /\ Progress(Top, v) = Top /\ Progress(Bottom, v) = Bottom
           /\ \A k : Residue(Atom(k)) =>
                  Progress(Atom(k), v) = IF k \in v.true THEN Top ELSE Bottom
           /\ \A l, r : Residue(Le(l, r)) =>
                  Progress(Le(l, r), v) = IF Compare(Le(l, r), v) THEN Top ELSE Bottom
           /\ \A l, r : Residue(Ge(l, r)) =>
                  Progress(Ge(l, r), v) = IF Compare(Ge(l, r), v) THEN Top ELSE Bottom
           /\ \A f : Residue(Pending(f)) => Progress(Pending(f), v) = Progress(f, v)
           /\ \A f : Residue(Not(f)) => Progress(Not(f), v) = Not(Progress(f, v))
           /\ \A P : Residue(And(P)) => Progress(And(P), v) = And({Progress(p, v) : p \in P})
           /\ \A P : Residue(Or(P)) => Progress(Or(P), v) = Or({Progress(p, v) : p \in P})
           /\ \A f, g : Residue(Implies(f, g)) =>
                  Progress(Implies(f, g), v) = Implies(Progress(f, v), Progress(g, v))
           /\ \A f : Residue(G(f)) => Progress(G(f), v) = And({Progress(f, v), G(f)})
           /\ \A f : Residue(F(f)) => Progress(F(f), v) = Or({Progress(f, v), F(f)})
           /\ \A f : Residue(X(f)) => Progress(X(f), v) = Pending(f)
           /\ \A f, g : Residue(U(f, g)) =>
                  Progress(U(f, g), v) = Or({Progress(g, v), And({Progress(f, v), U(f, g)})})
<1>1. \A f : Residue(f) => Progress(f, v) = ProgressBy(Progress, f, v)
  BY DEF Recursion
<1>2. Progress(Top, v) = Top /\ Progress(Bottom, v) = Bottom
  BY <1>1, ResidueBuilt DEF ProgressBy, Top, Bottom
<1>3. ASSUME NEW k, Residue(Atom(k))
      PROVE  Progress(Atom(k), v) = IF k \in v.true THEN Top ELSE Bottom
  <2>1. Progress(Atom(k), v) = ProgressBy(Progress, Atom(k), v)
    BY <1>1, <1>3
  <2> QED
    BY <2>1 DEF ProgressBy, Atom
<1>4. ASSUME NEW l, NEW r, Residue(Le(l, r))
      PROVE  Progress(Le(l, r), v) = IF Compare(Le(l, r), v) THEN Top ELSE Bottom
  <2>1. Le(l, r).op = "le"
    BY DEF Le
  <2> QED
    BY <1>1, <1>4, <2>1 DEF ProgressBy
<1>5. ASSUME NEW l, NEW r, Residue(Ge(l, r))
      PROVE  Progress(Ge(l, r), v) = IF Compare(Ge(l, r), v) THEN Top ELSE Bottom
  <2>1. Ge(l, r).op = "ge"
    BY DEF Ge
  <2> QED
    BY <1>1, <1>5, <2>1 DEF ProgressBy
<1>6. ASSUME NEW f, Residue(Pending(f)) PROVE Progress(Pending(f), v) = Progress(f, v)
  BY <1>1, <1>6 DEF ProgressBy, Pending
<1>7. ASSUME NEW f, Residue(Not(f)) PROVE Progress(Not(f), v) = Not(Progress(f, v))
  BY <1>1, <1>7 DEF ProgressBy, Not
<1>8. ASSUME NEW P, Residue(And(P)) PROVE Progress(And(P), v) = And({Progress(p, v) : p \in P})
  <2>1. Progress(And(P), v) = ProgressBy(Progress, And(P), v)
    BY <1>1, <1>8
  <2> QED
    BY <2>1 DEF ProgressBy, And
<1>9. ASSUME NEW P, Residue(Or(P)) PROVE Progress(Or(P), v) = Or({Progress(p, v) : p \in P})
  <2>1. Progress(Or(P), v) = ProgressBy(Progress, Or(P), v)
    BY <1>1, <1>9
  <2> QED
    BY <2>1 DEF ProgressBy, Or
<1>10. ASSUME NEW f, NEW g, Residue(Implies(f, g))
       PROVE  Progress(Implies(f, g), v) = Implies(Progress(f, v), Progress(g, v))
  BY <1>1, <1>10 DEF ProgressBy, Implies
<1>11. ASSUME NEW f, Residue(G(f)) PROVE Progress(G(f), v) = And({Progress(f, v), G(f)})
  <2>1. G(f).op = "G" /\ G(f).of = f
    BY DEF G
  <2> QED
    BY <1>1, <1>11, <2>1 DEF ProgressBy
<1>12. ASSUME NEW f, Residue(F(f)) PROVE Progress(F(f), v) = Or({Progress(f, v), F(f)})
  <2>1. F(f).op = "F" /\ F(f).of = f
    BY DEF F
  <2> QED
    BY <1>1, <1>12, <2>1 DEF ProgressBy
<1>13. ASSUME NEW f, Residue(X(f)) PROVE Progress(X(f), v) = Pending(f)
  <2>1. Progress(X(f), v) = ProgressBy(Progress, X(f), v)
    BY <1>1, <1>13
  <2> QED
    BY <2>1 DEF ProgressBy, X
<1>14. ASSUME NEW f, NEW g, Residue(U(f, g))
       PROVE  Progress(U(f, g), v) = Or({Progress(g, v), And({Progress(f, v), U(f, g)})})
  <2>1. U(f, g).op = "U" /\ U(f, g).hold = f /\ U(f, g).until = g
    BY DEF U
  <2> QED
    BY <1>1, <1>14, <2>1 DEF ProgressBy
<1> QED
  BY <1>2, <1>3, <1>4, <1>5, <1>6, <1>7, <1>8, <1>9, <1>10, <1>11, <1>12, <1>13, <1>14

\* What the end of the trace does to each operator.
LEMMA FinalizeIs ==
    ASSUME Recursion
    PROVE  /\ Finalize(Top) = Top /\ Finalize(Bottom) = Bottom
           /\ \A k : Residue(Atom(k)) => Finalize(Atom(k)) = Bottom
           /\ \A l, r : Residue(Le(l, r)) => Finalize(Le(l, r)) = Bottom
           /\ \A l, r : Residue(Ge(l, r)) => Finalize(Ge(l, r)) = Bottom
           /\ \A f : Residue(Pending(f)) => Finalize(Pending(f)) = Top
           /\ \A f : Residue(G(f)) => Finalize(G(f)) = Top
           /\ \A f : Residue(F(f)) => Finalize(F(f)) = Bottom
           /\ \A f : Residue(X(f)) => Finalize(X(f)) = Top
           /\ \A f, g : Residue(U(f, g)) => Finalize(U(f, g)) = Bottom
           /\ \A f : Residue(Not(f)) => Finalize(Not(f)) = Negated(Finalize(f))
           /\ \A P : Residue(And(P)) =>
                  Finalize(And(P)) = Simplify(And({Finalize(p) : p \in P}))
           /\ \A P : Residue(Or(P)) =>
                  Finalize(Or(P)) = Simplify(Or({Finalize(p) : p \in P}))
           /\ \A f, g : Residue(Implies(f, g)) =>
                  Finalize(Implies(f, g)) = Simplify(Implies(Finalize(f), Finalize(g)))
<1>1. \A f : Residue(f) => Finalize(f) = FinalizeBy(Finalize, f)
  BY DEF Recursion
<1>2. Finalize(Top) = Top /\ Finalize(Bottom) = Bottom
  BY <1>1, ResidueBuilt DEF FinalizeBy, Top, Bottom, Decided
<1>3. ASSUME NEW k, Residue(Atom(k)) PROVE Finalize(Atom(k)) = Bottom
  BY <1>1, <1>3 DEF FinalizeBy, Decided, Atom, Top, Bottom
<1>4. ASSUME NEW l, NEW r, Residue(Le(l, r)) PROVE Finalize(Le(l, r)) = Bottom
  BY <1>1, <1>4 DEF FinalizeBy, Decided, Le, Top, Bottom
<1>5. ASSUME NEW l, NEW r, Residue(Ge(l, r)) PROVE Finalize(Ge(l, r)) = Bottom
  BY <1>1, <1>5 DEF FinalizeBy, Decided, Ge, Top, Bottom
<1>6. ASSUME NEW f, Residue(Pending(f)) PROVE Finalize(Pending(f)) = Top
  BY <1>1, <1>6 DEF FinalizeBy, Decided, Pending, Top, Bottom
<1>7. ASSUME NEW f, Residue(G(f)) PROVE Finalize(G(f)) = Top
  BY <1>1, <1>7 DEF FinalizeBy, Decided, G, Top, Bottom
<1>8. ASSUME NEW f, Residue(F(f)) PROVE Finalize(F(f)) = Bottom
  BY <1>1, <1>8 DEF FinalizeBy, Decided, F, Top, Bottom
<1>9. ASSUME NEW f, Residue(X(f)) PROVE Finalize(X(f)) = Top
  BY <1>1, <1>9 DEF FinalizeBy, Decided, X, Top, Bottom
<1>10. ASSUME NEW f, NEW g, Residue(U(f, g)) PROVE Finalize(U(f, g)) = Bottom
  BY <1>1, <1>10 DEF FinalizeBy, Decided, U, Top, Bottom
<1>11. ASSUME NEW f, Residue(Not(f)) PROVE Finalize(Not(f)) = Negated(Finalize(f))
  <2>1. Finalize(Not(f)) = FinalizeBy(Finalize, Not(f))
    BY <1>1, <1>11
  <2> QED
    BY <2>1 DEF FinalizeBy, Decided, Not, Top, Bottom
<1>12. ASSUME NEW P, Residue(And(P))
       PROVE  Finalize(And(P)) = Simplify(And({Finalize(p) : p \in P}))
  <2>1. Finalize(And(P)) = FinalizeBy(Finalize, And(P))
    BY <1>1, <1>12
  <2> QED
    BY <2>1 DEF FinalizeBy, Decided, And, Top, Bottom
<1>13. ASSUME NEW P, Residue(Or(P))
       PROVE  Finalize(Or(P)) = Simplify(Or({Finalize(p) : p \in P}))
  <2>1. Finalize(Or(P)) = FinalizeBy(Finalize, Or(P))
    BY <1>1, <1>13
  <2> QED
    BY <2>1 DEF FinalizeBy, Decided, Or, Top, Bottom
<1>14. ASSUME NEW f, NEW g, Residue(Implies(f, g))
       PROVE  Finalize(Implies(f, g)) = Simplify(Implies(Finalize(f), Finalize(g)))
  <2>1. Finalize(Implies(f, g)) = FinalizeBy(Finalize, Implies(f, g))
    BY <1>1, <1>14
  <2> QED
    BY <2>1 DEF FinalizeBy, Decided, Implies, Top, Bottom
<1> QED
  BY <1>2, <1>3, <1>4, <1>5, <1>6, <1>7, <1>8, <1>9, <1>10, <1>11, <1>12, <1>13, <1>14

\* The image of a finite set is finite.
LEMMA FiniteImage ==
    ASSUME NEW P, IsFiniteSet(P), NEW f, DOMAIN f = P
    PROVE  IsFiniteSet({f[p] : p \in P})
<1> DEFINE T == {f[p] : p \in P}
           g == [p \in P |-> f[p]]
<1>1. g \in Surjection(P, T)
  BY DEF Surjection
<1> QED
  BY <1>1, FS_Surjection

\* A pair is finite.
LEMMA FinitePair ==
    ASSUME NEW x, NEW y
    PROVE  IsFiniteSet({x, y})
<1>1. IsFiniteSet({x}) /\ {x, y} = {x} \cup {y}
  BY FS_Singleton
<1> QED
  BY <1>1, FS_AddElement

\* The shape of a residual, from the operator on top.
LEMMA ResidueShape ==
    ASSUME NEW f, Residue(f)
    PROVE  /\ f.op = "and" => \E P : /\ IsFiniteSet(P) /\ f = And(P)
                                     /\ \A p \in P : Residue(p)
           /\ f.op = "or" => \E P : /\ IsFiniteSet(P) /\ f = Or(P)
                                    /\ \A p \in P : Residue(p)
           /\ f.op = "not" => \E g : Residue(g) /\ f = Not(g)
<1>1. PICK S : BuiltOrOwed(f, S) /\ \A g \in S : Residue(g)
  BY ResidueParts
<1>2. CASE f \in {Top, Bottom}
  BY <1>2 DEF Top, Bottom
<1>3. CASE \E k : f = Atom(k)
  BY <1>3 DEF Atom
<1>4. CASE \E l, r : f = Le(l, r) \/ f = Ge(l, r)
  BY <1>4 DEF Le, Ge
<1>5. CASE \E g \in S : f \in {Not(g), G(g), F(g), X(g)}
  <2>1. PICK g \in S : f \in {Not(g), G(g), F(g), X(g)}
    BY <1>5
  <2> QED
    BY <1>1, <2>1 DEF Not, G, F, X
<1>6. CASE \E g, h \in S : f \in {Implies(g, h), U(g, h)}
  BY <1>6 DEF Implies, U
<1>7. CASE \E P \in SUBSET S : IsFiniteSet(P) /\ f \in {And(P), Or(P)}
  <2>1. PICK P \in SUBSET S : IsFiniteSet(P) /\ f \in {And(P), Or(P)}
    BY <1>7
  <2> QED
    BY <1>1, <2>1 DEF And, Or
<1>8. CASE \E g \in S : f = Pending(g)
  BY <1>8 DEF Pending
<1> QED
  BY <1>1, <1>2, <1>3, <1>4, <1>5, <1>6, <1>7, <1>8, Zenon DEF BuiltOrOwed, Built

\* Induction on how a residual is built: a set that holds of it what it holds
\* of its parts.
Inductive(D) ==
    \A S : (\A g \in D : \A T \in SUBSET (S \cap D) : BuiltOrOwed(g, T) => g \in S)
           => D \subseteq S

\* Induction on a residual.
LEMMA ResidueInduction ==
    ASSUME NEW f, Residue(f)
    PROVE  \E D : f \in D /\ (\A g \in D : Residue(g)) /\ Inductive(D)
<1>1. PICK s : \E n \in Nat \ {0} : BuildsOwed(s, n) /\ f = s[n]
  BY DEF Residue
<1>2. PICK n \in Nat \ {0} : BuildsOwed(s, n) /\ f = s[n]
  BY <1>1
<1> DEFINE D == {s[j] : j \in 1 .. n}
<1>3. ASSUME NEW j \in 1 .. n PROVE Residue(s[j])
  <2>1. j \in Nat \ {0} /\ 1 .. j \subseteq 1 .. n
    OBVIOUS
  <2> QED
    BY <1>2, <2>1 DEF Residue, BuildsOwed
<1>4. ASSUME NEW S,
             \A g \in D : \A T \in SUBSET (S \cap D) : BuiltOrOwed(g, T) => g \in S
      PROVE  D \subseteq S
  <2> DEFINE N == {k \in Nat : \A j \in 1 .. n : j <= k => s[j] \in S}
  <2>1. 0 \in N
    OBVIOUS
  <2>2. ASSUME NEW k \in Nat, k \in N PROVE k + 1 \in N
    <3> SUFFICES ASSUME NEW j \in 1 .. n, j <= k + 1 PROVE s[j] \in S
      OBVIOUS
    <3>1. CASE j <= k
      BY <2>2, <3>1
    <3>2. CASE j = k + 1
      <4> DEFINE T == {s[i] : i \in 1 .. j - 1}
      <4>1. T \in SUBSET (S \cap D)
        BY <2>2, <3>2
      <4> QED
        BY <1>2, <1>4, <4>1 DEF BuildsOwed
    <3> QED
      BY <3>1, <3>2
  <2>3. n \in N
    <3> HIDE DEF N
    <3> QED
      BY <2>1, <2>2, AllNumbers
  <2> QED
    BY <2>3
<1>5. Inductive(D)
  BY <1>4 DEF Inductive
<1> QED
  BY <1>2, <1>3, <1>5

\* And, Or and Implies of decided parts.
LEMMA FoldDecided ==
    ASSUME NEW P, P \subseteq {Top, Bottom}
    PROVE  /\ Fold("and", Top, Bottom, P) = IF Bottom \in P THEN Bottom ELSE Top
           /\ Fold("or", Bottom, Top, P) = IF Top \in P THEN Top ELSE Bottom
<1>1. ASSUME NEW op \in {"and", "or"}
      PROVE  UNION {IF p.op = op THEN p.parts ELSE {p} : p \in P} = P
  BY DEF Top, Bottom
<1>2. Fold("and", Top, Bottom, P) = IF Bottom \in P THEN Bottom ELSE Top
  BY <1>1, Constants DEF Fold
<1>3. Fold("or", Bottom, Top, P) = IF Top \in P THEN Top ELSE Bottom
  <2>1. Top \notin P => P \ {Bottom} = {}
    OBVIOUS
  <2> QED
    BY <1>1, <2>1, Constants DEF Fold
<1> QED
  BY <1>2, <1>3

\* Finalizing a conjunction or a disjunction.
LEMMA FinalizeParts ==
    ASSUME Recursion, NEW P, IsFiniteSet(P),
           \A p \in P : Residue(p) /\ Decided(Finalize(p))
    PROVE  /\ Finalize(And(P)) = IF \E p \in P : Finalize(p) = Bottom THEN Bottom ELSE Top
           /\ Finalize(Or(P)) = IF \E p \in P : Finalize(p) = Top THEN Top ELSE Bottom
<1> DEFINE E == {Finalize(p) : p \in P}
<1>1. E \subseteq {Top, Bottom}
  BY DEF Decided
<1>2. Residue(And(E)) /\ Residue(Or(E))
  BY <1>1, ResidueBuilt, FinitePair, FS_Subset
<1>3. Finalize(And(P)) = Simplify(And(E)) /\ Finalize(Or(P)) = Simplify(Or(E))
  BY FinalizeIs, ResidueBuilt
<1> HIDE DEF E
<1>4. /\ Finalize(And(P)) = IF Bottom \in E THEN Bottom ELSE Top
      /\ Finalize(Or(P)) = IF Top \in E THEN Top ELSE Bottom
  BY <1>1, <1>2, <1>3, FoldDecided, SimplifyIs, ResidueBuilt DEF Top, Bottom
<1> QED
  BY <1>4 DEF E

\* Finalizing an implication.
LEMMA FinalizeImplies ==
    ASSUME Recursion, NEW f, NEW g, Residue(f), Residue(g),
           Decided(Finalize(f)), Decided(Finalize(g))
    PROVE  Finalize(Implies(f, g)) =
               IF Finalize(f) = Top /\ Finalize(g) = Bottom THEN Bottom ELSE Top
  BY Constants, FinalizeIs, SimplifyIs, ResidueBuilt DEF Decided, Implied,
     Negated, Top, Bottom

\* What a residual comes to at the end of a trace is one of the constants.
LEMMA FinalizeDecided ==
    ASSUME Recursion, NEW f, Residue(f)
    PROVE  Decided(Finalize(f))
<1>1. PICK D : f \in D /\ (\A g \in D : Residue(g)) /\ Inductive(D)
  BY ResidueInduction
<1> DEFINE S == {g \in D : Decided(Finalize(g))}
<1>2. ASSUME NEW g \in D, NEW T \in SUBSET (S \cap D), BuiltOrOwed(g, T)
      PROVE  Decided(Finalize(g))
  <2>1. Residue(g) /\ Decided(Top) /\ Decided(Bottom)
    BY <1>1 DEF Decided
  <2>2. \A h \in T : Residue(h) /\ Decided(Finalize(h))
    BY <1>1
  <2>3. CASE g \in {Top, Bottom}
    BY <2>1, <2>3, FinalizeIs
  <2>4. CASE \E k : g = Atom(k)
    BY <2>1, <2>4, FinalizeIs
  <2>5. CASE \E l, r : g = Le(l, r) \/ g = Ge(l, r)
    BY <2>1, <2>5, FinalizeIs
  <2>6. CASE \E h \in T : g = Not(h)
    <3>1. PICK h \in T : g = Not(h)
      BY <2>6
    <3> QED
      BY <2>1, <2>2, <3>1, FinalizeIs DEF Decided, Negated
  <2>7. CASE \E h \in T : g \in {G(h), F(h), X(h)}
    <3>1. PICK h \in T : g \in {G(h), F(h), X(h)}
      BY <2>7
    <3> QED
      BY <2>1, <3>1, FinalizeIs
  <2>8. CASE \E h, k \in T : g = Implies(h, k)
    <3>1. PICK h, k \in T : g = Implies(h, k)
      BY <2>8
    <3> QED
      BY <2>2, <3>1, FinalizeImplies DEF Decided
  <2>9. CASE \E h, k \in T : g = U(h, k)
    BY <2>1, <2>9, FinalizeIs
  <2>10. CASE \E P \in SUBSET T : IsFiniteSet(P) /\ g \in {And(P), Or(P)}
    <3>1. PICK P \in SUBSET T : IsFiniteSet(P) /\ g \in {And(P), Or(P)}
      BY <2>10
    <3> QED
      BY <2>2, <3>1, FinalizeParts DEF Decided
  <2>11. CASE \E h \in T : g = Pending(h)
    BY <2>1, <2>11, FinalizeIs
  <2> QED
    BY <1>2, <2>3, <2>4, <2>5, <2>6, <2>7, <2>8, <2>9, <2>10, <2>11 DEF BuiltOrOwed, Built
<1>3. \A g \in D : \A T \in SUBSET (S \cap D) : BuiltOrOwed(g, T) => g \in S
  BY <1>2
<1>4. D \subseteq S
  <2> HIDE DEF S
  <2> QED
    BY <1>1, <1>3 DEF Inductive
<1> QED
  BY <1>1, <1>4

\* The end of a trace decides a residual as its operators say.
LEMMA EndIs ==
    ASSUME Recursion
    PROVE  /\ HoldsAtEnd(Top) /\ ~HoldsAtEnd(Bottom)
           /\ \A f : Residue(f) => (HoldsAtEnd(Not(f)) <=> ~HoldsAtEnd(f))
           /\ \A f, g : Residue(f) /\ Residue(g) =>
                  (HoldsAtEnd(Implies(f, g)) <=> (HoldsAtEnd(f) => HoldsAtEnd(g)))
           /\ \A P : IsFiniteSet(P) /\ (\A p \in P : Residue(p)) =>
                  /\ HoldsAtEnd(And(P)) <=> \A p \in P : HoldsAtEnd(p)
                  /\ HoldsAtEnd(Or(P)) <=> \E p \in P : HoldsAtEnd(p)
           /\ \A f : Residue(Pending(f)) => HoldsAtEnd(Pending(f))
           /\ \A f : Residue(G(f)) => HoldsAtEnd(G(f))
           /\ \A f : Residue(F(f)) => ~HoldsAtEnd(F(f))
           /\ \A f : Residue(X(f)) => HoldsAtEnd(X(f))
           /\ \A f, g : Residue(U(f, g)) => ~HoldsAtEnd(U(f, g))
<1>1. \A f : Residue(f) => Finalize(f) = Top \/ Finalize(f) = Bottom
  BY FinalizeDecided DEF Decided
<1>2. HoldsAtEnd(Top) /\ ~HoldsAtEnd(Bottom)
  BY FinalizeIs, Constants DEF HoldsAtEnd
<1>3. ASSUME NEW f, Residue(f) PROVE HoldsAtEnd(Not(f)) <=> ~HoldsAtEnd(f)
  BY <1>1, <1>3, Constants, FinalizeIs, ResidueBuilt DEF HoldsAtEnd, Negated
<1>4. ASSUME NEW f, NEW g, Residue(f), Residue(g)
      PROVE  HoldsAtEnd(Implies(f, g)) <=> (HoldsAtEnd(f) => HoldsAtEnd(g))
  BY <1>1, <1>4, Constants, FinalizeDecided, FinalizeImplies DEF HoldsAtEnd
<1>5. ASSUME NEW P, IsFiniteSet(P), \A p \in P : Residue(p)
      PROVE  /\ HoldsAtEnd(And(P)) <=> \A p \in P : HoldsAtEnd(p)
             /\ HoldsAtEnd(Or(P)) <=> \E p \in P : HoldsAtEnd(p)
  BY <1>1, <1>5, Constants, FinalizeParts, FinalizeDecided DEF HoldsAtEnd
<1>6. \A f : Residue(Pending(f)) => HoldsAtEnd(Pending(f))
  BY FinalizeIs DEF HoldsAtEnd
<1>7. \A f : Residue(G(f)) => HoldsAtEnd(G(f))
  BY FinalizeIs DEF HoldsAtEnd
<1>8. \A f : Residue(F(f)) => ~HoldsAtEnd(F(f))
  BY FinalizeIs, Constants DEF HoldsAtEnd
<1>9. \A f : Residue(X(f)) => HoldsAtEnd(X(f))
  BY FinalizeIs DEF HoldsAtEnd
<1>10. \A f, g : Residue(U(f, g)) => ~HoldsAtEnd(U(f, g))
  BY FinalizeIs, Constants DEF HoldsAtEnd
<1> QED
  BY <1>2, <1>3, <1>4, <1>5, <1>6, <1>7, <1>8, <1>9, <1>10

\* What a valuation leaves of a residual is a residual.
LEMMA ProgressResidue ==
    ASSUME Recursion, NEW v, NEW f, Residue(f)
    PROVE  Residue(Progress(f, v))
<1>1. PICK D : f \in D /\ (\A g \in D : Residue(g)) /\ Inductive(D)
  BY ResidueInduction
<1> DEFINE S == {g \in D : Residue(Progress(g, v))}
<1>2. ASSUME NEW g \in D, NEW T \in SUBSET (S \cap D), BuiltOrOwed(g, T)
      PROVE  Residue(Progress(g, v))
  <2>1. Residue(g) /\ Residue(Top) /\ Residue(Bottom)
    BY <1>1, ResidueBuilt
  <2>2. \A h \in T : Residue(h) /\ Residue(Progress(h, v))
    BY <1>1
  <2>3. CASE g \in {Top, Bottom}
    BY <2>1, <2>3, ProgressIs
  <2>4. CASE \E k : g = Atom(k)
    <3>1. PICK k : g = Atom(k)
      BY <2>4
    <3> QED
      BY <2>1, <3>1, ProgressIs
  <2>5. CASE \E l, r : g = Le(l, r) \/ g = Ge(l, r)
    BY <2>1, <2>5, ProgressIs
  <2>6. CASE \E h \in T : g = Not(h)
    <3>1. PICK h \in T : g = Not(h)
      BY <2>6
    <3>2. Progress(g, v) = Not(Progress(h, v))
      BY <2>1, <3>1, ProgressIs
    <3> QED
      BY <2>2, <3>2, ResidueBuilt
  <2>7. CASE \E h \in T : g = G(h)
    <3>1. PICK h \in T : g = G(h)
      BY <2>7
    <3>2. Progress(g, v) = And({Progress(h, v), g})
      BY <2>1, <3>1, ProgressIs
    <3> QED
      BY <2>1, <2>2, <3>2, FinitePair, ResidueBuilt
  <2>8. CASE \E h \in T : g = F(h)
    <3>1. PICK h \in T : g = F(h)
      BY <2>8
    <3>2. Progress(g, v) = Or({Progress(h, v), g})
      BY <2>1, <3>1, ProgressIs
    <3> QED
      BY <2>1, <2>2, <3>2, FinitePair, ResidueBuilt
  <2>9. CASE \E h \in T : g = X(h)
    <3>1. PICK h \in T : g = X(h)
      BY <2>9
    <3> QED
      BY <2>1, <2>2, <3>1, ResidueBuilt, ProgressIs
  <2>10. CASE \E h, k \in T : g = Implies(h, k)
    <3>1. PICK h, k \in T : g = Implies(h, k)
      BY <2>10
    <3>2. Progress(g, v) = Implies(Progress(h, v), Progress(k, v))
      BY <2>1, <3>1, ProgressIs
    <3> QED
      BY <2>2, <3>2, ResidueBuilt
  <2>11. CASE \E h, k \in T : g = U(h, k)
    <3>1. PICK h, k \in T : g = U(h, k)
      BY <2>11
    <3>2. \A a, b : Residue(U(a, b)) =>
              Progress(U(a, b), v) = Or({Progress(b, v), And({Progress(a, v), U(a, b)})})
      BY ProgressIs
    <3> DEFINE both == And({Progress(h, v), g})
    <3>3. Progress(g, v) = Or({Progress(k, v), both})
      BY <2>1, <3>1, <3>2
    <3>4. Residue(both)
      BY <2>1, <2>2, FinitePair, ResidueBuilt
    <3> HIDE DEF both
    <3> QED
      BY <2>2, <3>3, <3>4, FinitePair, ResidueBuilt
  <2>12. CASE \E P \in SUBSET T : IsFiniteSet(P) /\ g \in {And(P), Or(P)}
    <3>1. PICK P \in SUBSET T : IsFiniteSet(P) /\ g \in {And(P), Or(P)}
      BY <2>12
    <3> DEFINE e == [p \in P |-> Progress(p, v)]
               Q == {Progress(p, v) : p \in P}
    <3>2. IsFiniteSet({e[p] : p \in P})
      BY <3>1, FiniteImage
    <3>3. IsFiniteSet(Q)
      BY <3>2
    <3>4. \A q \in Q : Residue(q)
      BY <2>2
    <3>5. Progress(g, v) \in {And(Q), Or(Q)}
      BY <2>1, <3>1, ProgressIs
    <3> HIDE DEF Q
    <3> QED
      BY <3>3, <3>4, <3>5, ResidueBuilt
  <2>13. CASE \E h \in T : g = Pending(h)
    <3>1. PICK h \in T : g = Pending(h)
      BY <2>13
    <3> QED
      BY <2>1, <2>2, <3>1, ProgressIs
  <2> QED
    BY <1>2, <2>3, <2>4, <2>5, <2>6, <2>7, <2>8, <2>9, <2>10, <2>11, <2>12, <2>13
    DEF BuiltOrOwed, Built
<1>3. \A g \in D : \A T \in SUBSET (S \cap D) : BuiltOrOwed(g, T) => g \in S
  BY <1>2
<1>4. D \subseteq S
  <2> HIDE DEF S
  <2> QED
    BY <1>1, <1>3 DEF Inductive
<1> QED
  BY <1>1, <1>4

\* Residual r, put to the valuations from position i to n, is met.
Meets(r, vals, i, n) ==
    \E left : /\ left[i - 1] = r
              /\ \A j \in i .. n : left[j] = Progress(left[j - 1], vals[j])
              /\ HoldsAtEnd(left[n])

\* Past the last valuation, to meet a residual is to finalize it.
LEMMA MeetsEnd ==
    ASSUME NEW r, NEW vals, NEW n \in Nat
    PROVE  Meets(r, vals, n + 1, n) <=> HoldsAtEnd(r)
<1>1. (n + 1) - 1 = n /\ (n + 1) .. n = {}
  OBVIOUS
<1>2. ASSUME HoldsAtEnd(r) PROVE Meets(r, vals, n + 1, n)
  <2> DEFINE left == [j \in {n} |-> r]
  <2>1. left[n] = r
    OBVIOUS
  <2> HIDE DEF left
  <2> QED
    BY <1>1, <1>2, <2>1 DEF Meets
<1>3. ASSUME Meets(r, vals, n + 1, n) PROVE HoldsAtEnd(r)
  BY <1>1, <1>3 DEF Meets
<1> QED
  BY <1>2, <1>3

\* Before it, to meet it is to meet its progression by the next one.
LEMMA MeetsNext ==
    ASSUME NEW r, NEW vals, NEW n \in Nat, NEW i \in 1 .. n
    PROVE  Meets(r, vals, i, n) <=> Meets(Progress(r, vals[i]), vals, i + 1, n)
<1>1. (i + 1) - 1 = i /\ i \in i .. n /\ n \in i .. n
  OBVIOUS
<1>2. ASSUME Meets(r, vals, i, n)
      PROVE  Meets(Progress(r, vals[i]), vals, i + 1, n)
  <2>1. PICK left : /\ left[i - 1] = r
                    /\ \A j \in i .. n : left[j] = Progress(left[j - 1], vals[j])
                    /\ HoldsAtEnd(left[n])
    BY <1>2 DEF Meets
  <2> QED
    BY <1>1, <2>1 DEF Meets
<1>3. ASSUME Meets(Progress(r, vals[i]), vals, i + 1, n)
      PROVE  Meets(r, vals, i, n)
  <2>1. PICK left : /\ left[i] = Progress(r, vals[i])
                    /\ \A j \in i + 1 .. n : left[j] = Progress(left[j - 1], vals[j])
                    /\ HoldsAtEnd(left[n])
    BY <1>1, <1>3 DEF Meets
  <2> DEFINE more == [j \in i - 1 .. n |-> IF j = i - 1 THEN r ELSE left[j]]
  <2>2. more[i - 1] = r /\ \A j \in i .. n : more[j] = left[j]
    OBVIOUS
  <2> HIDE DEF more
  <2>3. ASSUME NEW j \in i .. n PROVE more[j] = Progress(more[j - 1], vals[j])
    <3>1. CASE j = i
      BY <1>1, <2>1, <2>2, <3>1
    <3>2. CASE j # i
      BY <2>1, <2>2, <3>2
    <3> QED
      BY <3>1, <3>2
  <2> QED
    BY <1>1, <2>1, <2>2, <2>3 DEF Meets
<1> QED
  BY <1>2, <1>3

\* Induction from the end of a trace.
LEMMA FromTheEnd ==
    ASSUME NEW n \in Nat, NEW S, n + 1 \in S, \A i \in 1 .. n : i + 1 \in S => i \in S
    PROVE  \A i \in 1 .. n + 1 : i \in S
<1> DEFINE N == {k \in Nat : k <= n => n + 1 - k \in S}
<1>1. 0 \in N
  OBVIOUS
<1>2. ASSUME NEW k \in Nat, k \in N PROVE k + 1 \in N
  <2> SUFFICES ASSUME k + 1 <= n PROVE n + 1 - (k + 1) \in S
    OBVIOUS
  <2> QED
    BY <1>2
<1>3. \A k \in Nat : k \in N
  <2> HIDE DEF N
  <2> QED
    BY <1>1, <1>2, AllNumbers
<1> SUFFICES ASSUME NEW i \in 1 .. n + 1 PROVE i \in S
  OBVIOUS
<1> QED
  BY <1>3

\* What it takes to meet a residual, by its operator.
LEMMA MeetsNot ==
    ASSUME Recursion, NEW vals, NEW n \in Nat
    PROVE  \A i \in 1 .. n + 1 : \A f : Residue(f) =>
               (Meets(Not(f), vals, i, n) <=> ~Meets(f, vals, i, n))
<1> DEFINE L(i) == \A f : Residue(f) => (Meets(Not(f), vals, i, n) <=> ~Meets(f, vals, i, n))
           S == {i \in 1 .. n + 1 : L(i)}
<1>1. n + 1 \in S
  BY MeetsEnd, EndIs
<1>2. ASSUME NEW i \in 1 .. n, i + 1 \in S PROVE i \in S
  <2> SUFFICES ASSUME NEW f, Residue(f)
               PROVE  Meets(Not(f), vals, i, n) <=> ~Meets(f, vals, i, n)
    OBVIOUS
  <2>1. Residue(Not(f)) /\ Residue(Progress(f, vals[i]))
    BY ProgressResidue, ResidueBuilt
  <2> QED
    BY <1>2, <2>1, ProgressIs, MeetsNext
<1> HIDE DEF S
<1>3. \A i \in 1 .. n + 1 : i \in S
  BY <1>1, <1>2, FromTheEnd
<1> QED
  BY <1>3 DEF S

\* An implication is met as its parts are.
LEMMA MeetsImplies ==
    ASSUME Recursion, NEW vals, NEW n \in Nat
    PROVE  \A i \in 1 .. n + 1 : \A f, g : Residue(f) /\ Residue(g) =>
               (Meets(Implies(f, g), vals, i, n)
                    <=> (Meets(f, vals, i, n) => Meets(g, vals, i, n)))
<1> DEFINE L(i) == \A f, g : Residue(f) /\ Residue(g) =>
                       (Meets(Implies(f, g), vals, i, n)
                            <=> (Meets(f, vals, i, n) => Meets(g, vals, i, n)))
           S == {i \in 1 .. n + 1 : L(i)}
<1>1. n + 1 \in S
  BY MeetsEnd, EndIs
<1>2. ASSUME NEW i \in 1 .. n, i + 1 \in S PROVE i \in S
  <2> SUFFICES ASSUME NEW f, NEW g, Residue(f), Residue(g)
               PROVE  Meets(Implies(f, g), vals, i, n)
                          <=> (Meets(f, vals, i, n) => Meets(g, vals, i, n))
    OBVIOUS
  <2> DEFINE a == Progress(f, vals[i])
             b == Progress(g, vals[i])
  <2>1. Residue(Implies(f, g)) /\ Residue(a) /\ Residue(b)
    BY ProgressResidue, ResidueBuilt
  <2>2. Progress(Implies(f, g), vals[i]) = Implies(a, b)
    <3>1. Progress(Implies(f, g), vals[i]) = ProgressBy(Progress, Implies(f, g), vals[i])
      BY <2>1 DEF Recursion
    <3> QED
      BY <3>1 DEF ProgressBy, Implies
  <2> QED
    BY <1>2, <2>1, <2>2, MeetsNext
<1> HIDE DEF S
<1> QED
  BY <1>1, <1>2, FromTheEnd DEF S

\* Progressing every member of a finite set of residuals.
LEMMA ProgressAll ==
    ASSUME Recursion, NEW P, IsFiniteSet(P), \A p \in P : Residue(p), NEW v
    PROVE  /\ IsFiniteSet({Progress(p, v) : p \in P})
           /\ \A q \in {Progress(p, v) : p \in P} : Residue(q)
           /\ Progress(And(P), v) = And({Progress(p, v) : p \in P})
           /\ Progress(Or(P), v) = Or({Progress(p, v) : p \in P})
<1> DEFINE e == [p \in P |-> Progress(p, v)]
<1>1. IsFiniteSet({e[p] : p \in P})
  BY FiniteImage
<1>2. Residue(And(P)) /\ Residue(Or(P))
  BY ResidueBuilt
<1> QED
  BY <1>1, <1>2, ProgressResidue, ProgressIs

\* A conjunction, or a disjunction, is met as its parts are.
LEMMA MeetsParts ==
    ASSUME Recursion, NEW vals, NEW n \in Nat
    PROVE  \A i \in 1 .. n + 1 : \A P : IsFiniteSet(P) /\ (\A p \in P : Residue(p)) =>
               /\ Meets(And(P), vals, i, n) <=> \A p \in P : Meets(p, vals, i, n)
               /\ Meets(Or(P), vals, i, n) <=> \E p \in P : Meets(p, vals, i, n)
<1> DEFINE L(i) == \A P : IsFiniteSet(P) /\ (\A p \in P : Residue(p)) =>
               /\ Meets(And(P), vals, i, n) <=> \A p \in P : Meets(p, vals, i, n)
               /\ Meets(Or(P), vals, i, n) <=> \E p \in P : Meets(p, vals, i, n)
           S == {i \in 1 .. n + 1 : L(i)}
<1>1. n + 1 \in S
  <2> SUFFICES ASSUME NEW P, IsFiniteSet(P), \A p \in P : Residue(p)
               PROVE  /\ Meets(And(P), vals, n + 1, n) <=> \A p \in P : Meets(p, vals, n + 1, n)
                      /\ Meets(Or(P), vals, n + 1, n) <=> \E p \in P : Meets(p, vals, n + 1, n)
    OBVIOUS
  <2> QED
    BY MeetsEnd, EndIs
<1>2. ASSUME NEW i \in 1 .. n, i + 1 \in S PROVE i \in S
  <2> SUFFICES ASSUME NEW P, IsFiniteSet(P), \A p \in P : Residue(p)
               PROVE  /\ Meets(And(P), vals, i, n) <=> \A p \in P : Meets(p, vals, i, n)
                      /\ Meets(Or(P), vals, i, n) <=> \E p \in P : Meets(p, vals, i, n)
    OBVIOUS
  <2> DEFINE Q == {Progress(p, vals[i]) : p \in P}
  <2>1. IsFiniteSet(Q) /\ \A q \in Q : Residue(q)
    BY ProgressAll
  <2>2. Progress(And(P), vals[i]) = And(Q) /\ Progress(Or(P), vals[i]) = Or(Q)
    BY ProgressAll
  <2>3. \A r : Meets(r, vals, i, n) <=> Meets(Progress(r, vals[i]), vals, i + 1, n)
    BY MeetsNext
  <2>4. /\ (\A p \in P : Meets(p, vals, i, n)) <=> \A q \in Q : Meets(q, vals, i + 1, n)
        /\ (\E p \in P : Meets(p, vals, i, n)) <=> \E q \in Q : Meets(q, vals, i + 1, n)
    BY <2>3
  <2> HIDE DEF Q
  <2> QED
    BY <1>2, <2>1, <2>2, <2>3, <2>4
<1> HIDE DEF S
<1> QED
  BY <1>1, <1>2, FromTheEnd DEF S

\* A constant is met or not whatever follows.
LEMMA MeetsConstant ==
    ASSUME Recursion, NEW vals, NEW n \in Nat
    PROVE  \A i \in 1 .. n + 1 : Meets(Top, vals, i, n) /\ ~Meets(Bottom, vals, i, n)
<1> DEFINE S == {i \in 1 .. n + 1 : Meets(Top, vals, i, n) /\ ~Meets(Bottom, vals, i, n)}
<1>1. n + 1 \in S
  BY MeetsEnd, EndIs
<1>2. ASSUME NEW i \in 1 .. n, i + 1 \in S PROVE i \in S
  BY <1>2, MeetsNext, ProgressIs
<1> HIDE DEF S
<1> QED
  BY <1>1, <1>2, FromTheEnd DEF S

\* A formula that reads only its own position.
LEMMA MeetsAtom ==
    ASSUME Recursion, NEW vals, NEW n \in Nat, NEW i \in 1 .. n
    PROVE  /\ \A k : Residue(Atom(k)) =>
                  (Meets(Atom(k), vals, i, n) <=> k \in vals[i].true)
           /\ \A l, r : Residue(Le(l, r)) =>
                  (Meets(Le(l, r), vals, i, n) <=> Compare(Le(l, r), vals[i]))
           /\ \A l, r : Residue(Ge(l, r)) =>
                  (Meets(Ge(l, r), vals, i, n) <=> Compare(Ge(l, r), vals[i]))
<1>1. \A f : Meets(f, vals, i, n) <=> Meets(Progress(f, vals[i]), vals, i + 1, n)
  BY MeetsNext
<1>2. Meets(Top, vals, i + 1, n) /\ ~Meets(Bottom, vals, i + 1, n)
  BY MeetsConstant
<1>3. ASSUME NEW k, Residue(Atom(k))
      PROVE  Meets(Atom(k), vals, i, n) <=> k \in vals[i].true
  BY <1>1, <1>2, <1>3, ProgressIs
<1>4. ASSUME NEW l, NEW r, Residue(Le(l, r))
      PROVE  Meets(Le(l, r), vals, i, n) <=> Compare(Le(l, r), vals[i])
  BY <1>1, <1>2, <1>4, ProgressIs
<1>5. ASSUME NEW l, NEW r, Residue(Ge(l, r))
      PROVE  Meets(Ge(l, r), vals, i, n) <=> Compare(Ge(l, r), vals[i])
  BY <1>1, <1>2, <1>5, ProgressIs
<1> QED
  BY <1>3, <1>4, <1>5

\* The next position.
LEMMA MeetsX ==
    ASSUME Recursion, NEW vals, NEW n \in Nat, NEW i \in 1 .. n,
           NEW f, Residue(f), Residue(X(f))
    PROVE  Meets(X(f), vals, i, n) <=> i = n \/ Meets(f, vals, i + 1, n)
<1>1. Meets(X(f), vals, i, n) <=> Meets(Pending(f), vals, i + 1, n)
  <2>1. Progress(X(f), vals[i]) = Pending(f)
    BY ProgressIs
  <2> QED
    BY <2>1, MeetsNext
<1>2. Residue(Pending(f))
  BY ResidueBuilt
<1>3. CASE i = n
  BY <1>1, <1>2, <1>3, MeetsEnd, EndIs
<1>4. CASE i # n
  <2>1. \A r : Meets(r, vals, i + 1, n) <=> Meets(Progress(r, vals[i + 1]), vals, i + 2, n)
    BY <1>4, MeetsNext
  <2> QED
    BY <1>1, <1>2, <1>4, <2>1, ProgressIs
<1> QED
  BY <1>3, <1>4

\* Two residuals joined.
LEMMA MeetsPair ==
    ASSUME Recursion, NEW vals, NEW n \in Nat, NEW i \in 1 .. n + 1,
           NEW f, NEW g, Residue(f), Residue(g)
    PROVE  /\ Meets(And({f, g}), vals, i, n) <=> Meets(f, vals, i, n) /\ Meets(g, vals, i, n)
           /\ Meets(Or({f, g}), vals, i, n) <=> Meets(f, vals, i, n) \/ Meets(g, vals, i, n)
<1>1. IsFiniteSet({f, g}) /\ \A p \in {f, g} : Residue(p)
  BY FinitePair
<1> QED
  BY <1>1, MeetsParts

\* Always.
LEMMA MeetsG ==
    ASSUME Recursion, NEW vals, NEW n \in Nat, NEW f, Residue(f), Residue(G(f))
    PROVE  \A i \in 1 .. n + 1 :
               Meets(G(f), vals, i, n) <=> \A j \in i .. n : Meets(f, vals, j, n)
<1> DEFINE S == {i \in 1 .. n + 1 :
                    Meets(G(f), vals, i, n) <=> \A j \in i .. n : Meets(f, vals, j, n)}
<1>1. n + 1 \in S
  BY MeetsEnd, EndIs
<1>2. ASSUME NEW i \in 1 .. n, i + 1 \in S PROVE i \in S
  <2>1. Meets(G(f), vals, i, n) <=> Meets(And({Progress(f, vals[i]), G(f)}), vals, i + 1, n)
    BY MeetsNext, ProgressIs
  <2>2. Meets(G(f), vals, i, n) <=> Meets(f, vals, i, n) /\ Meets(G(f), vals, i + 1, n)
    BY <2>1, MeetsPair, ProgressResidue, MeetsNext
  <2> QED
    BY <1>2, <2>2
<1> HIDE DEF S
<1> QED
  BY <1>1, <1>2, FromTheEnd DEF S

\* Eventually.
LEMMA MeetsF ==
    ASSUME Recursion, NEW vals, NEW n \in Nat, NEW f, Residue(f), Residue(F(f))
    PROVE  \A i \in 1 .. n + 1 :
               Meets(F(f), vals, i, n) <=> \E j \in i .. n : Meets(f, vals, j, n)
<1> DEFINE S == {i \in 1 .. n + 1 :
                    Meets(F(f), vals, i, n) <=> \E j \in i .. n : Meets(f, vals, j, n)}
<1>1. n + 1 \in S
  BY MeetsEnd, EndIs
<1>2. ASSUME NEW i \in 1 .. n, i + 1 \in S PROVE i \in S
  <2>1. Meets(f, vals, i, n) <=> Meets(Progress(f, vals[i]), vals, i + 1, n)
    BY MeetsNext
  <2>2. Meets(F(f), vals, i, n) <=> Meets(Or({Progress(f, vals[i]), F(f)}), vals, i + 1, n)
    BY MeetsNext, ProgressIs
  <2> QED
    BY <1>2, <2>1, <2>2, MeetsPair, ProgressResidue
<1> HIDE DEF S
<1> QED
  BY <1>1, <1>2, FromTheEnd DEF S

\* Until.
LEMMA MeetsU ==
    ASSUME Recursion, NEW vals, NEW n \in Nat, NEW f, NEW g,
           Residue(f), Residue(g), Residue(U(f, g))
    PROVE  \A i \in 1 .. n + 1 :
               Meets(U(f, g), vals, i, n) <=>
                   \E k \in i .. n : /\ Meets(g, vals, k, n)
                                     /\ \A j \in i .. k - 1 : Meets(f, vals, j, n)
<1> DEFINE L(i) == \E k \in i .. n : /\ Meets(g, vals, k, n)
                                     /\ \A j \in i .. k - 1 : Meets(f, vals, j, n)
           S == {i \in 1 .. n + 1 : Meets(U(f, g), vals, i, n) <=> L(i)}
<1>1. n + 1 \in S
  BY MeetsEnd, EndIs
<1>2. ASSUME NEW i \in 1 .. n, i + 1 \in S PROVE i \in S
  <2> DEFINE a == Progress(f, vals[i])
             b == Progress(g, vals[i])
             u == U(f, g)
  <2>1. Residue(a) /\ Residue(b) /\ Residue(u)
    BY ProgressResidue
  <2>2. Meets(f, vals, i, n) <=> Meets(a, vals, i + 1, n)
    BY MeetsNext
  <2>3. Meets(g, vals, i, n) <=> Meets(b, vals, i + 1, n)
    BY MeetsNext
  <2>4. Meets(u, vals, i, n) <=> Meets(Progress(u, vals[i]), vals, i + 1, n)
    BY MeetsNext
  <2>5. Progress(u, vals[i]) = Or({b, And({a, u})})
    BY ProgressIs
  <2> HIDE DEF a, b, u
  <2>6. Residue(And({a, u}))
    BY <2>1, ResidueBuilt, FinitePair
  <2>7. Meets(u, vals, i, n) <=>
            Meets(g, vals, i, n) \/ (Meets(f, vals, i, n) /\ Meets(u, vals, i + 1, n))
    BY <2>1, <2>2, <2>3, <2>4, <2>5, <2>6, MeetsPair
  <2>8. L(i) <=> Meets(g, vals, i, n) \/ (Meets(f, vals, i, n) /\ L(i + 1))
    <3>1. ASSUME Meets(g, vals, i, n) PROVE L(i)
      BY <3>1
    <3>2. ASSUME Meets(f, vals, i, n), L(i + 1) PROVE L(i)
      <4>1. PICK k \in i + 1 .. n : /\ Meets(g, vals, k, n)
                                    /\ \A j \in i + 1 .. k - 1 : Meets(f, vals, j, n)
        BY <3>2
      <4> QED
        BY <3>2, <4>1
    <3>3. ASSUME L(i), ~Meets(g, vals, i, n) PROVE Meets(f, vals, i, n) /\ L(i + 1)
      <4>1. PICK k \in i .. n : /\ Meets(g, vals, k, n)
                                /\ \A j \in i .. k - 1 : Meets(f, vals, j, n)
        BY <3>3
      <4> QED
        BY <3>3, <4>1
    <3> QED
      BY <3>1, <3>2, <3>3
  <2> HIDE DEF L
  <2> QED
    BY <1>2, <2>7, <2>8 DEF u
<1> HIDE DEF S
<1> QED
  BY <1>1, <1>2, FromTheEnd DEF S

----------------------------------------------------------------------------
(* Simplification changes no answer.                                       *)

\* The parts an And or an Or has once those of a nested one are its own.
Flat(op, P) == UNION {IF p.op = op THEN p.parts ELSE {p} : p \in P}

\* What flattening nested conjunctions or disjunctions leaves.
LEMMA FlatIs ==
    ASSUME NEW P, IsFiniteSet(P), \A p \in P : Residue(p), NEW op \in {"and", "or"}
    PROVE  IsFiniteSet(Flat(op, P)) /\ \A q \in Flat(op, P) : Residue(q)
<1> DEFINE c == [p \in P |-> IF p.op = op THEN p.parts ELSE {p}]
           C == {IF p.op = op THEN p.parts ELSE {p} : p \in P}
<1>1. ASSUME NEW p \in P
      PROVE  IsFiniteSet(IF p.op = op THEN p.parts ELSE {p})
             /\ \A q \in (IF p.op = op THEN p.parts ELSE {p}) : Residue(q)
  <2>1. CASE p.op = op
    <3>1. PICK Q : IsFiniteSet(Q) /\ (p = And(Q) \/ p = Or(Q)) /\ \A q \in Q : Residue(q)
      BY <2>1, ResidueShape
    <3> QED
      BY <2>1, <3>1 DEF And, Or
  <2>2. CASE p.op # op
    BY <2>2, FS_Singleton
  <2> QED
    BY <2>1, <2>2
<1>2. IsFiniteSet({c[p] : p \in P})
  BY FiniteImage
<1> HIDE DEF C
<1> QED
  BY <1>1, <1>2, FS_UNION DEF C, Flat

\* What Fold makes of its parts, if it decides nothing.
LEMMA Folded ==
    ASSUME NEW op, NEW unit, NEW zero, NEW P, IsFiniteSet(Flat(op, P))
    PROVE  \/ zero \in Flat(op, P) \ {unit} /\ Fold(op, unit, zero, P) = zero
           \/ Flat(op, P) \ {unit} = {} /\ Fold(op, unit, zero, P) = unit
           \/ Flat(op, P) \ {unit} = {Fold(op, unit, zero, P)}
           \/ Fold(op, unit, zero, P) = [op |-> op, parts |-> Flat(op, P) \ {unit}]
<1> DEFINE kept == Flat(op, P) \ {unit}
<1>1. ASSUME Cardinality(kept) = 1 PROVE kept = {CHOOSE p \in kept : TRUE}
  BY <1>1, FS_Singleton, FS_Subset
<1> QED
  BY <1>1 DEF Fold, Flat

\* Folding them keeps what they mean.
LEMMA FoldKeeps ==
    ASSUME Recursion, NEW P, IsFiniteSet(P), \A p \in P : Residue(p)
    PROVE  /\ Residue(Fold("and", Top, Bottom, P)) /\ Residue(Fold("or", Bottom, Top, P))
           /\ \A vals : \A n \in Nat : \A i \in 1 .. n + 1 :
                  /\ Meets(Fold("and", Top, Bottom, P), vals, i, n)
                         <=> \A p \in P : Meets(p, vals, i, n)
                  /\ Meets(Fold("or", Bottom, Top, P), vals, i, n)
                         <=> \E p \in P : Meets(p, vals, i, n)
<1>1. /\ Residue(Fold("and", Top, Bottom, P))
      /\ \A vals : \A n \in Nat : \A i \in 1 .. n + 1 :
             Meets(Fold("and", Top, Bottom, P), vals, i, n) <=> \A p \in P : Meets(p, vals, i, n)
  <2> DEFINE flat == Flat("and", P)
             f == Fold("and", Top, Bottom, P)
             kept == flat \ {Top}
  <2>1. IsFiniteSet(flat) /\ \A q \in flat : Residue(q)
    BY FlatIs
  <2>2. IsFiniteSet(kept) /\ \A q \in kept : Residue(q)
    BY <2>1, FS_Subset
  <2>3. ASSUME NEW vals, NEW n \in Nat, NEW i \in 1 .. n + 1
        PROVE  (\A p \in P : Meets(p, vals, i, n)) <=> \A q \in flat : Meets(q, vals, i, n)
    <3>1. ASSUME NEW p \in P
          PROVE  Meets(p, vals, i, n) <=>
                     \A q \in (IF p.op = "and" THEN p.parts ELSE {p}) : Meets(q, vals, i, n)
      <4>1. CASE p.op = "and"
        <5>1. PICK Q : IsFiniteSet(Q) /\ p = And(Q) /\ \A q \in Q : Residue(q)
          BY <4>1, ResidueShape
        <5> QED
          BY <4>1, <5>1, MeetsParts DEF And
      <4>2. CASE p.op # "and"
        BY <4>2
      <4> QED
        BY <4>1, <4>2
    <3> QED
      BY <3>1 DEF Flat
  <2>4. \/ Bottom \in kept /\ f = Bottom
        \/ kept = {} /\ f = Top
        \/ kept = {f}
        \/ f = And(kept)
    BY <2>1, Folded DEF And
  <2> HIDE DEF flat, f
  <2>5. ASSUME NEW vals, NEW n \in Nat, NEW i \in 1 .. n + 1
        PROVE  Meets(f, vals, i, n) <=> \A q \in flat : Meets(q, vals, i, n)
    BY <2>2, <2>4, MeetsConstant, MeetsParts
  <2> QED
    BY <2>2, <2>3, <2>4, <2>5, ResidueBuilt DEF f
<1>2. /\ Residue(Fold("or", Bottom, Top, P))
      /\ \A vals : \A n \in Nat : \A i \in 1 .. n + 1 :
             Meets(Fold("or", Bottom, Top, P), vals, i, n) <=> \E p \in P : Meets(p, vals, i, n)
  <2> DEFINE flat == Flat("or", P)
             f == Fold("or", Bottom, Top, P)
             kept == flat \ {Bottom}
  <2>1. IsFiniteSet(flat) /\ \A q \in flat : Residue(q)
    BY FlatIs
  <2>2. IsFiniteSet(kept) /\ \A q \in kept : Residue(q)
    BY <2>1, FS_Subset
  <2>3. ASSUME NEW vals, NEW n \in Nat, NEW i \in 1 .. n + 1
        PROVE  (\E p \in P : Meets(p, vals, i, n)) <=> \E q \in flat : Meets(q, vals, i, n)
    <3>1. ASSUME NEW p \in P
          PROVE  Meets(p, vals, i, n) <=>
                     \E q \in (IF p.op = "or" THEN p.parts ELSE {p}) : Meets(q, vals, i, n)
      <4>1. CASE p.op = "or"
        <5>1. PICK Q : IsFiniteSet(Q) /\ p = Or(Q) /\ \A q \in Q : Residue(q)
          BY <4>1, ResidueShape
        <5> QED
          BY <4>1, <5>1, MeetsParts DEF Or
      <4>2. CASE p.op # "or"
        BY <4>2
      <4> QED
        BY <4>1, <4>2
    <3> QED
      BY <3>1 DEF Flat
  <2>4. \/ Top \in kept /\ f = Top
        \/ kept = {} /\ f = Bottom
        \/ kept = {f}
        \/ f = Or(kept)
    BY <2>1, Folded DEF Or
  <2> HIDE DEF flat, f
  <2>5. ASSUME NEW vals, NEW n \in Nat, NEW i \in 1 .. n + 1
        PROVE  Meets(f, vals, i, n) <=> \E q \in flat : Meets(q, vals, i, n)
    BY <2>2, <2>4, MeetsConstant, MeetsParts
  <2> QED
    BY <2>2, <2>3, <2>4, <2>5, ResidueBuilt DEF f
<1> QED
  BY <1>1, <1>2

\* So does negating,
LEMMA MeetsNegated ==
    ASSUME Recursion, NEW f, Residue(f)
    PROVE  /\ Residue(Negated(f))
           /\ \A vals : \A n \in Nat : \A i \in 1 .. n + 1 :
                  Meets(Negated(f), vals, i, n) <=> ~Meets(f, vals, i, n)
<1>1. CASE f \in {Top, Bottom}
  BY <1>1, MeetsConstant, ResidueBuilt, Constants DEF Negated
<1>2. CASE f \notin {Top, Bottom} /\ f.op = "not"
  <2>1. PICK g : Residue(g) /\ f = Not(g)
    BY <1>2, ResidueShape
  <2> QED
    BY <1>2, <2>1, MeetsNot DEF Negated, Not
<1>3. CASE f \notin {Top, Bottom} /\ f.op # "not"
  BY <1>3, ResidueBuilt, MeetsNot DEF Negated
<1> QED
  BY <1>1, <1>2, <1>3

\* and implying.
LEMMA MeetsImplied ==
    ASSUME Recursion, NEW f, NEW g, Residue(f), Residue(g)
    PROVE  /\ Residue(Implied(f, g))
           /\ \A vals : \A n \in Nat : \A i \in 1 .. n + 1 :
                  Meets(Implied(f, g), vals, i, n)
                      <=> (Meets(f, vals, i, n) => Meets(g, vals, i, n))
  BY MeetsConstant, MeetsNegated, MeetsImplies, ResidueBuilt DEF Implied

\* Simplifying a residual keeps what it means.
LEMMA SimplifyKeeps ==
    ASSUME Recursion, NEW f, Residue(f)
    PROVE  /\ Residue(Simplify(f))
           /\ \A vals : \A n \in Nat : \A i \in 1 .. n + 1 :
                  Meets(Simplify(f), vals, i, n) <=> Meets(f, vals, i, n)
<1> DEFINE Kept(g) == /\ Residue(Simplify(g))
                      /\ \A vals : \A n \in Nat : \A i \in 1 .. n + 1 :
                             Meets(Simplify(g), vals, i, n) <=> Meets(g, vals, i, n)
<1>1. PICK D : f \in D /\ (\A g \in D : Residue(g)) /\ Inductive(D)
  BY ResidueInduction
<1> DEFINE S == {g \in D : Kept(g)}
<1>2. ASSUME NEW g \in D, NEW T \in SUBSET (S \cap D), BuiltOrOwed(g, T)
      PROVE  Kept(g)
  <2>1. Residue(g)
    BY <1>1
  <2>2. \A h \in T : Residue(h) /\ Kept(h)
    BY <1>1
  <2>3. CASE g.op \notin {"not", "and", "or", "implies"}
    BY <2>1, <2>3, SimplifyIs
  <2>4. CASE \E h \in T : g = Not(h)
    <3>1. PICK h \in T : g = Not(h)
      BY <2>4
    <3> QED
      BY <2>1, <2>2, <3>1, SimplifyIs, MeetsNegated, MeetsNot
  <2>5. CASE \E h, k \in T : g = Implies(h, k)
    <3>1. PICK h, k \in T : g = Implies(h, k)
      BY <2>5
    <3> QED
      BY <2>1, <2>2, <3>1, MeetsImplied, SimplifyIs, MeetsImplies
  <2>6. CASE \E P \in SUBSET T : IsFiniteSet(P) /\ g \in {And(P), Or(P)}
    <3>1. PICK P \in SUBSET T : IsFiniteSet(P) /\ g \in {And(P), Or(P)}
      BY <2>6
    <3> DEFINE e == [p \in P |-> Simplify(p)]
               Q == {Simplify(p) : p \in P}
    <3>2. IsFiniteSet({e[p] : p \in P})
      BY <3>1, FiniteImage
    <3>3. IsFiniteSet(Q)
      BY <3>2
    <3>4. (\A q \in Q : Residue(q)) /\ \A p \in P : Residue(p)
      BY <2>2
    <3>5. \A vals : \A n \in Nat : \A i \in 1 .. n + 1 :
              /\ (\A p \in P : Meets(p, vals, i, n)) <=> \A q \in Q : Meets(q, vals, i, n)
              /\ (\E p \in P : Meets(p, vals, i, n)) <=> \E q \in Q : Meets(q, vals, i, n)
      BY <2>2
    <3>6. /\ g = And(P) => Simplify(g) = Fold("and", Top, Bottom, Q)
          /\ g = Or(P) => Simplify(g) = Fold("or", Bottom, Top, Q)
      BY <2>1, SimplifyIs
    <3>7. \A vals : \A n \in Nat : \A i \in 1 .. n + 1 :
              /\ Meets(And(P), vals, i, n) <=> \A p \in P : Meets(p, vals, i, n)
              /\ Meets(Or(P), vals, i, n) <=> \E p \in P : Meets(p, vals, i, n)
      BY <3>1, <3>4, MeetsParts
    <3> HIDE DEF Q
    <3>8. /\ Residue(Fold("and", Top, Bottom, Q)) /\ Residue(Fold("or", Bottom, Top, Q))
          /\ \A vals : \A n \in Nat : \A i \in 1 .. n + 1 :
                 /\ Meets(Fold("and", Top, Bottom, Q), vals, i, n)
                        <=> \A p \in Q : Meets(p, vals, i, n)
                 /\ Meets(Fold("or", Bottom, Top, Q), vals, i, n)
                        <=> \E p \in Q : Meets(p, vals, i, n)
      BY <3>3, <3>4, FoldKeeps
    <3>9. CASE g = And(P)
      BY <3>5, <3>6, <3>7, <3>8, <3>9
    <3>10. CASE g = Or(P)
      BY <3>5, <3>6, <3>7, <3>8, <3>10
    <3> QED
      BY <3>1, <3>9, <3>10
  <2>7. CASE \/ g \in {Top, Bottom}
             \/ \E k : g = Atom(k)
             \/ \E l, r : g = Le(l, r) \/ g = Ge(l, r)
    BY <2>3, <2>7 DEF Top, Bottom, Atom, Le, Ge
  <2>8. CASE \/ \E h \in T : g \in {G(h), F(h), X(h)}
             \/ \E h, k \in T : g = U(h, k)
             \/ \E h \in T : g = Pending(h)
    BY <2>3, <2>8 DEF G, F, X, U, Pending
  <2> HIDE DEF Kept
  <2> QED
    BY <1>2, <2>4, <2>5, <2>6, <2>7, <2>8, Zenon DEF BuiltOrOwed, Built
<1>3. \A g \in D : \A T \in SUBSET (S \cap D) : BuiltOrOwed(g, T) => g \in S
  BY <1>2
<1>4. D \subseteq S
  <2> HIDE DEF S
  <2> QED
    BY <1>1, <1>3 DEF Inductive
<1> QED
  BY <1>1, <1>4

\* What a residual still requires after a valuation is met by the rest of the
\* trace exactly if it is met by the valuation and the rest.
LEMMA AdvanceKeeps ==
    ASSUME Recursion, NEW r, Residue(r)
    PROVE  /\ \A v : Residue(Advance(r, v))
           /\ \A vals : \A n \in Nat : \A i \in 1 .. n :
                  Meets(r, vals, i, n) <=> Meets(Advance(r, vals[i]), vals, i + 1, n)
<1>1. CASE Decided(r)
  BY <1>1, MeetsNext, ProgressIs DEF Advance, Decided
<1>2. CASE ~Decided(r)
  <2>1. \A v : Advance(r, v) = Simplify(Progress(r, v)) /\ Residue(Progress(r, v))
    BY <1>2, ProgressResidue DEF Advance
  <2>2. ASSUME NEW vals, NEW n \in Nat, NEW i \in 1 .. n
        PROVE  Meets(r, vals, i, n) <=> Meets(Advance(r, vals[i]), vals, i + 1, n)
    BY <2>1, MeetsNext, SimplifyKeeps
  <2> QED
    BY <2>1, <2>2, SimplifyKeeps
<1> QED
  BY <1>1, <1>2

----------------------------------------------------------------------------
(* The reference evaluator.                                                *)

\* Induction on how a formula is built.
InductiveFormulas(D) ==
    \A S : (\A g \in D : \A T \in SUBSET (S \cap D) : Built(g, T) => g \in S)
           => D \subseteq S

\* Induction on a formula.
LEMMA FormulaInduction ==
    ASSUME NEW f, Formula(f)
    PROVE  \E D : f \in D /\ (\A g \in D : Formula(g)) /\ InductiveFormulas(D)
<1>1. PICK s : \E n \in Nat \ {0} : Builds(s, n) /\ f = s[n]
  BY DEF Formula
<1>2. PICK n \in Nat \ {0} : Builds(s, n) /\ f = s[n]
  BY <1>1
<1> DEFINE D == {s[j] : j \in 1 .. n}
<1>3. ASSUME NEW j \in 1 .. n PROVE Formula(s[j])
  <2>1. j \in Nat \ {0} /\ 1 .. j \subseteq 1 .. n
    OBVIOUS
  <2> QED
    BY <1>2, <2>1 DEF Formula, Builds
<1>4. ASSUME NEW S,
             \A g \in D : \A T \in SUBSET (S \cap D) : Built(g, T) => g \in S
      PROVE  D \subseteq S
  <2> DEFINE N == {k \in Nat : \A j \in 1 .. n : j <= k => s[j] \in S}
  <2>1. 0 \in N
    OBVIOUS
  <2>2. ASSUME NEW k \in Nat, k \in N PROVE k + 1 \in N
    <3> SUFFICES ASSUME NEW j \in 1 .. n, j <= k + 1 PROVE s[j] \in S
      OBVIOUS
    <3>1. CASE j <= k
      BY <2>2, <3>1
    <3>2. CASE j = k + 1
      <4> DEFINE T == {s[i] : i \in 1 .. j - 1}
      <4>1. T \in SUBSET (S \cap D)
        BY <2>2, <3>2
      <4> QED
        BY <1>2, <1>4, <4>1 DEF Builds
    <3> QED
      BY <3>1, <3>2
  <2>3. n \in N
    <3> HIDE DEF N
    <3> QED
      BY <2>1, <2>2, AllNumbers
  <2> QED
    BY <2>3
<1>5. InductiveFormulas(D)
  BY <1>4 DEF InductiveFormulas
<1> QED
  BY <1>2, <1>3, <1>5

\* What the evaluator does with each operator, inside the trace.
LEMMA EvaluateIs ==
    ASSUME Recursion, NEW vals, Len(vals) \in Nat, NEW pos \in 1 .. Len(vals)
    PROVE  /\ Evaluate(Top, vals, pos) /\ ~Evaluate(Bottom, vals, pos)
           /\ \A k : Formula(Atom(k)) => (Evaluate(Atom(k), vals, pos) <=> k \in vals[pos].true)
           /\ \A l, r : Formula(Le(l, r)) =>
                  (Evaluate(Le(l, r), vals, pos) <=> Compare(Le(l, r), vals[pos]))
           /\ \A l, r : Formula(Ge(l, r)) =>
                  (Evaluate(Ge(l, r), vals, pos) <=> Compare(Ge(l, r), vals[pos]))
           /\ \A f : Formula(Not(f)) =>
                  (Evaluate(Not(f), vals, pos) <=> ~Evaluate(f, vals, pos))
           /\ \A P : Formula(And(P)) =>
                  (Evaluate(And(P), vals, pos) <=> \A g \in P : Evaluate(g, vals, pos))
           /\ \A P : Formula(Or(P)) =>
                  (Evaluate(Or(P), vals, pos) <=> \E g \in P : Evaluate(g, vals, pos))
           /\ \A f, g : Formula(Implies(f, g)) =>
                  (Evaluate(Implies(f, g), vals, pos)
                      <=> (Evaluate(f, vals, pos) => Evaluate(g, vals, pos)))
           /\ \A f : Formula(G(f)) =>
                  (Evaluate(G(f), vals, pos) <=> \A i \in pos .. Len(vals) : Evaluate(f, vals, i))
           /\ \A f : Formula(F(f)) =>
                  (Evaluate(F(f), vals, pos) <=> \E i \in pos .. Len(vals) : Evaluate(f, vals, i))
           /\ \A f : Formula(X(f)) =>
                  (Evaluate(X(f), vals, pos) <=> pos = Len(vals) \/ Evaluate(f, vals, pos + 1))
           /\ \A f, g : Formula(U(f, g)) =>
                  (Evaluate(U(f, g), vals, pos) <=>
                      \E i \in pos .. Len(vals) :
                          /\ Evaluate(g, vals, i)
                          /\ \A j \in pos .. i - 1 : Evaluate(f, vals, j))
<1>1. \A f : Formula(f) => (Evaluate(f, vals, pos) <=> EvaluateBy(Evaluate, f, vals, pos))
  BY DEF Recursion
<1>2. ~(pos > Len(vals))
  OBVIOUS
<1>3. Formula(Top) /\ Formula(Bottom)
  <2>1. Builds(<<Top>>, 1) /\ Builds(<<Bottom>>, 1)
    BY DEF Builds, Built
  <2> QED
    BY <2>1 DEF Formula
<1>4. Evaluate(Top, vals, pos) /\ ~Evaluate(Bottom, vals, pos)
  <2>1. Evaluate(Bottom, vals, pos) <=> EvaluateBy(Evaluate, Bottom, vals, pos)
    BY <1>1, <1>3
  <2> QED
    BY <1>1, <2>1, <1>2, <1>3 DEF EvaluateBy, Top, Bottom
<1>5. ASSUME NEW k, Formula(Atom(k))
      PROVE  Evaluate(Atom(k), vals, pos) <=> k \in vals[pos].true
  <2>1. Evaluate(Atom(k), vals, pos) <=> EvaluateBy(Evaluate, Atom(k), vals, pos)
    BY <1>1, <1>5
  <2> QED
    BY <1>2, <2>1 DEF EvaluateBy, Atom
<1>6. ASSUME NEW l, NEW r, Formula(Le(l, r))
      PROVE  Evaluate(Le(l, r), vals, pos) <=> Compare(Le(l, r), vals[pos])
  <2>1. Le(l, r).op = "le"
    BY DEF Le
  <2> QED
    BY <1>1, <1>6, <2>1, <1>2 DEF EvaluateBy
<1>7. ASSUME NEW l, NEW r, Formula(Ge(l, r))
      PROVE  Evaluate(Ge(l, r), vals, pos) <=> Compare(Ge(l, r), vals[pos])
  <2>1. Ge(l, r).op = "ge"
    BY DEF Ge
  <2> QED
    BY <1>1, <1>7, <2>1, <1>2 DEF EvaluateBy
<1>8. ASSUME NEW f, Formula(Not(f))
      PROVE  Evaluate(Not(f), vals, pos) <=> ~Evaluate(f, vals, pos)
  <2>1. Not(f).op = "not" /\ Not(f).of = f
    BY DEF Not
  <2> QED
    BY <1>1, <1>8, <2>1, <1>2 DEF EvaluateBy
<1>9. ASSUME NEW P, Formula(And(P))
      PROVE  Evaluate(And(P), vals, pos) <=> \A g \in P : Evaluate(g, vals, pos)
  <2>1. And(P).op = "and" /\ And(P).parts = P
    BY DEF And
  <2> QED
    BY <1>1, <1>9, <2>1, <1>2 DEF EvaluateBy
<1>10. ASSUME NEW P, Formula(Or(P))
       PROVE  Evaluate(Or(P), vals, pos) <=> \E g \in P : Evaluate(g, vals, pos)
  <2>1. Or(P).op = "or" /\ Or(P).parts = P
    BY DEF Or
  <2> QED
    BY <1>1, <1>10, <2>1, <1>2 DEF EvaluateBy
<1>11. ASSUME NEW f, NEW g, Formula(Implies(f, g))
       PROVE  Evaluate(Implies(f, g), vals, pos)
                  <=> (Evaluate(f, vals, pos) => Evaluate(g, vals, pos))
  <2>1. Implies(f, g).op = "implies" /\ Implies(f, g).if = f /\ Implies(f, g).then = g
    BY DEF Implies
  <2> QED
    BY <1>1, <1>11, <2>1, <1>2 DEF EvaluateBy
<1>12. ASSUME NEW f, Formula(G(f))
       PROVE  Evaluate(G(f), vals, pos) <=> \A i \in pos .. Len(vals) : Evaluate(f, vals, i)
  <2>1. G(f).op = "G" /\ G(f).of = f
    BY DEF G
  <2> QED
    BY <1>1, <1>12, <2>1, <1>2 DEF EvaluateBy
<1>13. ASSUME NEW f, Formula(F(f))
       PROVE  Evaluate(F(f), vals, pos) <=> \E i \in pos .. Len(vals) : Evaluate(f, vals, i)
  <2>1. F(f).op = "F" /\ F(f).of = f
    BY DEF F
  <2> QED
    BY <1>1, <1>13, <2>1, <1>2 DEF EvaluateBy
<1>14. ASSUME NEW f, Formula(X(f))
       PROVE  Evaluate(X(f), vals, pos) <=> pos = Len(vals) \/ Evaluate(f, vals, pos + 1)
  <2>1. X(f).op = "X" /\ X(f).of = f
    BY DEF X
  <2> QED
    BY <1>1, <1>14, <2>1, <1>2 DEF EvaluateBy
<1>15. ASSUME NEW f, NEW g, Formula(U(f, g))
       PROVE  Evaluate(U(f, g), vals, pos) <=>
                  \E i \in pos .. Len(vals) :
                      /\ Evaluate(g, vals, i)
                      /\ \A j \in pos .. i - 1 : Evaluate(f, vals, j)
  <2>1. U(f, g).op = "U" /\ U(f, g).hold = f /\ U(f, g).until = g
    BY DEF U
  <2> QED
    BY <1>1, <1>15, <2>1, <1>2 DEF EvaluateBy
<1> QED
  BY <1>4, <1>5, <1>6, <1>7, <1>8, <1>9, <1>10, <1>11, <1>12, <1>13, <1>14, <1>15

\* The evaluator says of a formula and a trace what progressing the formula
\* over the trace ends in.
LEMMA EvaluateIsMeets ==
    ASSUME Recursion, NEW f, Formula(f), NEW vals, Len(vals) \in Nat
    PROVE  \A pos \in 1 .. Len(vals) :
               Evaluate(f, vals, pos) <=> Meets(f, vals, pos, Len(vals))
<1> DEFINE n == Len(vals)
           Agree(g) == \A pos \in 1 .. n : Evaluate(g, vals, pos) <=> Meets(g, vals, pos, n)
<1>1. n \in Nat
  OBVIOUS
<1>2. PICK D : f \in D /\ (\A g \in D : Formula(g)) /\ InductiveFormulas(D)
  BY FormulaInduction
<1> DEFINE S == {g \in D : Agree(g)}
<1>3. ASSUME NEW g \in D, NEW T \in SUBSET (S \cap D), Built(g, T)
      PROVE  Agree(g)
  <2> SUFFICES ASSUME NEW pos \in 1 .. n
               PROVE  Evaluate(g, vals, pos) <=> Meets(g, vals, pos, n)
    OBVIOUS
  <2>1. Formula(g) /\ Residue(g) /\ pos \in 1 .. n + 1 /\ pos .. n \subseteq 1 .. n
    BY <1>1, <1>2, FormulasAreResidues
  <2>2. \A h \in T : Formula(h) /\ Residue(h) /\ Agree(h)
    BY <1>2, FormulasAreResidues
  <2>3. CASE g \in {Top, Bottom}
    BY <1>1, <2>1, <2>3, MeetsConstant, EvaluateIs
  <2>4. CASE \E k : g = Atom(k)
    <3>1. PICK k : g = Atom(k)
      BY <2>4
    <3> QED
      BY <1>1, <2>1, <3>1, EvaluateIs, MeetsAtom
  <2>5. CASE \E l, r : g = Le(l, r) \/ g = Ge(l, r)
    <3>1. PICK l, r : g = Le(l, r) \/ g = Ge(l, r)
      BY <2>5
    <3> QED
      BY <1>1, <2>1, <3>1, EvaluateIs, MeetsAtom
  <2>6. CASE \E h \in T : g = Not(h)
    <3>1. PICK h \in T : g = Not(h)
      BY <2>6
    <3> QED
      BY <1>1, <2>1, <2>2, <3>1, EvaluateIs, MeetsNot
  <2>7. CASE \E h \in T : g = G(h)
    <3>1. PICK h \in T : g = G(h)
      BY <2>7
    <3> QED
      BY <1>1, <2>1, <2>2, <3>1, EvaluateIs, MeetsG
  <2>8. CASE \E h \in T : g = F(h)
    <3>1. PICK h \in T : g = F(h)
      BY <2>8
    <3> QED
      BY <1>1, <2>1, <2>2, <3>1, EvaluateIs, MeetsF
  <2>9. CASE \E h \in T : g = X(h)
    <3>1. PICK h \in T : g = X(h)
      BY <2>9
    <3> QED
      BY <1>1, <2>1, <2>2, <3>1, MeetsX, EvaluateIs
  <2>10. CASE \E h, k \in T : g = Implies(h, k)
    <3>1. PICK h, k \in T : g = Implies(h, k)
      BY <2>10
    <3> QED
      BY <1>1, <2>1, <2>2, <3>1, MeetsImplies, EvaluateIs
  <2>11. CASE \E h, k \in T : g = U(h, k)
    <3>1. PICK h, k \in T : g = U(h, k)
      BY <2>11
    <3> QED
      BY <1>1, <2>1, <2>2, <3>1, MeetsU, EvaluateIs
  <2>12. CASE \E P \in SUBSET T : IsFiniteSet(P) /\ g \in {And(P), Or(P)}
    <3>1. PICK P \in SUBSET T : IsFiniteSet(P) /\ g \in {And(P), Or(P)}
      BY <2>12
    <3>2. /\ Meets(And(P), vals, pos, n) <=> \A p \in P : Meets(p, vals, pos, n)
          /\ Meets(Or(P), vals, pos, n) <=> \E p \in P : Meets(p, vals, pos, n)
      BY <1>1, <2>1, <2>2, <3>1, MeetsParts
    <3> QED
      BY <2>1, <2>2, <3>1, <3>2, EvaluateIs
  <2> QED
    BY <1>3, <2>3, <2>4, <2>5, <2>6, <2>7, <2>8, <2>9, <2>10, <2>11, <2>12, Zenon DEF Built
<1>4. \A g \in D : \A T \in SUBSET (S \cap D) : Built(g, T) => g \in S
  <2> HIDE DEF Agree
  <2> QED
    BY <1>3
<1>5. D \subseteq S
  <2> HIDE DEF S
  <2> QED
    BY <1>2, <1>4 DEF InductiveFormulas
<1> QED
  BY <1>2, <1>5

\* left holds what f, counted from position pos, still requires after each of
\* the valuations up to n.
Progresses(left, f, vals, pos, n) ==
    /\ left[pos - 1] = Initial(f)
    /\ \A j \in pos .. n : left[j] = Advance(left[j - 1], vals[j])

\* The incremental evaluator answers as the reference evaluator does, for any
\* formula, any trace and any position to count from.
THEOREM ProgressionCorrect ==
    ASSUME Recursion, NEW f, Formula(f), NEW vals, Len(vals) \in Nat,
           NEW pos \in 1 .. Len(vals), NEW left, Progresses(left, f, vals, pos, Len(vals))
    PROVE  HoldsAtEnd(left[Len(vals)]) <=> Evaluate(f, vals, pos)
<1> DEFINE n == Len(vals)
           Agree(k) == /\ Residue(left[k])
                       /\ Meets(left[k], vals, k + 1, n) <=> Evaluate(f, vals, pos)
           S == {k \in Nat : k \in pos - 1 .. n => Agree(k)}
<1>1. n \in Nat /\ pos \in 1 .. n
  OBVIOUS
<1>2. Agree(pos - 1)
  BY <1>1, SimplifyKeeps, EvaluateIsMeets, FormulasAreResidues DEF Progresses,
     Initial
<1>3. 0 \in S
  <2> HIDE DEF Agree
  <2> QED
    BY <1>2
<1>4. ASSUME NEW k \in Nat, k \in S PROVE k + 1 \in S
  <2> SUFFICES ASSUME k + 1 \in pos - 1 .. n PROVE Agree(k + 1)
    OBVIOUS
  <2>1. CASE k + 1 = pos - 1
    <3> HIDE DEF Agree
    <3> QED
      BY <1>2, <2>1
  <2>2. CASE k + 1 # pos - 1
    <3>1. k \in pos - 1 .. n /\ k + 1 \in pos .. n /\ k + 1 \in 1 .. n /\ (k + 1) - 1 = k
      BY <1>1, <2>2
    <3>2. Agree(k)
      BY <1>4, <3>1
    <3>3. left[k + 1] = Advance(left[k], vals[k + 1])
      BY <3>1 DEF Progresses
    <3>4. Meets(left[k], vals, k + 1, n) <=> Meets(left[k + 1], vals, (k + 1) + 1, n)
      <4>1. \A i \in 1 .. n : Meets(left[k], vals, i, n)
                                  <=> Meets(Advance(left[k], vals[i]), vals, i + 1, n)
        BY <1>1, <3>2, AdvanceKeeps
      <4> QED
        BY <3>1, <3>3, <4>1
    <3> QED
      BY <3>2, <3>3, <3>4, AdvanceKeeps
  <2> QED
    BY <2>1, <2>2
<1>5. n \in S
  <2> HIDE DEF S
  <2> QED
    BY <1>1, <1>3, <1>4, AllNumbers
<1> QED
  BY <1>1, <1>5, MeetsEnd

\* A formula that looks at no other position.
LEMMA LocalParts ==
    ASSUME Recursion, NEW f, Formula(f), ~Temporal(f)
    PROVE  f.op \notin {"G", "F", "X", "U"} /\ \A g \in Below(f) : ~Temporal(g)
  BY DEF TemporalBy, Recursion

\* It asks only the valuation it is evaluated at.
LEMMA Locality ==
    ASSUME Recursion, NEW f, Formula(f), ~Temporal(f),
           NEW vals, Len(vals) \in Nat, NEW i \in 1 .. Len(vals),
           NEW more, Len(more) \in Nat, NEW j \in 1 .. Len(more), more[j] = vals[i]
    PROVE  Evaluate(f, vals, i) <=> Evaluate(f, more, j)
<1> DEFINE Same(g) == ~Temporal(g) => (Evaluate(g, vals, i) <=> Evaluate(g, more, j))
<1>1. PICK D : f \in D /\ (\A g \in D : Formula(g)) /\ InductiveFormulas(D)
  BY FormulaInduction
<1> DEFINE S == {g \in D : Same(g)}
<1>2. ASSUME NEW g \in D, NEW T \in SUBSET (S \cap D), Built(g, T)
      PROVE  Same(g)
  <2> SUFFICES ASSUME ~Temporal(g)
               PROVE  Evaluate(g, vals, i) <=> Evaluate(g, more, j)
    OBVIOUS
  <2>1. Formula(g) /\ g.op \notin {"G", "F", "X", "U"} /\ \A h \in Below(g) : ~Temporal(h)
    BY <1>1, LocalParts
  <2>2. \A h \in T : Formula(h) /\ Same(h)
    BY <1>1
  <2>3. CASE g \in {Top, Bottom}
    BY <2>3, EvaluateIs
  <2>4. CASE \E k : g = Atom(k)
    <3>1. PICK k : g = Atom(k)
      BY <2>4
    <3> QED
      BY <2>1, <3>1, EvaluateIs
  <2>5. CASE \E l, r : g = Le(l, r) \/ g = Ge(l, r)
    <3>1. PICK l, r : g = Le(l, r) \/ g = Ge(l, r)
      BY <2>5
    <3> QED
      BY <2>1, <3>1, EvaluateIs
  <2>6. CASE \E h \in T : g = Not(h)
    <3>1. PICK h \in T : g = Not(h)
      BY <2>6
    <3> QED
      BY <2>1, <2>2, <3>1, EvaluateIs DEF Not, Below
  <2>7. CASE \E h \in T : g \in {G(h), F(h), X(h)}
    BY <2>1, <2>7 DEF G, F, X
  <2>8. CASE \E h, k \in T : g = U(h, k)
    BY <2>1, <2>8 DEF U
  <2>9. CASE \E h, k \in T : g = Implies(h, k)
    <3>1. PICK h, k \in T : g = Implies(h, k)
      BY <2>9
    <3> QED
      BY <2>1, <2>2, <3>1, EvaluateIs DEF Implies, Below
  <2>10. CASE \E P \in SUBSET T : IsFiniteSet(P) /\ g \in {And(P), Or(P)}
    <3>1. PICK P \in SUBSET T : IsFiniteSet(P) /\ g \in {And(P), Or(P)}
      BY <2>10
    <3> QED
      BY <2>1, <2>2, <3>1, EvaluateIs DEF And, Or, Below
  <2> HIDE DEF Same
  <2> QED
    BY <1>2, <2>3, <2>4, <2>5, <2>6, <2>7, <2>8, <2>9, <2>10, Zenon DEF Built
<1>3. \A g \in D : \A T \in SUBSET (S \cap D) : Built(g, T) => g \in S
  <2> HIDE DEF Same
  <2> QED
    BY <1>2
<1>4. D \subseteq S
  <2> HIDE DEF S
  <2> QED
    BY <1>1, <1>3 DEF InductiveFormulas
<1> QED
  BY <1>1, <1>4

----------------------------------------------------------------------------
(* Grounding.                                                              *)

\* What the first i events of a trace accumulate, and what the i-th is
\* grounded to.
States(t) ==
    LET state[i \in 0 .. Len(t)] ==
            IF i = 0 THEN Fresh ELSE Accumulated(state[i - 1], t[i], i - 1)
    IN  state

ValOf(t, i, timed) == ValuationAt(States(t)[i], t[i], i - 1, timed)

ValsTo(t, n, timed) == [i \in 1 .. n |-> ValOf(t, i, timed)]

StatesBody(r, t) ==
    [i \in 0 .. Len(t) |-> IF i = 0 THEN Fresh ELSE Accumulated(r[i - 1], t[i], i - 1)]

\* state follows the trace over its first n events.
FollowsTo(state, t, n) ==
    /\ state[0] = Fresh
    /\ \A i \in 1 .. n : state[i] = Accumulated(state[i - 1], t[i], i - 1)

\* The accumulation over a trace is defined,
LEMMA StatesExist ==
    ASSUME NEW t, Len(t) \in Nat
    PROVE  \E state : state = StatesBody(state, t)
<1> DEFINE S == {n \in Nat : n <= Len(t) => \E state : FollowsTo(state, t, n)}
<1>1. 0 \in S
  <2> DEFINE state == [k \in {0} |-> Fresh]
  <2>1. state[0] = Fresh
    OBVIOUS
  <2> HIDE DEF state
  <2> QED
    BY <2>1 DEF FollowsTo
<1>2. ASSUME NEW n \in Nat, n \in S PROVE n + 1 \in S
  <2> SUFFICES ASSUME n + 1 <= Len(t) PROVE \E state : FollowsTo(state, t, n + 1)
    OBVIOUS
  <2>1. PICK old : FollowsTo(old, t, n)
    BY <1>2
  <2> DEFINE last == Accumulated(old[n], t[n + 1], n)
             state == [k \in 0 .. n + 1 |-> IF k = n + 1 THEN last ELSE old[k]]
  <2>2. state[n + 1] = last /\ \A k \in 0 .. n : state[k] = old[k]
    OBVIOUS
  <2> HIDE DEF state
  <2>3. ASSUME NEW i \in 1 .. n + 1
        PROVE  state[i] = Accumulated(state[i - 1], t[i], i - 1)
    <3>1. CASE i = n + 1
      BY <2>2, <3>1
    <3>2. CASE i # n + 1
      BY <2>1, <2>2, <3>2 DEF FollowsTo
    <3> QED
      BY <3>1, <3>2
  <2> QED
    BY <2>1, <2>2, <2>3 DEF FollowsTo
<1>3. \A n \in Nat : n \in S
  <2> HIDE DEF S
  <2> QED
    BY <1>1, <1>2, AllNumbers
<1>4. PICK f : FollowsTo(f, t, Len(t))
  BY <1>3
<1> DEFINE state == [k \in 0 .. Len(t) |-> f[k]]
<1>5. ASSUME NEW i \in 0 .. Len(t), i # 0
      PROVE  state[i] = Accumulated(state[i - 1], t[i], i - 1)
  BY <1>4, <1>5 DEF FollowsTo
<1>6. state[0] = Fresh
  BY <1>4 DEF FollowsTo
<1>7. state = StatesBody(state, t)
  <2>1. state = [k \in 0 .. Len(t) |-> state[k]]
    OBVIOUS
  <2> HIDE DEF state
  <2> QED
    BY <1>5, <1>6, <2>1 DEF StatesBody
<1> QED
  BY <1>7

\* and is what one event after another accumulates.
LEMMA StatesAre ==
    ASSUME NEW t, Len(t) \in Nat
    PROVE  /\ States(t)[0] = Fresh
           /\ \A i \in 1 .. Len(t) : States(t)[i] = Accumulated(States(t)[i - 1], t[i], i - 1)
<1> DEFINE st == CHOOSE r : r = StatesBody(r, t)
<1>1. States(t) = st
  BY Zenon DEF States, StatesBody
<1> HIDE DEF st
<1> QED
  BY <1>1, StatesExist DEF StatesBody

\* Traces that begin alike are grounded alike as far as they do.
LEMMA SameStates ==
    ASSUME NEW t, Len(t) \in Nat, NEW u, Len(u) \in Nat,
           NEW n \in 0 .. Len(t), n <= Len(u), \A i \in 1 .. n : t[i] = u[i],
           NEW timed
    PROVE  /\ \A i \in 0 .. n : States(t)[i] = States(u)[i]
           /\ ValsTo(t, n, timed) = ValsTo(u, n, timed)
<1> DEFINE S == {i \in Nat : i <= n => States(t)[i] = States(u)[i]}
<1>1. 0 \in S
  BY StatesAre
<1>2. ASSUME NEW i \in Nat, i \in S PROVE i + 1 \in S
  <2> SUFFICES ASSUME i + 1 <= n PROVE States(t)[i + 1] = States(u)[i + 1]
    OBVIOUS
  <2> QED
    BY <1>2, StatesAre
<1>3. \A i \in Nat : i \in S
  <2> HIDE DEF S
  <2> QED
    BY <1>1, <1>2, AllNumbers
<1> QED
  BY <1>3 DEF ValsTo, ValOf

\* A valuation depends on the events up to its own only.
LEMMA SameValuation ==
    ASSUME NEW t, Len(t) \in Nat, NEW u, Len(u) \in Nat,
           NEW n \in 1 .. Len(t), n <= Len(u), \A i \in 1 .. n : t[i] = u[i],
           NEW timed
    PROVE  ValOf(t, n, timed) = ValOf(u, n, timed)
<1>1. n \in 0 .. Len(t) /\ n \in 0 .. n /\ n \in 1 .. n
  OBVIOUS
<1> QED
  BY <1>1, SameStates DEF ValOf

\* g with the events after those it has valuations of, up to the n-th.
GroundedTo(r, g, t, n, timed) ==
    /\ DOMAIN r = DOMAIN g
    /\ r = [x \in DOMAIN g |-> r[x]]
    /\ r.vals = ValsTo(t, n, timed)
    /\ r.state = States(t)[n]
    /\ r.before = IF n = Len(g.vals) THEN g.before ELSE States(t)[n - 1]
    /\ \A x \in DOMAIN g \ {"vals", "state", "before"} : r[x] = g[x]

\* Grounding one more event.
LEMMA GroundedOnce ==
    ASSUME NEW g, NEW t, Len(t) \in Nat, NEW timed, NEW r, NEW n \in 0 .. Len(t) - 1,
           Len(g.vals) \in 0 .. n, {"vals", "state", "before"} \subseteq DOMAIN g,
           GroundedTo(r, g, t, n, timed)
    PROVE  GroundedTo(Grounded(r, t[n + 1], n, timed), g, t, n + 1, timed)
<1> DEFINE s == Accumulated(r.state, t[n + 1], n)
           val == ValuationAt(s, t[n + 1], n, timed)
           q == [r EXCEPT !.before = r.state, !.state = s, !.vals = Append(@, val)]
<1>1. Grounded(r, t[n + 1], n, timed) = q
  BY DEF Grounded
<1>2. n + 1 \in 1 .. Len(t) /\ (n + 1) - 1 = n /\ n \in Nat
  OBVIOUS
<1>3. s = States(t)[n + 1]
  BY <1>2, StatesAre DEF GroundedTo
<1>4. val = ValOf(t, n + 1, timed)
  BY <1>2, <1>3 DEF ValOf
<1>5. Append(ValsTo(t, n, timed), val) = ValsTo(t, n + 1, timed)
  <2> DEFINE old == ValsTo(t, n, timed)
             new == Append(old, val)
  <2>1. old = [i \in 1 .. n |-> old[i]] /\ \A i \in 1 .. n : old[i] = ValOf(t, i, timed)
    BY DEF ValsTo
  <2> HIDE DEF old, val
  <2>2. Sequence(new) /\ Len(new) = n + 1 /\ new[n + 1] = val /\ \A i \in 1 .. n : new[i] = old[i]
    BY <1>2, <2>1, Appended, MadeSequence
  <2> HIDE DEF new
  <2>3. \A i \in 1 .. n + 1 : new[i] = ValOf(t, i, timed)
    <3> TAKE i \in 1 .. n + 1
    <3> QED
      BY <1>2, <1>4, <2>1, <2>2
  <2> QED
    BY <2>2, <2>3, SequenceIs DEF new, old, ValsTo
<1>6. DOMAIN r = DOMAIN g /\ r = [x \in DOMAIN g |-> r[x]] /\ r.vals = ValsTo(t, n, timed)
      /\ r.state = States(t)[n]
      /\ \A x \in DOMAIN g \ {"vals", "state", "before"} : r[x] = g[x]
  BY DEF GroundedTo
<1> HIDE DEF s, val
<1>7. /\ DOMAIN q = DOMAIN g /\ q = [x \in DOMAIN g |-> q[x]]
      /\ q.vals = Append(r.vals, val) /\ q.state = s /\ q.before = r.state
      /\ \A x \in DOMAIN g \ {"vals", "state", "before"} : q[x] = r[x]
  BY <1>6
<1>8. n + 1 # Len(g.vals)
  OBVIOUS
<1> HIDE DEF q
<1> QED
  BY <1>1, <1>2, <1>3, <1>5, <1>6, <1>7, <1>8 DEF GroundedTo

GroundBody(r, g, t, timed) ==
    [i \in Len(g.vals) .. Len(t) |->
        IF i = Len(g.vals) THEN g ELSE Grounded(r[i - 1], t[i], i - 1, timed)]

\* Grounding the rest of a trace is defined.
LEMMA GroundExists ==
    ASSUME NEW g, NEW t, Len(t) \in Nat, Len(g.vals) \in 0 .. Len(t), NEW timed
    PROVE  \E r : r = GroundBody(r, g, t, timed)
<1> DEFINE a == Len(g.vals)
           Chain(r, n) == /\ r[a] = g
                          /\ \A i \in a + 1 .. n : r[i] = Grounded(r[i - 1], t[i], i - 1, timed)
           S == {k \in Nat : a + k <= Len(t) => \E r : Chain(r, a + k)}
<1>1. a \in Nat
  OBVIOUS
<1>2. 0 \in S
  <2> DEFINE r == [k \in {a} |-> g]
  <2>1. r[a] = g
    OBVIOUS
  <2> HIDE DEF r
  <2> QED
    BY <2>1
<1>3. ASSUME NEW k \in Nat, k \in S PROVE k + 1 \in S
  <2> DEFINE n == a + k
  <2> SUFFICES ASSUME n + 1 <= Len(t) PROVE \E r : Chain(r, n + 1)
    BY <1>1
  <2>1. PICK old : Chain(old, n)
    BY <1>3
  <2> DEFINE last == Grounded(old[n], t[n + 1], n, timed)
             r == [i \in a .. n + 1 |-> IF i = n + 1 THEN last ELSE old[i]]
  <2>2. r[n + 1] = last /\ \A i \in a .. n : r[i] = old[i]
    OBVIOUS
  <2> HIDE DEF r
  <2>3. ASSUME NEW i \in a + 1 .. n + 1
        PROVE  r[i] = Grounded(r[i - 1], t[i], i - 1, timed)
    <3>1. CASE i = n + 1
      BY <2>2, <3>1
    <3>2. CASE i # n + 1
      BY <2>1, <2>2, <3>2
    <3> QED
      BY <3>1, <3>2
  <2>4. Chain(r, n + 1)
    BY <2>1, <2>2, <2>3
  <2> QED
    BY <2>4
<1>4. \A k \in Nat : k \in S
  <2> HIDE DEF S
  <2> QED
    BY <1>2, <1>3, AllNumbers
<1>5. Len(t) - a \in Nat /\ a + (Len(t) - a) = Len(t)
  BY <1>1
<1>6. \E r : Chain(r, Len(t))
  <2>1. a + (Len(t) - a) <= Len(t)
    BY <1>5
  <2> HIDE DEF Chain
  <2> QED
    BY <1>4, <1>5, <2>1
<1>7. PICK f : Chain(f, Len(t))
  BY <1>6
<1> DEFINE r == [k \in a .. Len(t) |-> f[k]]
<1>8. ASSUME NEW i \in a .. Len(t), i # a
      PROVE  r[i] = Grounded(r[i - 1], t[i], i - 1, timed)
  BY <1>7, <1>8
<1>9. r[a] = g
  BY <1>7
<1>10. r = GroundBody(r, g, t, timed)
  <2>1. r = [k \in a .. Len(t) |-> r[k]]
    OBVIOUS
  <2> HIDE DEF r
  <2> QED
    BY <1>8, <1>9, <2>1 DEF GroundBody
<1> QED
  BY <1>10

\* Grounding on from the first events of a trace is grounding it.
LEMMA GroundFromIs ==
    ASSUME NEW g, NEW t, Len(t) \in Nat, NEW timed,
           Len(g.vals) \in 0 .. Len(t), {"vals", "state", "before"} \subseteq DOMAIN g,
           GroundedTo(g, g, t, Len(g.vals), timed)
    PROVE  GroundedTo(GroundFrom(g, t, timed), g, t, Len(t), timed)
<1> DEFINE a == Len(g.vals)
           r == CHOOSE q : q = GroundBody(q, g, t, timed)
<1>1. GroundFrom(g, t, timed) = r[Len(t)]
  BY Zenon DEF GroundFrom, GroundBody
<1>2. r = GroundBody(r, g, t, timed)
  BY GroundExists
<1> HIDE DEF r
<1>3. \A i \in a .. Len(t) :
          r[i] = IF i = a THEN g ELSE Grounded(r[i - 1], t[i], i - 1, timed)
  BY <1>2 DEF GroundBody
<1> DEFINE S == {k \in Nat : k \in a .. Len(t) => GroundedTo(r[k], g, t, k, timed)}
<1>4. GroundedTo(r[a], g, t, a, timed)
  BY <1>3
<1>5. 0 \in S
  <2>1. 0 \in a .. Len(t) => a = 0
    OBVIOUS
  <2> HIDE DEF a
  <2> QED
    BY <1>4, <2>1
<1>6. ASSUME NEW k \in Nat, k \in S PROVE k + 1 \in S
  <2> SUFFICES ASSUME k + 1 \in a .. Len(t) PROVE GroundedTo(r[k + 1], g, t, k + 1, timed)
    OBVIOUS
  <2>1. CASE k + 1 = a
    <3> HIDE DEF a
    <3> QED
      BY <1>4, <2>1
  <2>2. CASE k + 1 # a
    BY <1>3, <1>6, <2>2, GroundedOnce
  <2> QED
    BY <2>1, <2>2
<1>7. \A k \in Nat : k \in S
  <2> HIDE DEF S
  <2> QED
    BY <1>5, <1>6, AllNumbers
<1> QED
  BY <1>1, <1>7

\* Grounding a trace from its first event.
LEMMA GroundIs ==
    ASSUME NEW t, Len(t) \in Nat, NEW timed
    PROVE  Ground(t, timed) = ValsTo(t, Len(t), timed)
<1> DEFINE g == NothingGrounded
<1>1. /\ DOMAIN g = {"state", "before", "vals"} /\ g = [x \in DOMAIN g |-> g[x]]
      /\ g.vals = <<>> /\ g.state = Fresh
  BY DEF NothingGrounded
<1>2. Len(g.vals) = 0
  BY <1>1, EmptySequence
<1>3. Ground(t, timed) = GroundFrom(g, t, timed).vals
  BY DEF Ground
<1> HIDE DEF g
<1>4. GroundedTo(g, g, t, Len(g.vals), timed)
  BY <1>1, <1>2, StatesAre DEF GroundedTo, ValsTo
<1> QED
  BY <1>1, <1>2, <1>3, <1>4, GroundFromIs DEF GroundedTo

----------------------------------------------------------------------------
(* What the verifier keeps of each formula.                                *)

\* A set of numbers that is not empty has a least one.
LEMMA Least ==
    ASSUME NEW S, S \subseteq Nat, S # {}
    PROVE  \E m \in S : \A k \in S : m <= k
<1> DEFINE Out == {n \in Nat : \A k \in S : n <= k}
<1> SUFFICES ASSUME \A m \in S : \E k \in S : ~(m <= k) PROVE FALSE
  OBVIOUS
<1>1. 0 \in Out
  OBVIOUS
<1>2. ASSUME NEW n \in Nat, n \in Out PROVE n + 1 \in Out
  BY <1>2
<1>3. \A n \in Nat : n \in Out
  <2> HIDE DEF Out
  <2> QED
    BY <1>1, <1>2, AllNumbers
<1>4. PICK m \in S : TRUE
  OBVIOUS
<1> QED
  BY <1>3, <1>4

\* A set of bounded ones has a greatest one.
LEMMA Greatest ==
    ASSUME NEW n \in Nat, NEW S, S \subseteq 0 .. n, S # {}
    PROVE  \E m \in S : \A k \in S : k <= m
<1> DEFINE T == {n - k : k \in S}
<1>1. T \subseteq Nat /\ T # {}
  <2>1. \A k \in S : n - k \in Nat
    OBVIOUS
  <2>2. PICK k \in S : TRUE
    OBVIOUS
  <2> QED
    BY <2>1, <2>2
<1>2. PICK x \in T : \A y \in T : x <= y
  <2> HIDE DEF T
  <2> QED
    BY <1>1, Least
<1>3. PICK m \in S : x = n - m
  BY <1>2
<1>4. \A k \in S : k <= m
  BY <1>2, <1>3
<1> QED
  BY <1>4

\* x is what f, counted from pos, still requires after the n-th valuation.
Left(x, f, vals, pos, n) == \E left : Progresses(left, f, vals, pos, n) /\ x = left[n]

\* Before the first valuation everything is left,
LEMMA LeftAtFirst ==
    ASSUME NEW f, NEW vals, NEW pos \in Nat \ {0}
    PROVE  Left(Initial(f), f, vals, pos, pos - 1)
<1> DEFINE left == [i \in {pos - 1} |-> Initial(f)]
<1>1. left[pos - 1] = Initial(f) /\ pos .. pos - 1 = {}
  OBVIOUS
<1> HIDE DEF left
<1> QED
  BY <1>1 DEF Left, Progresses

\* one more valuation advances it,
LEMMA LeftNext ==
    ASSUME NEW x, NEW f, NEW vals, NEW pos \in Nat \ {0}, NEW n \in Nat, pos - 1 <= n,
           Left(x, f, vals, pos, n)
    PROVE  Left(Advance(x, vals[n + 1]), f, vals, pos, n + 1)
<1>1. PICK old : Progresses(old, f, vals, pos, n) /\ x = old[n]
  BY DEF Left
<1> DEFINE last == Advance(x, vals[n + 1])
           left == [i \in pos - 1 .. n + 1 |-> IF i = n + 1 THEN last ELSE old[i]]
<1>2. left[n + 1] = last /\ \A i \in pos - 1 .. n : left[i] = old[i]
  OBVIOUS
<1> HIDE DEF left
<1>3. ASSUME NEW i \in pos .. n + 1 PROVE left[i] = Advance(left[i - 1], vals[i])
  <2>1. CASE i = n + 1
    BY <1>1, <1>2, <2>1
  <2>2. CASE i # n + 1
    BY <1>1, <1>2, <2>2 DEF Progresses
  <2> QED
    BY <2>1, <2>2
<1> QED
  BY <1>1, <1>2, <1>3 DEF Left, Progresses

\* another trace with the same valuations leaves the same,
LEMMA LeftSame ==
    ASSUME NEW x, NEW f, NEW vals, NEW more, NEW pos \in Nat \ {0}, NEW n \in Nat,
           \A i \in 1 .. n : more[i] = vals[i], Left(x, f, vals, pos, n)
    PROVE  Left(x, f, more, pos, n)
<1>1. PICK left : Progresses(left, f, vals, pos, n) /\ x = left[n]
  BY DEF Left
<1> QED
  BY <1>1 DEF Left, Progresses

\* and at the end what is left answers as the evaluator does.
LEMMA LeftAnswers ==
    ASSUME Recursion, NEW f, Formula(f), NEW vals, Len(vals) \in Nat,
           NEW pos \in 1 .. Len(vals), NEW x, Left(x, f, vals, pos, Len(vals))
    PROVE  HoldsAtEnd(x) <=> Evaluate(f, vals, pos)
<1>1. PICK left : Progresses(left, f, vals, pos, Len(vals)) /\ x = left[Len(vals)]
  BY DEF Left
<1> QED
  BY <1>1, ProgressionCorrect

\* A progression of the formula and the position in k, over these valuations.
ProgressionOf(p, k, vals) ==
    /\ Formula(k[1])
    /\ k[2] \in Nat \ {0}
    /\ p.upto \in k[2] - 1 .. Len(vals)
    /\ Left(p.residual, k[1], vals, k[2], p.upto)
    /\ \/ p.before = Unknown
       \/ p.upto >= k[2] /\ Left(p.before, k[1], vals, k[2], p.upto - 1)

\* Where a scan stopped, or how far it looked.
ScanOf(e, trigger, vals) ==
    /\ Formula(trigger)
    /\ ~Temporal(trigger)
    /\ e.upto \in 0 .. Len(vals)
    /\ e.at \in 0 .. e.upto
    /\ e.at # 0 => Evaluate(trigger, vals, e.at)
    /\ \A i \in 1 .. e.upto : Evaluate(trigger, vals, i) => e.at # 0 /\ e.at <= i

Keeps(v) ==
    /\ Sequence(v.vals)
    /\ \A k \in DOMAIN v.progs : ProgressionOf(v.progs[k], k, v.vals)
    /\ \A t \in DOMAIN v.found : ScanOf(v.found[t], t, v.vals)

ProgressedBody(r, p, v) ==
    [i \in p.upto .. Len(v.vals) |->
        IF i = p.upto THEN p
        ELSE [residual |-> Advance(r[i - 1].residual, v.vals[i]),
              before |-> r[i - 1].residual, upto |-> i]]

\* Bringing a progression up to date is defined.
LEMMA ProgressedExists ==
    ASSUME NEW p, NEW v, p.upto \in Nat, Len(v.vals) \in Nat, p.upto <= Len(v.vals)
    PROVE  \E r : r = ProgressedBody(r, p, v)
<1> DEFINE a == p.upto
           n == Len(v.vals)
           Advanced(q, i) == [residual |-> Advance(q.residual, v.vals[i]),
                           before |-> q.residual, upto |-> i]
           Chain(r, m) == /\ r[a] = p
                          /\ \A i \in a + 1 .. m : r[i] = Advanced(r[i - 1], i)
           S == {k \in Nat : \E r : Chain(r, a + k)}
<1>1. a \in Nat /\ n \in Nat /\ a <= n
  OBVIOUS
<1>2. 0 \in S
  <2> DEFINE r == [k \in {a} |-> p]
  <2>1. r[a] = p
    OBVIOUS
  <2> HIDE DEF r
  <2> QED
    BY <1>1, <2>1
<1>3. ASSUME NEW k \in Nat, k \in S PROVE k + 1 \in S
  <2> DEFINE m == a + k
  <2> SUFFICES \E r : Chain(r, m + 1)
    BY <1>1
  <2>1. PICK old : Chain(old, m)
    BY <1>3
  <2> DEFINE last == Advanced(old[m], m + 1)
             r == [i \in a .. m + 1 |-> IF i = m + 1 THEN last ELSE old[i]]
  <2>2. r[m + 1] = last /\ \A i \in a .. m : r[i] = old[i]
    BY <1>1
  <2> HIDE DEF r
  <2>3. ASSUME NEW i \in a + 1 .. m + 1 PROVE r[i] = Advanced(r[i - 1], i)
    <3>1. CASE i = m + 1
      <4> HIDE DEF Advanced
      <4> QED
        BY <1>1, <2>2, <3>1
    <3>2. CASE i # m + 1
      <4> HIDE DEF Advanced
      <4> QED
        BY <1>1, <2>1, <2>2, <3>2
    <3> QED
      BY <3>1, <3>2
  <2>4. r[a] = p
    <3>1. old[a] = p
      BY <2>1
    <3> HIDE DEF a, Chain, Advanced
    <3> QED
      BY <1>1, <2>2, <3>1
  <2> QED
    BY <2>3, <2>4
<1>4. \A k \in Nat : k \in S
  <2> HIDE DEF S
  <2> QED
    BY <1>2, <1>3, AllNumbers
<1>5. \E r : Chain(r, n)
  <2>1. n - a \in Nat /\ a + (n - a) = n
    BY <1>1
  <2> HIDE DEF Chain
  <2> QED
    BY <1>4, <2>1
<1>6. PICK f : Chain(f, n)
  BY <1>5
<1> DEFINE r == [k \in a .. n |-> f[k]]
<1> HIDE DEF Advanced
<1>7. ASSUME NEW i \in a .. n, i # a PROVE r[i] = Advanced(r[i - 1], i)
  BY <1>1, <1>6, <1>7
<1>8. r[a] = p
  BY <1>1, <1>6
<1>9. r = ProgressedBody(r, p, v)
  <2>1. r = [k \in a .. n |-> r[k]]
    OBVIOUS
  <2> HIDE DEF r
  <2>2. r = [k \in a .. n |-> IF k = a THEN p ELSE Advanced(r[k - 1], k)]
    BY <1>7, <1>8, <2>1
  <2> QED
    BY <2>2, Zenon DEF ProgressedBody, Advanced
<1> QED
  BY <1>9

\* Bringing a progression up to the last valuation.
LEMMA ProgressedIs ==
    ASSUME NEW v, Keeps(v), NEW f, Formula(f), NEW pos \in 1 .. Len(v.vals)
    PROVE  /\ ProgressionOf(Progressed(v, f, pos), <<f, pos>>, v.vals)
           /\ Progressed(v, f, pos).upto = Len(v.vals)
<1> DEFINE n == Len(v.vals)
           key == <<f, pos>>
           start == [residual |-> Initial(f), before |-> Unknown, upto |-> pos - 1]
           p == Get(v.progs, key, start)
           r == CHOOSE q : q = ProgressedBody(q, p, v)
<1>1. n \in Nat /\ pos \in Nat \ {0}
  BY SequenceIs DEF Keeps
<1>2. key[1] = f /\ key[2] = pos
  OBVIOUS
<1>3. ProgressionOf(p, key, v.vals)
  <2>1. CASE key \in DOMAIN v.progs
    BY <2>1 DEF Get, Keeps
  <2>2. CASE key \notin DOMAIN v.progs
    <3>1. p = start
      BY <2>2 DEF Get
    <3>2. start.residual = Initial(f) /\ start.before = Unknown /\ start.upto = pos - 1
      OBVIOUS
    <3> HIDE DEF start, key, p
    <3> QED
      BY <1>1, <1>2, <3>1, <3>2, LeftAtFirst DEF ProgressionOf
  <2> QED
    BY <2>1, <2>2
<1>4. Progressed(v, f, pos) = IF p.upto >= n THEN p ELSE r[n]
  BY Zenon DEF Progressed, ProgressedBody
<1> HIDE DEF start, p
<1>5. p.upto \in pos - 1 .. n
  BY <1>2, <1>3 DEF ProgressionOf
<1>6. r = ProgressedBody(r, p, v)
  BY <1>1, <1>5, ProgressedExists
<1> HIDE DEF r, key
<1>7. ASSUME NEW i \in p.upto .. n
      PROVE  /\ i = p.upto => r[i] = p
             /\ i # p.upto => r[i] = [residual |-> Advance(r[i - 1].residual, v.vals[i]),
                                      before |-> r[i - 1].residual, upto |-> i]
  BY <1>6 DEF ProgressedBody
<1> DEFINE Good(i) == ProgressionOf(r[i], key, v.vals) /\ r[i].upto = i
           S == {k \in Nat : k \in p.upto .. n => Good(k)}
<1>8. Good(p.upto)
  <2>1. p.upto \in p.upto .. n
    BY <1>1, <1>5
  <2> QED
    BY <1>3, <1>7, <2>1
<1>9. 0 \in S
  <2> HIDE DEF Good
  <2> QED
    BY <1>1, <1>5, <1>8
<1>10. ASSUME NEW k \in Nat, k \in S PROVE k + 1 \in S
  <2> SUFFICES ASSUME k + 1 \in p.upto .. n PROVE Good(k + 1)
    OBVIOUS
  <2>1. CASE k + 1 = p.upto
    <3> HIDE DEF Good
    <3> QED
      BY <1>8, <2>1
  <2>2. CASE k + 1 # p.upto
    <3>1. k \in p.upto .. n /\ (k + 1) - 1 = k /\ pos - 1 <= k /\ k + 1 \in pos .. n
      BY <1>1, <1>5, <2>2
    <3> DEFINE x == Advance(r[k].residual, v.vals[k + 1])
               q == [residual |-> x, before |-> r[k].residual, upto |-> k + 1]
    <3>2. r[k + 1] = q
      BY <1>7, <2>2, <3>1
    <3>3. Left(r[k].residual, f, v.vals, pos, k)
      BY <1>2, <1>10, <3>1 DEF ProgressionOf
    <3>4. Left(x, f, v.vals, pos, k + 1)
      BY <1>1, <3>1, <3>3, LeftNext
    <3>5. q.residual = x /\ q.before = r[k].residual /\ q.upto = k + 1
      OBVIOUS
    <3> HIDE DEF x, q
    <3> QED
      BY <1>1, <1>2, <3>1, <3>2, <3>3, <3>4, <3>5 DEF ProgressionOf
  <2> QED
    BY <2>1, <2>2
<1>11. \A k \in Nat : k \in S
  <2> HIDE DEF S
  <2> QED
    BY <1>9, <1>10, AllNumbers
<1>12. CASE p.upto >= n
  BY <1>1, <1>3, <1>4, <1>5, <1>12 DEF key
<1>13. CASE ~(p.upto >= n)
  BY <1>1, <1>4, <1>5, <1>11, <1>13 DEF key
<1> QED
  BY <1>12, <1>13

\* Consulting a formula answers as the reference evaluator does.
LEMMA HoldsFromIs ==
    ASSUME Recursion, NEW v, Keeps(v), NEW f, Formula(f), NEW pos \in Nat \ {0}
    PROVE  HoldsFrom(v, f, pos) <=> Evaluate(f, v.vals, pos)
<1>1. Len(v.vals) \in Nat
  BY SequenceIs DEF Keeps
<1>2. CASE pos > Len(v.vals)
  BY <1>2 DEF HoldsFrom
<1>3. CASE ~(pos > Len(v.vals))
  <2>1. pos \in 1 .. Len(v.vals)
    BY <1>1, <1>3
  <2> DEFINE key == <<f, pos>>
             p == Progressed(v, f, pos)
  <2>2. key[1] = f /\ key[2] = pos
    OBVIOUS
  <2>3. ProgressionOf(p, key, v.vals) /\ p.upto = Len(v.vals)
    BY <2>1, ProgressedIs
  <2>4. HoldsFrom(v, f, pos) <=> HoldsAtEnd(p.residual)
    BY <1>3 DEF HoldsFrom
  <2> HIDE DEF key, p
  <2> QED
    BY <1>1, <2>1, <2>2, <2>3, <2>4, LeftAnswers DEF ProgressionOf
<1> QED
  BY <1>2, <1>3

\* An F or a G is one on a formula.
LEMMA FormulaShape ==
    ASSUME NEW f, Formula(f)
    PROVE  /\ f.op = "F" => Formula(f.of) /\ f = F(f.of)
           /\ f.op = "G" => Formula(f.of) /\ f = G(f.of)
<1>1. PICK S : Built(f, S) /\ \A g \in S : Formula(g)
  BY FormulaParts
<1>2. CASE \E g \in S : f \in {F(g), G(g)}
  <2>1. PICK g \in S : f \in {F(g), G(g)}
    BY <1>2
  <2> QED
    BY <1>1, <2>1 DEF F, G
<1>3. CASE ~\E g \in S : f \in {F(g), G(g)}
  <2>1. f.op \notin {"F", "G"}
    <3>1. CASE f \in {Top, Bottom} \/ (\E k : f = Atom(k)) \/ \E l, r : f = Le(l, r) \/ f = Ge(l, r)
      BY <3>1 DEF Top, Bottom, Atom, Le, Ge
    <3>2. CASE \/ \E g \in S : f \in {Not(g), X(g)}
               \/ \E g, h \in S : f \in {Implies(g, h), U(g, h)}
      BY <3>2 DEF Not, X, Implies, U
    <3>3. CASE \E P \in SUBSET S : IsFiniteSet(P) /\ f \in {And(P), Or(P)}
      BY <3>3 DEF And, Or
    <3> QED
      BY <1>1, <1>3, <3>1, <3>2, <3>3, Zenon DEF Built
  <2> QED
    BY <2>1
<1> QED
  BY <1>2, <1>3

\* A trigger is a formula.
LEMMA TriggerFormula ==
    ASSUME NEW f, Formula(f)
    PROVE  Formula(Trigger(f))
  BY FormulaShape DEF Trigger

\* x is the first position f holds at, 0 for none.
FirstOf(x, f, vals) ==
    /\ x \in 0 .. Len(vals)
    /\ x = 0 => \A i \in 1 .. Len(vals) : ~Evaluate(f, vals, i)
    /\ x # 0 => Evaluate(f, vals, x) /\ \A i \in 1 .. x - 1 : ~Evaluate(f, vals, i)

\* A scan that found nothing before from finds the first position.
LEMMA FirstAtIs ==
    ASSUME NEW v, Len(v.vals) \in Nat, NEW f, NEW from \in 1 .. Len(v.vals) + 1,
           \A i \in 1 .. from - 1 : ~Evaluate(f, v.vals, i)
    PROVE  FirstOf(FirstAt(v, f, from), f, v.vals)
<1> DEFINE n == Len(v.vals)
           at == {i \in from .. n : Evaluate(f, v.vals, i)}
<1>1. FirstAt(v, f, from) = IF at = {} THEN 0 ELSE CHOOSE i \in at : \A j \in at : i <= j
  BY DEF FirstAt
<1>2. \A i \in 1 .. n : Evaluate(f, v.vals, i) => i \in at
  <2> TAKE i \in 1 .. n
  <2> QED
    OBVIOUS
<1>3. CASE at = {}
  BY <1>1, <1>2, <1>3 DEF FirstOf
<1>4. CASE at # {}
  <2> DEFINE x == CHOOSE i \in at : \A j \in at : i <= j
  <2>1. at \subseteq Nat
    OBVIOUS
  <2>2. x \in at /\ \A j \in at : x <= j
    <3> HIDE DEF at
    <3> QED
      BY <1>4, <2>1, Least
  <2> HIDE DEF x
  <2>3. x \in 1 .. n /\ Evaluate(f, v.vals, x)
    BY <2>2
  <2>4. \A i \in 1 .. x - 1 : ~Evaluate(f, v.vals, i)
    <3> HIDE DEF at
    <3> QED
      BY <1>2, <2>2, <2>3
  <2>5. FirstAt(v, f, from) = x
    BY <1>1, <1>4 DEF x
  <2> QED
    BY <2>3, <2>4, <2>5 DEF FirstOf
<1> QED
  BY <1>3, <1>4

\* So does one that resumes where it stopped.
LEMMA ScannedIs ==
    ASSUME NEW v, Keeps(v), NEW f, Formula(f), ~Temporal(f)
    PROVE  /\ ScanOf(Scanned(v, f), f, v.vals)
           /\ FirstOf(Scanned(v, f).at, f, v.vals)
<1> DEFINE n == Len(v.vals)
           none == [upto |-> 0, at |-> 0]
           e == Get(v.found, f, none)
           next == FirstAt(v, f, e.upto + 1)
<1>1. n \in Nat
  BY SequenceIs DEF Keeps
<1>2. ScanOf(e, f, v.vals)
  <2>1. CASE f \in DOMAIN v.found
    BY <2>1 DEF Get, Keeps
  <2>2. CASE f \notin DOMAIN v.found
    <3>1. e = none /\ none.upto = 0 /\ none.at = 0
      BY <2>2 DEF Get
    <3> HIDE DEF none, e
    <3> QED
      BY <1>1, <3>1 DEF ScanOf
  <2> QED
    BY <2>1, <2>2
<1>3. /\ Scanned(v, f).upto = IF e.at # 0 THEN e.upto ELSE n
      /\ Scanned(v, f).at = IF e.at # 0 THEN e.at ELSE next
  BY DEF Scanned
<1> HIDE DEF e, none, next
<1>4. CASE e.at # 0
  BY <1>1, <1>2, <1>3, <1>4 DEF FirstOf, ScanOf
<1>5. CASE e.at = 0
  <2>1. FirstOf(next, f, v.vals)
    BY <1>1, <1>2, <1>5, FirstAtIs DEF next, ScanOf
  <2>2. \A i \in 1 .. n : Evaluate(f, v.vals, i) => next # 0 /\ next <= i
    <3> SUFFICES ASSUME NEW i \in 1 .. n, Evaluate(f, v.vals, i), ~(next # 0 /\ next <= i)
                 PROVE FALSE
      OBVIOUS
    <3> QED
      BY <1>1, <2>1 DEF FirstOf
  <2> QED
    BY <1>1, <1>3, <1>5, <2>1, <2>2 DEF ScanOf, FirstOf
<1> QED
  BY <1>4, <1>5

\* The position an assumption was activated at is the first.
LEMMA ActivationIs ==
    ASSUME NEW v, Keeps(v), NEW f, Formula(f)
    PROVE  FirstOf(Activation(v, f), f, v.vals)
<1>1. CASE Temporal(f)
  BY <1>1, FirstAtIs, SequenceIs DEF Activation, Keeps
<1>2. CASE ~Temporal(f)
  BY <1>2, ScannedIs DEF Activation
<1> QED
  BY <1>1, <1>2

\* A contract of the language: assumptions in order, formulas all.
WellFormed(c) ==
    /\ Sequence(c.assumptions)
    /\ \A f \in FormulasOf(c) : Formula(f)

\* The assumptions are met, and the rules evaluated from the position, that
\* the reference evaluator says.
LEMMA UnmetIs ==
    ASSUME Recursion, NEW v, Keeps(v), NEW c, NEW a, Formula(a)
    PROVE  ~Unmet(v, c, a) <=>
               IF c.reactive THEN \E k \in DOMAIN v.vals : Evaluate(Trigger(a), v.vals, k)
               ELSE Evaluate(a, v.vals, 1)
<1>1. CASE c.reactive
  <2>1. DOMAIN v.vals = 1 .. Len(v.vals) /\ Len(v.vals) \in Nat
    BY SequenceIs DEF Keeps
  <2> QED
    BY <1>1, <2>1, ActivationIs, TriggerFormula DEF FirstOf, Unmet
<1>2. CASE ~c.reactive
  BY <1>2, HoldsFromIs DEF Unmet
<1> QED
  BY <1>1, <1>2

\* Assumptions are met as the reference evaluator says,
LEMMA AssumptionsMetIs ==
    ASSUME Recursion, NEW v, Keeps(v), NEW c, WellFormed(c)
    PROVE  AssumptionsMet(v, c) <=> Met(c, v.vals)
  BY UnmetIs DEF AssumptionsMet, Met, WellFormed, FormulasOf

\* and the rules are evaluated from the position it says.
LEMMA PositionIs ==
    ASSUME Recursion, NEW v, Keeps(v), NEW c, WellFormed(c), AssumptionsMet(v, c)
    PROVE  /\ Position(v, c) = From(c, v.vals)
           /\ Position(v, c) \in Nat \ {0}
           /\ Position(v, c) <= Len(v.vals) \/ Position(v, c) = 1
<1> DEFINE n == Len(v.vals)
<1>1. n \in Nat /\ DOMAIN v.vals = 1 .. n
  BY SequenceIs DEF Keeps
<1>2. CASE ~(c.reactive /\ c.assumptions # <<>>)
  BY <1>2 DEF Position, From
<1>3. CASE c.reactive /\ c.assumptions # <<>>
  <2> DEFINE at == {Activation(v, t) : t \in Triggers(c)}
             firsts == {First(f, v.vals) : f \in Triggers(c)}
  <2>1. ASSUME NEW t \in Triggers(c)
        PROVE  /\ Activation(v, t) = First(t, v.vals)
               /\ Activation(v, t) \in 1 .. n
    <3>1. PICK i \in DOMAIN c.assumptions : t = Trigger(c.assumptions[i])
      BY DEF Triggers
    <3> DEFINE x == Activation(v, t)
    <3>2. x \in 1 .. n /\ Evaluate(t, v.vals, x) /\ \A j \in 1 .. x - 1 : ~Evaluate(t, v.vals, j)
      BY <1>1, <1>3, <3>1, ActivationIs, TriggerFormula DEF FirstOf,
         AssumptionsMet, Unmet, WellFormed, FormulasOf
    <3> HIDE DEF x
    <3> DEFINE Q(k) == Evaluate(t, v.vals, k) /\ \A j \in 1 .. k - 1 : ~Evaluate(t, v.vals, j)
               y == CHOOSE k \in DOMAIN v.vals : Q(k)
    <3>3. y \in 1 .. n /\ Q(y)
      BY <1>1, <3>2
    <3> HIDE DEF y
    <3>4. ~(x < y) /\ ~(y < x)
      <4>1. ASSUME x < y PROVE FALSE
        BY <1>1, <3>2, <3>3, <4>1
      <4>2. ASSUME y < x PROVE FALSE
        BY <1>1, <3>2, <3>3, <4>2
      <4> QED
        BY <4>1, <4>2
    <3> QED
      BY <1>1, <3>2, <3>3, <3>4 DEF x, First
  <2>2. at = firsts
    BY <2>1
  <2>3. at # {}
    <3>1. 1 \in DOMAIN c.assumptions
      BY <1>3, SequenceIs, NoLength DEF WellFormed
    <3> QED
      BY <3>1 DEF Triggers
  <2>4. at \subseteq 0 .. n /\ at \subseteq 1 .. n
    BY <1>1, <2>1
  <2>5. Position(v, c) = CHOOSE k \in at : \A j \in at : j <= k
    BY <1>3 DEF Position
  <2>6. From(c, v.vals) = CHOOSE k \in firsts : \A j \in firsts : j <= k
    BY <1>3 DEF From
  <2> HIDE DEF at, firsts
  <2>7. Position(v, c) = From(c, v.vals)
    BY <2>2, <2>5, <2>6
  <2>8. Position(v, c) \in 1 .. n
    BY <1>1, <2>3, <2>4, <2>5, Greatest
  <2> QED
    BY <1>1, <2>7, <2>8
<1> QED
  BY <1>2, <1>3

\* The rules that are broken are those the reference evaluator finds broken.
LEMMA BrokenIs ==
    ASSUME Recursion, NEW v, Keeps(v), NEW c, WellFormed(c), NEW atEnd, NEW r
    PROVE  r \in Broken(v, c, atEnd) <=> r \in RulesChecked(c, atEnd) /\ Breaks(c, r, v.vals)
<1>1. AssumptionsMet(v, c) <=> Met(c, v.vals)
  BY AssumptionsMetIs
<1>2. CASE ~AssumptionsMet(v, c)
  BY <1>1, <1>2 DEF Broken, Breaks
<1>3. CASE AssumptionsMet(v, c)
  BY <1>1, <1>3, HoldsFromIs, PositionIs DEF Breaks, Broken, RulesChecked,
     WellFormed, FormulasOf
<1> QED
  BY <1>2, <1>3

\* What was kept of a shorter trace is right of a longer one.
LEMMA KeepsMore ==
    ASSUME Recursion, NEW v, Keeps(v), NEW w, Sequence(w.vals), Len(v.vals) <= Len(w.vals),
           \A i \in 1 .. Len(v.vals) : w.vals[i] = v.vals[i],
           w.progs = v.progs, w.found = v.found
    PROVE  Keeps(w)
<1>1. Len(v.vals) \in Nat /\ Len(w.vals) \in Nat
  BY SequenceIs DEF Keeps
<1>2. ASSUME NEW k \in DOMAIN v.progs PROVE ProgressionOf(v.progs[k], k, w.vals)
  <2> DEFINE p == v.progs[k]
  <2>1. ProgressionOf(p, k, v.vals)
    BY DEF Keeps
  <2> HIDE DEF p
  <2>2. p.upto \in k[2] - 1 .. Len(w.vals) /\ p.upto \in Nat /\ k[2] \in Nat \ {0}
    BY <1>1, <2>1 DEF ProgressionOf
  <2>3. \A i \in 1 .. p.upto : w.vals[i] = v.vals[i]
    BY <1>1, <2>1, <2>2 DEF ProgressionOf
  <2>4. Left(p.residual, k[1], w.vals, k[2], p.upto)
    BY <2>1, <2>2, <2>3, LeftSame DEF ProgressionOf
  <2>5. CASE p.before = Unknown
    BY <2>1, <2>2, <2>4, <2>5 DEF ProgressionOf, p
  <2>6. CASE p.before # Unknown
    <3>1. p.upto >= k[2] /\ Left(p.before, k[1], v.vals, k[2], p.upto - 1)
      BY <2>1, <2>6 DEF ProgressionOf
    <3>2. p.upto - 1 \in Nat
      BY <2>2, <3>1
    <3>3. \A i \in 1 .. p.upto - 1 : w.vals[i] = v.vals[i]
      BY <2>2, <2>3, <3>1
    <3> QED
      BY <2>1, <2>2, <2>4, <3>1, <3>2, <3>3, LeftSame DEF ProgressionOf, p
  <2> QED
    BY <2>5, <2>6
<1>3. ASSUME NEW t \in DOMAIN v.found PROVE ScanOf(v.found[t], t, w.vals)
  <2> DEFINE e == v.found[t]
  <2>1. ScanOf(e, t, v.vals)
    BY DEF Keeps
  <2> HIDE DEF e
  <2>2. e.upto \in 0 .. Len(v.vals) /\ e.upto \in 0 .. Len(w.vals) /\ e.at \in 0 .. e.upto
    BY <1>1, <2>1 DEF ScanOf
  <2>3. ASSUME NEW i \in 1 .. e.upto PROVE Evaluate(t, w.vals, i) <=> Evaluate(t, v.vals, i)
    <3>1. Formula(t) /\ ~Temporal(t)
      BY <2>1 DEF ScanOf
    <3> QED
      BY <1>1, <2>2, <3>1, Locality
  <2> QED
    BY <1>1, <2>1, <2>2, <2>3 DEF ScanOf, e
<1> QED
  BY <1>2, <1>3 DEF Keeps

\* v is a verifier of trace t, which it has seen the first events of.
VerifierOf(v, t) ==
    /\ DOMAIN v = {"vals", "state", "before", "progs", "found"}
    /\ v = [x \in DOMAIN v |-> v[x]]
    /\ Keeps(v)
    /\ Len(v.vals) \in 0 .. Len(t)
    /\ v.vals = ValsTo(t, Len(v.vals), Timed)
    /\ v.state = States(t)[Len(v.vals)]
    /\ \/ v.before = NoState
       \/ Len(v.vals) > 0 /\ v.before = States(t)[Len(v.vals) - 1]

\* The valuations of a trace are a sequence.
LEMMA ValsAre ==
    ASSUME NEW t, NEW n \in Nat, NEW timed
    PROVE  /\ Sequence(ValsTo(t, n, timed))
           /\ Len(ValsTo(t, n, timed)) = n
           /\ \A i \in 1 .. n : ValsTo(t, n, timed)[i] = ValOf(t, i, timed)
<1> DEFINE w == ValsTo(t, n, timed)
<1> HIDE DEF w
<1> QED
  BY MadeSequence DEF w, ValsTo

\* A new verifier is one of any trace.
LEMMA NewVerifierOf ==
    ASSUME NEW t, Len(t) \in Nat
    PROVE  VerifierOf(NewVerifier, t)
<1> DEFINE v == NewVerifier
<1>1. /\ DOMAIN v = {"vals", "state", "before", "progs", "found"}
      /\ v = [x \in DOMAIN v |-> v[x]]
      /\ v.vals = <<>> /\ v.state = Fresh /\ v.before = NoState
      /\ v.progs = <<>> /\ v.found = <<>>
  BY DEF NewVerifier
<1> HIDE DEF v
<1> QED
  BY <1>1, StatesAre, EmptySequence DEF v, VerifierOf, ValsTo, Keeps

\* It is one of any trace that begins with the events it has seen.
LEMMA VerifierOfAnother ==
    ASSUME NEW v, NEW t, NEW u, VerifierOf(v, t), Len(t) \in Nat, Len(u) \in Nat,
           Len(v.vals) <= Len(u), \A i \in 1 .. Len(v.vals) : u[i] = t[i]
    PROVE  VerifierOf(v, u)
  BY SameStates DEF VerifierOf

\* Synced, a verifier has read all of the trace.
LEMMA SyncedIs ==
    ASSUME Recursion, NEW v, NEW t, Len(t) \in Nat, VerifierOf(v, t)
    PROVE  /\ VerifierOf(Synced(v, t, Timed), t)
           /\ Synced(v, t, Timed).vals = ValsTo(t, Len(t), Timed)
           /\ Len(Synced(v, t, Timed).vals) = Len(t)
<1> DEFINE r == GroundFrom(v, t, Timed)
           n == Len(v.vals)
<1>1. n \in 0 .. Len(t) /\ n \in Nat
  BY DEF VerifierOf
<1>2. Synced(v, t, Timed) = r
  BY <1>1 DEF Synced
<1>3. GroundedTo(r, v, t, Len(t), Timed)
  BY <1>1, GroundFromIs DEF VerifierOf, GroundedTo
<1> HIDE DEF r
<1>4. r.vals = ValsTo(t, Len(t), Timed) /\ Len(r.vals) = Len(t) /\ Sequence(r.vals)
  <2>1. Sequence(ValsTo(t, Len(t), Timed)) /\ Len(ValsTo(t, Len(t), Timed)) = Len(t)
    BY ValsAre
  <2> QED
    BY <1>3, <2>1 DEF GroundedTo
<1>5. r.progs = v.progs /\ r.found = v.found
  BY <1>3 DEF GroundedTo, VerifierOf
<1>6. \/ r.before = NoState
      \/ Len(r.vals) > 0 /\ r.before = States(t)[Len(r.vals) - 1]
  <2>1. CASE Len(t) = n
    BY <1>3, <1>4, <2>1 DEF GroundedTo, VerifierOf
  <2>2. CASE Len(t) # n
    BY <1>1, <1>3, <1>4, <2>2 DEF GroundedTo
  <2> QED
    BY <2>1, <2>2
<1> QED
  BY <1>1, <1>2, <1>3, <1>4, <1>5, <1>6, KeepsMore, ValsAre DEF GroundedTo,
     VerifierOf

\* What checking a contract consults.
LEMMA ConsultedIs ==
    ASSUME Recursion, NEW v, Keeps(v), NEW c, WellFormed(c), NEW atEnd,
           NEW k \in Consulted(v, c, atEnd)
    PROVE  k = <<k[1], k[2]>> /\ Formula(k[1]) /\ k[2] \in Nat \ {0}
<1>1. CASE k \in (IF c.reactive THEN {} ELSE {<<c.assumptions[i], 1>> : i \in Reached(v, c)})
  <2>1. PICK i \in Reached(v, c) : k = <<c.assumptions[i], 1>>
    BY <1>1
  <2> QED
    BY <2>1 DEF WellFormed, FormulasOf, Reached
<1>2. CASE ~(k \in (IF c.reactive THEN {} ELSE {<<c.assumptions[i], 1>> : i \in Reached(v, c)}))
  BY <1>2, PositionIs, BrokenIs DEF Consulted, RulesChecked, WellFormed,
     FormulasOf
<1> QED
  BY <1>1, <1>2

\* Checking contracts leaves a verifier of the same trace.
LEMMA CheckedIs ==
    ASSUME Recursion, NEW v, NEW t, VerifierOf(v, t), NEW contracts,
           \A c \in contracts : WellFormed(c), NEW atEnd
    PROVE  /\ VerifierOf(Checked(v, contracts, atEnd), t)
           /\ Checked(v, contracts, atEnd).vals = v.vals
<1> DEFINE touched == UNION {Consulted(v, c, atEnd) : c \in contracts}
           present == {k \in touched : k[2] <= Len(v.vals)}
           scanned == UNION {{Trigger(c.assumptions[i]) : i \in Reached(v, c)} :
                                 c \in {d \in contracts : d.reactive}}
           here == {s \in scanned : ~Temporal(s)}
           newProgs == [k \in present |-> Progressed(v, k[1], k[2])]
           newFound == [s \in here |-> Scanned(v, s)]
           progs == newProgs ++ v.progs
           found == newFound ++ v.found
           w == Checked(v, contracts, atEnd)
<1>1. w = [v EXCEPT !.progs = progs, !.found = found]
  BY DEF Checked
<1>2. Keeps(v) /\ Len(v.vals) \in Nat
  BY SequenceIs DEF VerifierOf, Keeps
<1>3. ASSUME NEW k \in present PROVE ProgressionOf(newProgs[k], k, v.vals)
  <2>1. PICK c \in contracts : k \in Consulted(v, c, atEnd)
    OBVIOUS
  <2>2. k = <<k[1], k[2]>> /\ Formula(k[1]) /\ k[2] \in Nat \ {0}
    BY <1>2, <2>1, ConsultedIs
  <2>3. ProgressionOf(Progressed(v, k[1], k[2]), <<k[1], k[2]>>, v.vals)
    BY <1>2, <2>2, ProgressedIs
  <2>4. newProgs[k] = Progressed(v, k[1], k[2])
    OBVIOUS
  <2> HIDE DEF present, newProgs
  <2> QED
    BY <2>2, <2>3, <2>4
<1>4. ASSUME NEW s \in here PROVE ScanOf(newFound[s], s, v.vals)
  <2>1. PICK c \in contracts : \E i \in Reached(v, c) : s = Trigger(c.assumptions[i])
    OBVIOUS
  <2>2. PICK i \in Reached(v, c) : s = Trigger(c.assumptions[i])
    BY <2>1
  <2> QED
    BY <1>2, <2>2, ScannedIs, TriggerFormula DEF WellFormed, FormulasOf, Reached
<1>5. DOMAIN newProgs = present /\ DOMAIN newFound = here
  OBVIOUS
<1> HIDE DEF present, here, newProgs, newFound
<1>6. \A k \in DOMAIN progs : ProgressionOf(progs[k], k, v.vals)
  <2>1. /\ DOMAIN progs = DOMAIN newProgs \cup DOMAIN v.progs
        /\ \A k \in DOMAIN progs :
               progs[k] = IF k \in DOMAIN newProgs THEN newProgs[k] ELSE v.progs[k]
    BY DEF ++
  <2> HIDE DEF progs
  <2> QED
    BY <1>2, <1>3, <1>5, <2>1 DEF Keeps
<1>7. \A s \in DOMAIN found : ScanOf(found[s], s, v.vals)
  <2>1. /\ DOMAIN found = DOMAIN newFound \cup DOMAIN v.found
        /\ \A s \in DOMAIN found :
               found[s] = IF s \in DOMAIN newFound THEN newFound[s] ELSE v.found[s]
    BY DEF ++
  <2> HIDE DEF found
  <2> QED
    BY <1>2, <1>4, <1>5, <2>1 DEF Keeps
<1> HIDE DEF progs, found, w
<1> QED
  BY <1>1, <1>2, <1>6, <1>7 DEF w, VerifierOf, Keeps

\* A progression, or a scan, that is put back is right of the shorter trace.
LEMMA ProgressionBack ==
    ASSUME NEW p, NEW k, NEW vals, Sequence(vals), NEW n \in Nat \ {0}, Len(vals) = n,
           ProgressionOf(p, k, vals), p.upto < n \/ p.before # Unknown
    PROVE  ProgressionOf(IF p.upto < n THEN p
                         ELSE [residual |-> p.before, before |-> Unknown, upto |-> n - 1],
                         k, SubSeq(vals, 1, n - 1))
<1> DEFINE short == SubSeq(vals, 1, n - 1)
<1>1. Len(short) = n - 1 /\ \A i \in 1 .. n - 1 : short[i] = vals[i]
  BY Prefix
<1> HIDE DEF short
<1>2. k[2] \in Nat \ {0} /\ p.upto \in k[2] - 1 .. n /\ p.upto \in Nat
  BY DEF ProgressionOf
<1>3. CASE p.upto < n
  <2>1. p.upto \in k[2] - 1 .. n - 1
    BY <1>2, <1>3
  <2>2. \A i \in 1 .. p.upto : short[i] = vals[i]
    BY <1>1, <2>1
  <2>3. Left(p.residual, k[1], short, k[2], p.upto)
    BY <1>2, <2>2, LeftSame DEF ProgressionOf
  <2>4. CASE p.before = Unknown
    BY <1>1, <1>2, <1>3, <2>1, <2>3, <2>4 DEF short, ProgressionOf
  <2>5. CASE p.before # Unknown
    <3>1. p.upto >= k[2] /\ Left(p.before, k[1], vals, k[2], p.upto - 1)
      BY <2>5 DEF ProgressionOf
    <3>2. Left(p.before, k[1], short, k[2], p.upto - 1)
      BY <1>2, <2>2, <3>1, LeftSame
    <3> QED
      BY <1>1, <1>2, <1>3, <2>1, <2>3, <3>1, <3>2 DEF short, ProgressionOf
  <2> QED
    BY <2>4, <2>5
<1>4. CASE ~(p.upto < n)
  <2> DEFINE q == [residual |-> p.before, before |-> Unknown, upto |-> n - 1]
  <2>1. q.residual = p.before /\ q.before = Unknown /\ q.upto = n - 1
    OBVIOUS
  <2> HIDE DEF q
  <2>2. ProgressionOf(q, k, short)
    BY <1>1, <1>2, <1>4, <2>1, LeftSame DEF ProgressionOf
  <2> QED
    BY <1>4, <2>2 DEF short, q
<1> QED
  BY <1>3, <1>4

\* The same of a scan.
LEMMA ScanBack ==
    ASSUME Recursion, NEW e, NEW f, NEW vals, Sequence(vals), NEW n \in Nat \ {0},
           Len(vals) = n, ScanOf(e, f, vals)
    PROVE  ScanOf([upto |-> IF e.upto < n THEN e.upto ELSE n - 1,
                   at |-> IF e.at = n THEN 0 ELSE e.at],
                  f, SubSeq(vals, 1, n - 1))
<1> DEFINE short == SubSeq(vals, 1, n - 1)
           upto == IF e.upto < n THEN e.upto ELSE n - 1
           at == IF e.at = n THEN 0 ELSE e.at
           s == [upto |-> upto, at |-> at]
<1>1. Len(short) = n - 1 /\ \A i \in 1 .. n - 1 : short[i] = vals[i]
  BY Prefix
<1>2. /\ Formula(f) /\ ~Temporal(f) /\ e.upto \in 0 .. n /\ e.at \in 0 .. e.upto
      /\ e.at # 0 => Evaluate(f, vals, e.at)
      /\ \A i \in 1 .. e.upto : Evaluate(f, vals, i) => e.at # 0 /\ e.at <= i
  BY DEF ScanOf
<1>3. upto \in 0 .. n - 1 /\ at \in 0 .. upto
  BY <1>2
<1>4. ASSUME NEW i \in 1 .. n - 1 PROVE Evaluate(f, short, i) <=> Evaluate(f, vals, i)
  <2>1. Len(short) \in Nat /\ Len(vals) \in Nat
    BY <1>1
  <2> HIDE DEF short
  <2> QED
    BY <1>1, <1>2, <2>1, Locality
<1>5. at # 0 => Evaluate(f, short, at)
  <2> SUFFICES ASSUME at # 0 PROVE Evaluate(f, short, at)
    OBVIOUS
  <2> QED
    BY <1>2, <1>3, <1>4
<1>6. ASSUME NEW i \in 1 .. upto, Evaluate(f, short, i) PROVE at # 0 /\ at <= i
  BY <1>2, <1>3, <1>4, <1>6
<1> HIDE DEF s, short, upto, at
<1> QED
  BY <1>1, <1>2, <1>3, <1>5, <1>6 DEF s, short, upto, at, ScanOf

\* Rolled back, a verifier is one of the trace without its last event.
LEMMA RolledBackIs ==
    ASSUME Recursion, NEW v, NEW t, Sequence(t), t # <<>>, VerifierOf(v, t)
    PROVE  VerifierOf(RolledBack(v), SubSeq(t, 1, Len(t) - 1))
<1> DEFINE n == Len(v.vals)
           u == SubSeq(t, 1, Len(t) - 1)
           w == RolledBack(v)
<1>1. Len(t) \in Nat /\ Len(t) # 0
  BY SequenceIs, NoLength
<1>2. Len(t) - 1 \in 0 .. Len(t)
  BY <1>1
<1>3. Len(u) = Len(t) - 1 /\ Len(u) \in Nat /\ \A i \in 1 .. Len(t) - 1 : u[i] = t[i]
  BY <1>1, <1>2, Prefix
<1> HIDE DEF u
<1>4. n \in 0 .. Len(t) /\ n \in Nat /\ Keeps(v) /\ Sequence(v.vals)
  BY <1>1 DEF VerifierOf, Keeps
<1>5. CASE n = 0 \/ v.before = NoState
  BY <1>3, <1>5, NewVerifierOf DEF u, RolledBack
<1>6. CASE ~(n = 0 \/ v.before = NoState)
  <2> DEFINE kept == {k \in DOMAIN v.progs : v.progs[k].upto < n \/ v.progs[k].before # Unknown}
             progs == [k \in kept |->
                  IF v.progs[k].upto < n THEN v.progs[k]
                  ELSE [residual |-> v.progs[k].before, before |-> Unknown,
                        upto |-> n - 1]]
             found == [s \in DOMAIN v.found |->
                  [upto |-> IF v.found[s].upto < n THEN v.found[s].upto ELSE n - 1,
                   at |-> IF v.found[s].at = n THEN 0 ELSE v.found[s].at]]
             short == SubSeq(v.vals, 1, n - 1)
  <2>1. w = [vals |-> short, state |-> v.before, before |-> NoState,
             progs |-> progs, found |-> found]
    BY <1>6 DEF RolledBack
  <2>2. n \in Nat \ {0} /\ n - 1 \in 0 .. n /\ n - 1 \in 0 .. Len(u) /\ n - 1 \in Nat
    BY <1>1, <1>3, <1>4, <1>6
  <2>3. Sequence(short) /\ Len(short) = n - 1 /\ \A i \in 1 .. n - 1 : short[i] = v.vals[i]
    BY <1>4, <2>2, Prefix
  <2>4. ASSUME NEW k \in DOMAIN progs PROVE ProgressionOf(progs[k], k, short)
    <3>1. k \in kept /\ ProgressionOf(v.progs[k], k, v.vals)
      BY <1>4 DEF Keeps
    <3> DEFINE p == v.progs[k]
    <3>2. p.upto < n \/ p.before # Unknown
      BY <3>1
    <3>3. ProgressionOf(p, k, v.vals)
      BY <3>1
    <3>4. progs[k] = IF p.upto < n THEN p
                     ELSE [residual |-> p.before, before |-> Unknown, upto |-> n - 1]
      BY <3>1
    <3> HIDE DEF p, progs, kept
    <3> QED
      BY <1>4, <2>2, <3>2, <3>3, <3>4, ProgressionBack
  <2>5. ASSUME NEW s \in DOMAIN found PROVE ScanOf(found[s], s, short)
    <3> DEFINE e == v.found[s]
    <3>1. ScanOf(e, s, v.vals)
      BY <1>4 DEF Keeps
    <3>2. found[s] = [upto |-> IF e.upto < n THEN e.upto ELSE n - 1,
                      at |-> IF e.at = n THEN 0 ELSE e.at]
      OBVIOUS
    <3> HIDE DEF e, found
    <3>3. Len(v.vals) = n /\ n \in Nat \ {0} /\ Sequence(v.vals)
      BY <1>4, <2>2
    <3>4. ScanOf([upto |-> IF e.upto < n THEN e.upto ELSE n - 1,
                  at |-> IF e.at = n THEN 0 ELSE e.at], s, SubSeq(v.vals, 1, n - 1))
      <4> HIDE DEF n
      <4> QED
        BY <3>1, <3>3, ScanBack
    <3> QED
      BY <3>2, <3>4
  <2> HIDE DEF w, progs, found, short
  <2>6. \A i \in 1 .. n - 1 : t[i] = u[i]
    BY <1>3, <2>2
  <2>7. /\ \A i \in 0 .. n - 1 : States(t)[i] = States(u)[i]
        /\ ValsTo(t, n - 1, Timed) = ValsTo(u, n - 1, Timed)
    <3>1. n - 1 \in 0 .. Len(t) /\ n - 1 <= Len(u)
      BY <1>4, <2>2
    <3> QED
      BY <1>1, <1>3, <2>6, <3>1, SameStates
  <2>8. short = ValsTo(t, n - 1, Timed)
    <3>1. \A i \in 1 .. n - 1 : short[i] = ValOf(t, i, Timed)
      BY <1>4, <2>2, <2>3, ValsAre DEF VerifierOf
    <3> QED
      BY <2>3, <3>1, SequenceIs DEF ValsTo
  <2> QED
    BY <1>6, <2>1, <2>2, <2>3, <2>4, <2>5, <2>7, <2>8 DEF w, u, VerifierOf,
       Keeps
<1> QED
  BY <1>5, <1>6

----------------------------------------------------------------------------
(* The verifier and the variables, through every step.                     *)

BooksOfFormulas ==
    \A name \in DOMAIN Books : \A c \in Books[name].contracts : WellFormed(c)

VerifierInv == VerifierOf(verifier, trace)

TypeInv ==
    /\ mode \in {"enforce", "observe"}
    /\ Len(trace) <= book.maxTrace
    /\ rotating \subseteq Thread
    /\ finished \in BOOLEAN
    /\ pending \subseteq UNION {Owed(c) : c \in Contracts}
    /\ overlapped \in BOOLEAN

\* The contracts of a deployment are of the language.
LEMMA ContractsAre ==
    ASSUME BooksOfFormulas, HistoryInv
    PROVE  \A c \in Contracts : WellFormed(c)
  BY DEF BooksOfFormulas, HistoryInv, Contracts

\* The deployment is the same after a step.
LEMMA SameBook ==
    ASSUME book' = book
    PROVE  Timed' = Timed /\ Contracts' = Contracts
  BY DEF Timed, Contracts

\* VerifierInv after a step, with the deployment it has now.
LEMMA Carried ==
    ASSUME book' = book
    PROVE  VerifierInv' <=> VerifierOf(verifier', trace')
  BY SameBook DEF VerifierInv, VerifierOf

\* No step changes the deployment.
LEMMA BookStays == [Next]_vars => book' = book
  BY DEF Next, vars, Check, Settle, Observe, ObserveOutput, Finish, Finished, Rotate,
         Wipe, Wiped, Reset

\* An event, recorded: the verifier reads it and checks the contracts.
LEMMA RecordedIs ==
    ASSUME Recursion, BooksOfFormulas, HistoryInv, VerifierInv, NEW e, Recorded(e)
    PROVE  /\ VerifierOf(verifier', trace')
           /\ verifier'.vals = ValsTo(trace', Len(trace'), Timed)
           /\ Sequence(trace') /\ Len(trace') = Len(trace) + 1
           /\ Keeps(verifier')
<1>1. Sequence(trace) /\ Len(trace) \in Nat
  BY SequenceIs DEF HistoryInv
<1>2. /\ Sequence(trace') /\ Len(trace') = Len(trace) + 1
      /\ \A i \in 1 .. Len(trace) : trace'[i] = trace[i]
  BY <1>1, Appended DEF Recorded
<1> DEFINE t == trace'
           v == Synced(verifier, t, Timed)
<1>3. verifier' = Checked(v, Contracts, FALSE)
  BY DEF Recorded
<1> HIDE DEF t
<1>4. Len(t) \in Nat /\ Len(t) = Len(trace) + 1 /\ \A i \in 1 .. Len(trace) : t[i] = trace[i]
  BY <1>1, <1>2 DEF t
<1>5. Len(verifier.vals) <= Len(t) /\ \A i \in 1 .. Len(verifier.vals) : t[i] = trace[i]
  BY <1>1, <1>4 DEF VerifierInv, VerifierOf
<1>6. VerifierOf(v, t) /\ v.vals = ValsTo(t, Len(t), Timed)
  BY <1>1, <1>4, <1>5, SyncedIs, VerifierOfAnother DEF VerifierInv
<1> HIDE DEF v
<1>7. VerifierOf(verifier', t) /\ verifier'.vals = v.vals
  BY <1>3, <1>6, ContractsAre, CheckedIs
<1> QED
  BY <1>2, <1>3, <1>6, <1>7 DEF t, VerifierOf

\* The end of a session, read.
LEMMA FinishedIs ==
    ASSUME Recursion, BooksOfFormulas, HistoryInv, VerifierInv, Finished, ~finished
    PROVE  /\ VerifierOf(verifier', trace')
           /\ verifier'.vals = ValsTo(trace, Len(trace), Timed)
           /\ Keeps(verifier')
<1> DEFINE v == Synced(verifier, trace, Timed)
<1>1. verifier' = Checked(v, Owing, TRUE)
  BY DEF Finished
<1>2. VerifierOf(v, trace) /\ v.vals = ValsTo(trace, Len(trace), Timed)
  BY SyncedIs, SequenceIs DEF VerifierInv, HistoryInv
<1> HIDE DEF v
<1>3. VerifierOf(verifier', trace) /\ verifier'.vals = v.vals
  BY <1>1, <1>2, CheckedIs, ContractsAre DEF Owing
<1> QED
  BY <1>2, <1>3 DEF Finished, VerifierOf

\* At first the verifier has read nothing.
LEMMA InitVerifier ==
    ASSUME Init
    PROVE  VerifierInv
  BY NewVerifierOf, InitHistory, SequenceIs DEF Init, VerifierInv, HistoryInv

\* Every step keeps VerifierInv.
LEMMA StepVerifier ==
    ASSUME Recursion, BooksOfFormulas, HistoryInv, VerifierInv, [Next]_vars
    PROVE  VerifierInv'
<1>1. VerifierInv' <=> VerifierOf(verifier', trace')
  BY BookStays, Carried
<1>2. Sequence(trace) /\ Len(trace) \in Nat /\ Sequence(trace') /\ Len(trace') \in Nat
  BY StepHistory, SequenceIs DEF HistoryInv
<1>3. ASSUME NEW t \in Thread, NEW e, NEW probe \in BOOLEAN, Check(t, e, probe)
      PROVE  VerifierInv'
  BY <1>1, <1>3, RecordedIs DEF Check
<1>4. ASSUME NEW t \in Thread, Settle(t)
      PROVE  VerifierInv'
  <2>1. CASE Undone(call.probe, call.results) /\ trace # <<>>
    BY <1>1, <1>2, <1>4, <2>1, RolledBackIs DEF Settle, VerifierInv
  <2>2. CASE ~(Undone(call.probe, call.results) /\ trace # <<>>)
    BY <1>1, <1>4, <2>2 DEF VerifierInv, Settle
  <2> QED
    BY <2>1, <2>2
<1>5. ASSUME NEW t \in Thread, NEW e, Observe(t, e)
      PROVE  VerifierInv'
  BY <1>1, <1>5, RecordedIs DEF Observe
<1>6. ASSUME verifier' = NewVerifier
      PROVE  VerifierInv'
  BY <1>1, <1>2, <1>6, NewVerifierOf
<1>7. ASSUME NEW t \in Thread, Finish(t) \/ Rotate(t)
      PROVE  VerifierInv'
  <2>1. Finished
    BY <1>7 DEF Finish, Rotate
  <2>2. CASE finished
    BY <1>1, <2>1, <2>2 DEF VerifierInv, Finished
  <2>3. CASE ~finished
    BY <1>1, <2>1, <2>3, FinishedIs
  <2> QED
    BY <2>2, <2>3
<1>8. CASE UNCHANGED vars
  BY <1>1, <1>8 DEF VerifierInv, vars
<1>9. CASE \E t \in Thread : \/ \E e \in book.calls, probe \in BOOLEAN : Check(t, e, probe)
                             \/ \E e \in book.seen : Observe(t, e)
  BY <1>3, <1>5, <1>9
<1>10. CASE \E t \in Thread : Settle(t) \/ Finish(t) \/ Rotate(t)
  BY <1>4, <1>7, <1>10
<1>11. CASE \E t \in Thread : (\E out : ObserveOutput(t, out)) \/ Wipe(t) \/ Reset(t)
  BY <1>6, <1>11 DEF ObserveOutput, Wipe, Reset, Wiped
<1> QED
  BY <1>8, <1>9, <1>10, <1>11 DEF Next

\* TypeInv holds at first,
LEMMA InitType == Init => TypeInv
<1> SUFFICES ASSUME Init PROVE TypeInv
  OBVIOUS
<1>1. PICK name \in DOMAIN Books : book = Books[name]
  BY DEF Init
<1> QED
  BY <1>1, BooksAssumption DEF Init, TypeInv

\* and every step keeps it.
LEMMA StepType ==
    ASSUME HistoryInv, TypeInv, [Next]_vars
    PROVE  TypeInv'
<1>1. book' = book /\ mode' = mode /\ Contracts' = Contracts
  BY DEF Next, vars, Check, Settle, Observe, ObserveOutput, Finish, Finished, Rotate,
         Wipe, Wiped, Reset, Contracts
<1>2. /\ Sequence(trace) /\ Len(trace) \in Nat
      /\ book.maxTrace \in Nat
  BY SequenceIs, BooksAssumption DEF HistoryInv
<1>3. Len(trace') <= book.maxTrace
  <2>1. ASSUME NEW e, Recorded(e) PROVE Len(trace') <= book.maxTrace
    BY <1>2, <2>1, Appended DEF Recorded, Room
  <2>2. ASSUME NEW t, Settle(t) PROVE Len(trace') <= book.maxTrace
    <3>1. CASE Undone(call.probe, call.results) /\ trace # <<>>
      BY <1>2, <2>2, <3>1, Prefix, NoLength DEF TypeInv, Settle
    <3>2. CASE ~(Undone(call.probe, call.results) /\ trace # <<>>)
      BY <2>2, <3>2 DEF Settle, TypeInv
    <3> QED
      BY <3>1, <3>2
  <2>3. ASSUME NEW t, NEW out, ObserveOutput(t, out) PROVE Len(trace') <= book.maxTrace
    BY <1>2, <2>3, AttachedIs DEF TypeInv, ObserveOutput
  <2>4. ASSUME NEW t, Wipe(t) \/ Reset(t) PROVE Len(trace') <= book.maxTrace
    BY <1>2, <2>4, EmptySequence DEF Wipe, Reset, Wiped
  <2>5. ASSUME NEW t, Finish(t) \/ Rotate(t) PROVE Len(trace') <= book.maxTrace
    BY <2>5 DEF Finish, Rotate, Finished, TypeInv
  <2>6. CASE UNCHANGED vars
    BY <2>6 DEF vars, TypeInv
  <2>7. ASSUME NEW t, NEW e, (\E probe : Check(t, e, probe)) \/ Observe(t, e)
        PROVE Len(trace') <= book.maxTrace
    BY <2>1, <2>7 DEF Check, Observe
  <2>8. CASE \E t \in Thread : \/ \E e \in book.calls, probe \in BOOLEAN : Check(t, e, probe)
                               \/ \E e \in book.seen : Observe(t, e)
    BY <2>7, <2>8
  <2>9. CASE \E t \in Thread : Settle(t) \/ (\E out : ObserveOutput(t, out))
    BY <2>2, <2>3, <2>9
  <2>10. CASE \E t \in Thread : Wipe(t) \/ Reset(t) \/ Finish(t) \/ Rotate(t)
    BY <2>4, <2>5, <2>10
  <2> QED
    BY <2>6, <2>8, <2>9, <2>10 DEF Next
<1>4. rotating' \subseteq Thread
  BY DEF TypeInv, Next, vars, Check, Settle, Observe, ObserveOutput, Finish, Finished,
         Rotate, Wipe, Reset
<1>5. finished' \in BOOLEAN /\ overlapped' \in BOOLEAN
  <2>1. CASE \E t \in Thread : Finish(t) \/ Rotate(t)
    BY <2>1 DEF TypeInv, Finish, Rotate, Finished
  <2>2. CASE ~\E t \in Thread : Finish(t) \/ Rotate(t)
    BY <2>2 DEF TypeInv, Next, vars, Check, Settle, Observe, ObserveOutput, Wipe, Wiped,
                Reset, Overlapping
  <2> QED
    BY <2>1, <2>2
<1>6. pending' \subseteq UNION {Owed(c) : c \in Contracts}
  <2>1. CASE \E t \in Thread : Finish(t) \/ Rotate(t)
    <3>1. Finished
      BY <2>1 DEF Finish, Rotate
    <3>2. CASE finished
      BY <3>1, <3>2 DEF Finished, TypeInv
    <3>3. CASE ~finished
      <4>1. ASSUME NEW v PROVE Unpaid(v) \subseteq UNION {Owed(c) : c \in Contracts}
        BY DEF Unpaid, Owing
      <4> QED
        BY <3>1, <3>3, <4>1 DEF Finished
    <3> QED
      BY <3>2, <3>3
  <2>2. CASE ~\E t \in Thread : Finish(t) \/ Rotate(t)
    <3>1. pending' = pending \/ pending' = {}
      BY <2>2 DEF Next, vars, Check, Settle, Observe, ObserveOutput, Wipe, Wiped, Reset
    <3> QED
      BY <3>1 DEF TypeInv
  <2> QED
    BY <2>1, <2>2
<1> QED
  BY <1>1, <1>3, <1>4, <1>5, <1>6 DEF TypeInv

\* The variables keep their shapes, whatever the contracts and the threads,
\* and no progression has read past the trace.
THEOREM GuardTypeCorrect ==
    ASSUME Recursion, BooksOfFormulas
    PROVE  Spec => []TypeOK
<1>1. ASSUME HistoryInv, VerifierInv, TypeInv PROVE TypeOK
  <2>1. ASSUME NEW k \in DOMAIN verifier.progs PROVE verifier.progs[k].upto <= Len(trace)
    BY <1>1, SequenceIs DEF VerifierInv, VerifierOf, HistoryInv, ProgressionOf,
       Keeps
  <2> QED
    BY <1>1, <2>1 DEF TypeInv, HistoryInv, TypeOK
<1>2. Init => HistoryInv /\ VerifierInv /\ TypeInv
  BY InitHistory, InitVerifier, InitType
<1>3. HistoryInv /\ VerifierInv /\ TypeInv /\ [Next]_vars => (HistoryInv /\ VerifierInv /\ TypeInv)'
  BY StepHistory, StepVerifier, StepType
<1> QED
  BY <1>1, <1>2, <1>3, PTL DEF Spec

\* A verifier of the trace agrees with the reference evaluator.
LEMMA CachesOf ==
    ASSUME Recursion, HistoryInv, VerifierInv
    PROVE  CachesAgree
<1> DEFINE n == Len(verifier.vals)
           vals == verifier.vals
<1>1. /\ n \in 0 .. Len(trace) /\ n \in Nat /\ Len(trace) \in Nat /\ n <= Len(trace)
      /\ Keeps(verifier) /\ Sequence(vals)
  BY SequenceIs DEF HistoryInv, VerifierInv, VerifierOf, Keeps
<1>2. vals = SubSeq(ValsOf(trace), 1, n)
  <2> DEFINE all == ValsTo(trace, Len(trace), Timed)
  <2>1. ValsOf(trace) = all
    BY <1>1, GroundIs DEF ValsOf
  <2>2. /\ Sequence(all) /\ Len(all) = Len(trace)
        /\ \A i \in 1 .. Len(trace) : all[i] = ValOf(trace, i, Timed)
    BY <1>1, ValsAre
  <2>3. \A i \in 1 .. n : vals[i] = ValOf(trace, i, Timed) /\ i \in 1 .. Len(trace)
    BY <1>1, ValsAre DEF VerifierInv, VerifierOf
  <2> HIDE DEF all
  <2> QED
    BY <1>1, <2>1, <2>2, <2>3, WholePrefix, SamePrefix
<1>3. ASSUME NEW k \in DOMAIN verifier.progs, verifier.progs[k].upto >= k[2]
      PROVE  HoldsAtEnd(verifier.progs[k].residual)
                <=> Evaluate(k[1], SubSeq(vals, 1, verifier.progs[k].upto), k[2])
  <2> DEFINE p == verifier.progs[k]
             short == SubSeq(vals, 1, p.upto)
  <2>1. ProgressionOf(p, k, vals)
    BY <1>1 DEF Keeps
  <2>2. p.upto >= k[2]
    BY <1>3
  <2> HIDE DEF p
  <2>3. /\ k[2] \in Nat \ {0} /\ p.upto \in k[2] - 1 .. n /\ p.upto \in 0 .. n /\ p.upto \in Nat
        /\ k[2] \in 1 .. p.upto
    BY <1>1, <2>1, <2>2 DEF ProgressionOf
  <2>4. Len(short) = p.upto /\ \A i \in 1 .. p.upto : short[i] = vals[i]
    BY <1>1, <2>3, Prefix
  <2> HIDE DEF short
  <2>5. Left(p.residual, k[1], short, k[2], p.upto)
    BY <2>1, <2>3, <2>4, LeftSame DEF ProgressionOf
  <2> QED
    BY <2>1, <2>3, <2>4, <2>5, LeftAnswers DEF p, short, ProgressionOf
<1>4. ASSUME NEW t \in DOMAIN verifier.found
      PROVE  LET e == verifier.found[t]
                 at == {i \in 1 .. n : Evaluate(t, vals, i)}
             IN  IF e.at = 0 THEN at \cap 1 .. e.upto = {}
                 ELSE e.at \in at /\ \A i \in at : e.at <= i
  <2> DEFINE e == verifier.found[t]
             at == {i \in 1 .. n : Evaluate(t, vals, i)}
  <2>1. ScanOf(e, t, vals)
    BY <1>1 DEF Keeps
  <2> HIDE DEF e
  <2>2. /\ e.upto \in 0 .. n /\ e.at \in 0 .. e.upto
        /\ e.at # 0 => Evaluate(t, vals, e.at)
        /\ \A i \in 1 .. e.upto : Evaluate(t, vals, i) => e.at # 0 /\ e.at <= i
    BY <2>1 DEF ScanOf
  <2>3. CASE e.at = 0
    BY <2>2, <2>3 DEF e
  <2>4. CASE e.at # 0
    <3>1. ASSUME NEW i \in at PROVE e.at <= i
      <4>1. i \in 1 .. n /\ Evaluate(t, vals, i)
        OBVIOUS
      <4>2. CASE i <= e.upto
        BY <1>1, <2>2, <4>1, <4>2
      <4>3. CASE ~(i <= e.upto)
        BY <1>1, <2>2, <4>1, <4>3
      <4> QED
        BY <4>2, <4>3
    <3> QED
      BY <1>1, <2>2, <2>4, <3>1 DEF e
  <2> QED
    BY <2>3, <2>4
<1> QED
  BY <1>1, <1>2, <1>3, <1>4 DEF CachesAgree

\* What the incremental verifier keeps is what the reference evaluator says
\* of the trace, for every formula: through rollbacks, outputs, wipes and
\* resynchronisations, in any order, of any threads.
THEOREM CachesAgreeWithTheTrace ==
    ASSUME Recursion, BooksOfFormulas
    PROVE  Spec => []CachesAgree
<1>1. HistoryInv /\ VerifierInv => CachesAgree
  BY CachesOf
<1>2. Init => HistoryInv /\ VerifierInv
  BY InitHistory, InitVerifier
<1>3. HistoryInv /\ VerifierInv /\ [Next]_vars => (HistoryInv /\ VerifierInv)'
  BY StepHistory, StepVerifier
<1> QED
  BY <1>1, <1>2, <1>3, PTL DEF Spec

\* The valuations a synced verifier has are the trace's.
LEMMA SeesTheTrace ==
    ASSUME NEW t, Len(t) \in Nat
    PROVE  ValsOf(t) = ValsTo(t, Len(t), Timed)
  BY GroundIs DEF ValsOf

\* A session that ends reports what the evaluator finds unmet.
LEMMA FinishReports ==
    ASSUME Recursion, BooksOfFormulas, HistoryInv, VerifierInv, [Next]_vars, finished', ~finished
    PROVE  pending' = UNION {{r \in Owed(c) : Breaks(c, r, ValsOf(trace))} : c \in Contracts}
<1> DEFINE now == ValsOf(trace)
           v == verifier'
<1>1. \A t : (\E e, probe : Check(t, e, probe)) \/ Settle(t) \/ (\E e : Observe(t, e))
                 \/ (\E out : ObserveOutput(t, out)) => finished' = finished
  BY DEF Check, Settle, Observe, ObserveOutput
<1>2. Finished
  <2>1. PICK t \in Thread : Finish(t) \/ Rotate(t)
    BY <1>1 DEF Next, Wipe, Reset, Wiped, vars
  <2> QED
    BY <2>1 DEF Finish, Rotate
<1>3. v.vals = now /\ Keeps(v)
  BY <1>2, SeesTheTrace, SequenceIs, FinishedIs DEF HistoryInv
<1>4. pending' = Unpaid(v)
  BY <1>2 DEF Finished
<1> HIDE DEF now, v
<1>5. ASSUME NEW c \in Contracts
      PROVE  Broken(v, c, TRUE) \cap Owed(c) = {r \in Owed(c) : Breaks(c, r, now)}
  BY <1>3, BrokenIs, ContractsAre DEF Owed, RulesChecked
<1> QED
  BY <1>4, <1>5 DEF now, Unpaid, Owing

\* The obligations reported at a session's end are exactly those the
\* reference evaluator finds unmet on the whole trace.
THEOREM SessionsEndReported ==
    ASSUME Recursion, BooksOfFormulas
    PROVE  Spec => ReportsAllPending
<1>1. HistoryInv /\ VerifierInv /\ [Next]_vars =>
          [finished' /\ ~finished =>
              LET now == ValsOf(trace)
              IN  pending' = UNION {{r \in Owed(c) : Breaks(c, r, now)} : c \in Contracts}]_vars
  BY FinishReports
<1>2. Init => HistoryInv /\ VerifierInv
  BY InitHistory, InitVerifier
<1>3. HistoryInv /\ VerifierInv /\ [Next]_vars => (HistoryInv /\ VerifierInv)'
  BY StepHistory, StepVerifier
<1> QED
  BY <1>1, <1>2, <1>3, PTL DEF Spec, ReportsAllPending

----------------------------------------------------------------------------
(* Which event a broken rule is put down to.                               *)

\* Whether a rule held before the last event, as it was kept.
LEMMA HeldBeforeLastIs ==
    ASSUME Recursion, NEW v, Keeps(v), NEW f, Formula(f), NEW pos \in Nat \ {0},
           pos < Len(v.vals)
    PROVE  HeldBeforeLast(v, f, pos)
              <=> Evaluate(f, SubSeq(v.vals, 1, Len(v.vals) - 1), pos)
<1> DEFINE n == Len(v.vals)
           p == Progressed(v, f, pos)
           key == <<f, pos>>
           short == SubSeq(v.vals, 1, n - 1)
<1>1. n \in Nat /\ Sequence(v.vals)
  BY SequenceIs DEF Keeps
<1>2. pos \in 1 .. n /\ ~(pos >= n) /\ n - 1 \in 0 .. n /\ n - 1 \in Nat /\ pos \in 1 .. n - 1
  BY <1>1
<1>3. key[1] = f /\ key[2] = pos
  OBVIOUS
<1>4. ProgressionOf(p, key, v.vals) /\ p.upto = n
  BY <1>2, ProgressedIs
<1>5. HeldBeforeLast(v, f, pos) <=> IF p.before = Unknown THEN Evaluate(f, short, pos)
                                    ELSE HoldsAtEnd(p.before)
  BY <1>2 DEF HeldBeforeLast
<1>6. Len(short) = n - 1 /\ \A i \in 1 .. n - 1 : short[i] = v.vals[i]
  BY <1>1, <1>2, Prefix
<1> HIDE DEF p, key, short
<1>7. CASE p.before = Unknown
  BY <1>5, <1>7 DEF short
<1>8. CASE p.before # Unknown
  <2>1. Left(p.before, f, short, pos, n - 1)
    BY <1>2, <1>3, <1>4, <1>6, <1>8, LeftSame DEF ProgressionOf
  <2> QED
    BY <1>2, <1>5, <1>6, <1>8, <2>1, LeftAnswers DEF short
<1> QED
  BY <1>7, <1>8

\* An invariant of the trace is broken by the positions its body fails at.
LEMMA AlwaysIs ==
    ASSUME Recursion, NEW f, Formula(f), f.op = "G", NEW vals, Len(vals) \in Nat,
           NEW pos \in 1 .. Len(vals)
    PROVE  /\ Formula(f.of)
           /\ AggregatesOf(f) = AggregatesOf(f.of)
           /\ Evaluate(f, vals, pos) <=> \A i \in pos .. Len(vals) : Evaluate(f.of, vals, i)
<1>1. Formula(f.of) /\ f = G(f.of)
  BY FormulaShape
<1>2. AggregatesBy(AggregatesOf, f) = UNION {AggregatesOf(g) : g \in {f.of}}
  BY DEF AggregatesBy, Below
<1>3. Evaluate(G(f.of), vals, pos) <=> \A i \in pos .. Len(vals) : Evaluate(f.of, vals, i)
  BY <1>1, EvaluateIs
<1> QED
  BY <1>1, <1>2, <1>3 DEF Recursion

\* What a verifier that has read the trace puts down to the last event.
LEMMA FreshIs ==
    ASSUME Recursion, NEW v, Keeps(v), Len(v.vals) > 0, NEW c, WellFormed(c),
           NEW r \in c.rules, Met(c, v.vals), Breaks(c, r, v.vals)
    PROVE  /\ Judged(c, r) /\ HeldBefore(c, r, v.vals)
                  => IsFresh(v, r.formula, From(c, v.vals))
           /\ (r.formula.op = "G" => AggregatesOf(r.formula) = {} \/ Falls(r))
              /\ IsFresh(v, r.formula, From(c, v.vals))
                  => \/ HeldBefore(c, r, v.vals)
                     \/ r.formula.op = "G" /\ ~Evaluate(r.formula.of, v.vals, Len(v.vals))
                     \/ Falls(r)
<1> DEFINE n == Len(v.vals)
           f == r.formula
           pos == From(c, v.vals)
           short == SubSeq(v.vals, 1, n - 1)
<1>1. n \in Nat \ {0} /\ Sequence(v.vals)
  BY SequenceIs DEF Keeps
<1>2. Formula(f)
  BY DEF WellFormed, FormulasOf
<1>3. pos \in 1 .. n
  BY <1>1, PositionIs, AssumptionsMetIs
<1>4. ~Evaluate(f, v.vals, pos)
  BY DEF Breaks
<1>5. n - 1 \in 0 .. n /\ n - 1 \in Nat
  BY <1>1
<1>6. Len(short) = n - 1 /\ \A i \in 1 .. n - 1 : short[i] = v.vals[i]
  BY <1>1, <1>5, Prefix
<1>7. HeldBefore(c, r, v.vals) <=> pos >= n \/ Evaluate(f, short, pos)
  BY DEF HeldBefore
<1>8. \A q \in 1 .. n - 1 : HeldBeforeLast(v, f, q) <=> Evaluate(f, short, q)
  <2> TAKE q \in 1 .. n - 1
  <2> QED
    BY <1>1, <1>2, HeldBeforeLastIs
<1>9. IsFresh(v, f, pos) <=>
          IF n <= 1 THEN n = 1
          ELSE IF f.op = "G"
          THEN \/ HeldBeforeLast(v, f, 1)
               \/ \E key \in AggregatesOf(f.of) : Moved(v, key)
               \/ AggregatesOf(f.of) = {} /\ ~Evaluate(f.of, v.vals, n)
          ELSE pos >= n \/ HeldBeforeLast(v, f, pos)
  BY DEF IsFresh
<1>10. f.op = "G" =>
          /\ AggregatesOf(f) = AggregatesOf(f.of)
          /\ Formula(f.of)
          /\ Evaluate(f, v.vals, pos) <=> \A i \in pos .. n : Evaluate(f.of, v.vals, i)
          /\ \A q \in 1 .. n - 1 :
                 Evaluate(f, short, q) <=> \A i \in q .. n - 1 : Evaluate(f.of, short, i)
  <2> SUFFICES ASSUME f.op = "G"
               PROVE  /\ AggregatesOf(f) = AggregatesOf(f.of)
                      /\ Formula(f.of)
                      /\ Evaluate(f, v.vals, pos) <=> \A i \in pos .. n : Evaluate(f.of, v.vals, i)
                      /\ \A q \in 1 .. n - 1 :
                             Evaluate(f, short, q) <=> \A i \in q .. n - 1 : Evaluate(f.of, short, i)
    OBVIOUS
  <2> HIDE DEF f, pos, short
  <2>1. ASSUME NEW q \in 1 .. n - 1
        PROVE  Evaluate(f, short, q) <=> \A i \in q .. n - 1 : Evaluate(f.of, short, i)
    BY <1>2, <1>5, <1>6, AlwaysIs
  <2> QED
    BY <1>1, <1>2, <1>3, <2>1, AlwaysIs
<1> HIDE DEF n, f, pos, short
<1>11. ASSUME Judged(c, r), HeldBefore(c, r, v.vals)
       PROVE  IsFresh(v, f, pos)
  <2>1. CASE n <= 1
    BY <1>1, <1>9, <2>1
  <2>2. CASE n > 1 /\ f.op # "G"
    BY <1>1, <1>3, <1>7, <1>8, <1>9, <1>11, <2>2
  <2>3. CASE n > 1 /\ f.op = "G" /\ ~c.reactive
    BY <1>1, <1>7, <1>8, <1>9, <1>11, <2>3 DEF From, pos
  <2>4. CASE n > 1 /\ f.op = "G" /\ c.reactive
    <3>1. ~Temporal(f.of) /\ AggregatesOf(f.of) = {}
      BY <1>10, <1>11, <2>4 DEF Judged, f
    <3>2. ~Evaluate(f.of, v.vals, n)
      <4>1. PICK i \in pos .. n : ~Evaluate(f.of, v.vals, i)
        BY <1>4, <1>10, <2>4
      <4>2. CASE i = n
        BY <4>1, <4>2
      <4>3. CASE i # n
        <5>1. /\ i \in pos .. n - 1 /\ i \in 1 .. n - 1 /\ pos \in 1 .. n - 1 /\ ~(pos >= n)
              /\ i \in 1 .. n
          BY <1>1, <1>3, <4>3
        <5>2. Evaluate(f.of, v.vals, i) <=> Evaluate(f.of, short, i)
          BY <1>1, <1>5, <1>6, <1>10, <2>4, <3>1, <5>1, Locality DEF n
        <5> QED
          BY <1>7, <1>10, <1>11, <2>4, <4>1, <5>1, <5>2
      <4> QED
        BY <4>2, <4>3
    <3> QED
      BY <1>1, <1>9, <2>4, <3>1, <3>2
  <2> QED
    BY <1>1, <2>1, <2>2, <2>3, <2>4
<1>12. ASSUME f.op = "G" => AggregatesOf(f) = {} \/ Falls(r), IsFresh(v, f, pos)
       PROVE  \/ HeldBefore(c, r, v.vals)
              \/ f.op = "G" /\ ~Evaluate(f.of, v.vals, n)
              \/ Falls(r)
  <2>1. CASE pos >= n
    BY <1>7, <2>1
  <2>2. CASE ~(pos >= n)
    <3>1. pos \in 1 .. n - 1 /\ 1 \in 1 .. n - 1 /\ ~(n <= 1)
      BY <1>1, <1>3, <2>2
    <3>2. CASE f.op # "G"
      BY <1>7, <1>8, <1>9, <1>12, <2>2, <3>1, <3>2
    <3>3. CASE f.op = "G" /\ HeldBeforeLast(v, f, 1)
      BY <1>1, <1>3, <1>7, <1>8, <1>10, <3>1, <3>3
    <3>4. CASE f.op = "G" /\ ~HeldBeforeLast(v, f, 1)
      BY <1>9, <1>10, <1>12, <3>1, <3>4
    <3> QED
      BY <3>2, <3>3, <3>4
  <2> QED
    BY <2>1, <2>2
<1> QED
  BY <1>11, <1>12 DEF n, f, pos

\* A check, as the reference evaluator sees it.
LEMMA CheckIs ==
    ASSUME Recursion, BooksOfFormulas, HistoryInv, VerifierInv, [Next]_vars, CallsChecked
    PROVE  /\ verifier'.vals = ValsOf(trace')
           /\ Keeps(verifier') /\ Len(verifier'.vals) > 0
           /\ call'.results = Results(verifier', call'.probe)
<1>1. ASSUME NEW t \in Thread, NEW e, NEW probe \in BOOLEAN, Check(t, e, probe)
      PROVE  /\ verifier'.vals = ValsOf(trace')
             /\ Keeps(verifier') /\ Len(verifier'.vals) > 0
             /\ call'.results = Results(verifier', call'.probe)
  <2>1. Recorded(e) /\ call' = [by |-> t, probe |-> probe, results |-> Results(verifier', probe)]
    BY <1>1 DEF Check
  <2>2. /\ verifier'.vals = ValsTo(trace', Len(trace'), Timed)
        /\ Keeps(verifier') /\ Len(trace') = Len(trace) + 1
    BY <2>1, RecordedIs
  <2> DEFINE u == trace'
  <2>3. Len(u) \in Nat /\ Len(u) > 0
    BY <2>2, SequenceIs DEF HistoryInv
  <2> HIDE DEF u
  <2> QED
    BY <2>1, <2>2, <2>3, SeesTheTrace, ValsAre DEF u
<1>2. \A t : \/ \E e : Observe(t, e)
             \/ \E out : ObserveOutput(t, out)
             \/ Finish(t) \/ Rotate(t) \/ Wipe(t) \/ Reset(t)
             => call' = call
  BY DEF Observe, ObserveOutput, Finish, Rotate, Finished, Wipe, Wiped, Reset
<1>3. PICK t \in Thread : \E e \in book.calls, probe \in BOOLEAN : Check(t, e, probe)
  BY <1>2 DEF Next, CallsChecked, Settle, vars
<1> QED
  BY <1>1, <1>3

\* No step lets a call through that breaks such a rule.
LEMMA CheckKeepsRules ==
    ASSUME Recursion, BooksOfFormulas, HistoryInv, VerifierInv, [Next]_vars,
           CallsChecked, "blocked" \notin call'.results,
           NEW c \in Contracts, NEW r \in Blocking(c),
           Enforced(c, call'.probe), Judged(c, r), Met(c, ValsOf(trace')),
           HeldBefore(c, r, ValsOf(trace')), Breaks(c, r, ValsOf(trace'))
    PROVE  FALSE
<1> DEFINE v == verifier'
           probe == call'.probe
<1>1. /\ v.vals = ValsOf(trace') /\ Keeps(v) /\ Len(v.vals) > 0
      /\ call'.results = Results(v, probe)
  BY CheckIs
<1>2. r \in c.rules /\ r.strategy = "blocked" /\ r \in RulesChecked(c, FALSE)
  BY DEF Blocking, RulesChecked
<1>3. Resulting(c, "blocked", probe) = "blocked"
  BY DEF Resulting, Enforced
<1> HIDE DEF v, probe
<1>4. r \in FreshlyBroken(v, c)
  BY <1>1, <1>2, FreshIs, PositionIs, AssumptionsMetIs, BrokenIs, ContractsAre
     DEF FreshlyBroken
<1> QED
  BY <1>1, <1>2, <1>3, <1>4 DEF Results, ResultsOf

\* A call that is let through breaks no enforced blocking rule that applied
\* and held before it.
THEOREM AdmittedCallsKeepRules ==
    ASSUME Recursion, BooksOfFormulas
    PROVE  Spec => AdmittedKeepsRules
<1>1. HistoryInv /\ VerifierInv /\ [Next]_vars =>
          [CallsChecked /\ "blocked" \notin call'.results =>
              LET now == ValsOf(trace')
              IN  \A c \in Contracts : \A r \in Blocking(c) :
                      /\ Enforced(c, call'.probe)
                      /\ Judged(c, r)
                      /\ Met(c, now)
                      /\ HeldBefore(c, r, now)
                      => ~Breaks(c, r, now)]_vars
  BY CheckKeepsRules
<1>2. Init => HistoryInv /\ VerifierInv
  BY InitHistory, InitVerifier
<1>3. HistoryInv /\ VerifierInv /\ [Next]_vars => (HistoryInv /\ VerifierInv)'
  BY StepHistory, StepVerifier
<1> QED
  BY <1>1, <1>2, <1>3, PTL DEF Spec, AdmittedKeepsRules

----------------------------------------------------------------------------
(* What grounding accumulates.                                             *)

\* A key that the first of two functions has keeps its value,
LEMMA OverLeft ==
    ASSUME NEW f, NEW g, NEW x \in DOMAIN f
    PROVE  x \in DOMAIN (f ++ g) /\ (f ++ g)[x] = f[x]
  BY DEF ++

\* one that only the second has, the second's.
LEMMA OverRight ==
    ASSUME NEW f, NEW g, NEW x, x \notin DOMAIN f
    PROVE  /\ x \in DOMAIN (f ++ g) <=> x \in DOMAIN g
           /\ x \in DOMAIN g => (f ++ g)[x] = g[x]
  BY DEF ++

\* n more for every key of S, from start where there was none.
LEMMA PlusIs ==
    ASSUME NEW f, NEW S, NEW start, NEW n
    PROVE  /\ \A x : x \in DOMAIN Plus(f, S, start, n) <=> x \in S \/ x \in DOMAIN f
           /\ \A x \in S : Plus(f, S, start, n)[x] = Get(f, x, start) + n
           /\ \A x \in DOMAIN f \ S : Plus(f, S, start, n)[x] = f[x]
<1> DEFINE g == [x \in S |-> Get(f, x, start) + n]
<1>1. DOMAIN g = S /\ \A x \in S : g[x] = Get(f, x, start) + n
  OBVIOUS
<1>2. Plus(f, S, start, n) = g ++ f
  BY DEF Plus
<1> HIDE DEF g
<1> QED
  BY <1>1, <1>2, OverLeft, OverRight DEF ++

Accumulators == {"calls", "matches", "runs", "last", "writers", "kept", "ctx", "tokens",
                 "depth", "since", "held"}

\* What one event makes of each accumulator.
LEMMA AccumulatedIs ==
    ASSUME NEW s, DOMAIN s = Accumulators, NEW e, NEW ts
    PROVE  LET a == Accumulated(s, e, ts)
               names == CalledAs(e)
           IN  /\ DOMAIN a = Accumulators
               /\ a.runs = Runs(s, names)
               /\ a.last = IF names = {} THEN s.last ELSE names
               /\ a.calls = Plus(s.calls, names, 0, 1)
               /\ a.matches = Plus(s.matches, MatchedCalls(e), 0, 1)
               /\ a.writers = Writers(s, e)
               /\ a.kept = s.kept \cup Contained(e) \cup Flowed(s, e)
               /\ a.ctx = Context(s, e)
               /\ a.tokens = IF e.tokens = 0 THEN s.tokens
                             ELSE Plus(s.tokens, {"total"}, 0, e.tokens)
               /\ a.depth = IF e.type = "message" THEN s.depth + 1 ELSE s.depth
               /\ a.held = Facts(a, e)
<1> DEFINE names == CalledAs(e)
           runs == Runs(s, names)
           last == IF names = {} THEN s.last ELSE names
           calls == Plus(s.calls, names, 0, 1)
           matches == Plus(s.matches, MatchedCalls(e), 0, 1)
           writers == Writers(s, e)
           kept == s.kept \cup Contained(e) \cup Flowed(s, e)
           ctx == Context(s, e)
           tokens == IF e.tokens = 0 THEN s.tokens ELSE Plus(s.tokens, {"total"}, 0, e.tokens)
           depth == IF e.type = "message" THEN s.depth + 1 ELSE s.depth
           t == [s EXCEPT !.runs = runs, !.last = last, !.calls = calls,
                          !.matches = matches, !.writers = writers, !.kept = kept,
                          !.ctx = ctx, !.tokens = tokens, !.depth = depth]
           now == Facts(t, e)
           since == Constantly(now \ s.held, ts) ++ s.since
           a == [t EXCEPT !.since = Constantly(now \ s.held, ts) ++ s.since, !.held = now]
<1>1. Accumulated(s, e, ts) = a
  BY Zenon DEF Accumulated
<1> HIDE DEF names, runs, last, calls, matches, writers, kept, ctx, tokens, depth
<1>2. /\ DOMAIN t = Accumulators
      /\ t.runs = runs /\ t.last = last /\ t.calls = calls /\ t.matches = matches
      /\ t.writers = writers /\ t.kept = kept /\ t.ctx = ctx /\ t.tokens = tokens
      /\ t.depth = depth
  BY DEF Accumulators
<1> HIDE DEF t, since, now
<1>3. a = [t EXCEPT !.since = since, !.held = now]
  BY DEF since
<1> HIDE DEF a
<1>4. /\ DOMAIN a = Accumulators
      /\ a.runs = runs /\ a.last = last /\ a.calls = calls /\ a.matches = matches
      /\ a.writers = writers /\ a.kept = kept /\ a.ctx = ctx /\ a.tokens = tokens
      /\ a.depth = depth /\ a.held = now
  BY <1>2, <1>3 DEF Accumulators
<1>5. now = Facts(a, e)
  BY <1>2, <1>4 DEF now, Facts
<1> QED
  BY <1>1, <1>4, <1>5 DEF names, runs, last, calls, matches, writers, kept, ctx, tokens, depth

\* What is accumulated along a trace is a record of the accumulators, each
\* made from the one before.
LEMMA StatesAccumulate ==
    ASSUME NEW t, Len(t) \in Nat
    PROVE  /\ \A i \in 0 .. Len(t) : DOMAIN States(t)[i] = Accumulators
           /\ States(t)[0] = Fresh
           /\ \A i \in 0 .. Len(t) - 1 :
                  States(t)[i + 1] = Accumulated(States(t)[i], t[i + 1], i)
<1> DEFINE st == States(t)
           S == {i \in Nat : i <= Len(t) => DOMAIN st[i] = Accumulators}
<1>1. st[0] = Fresh /\ \A i \in 1 .. Len(t) : st[i] = Accumulated(st[i - 1], t[i], i - 1)
  BY StatesAre
<1> HIDE DEF st
<1>2. \A i \in 0 .. Len(t) - 1 : st[i + 1] = Accumulated(st[i], t[i + 1], i)
  <2> TAKE i \in 0 .. Len(t) - 1
  <2> QED
    BY <1>1
<1>3. 0 \in S
  BY <1>1 DEF Fresh, Accumulators
<1>4. ASSUME NEW i \in Nat, i \in S PROVE i + 1 \in S
  <2> SUFFICES ASSUME i + 1 <= Len(t) PROVE DOMAIN st[i + 1] = Accumulators
    OBVIOUS
  <2> QED
    BY <1>2, <1>4, AccumulatedIs
<1>5. \A i \in Nat : i \in S
  <2> HIDE DEF S
  <2> QED
    BY <1>3, <1>4, AllNumbers
<1> QED
  BY <1>1, <1>2, <1>5 DEF st

\* Where a number of the last valuation comes from.
LEMMA NumbersAre ==
    ASSUME NEW s, NEW e, NEW ts, NEW timed, \A k \in DOMAIN s.matches : k[1] = "count_with"
    PROVE  LET num == ValuationAt(s, e, ts, timed).num
           IN  /\ \A x \in DOMAIN s.calls : num[<<"count", x>>] = s.calls[x]
               /\ \A x \in DOMAIN s.runs : num[<<"consecutive_count", x>>] = s.runs[x]
               /\ num[<<"delegation_depth">>] = s.depth
               /\ Get(num, <<"delegation_depth">>, 0) = s.depth
               /\ (\A k \in DOMAIN e.numbers : k[1] \notin Cumulative) =>
                      /\ \A x : Get(num, <<"count", x>>, 0) = Get(s.calls, x, 0)
                      /\ \A x : Get(num, <<"token_count", x>>, 0) = Get(s.tokens, x, 0)
                      /\ \A k : k[1] = "count_with" => Get(num, k, 0) = Get(s.matches, k, 0)
                      /\ \A x : Get(num, <<"consecutive_count", x>>, 0) = Get(s.runs, x, 0)
               /\ \A k : k[1] \notin Cumulative \cup {"now"} => Get(num, k, 0) = Get(e.numbers, k, 0)
               /\ \A x \in timed : Get(num, <<"time_since", x>>, 0)
                      = IF x \in DOMAIN s.since THEN ts - s.since[x] ELSE Never
<1> DEFINE ages == [k \in {<<"time_since", p>> : p \in timed} |->
                      IF k[2] \in DOMAIN s.since THEN ts - s.since[k[2]] ELSE Never]
           calls == Keyed("count", s.calls)
           tokens == Keyed("token_count", s.tokens)
           runs == Keyed("consecutive_count", s.runs)
           depth == Constantly({<<"delegation_depth">>}, s.depth)
           now == Constantly({<<"now">>}, ts)
           a == ages ++ calls
           b == a ++ s.matches
           c == b ++ tokens
           d == c ++ runs
           f == d ++ depth
           g == f ++ now
           num == g ++ e.numbers
<1>1. ValuationAt(s, e, ts, timed).num = num
  BY DEF ValuationAt, Valuation
<1>2. \A k \in DOMAIN ages : k[1] = "time_since"
  OBVIOUS
<1>3. ASSUME NEW name, NEW h
      PROVE  /\ \A k \in DOMAIN Keyed(name, h) : k[1] = name /\ k[2] \in DOMAIN h
             /\ \A x \in DOMAIN h : /\ <<name, x>> \in DOMAIN Keyed(name, h)
                                    /\ Keyed(name, h)[<<name, x>>] = h[x]
  BY DEF Keyed
<1>4. /\ DOMAIN depth = {<<"delegation_depth">>} /\ depth[<<"delegation_depth">>] = s.depth
      /\ DOMAIN now = {<<"now">>}
  BY DEF Constantly
<1>5. <<"delegation_depth">>[1] = "delegation_depth" /\ <<"now">>[1] = "now"
      /\ \A n, x : <<n, x>>[1] = n /\ <<n, x>>[2] = x
  OBVIOUS
<1>6. /\ \A k \in DOMAIN calls : k[1] = "count" /\ k[2] \in DOMAIN s.calls
      /\ \A k \in DOMAIN tokens : k[1] = "token_count" /\ k[2] \in DOMAIN s.tokens
      /\ \A k \in DOMAIN runs : k[1] = "consecutive_count" /\ k[2] \in DOMAIN s.runs
      /\ \A x \in DOMAIN s.calls : <<"count", x>> \in DOMAIN calls
                                   /\ calls[<<"count", x>>] = s.calls[x]
      /\ \A x \in DOMAIN s.tokens : <<"token_count", x>> \in DOMAIN tokens
                                   /\ tokens[<<"token_count", x>>] = s.tokens[x]
      /\ \A x \in DOMAIN s.runs : <<"consecutive_count", x>> \in DOMAIN runs
                                   /\ runs[<<"consecutive_count", x>>] = s.runs[x]
  BY <1>3
<1>7. \A x \in timed : /\ <<"time_since", x>> \in DOMAIN ages
                      /\ ages[<<"time_since", x>>]
                             = IF x \in DOMAIN s.since THEN ts - s.since[x] ELSE Never
  BY <1>5
<1> HIDE DEF ages, calls, tokens, runs, depth, now
<1>8. /\ DOMAIN a = DOMAIN ages \cup DOMAIN calls
      /\ DOMAIN b = DOMAIN a \cup DOMAIN s.matches
      /\ DOMAIN c = DOMAIN b \cup DOMAIN tokens
      /\ DOMAIN d = DOMAIN c \cup DOMAIN runs
      /\ DOMAIN f = DOMAIN d \cup DOMAIN depth
      /\ DOMAIN g = DOMAIN f \cup DOMAIN now
      /\ DOMAIN num = DOMAIN g \cup DOMAIN e.numbers
  BY DEF ++
<1>9. /\ \A k \in DOMAIN ages : a[k] = ages[k]
      /\ \A k \in DOMAIN a : b[k] = a[k]
      /\ \A k \in DOMAIN b : c[k] = b[k]
      /\ \A k \in DOMAIN c : d[k] = c[k]
      /\ \A k \in DOMAIN d : f[k] = d[k]
      /\ \A k \in DOMAIN f : g[k] = f[k]
      /\ \A k \in DOMAIN g : num[k] = g[k]
  <2>1. \A k \in DOMAIN ages : a[k] = ages[k]
    BY OverLeft
  <2> HIDE DEF a
  <2>2. \A k \in DOMAIN a : b[k] = a[k]
    BY OverLeft
  <2> HIDE DEF b
  <2>3. \A k \in DOMAIN b : c[k] = b[k]
    BY OverLeft
  <2> HIDE DEF c
  <2>4. \A k \in DOMAIN c : d[k] = c[k]
    BY OverLeft
  <2> HIDE DEF d
  <2>5. \A k \in DOMAIN d : f[k] = d[k]
    BY OverLeft
  <2> HIDE DEF f
  <2>6. \A k \in DOMAIN f : g[k] = f[k]
    BY OverLeft
  <2> HIDE DEF g
  <2>7. \A k \in DOMAIN g : num[k] = g[k]
    BY OverLeft
  <2> QED
    BY <2>1, <2>2, <2>3, <2>4, <2>5, <2>6, <2>7
<1>10. /\ \A k \in DOMAIN calls \ DOMAIN ages : a[k] = calls[k]
       /\ \A k \in DOMAIN s.matches \ DOMAIN a : b[k] = s.matches[k]
       /\ \A k \in DOMAIN tokens \ DOMAIN b : c[k] = tokens[k]
       /\ \A k \in DOMAIN runs \ DOMAIN c : d[k] = runs[k]
       /\ \A k \in DOMAIN depth \ DOMAIN d : f[k] = depth[k]
       /\ \A k \in DOMAIN e.numbers \ DOMAIN g : num[k] = e.numbers[k]
  <2> HIDE DEF a, b, c, d
  <2>1. \A k \in DOMAIN e.numbers \ DOMAIN g : (g ++ e.numbers)[k] = e.numbers[k]
    <3> HIDE DEF f, g
    <3> QED
      BY OverRight
  <2> QED
    BY <2>1, OverRight DEF a, b, c, d, f
<1> HIDE DEF a, b, c, d, f, g, num
<1>11. ASSUME NEW x \in DOMAIN s.calls PROVE num[<<"count", x>>] = s.calls[x]
  <2> DEFINE k == <<"count", x>>
  <2> HIDE DEF k
  <2> QED
    BY <1>2, <1>5, <1>6, <1>8, <1>9, <1>10 DEF k
<1>12. ASSUME NEW x \in DOMAIN s.runs PROVE num[<<"consecutive_count", x>>] = s.runs[x]
  <2> DEFINE k == <<"consecutive_count", x>>
  <2> HIDE DEF k
  <2> QED
    BY <1>2, <1>5, <1>6, <1>8, <1>9, <1>10 DEF k
<1>13. /\ num[<<"delegation_depth">>] = s.depth
       /\ Get(num, <<"delegation_depth">>, 0) = s.depth
  <2> DEFINE k == <<"delegation_depth">>
  <2> HIDE DEF k
  <2> QED
    BY <1>2, <1>4, <1>5, <1>6, <1>8, <1>9, <1>10 DEF Get, k
<1>14. ASSUME \A k \in DOMAIN e.numbers : k[1] \notin Cumulative
       PROVE  /\ \A x : Get(num, <<"count", x>>, 0) = Get(s.calls, x, 0)
              /\ \A x : Get(num, <<"token_count", x>>, 0) = Get(s.tokens, x, 0)
              /\ \A k : k[1] = "count_with" => Get(num, k, 0) = Get(s.matches, k, 0)
              /\ \A x : Get(num, <<"consecutive_count", x>>, 0) = Get(s.runs, x, 0)
  <2>1. ASSUME NEW k, k[1] \in {"count", "token_count", "count_with"}
        PROVE  /\ k \notin DOMAIN ages /\ k \notin DOMAIN runs /\ k \notin DOMAIN depth
               /\ k \notin DOMAIN now /\ k \notin DOMAIN e.numbers
    BY <1>2, <1>4, <1>5, <1>6, <1>14, <2>1 DEF Cumulative
  <2>2. ASSUME NEW x PROVE Get(num, <<"count", x>>, 0) = Get(s.calls, x, 0)
    <3> DEFINE k == <<"count", x>>
    <3> HIDE DEF k
    <3> QED
      BY <1>6, <1>8, <1>9, <1>10, <2>1 DEF Get, k
  <2>3. ASSUME NEW x PROVE Get(num, <<"token_count", x>>, 0) = Get(s.tokens, x, 0)
    <3> DEFINE k == <<"token_count", x>>
    <3> HIDE DEF k
    <3> QED
      BY <1>6, <1>8, <1>9, <1>10, <2>1 DEF Get, k
  <2>4. ASSUME NEW k, k[1] = "count_with" PROVE Get(num, k, 0) = Get(s.matches, k, 0)
    BY <1>6, <1>8, <1>9, <1>10, <2>1, <2>4 DEF Get
  <2>5. ASSUME NEW x PROVE Get(num, <<"consecutive_count", x>>, 0) = Get(s.runs, x, 0)
    <3> DEFINE k == <<"consecutive_count", x>>
    <3>1. k[1] = "consecutive_count" /\ k[2] = x
      OBVIOUS
    <3> HIDE DEF k
    <3>2. k \notin DOMAIN c /\ k \notin DOMAIN depth /\ k \notin DOMAIN now /\ k \notin DOMAIN e.numbers
      BY <1>2, <1>4, <1>5, <1>6, <1>8, <1>14, <3>1 DEF Cumulative
    <3> QED
      BY <1>6, <1>8, <1>9, <1>10, <3>1, <3>2 DEF Get, k
  <2> QED
    BY <2>2, <2>3, <2>4, <2>5
<1>15. ASSUME NEW k, k[1] \notin Cumulative \cup {"now"}
       PROVE  Get(num, k, 0) = Get(e.numbers, k, 0)
  BY <1>2, <1>4, <1>5, <1>6, <1>8, <1>10, <1>15 DEF Get, Cumulative
<1>16. ASSUME NEW x \in timed
       PROVE  Get(num, <<"time_since", x>>, 0)
                  = IF x \in DOMAIN s.since THEN ts - s.since[x] ELSE Never
  <2> DEFINE k == <<"time_since", x>>
  <2> HIDE DEF k
  <2> QED
    BY <1>7, <1>8, <1>9 DEF Get, k
<1> QED
  BY <1>1, <1>11, <1>12, <1>13, <1>14, <1>15, <1>16

\* A set of positions up to the i-th.
UpTo(A, i) == A \subseteq 1 .. i

\* One position more, counted.
LEMMA OneMore ==
    ASSUME NEW i \in Nat, NEW A, UpTo(A, i), NEW B,
           \A j : j \in B <=> j \in A \/ j = i + 1
    PROVE  Cardinality(B) = Cardinality(A) + 1
<1>1. IsFiniteSet(1 .. i)
  BY FS_Interval
<1>2. IsFiniteSet(A)
  BY <1>1, FS_Subset DEF UpTo
<1> QED
  BY <1>2, FS_AddElement DEF UpTo

\* A set of positions is finite, and empty if it counts none.
LEMMA SomeCounted ==
    ASSUME NEW i \in Nat, NEW A, UpTo(A, i)
    PROVE  Cardinality(A) \in Nat /\ (Cardinality(A) = 0 <=> A = {})
<1>1. IsFiniteSet(1 .. i)
  BY FS_Interval
<1> QED
  BY <1>1, FS_CardinalityType, FS_EmptySet, FS_Subset DEF UpTo

CallsTo(t, x, i) == {j \in 1 .. i : x \in CalledAs(t[j])}
Often(t, x, i) == Cardinality(CallsTo(t, x, i))
Typed(t, ty, i) == t[i].type = ty
TypeTo(t, ty, i) == {j \in 1 .. i : Typed(t, ty, j)}
OftenType(t, ty, i) == Cardinality(TypeTo(t, ty, i))

\* How often a name was called, one event later.
LEMMA OftenNext ==
    ASSUME NEW t, NEW x, NEW i \in Nat
    PROVE  /\ Often(t, x, 0) = 0
           /\ Often(t, x, i) \in Nat
           /\ Often(t, x, i + 1) = IF x \in CalledAs(t[i + 1]) THEN Often(t, x, i) + 1
                                   ELSE Often(t, x, i)
<1>1. CallsTo(t, x, 0) = {} /\ UpTo(CallsTo(t, x, i), i)
  BY DEF CallsTo, UpTo
<1>2. Often(t, x, 0) = 0 /\ Often(t, x, i) \in Nat
  BY <1>1, SomeCounted, FS_EmptySet DEF Often
<1>3. CASE x \in CalledAs(t[i + 1])
  BY <1>1, <1>2, <1>3, OneMore DEF Often, CallsTo
<1>4. CASE x \notin CalledAs(t[i + 1])
  BY <1>2, <1>4 DEF Often, CallsTo
<1> QED
  BY <1>3, <1>4

\* How many events of a type there were, one event later.
LEMMA OftenTypeNext ==
    ASSUME NEW t, NEW ty, NEW i \in Nat
    PROVE  /\ OftenType(t, ty, 0) = 0
           /\ OftenType(t, ty, i) \in Nat
           /\ OftenType(t, ty, i + 1) = IF Typed(t, ty, i + 1) THEN OftenType(t, ty, i) + 1
                                        ELSE OftenType(t, ty, i)
<1>1. TypeTo(t, ty, 0) = {} /\ UpTo(TypeTo(t, ty, i), i)
  BY DEF TypeTo, UpTo
<1>2. OftenType(t, ty, 0) = 0 /\ OftenType(t, ty, i) \in Nat
  BY <1>1, SomeCounted, FS_EmptySet DEF OftenType
<1>3. CASE Typed(t, ty, i + 1)
  BY <1>1, <1>2, <1>3, OneMore DEF OftenType, TypeTo
<1>4. CASE ~Typed(t, ty, i + 1)
  BY <1>2, <1>4 DEF OftenType, TypeTo
<1> QED
  BY <1>3, <1>4

\* How often each tool was called, and how many messages there were.
CallsCounted(s, t, i) ==
    \A x : /\ x \in DOMAIN s.calls <=> Often(t, x, i) # 0
           /\ x \in DOMAIN s.calls => s.calls[x] = Often(t, x, i)

\* A count is kept of exactly the names some event is a call of.
LEMMA CallsAreCounted ==
    ASSUME NEW t, Len(t) \in Nat
    PROVE  \A i \in 0 .. Len(t) : CallsCounted(States(t)[i], t, i)
<1> DEFINE st == States(t)
           S == {i \in Nat : i <= Len(t) => CallsCounted(st[i], t, i)}
<1>1. st[0] = Fresh /\ (\A i \in 0 .. Len(t) : DOMAIN st[i] = Accumulators)
      /\ \A i \in 0 .. Len(t) - 1 : st[i + 1] = Accumulated(st[i], t[i + 1], i)
  BY StatesAccumulate
<1> HIDE DEF st
<1>2. 0 \in S
  BY <1>1, OftenNext DEF CallsCounted, Fresh
<1>3. ASSUME NEW i \in Nat, i \in S PROVE i + 1 \in S
  <2> SUFFICES ASSUME i + 1 <= Len(t) PROVE CallsCounted(st[i + 1], t, i + 1)
    OBVIOUS
  <2>1. i \in 0 .. Len(t) - 1 /\ i \in 0 .. Len(t) /\ CallsCounted(st[i], t, i)
    BY <1>3
  <2> DEFINE old == st[i].calls
             new == st[i + 1].calls
             names == CalledAs(t[i + 1])
  <2>2. new = Plus(old, names, 0, 1)
    BY <1>1, <2>1, AccumulatedIs
  <2>3. \A x : /\ x \in DOMAIN old <=> Often(t, x, i) # 0
               /\ x \in DOMAIN old => old[x] = Often(t, x, i)
    BY <2>1 DEF CallsCounted
  <2> HIDE DEF old, new, names
  <2>4. /\ \A x : x \in DOMAIN new <=> x \in names \/ x \in DOMAIN old
        /\ \A x \in names : new[x] = Get(old, x, 0) + 1
        /\ \A x \in DOMAIN old \ names : new[x] = old[x]
    BY <2>2, PlusIs
  <2>5. ASSUME NEW x
        PROVE  /\ x \in DOMAIN new <=> Often(t, x, i + 1) # 0
               /\ x \in DOMAIN new => new[x] = Often(t, x, i + 1)
    <3>1. /\ Often(t, x, i) \in Nat
          /\ Often(t, x, i + 1) = IF x \in names THEN Often(t, x, i) + 1 ELSE Often(t, x, i)
      BY OftenNext DEF names
    <3>2. (x \in DOMAIN old <=> Often(t, x, i) # 0)
          /\ (x \in DOMAIN old => old[x] = Often(t, x, i))
      BY <2>3
    <3>3. CASE x \in names
      BY <2>4, <3>1, <3>2, <3>3 DEF Get
    <3>4. CASE x \notin names
      BY <2>4, <3>1, <3>2, <3>4
    <3> QED
      BY <3>3, <3>4
  <2> QED
    BY <2>5 DEF CallsCounted, new
<1>4. \A i \in Nat : i \in S
  <2> HIDE DEF S
  <2> QED
    BY <1>2, <1>3, AllNumbers
<1> QED
  BY <1>4 DEF st

\* The delegation depth is the number of messages.
LEMMA MessagesAreCounted ==
    ASSUME NEW t, Len(t) \in Nat
    PROVE  \A i \in 0 .. Len(t) : States(t)[i].depth = OftenType(t, "message", i)
<1> DEFINE st == States(t)
           S == {i \in Nat : i <= Len(t) => st[i].depth = OftenType(t, "message", i)}
<1>1. st[0] = Fresh /\ (\A i \in 0 .. Len(t) : DOMAIN st[i] = Accumulators)
      /\ \A i \in 0 .. Len(t) - 1 : st[i + 1] = Accumulated(st[i], t[i + 1], i)
  BY StatesAccumulate
<1> HIDE DEF st
<1>2. 0 \in S
  BY <1>1, OftenTypeNext DEF Fresh
<1>3. ASSUME NEW i \in Nat, i \in S PROVE i + 1 \in S
  <2> SUFFICES ASSUME i + 1 <= Len(t)
               PROVE  st[i + 1].depth = OftenType(t, "message", i + 1)
    OBVIOUS
  <2>1. OftenType(t, "message", i + 1)
        = IF Typed(t, "message", i + 1) THEN OftenType(t, "message", i) + 1
          ELSE OftenType(t, "message", i)
    BY OftenTypeNext
  <2> QED
    BY <1>1, <1>3, <2>1, AccumulatedIs DEF Typed
<1>4. \A i \in Nat : i \in S
  <2> HIDE DEF S
  <2> QED
    BY <1>2, <1>3, AllNumbers
<1> QED
  BY <1>4 DEF st

\* The counts of matching calls have keys of their own.
LEMMA MatchesAre ==
    ASSUME NEW t, Len(t) \in Nat
    PROVE  \A i \in 0 .. Len(t) : \A k \in DOMAIN States(t)[i].matches : k[1] = "count_with"
<1> DEFINE st == States(t)
           S == {i \in Nat : i <= Len(t) => \A k \in DOMAIN st[i].matches : k[1] = "count_with"}
<1>1. st[0] = Fresh /\ (\A i \in 0 .. Len(t) : DOMAIN st[i] = Accumulators)
      /\ \A i \in 0 .. Len(t) - 1 : st[i + 1] = Accumulated(st[i], t[i + 1], i)
  BY StatesAccumulate
<1> HIDE DEF st
<1>2. 0 \in S
  BY <1>1 DEF Fresh
<1>3. ASSUME NEW i \in Nat, i \in S PROVE i + 1 \in S
  <2> SUFFICES ASSUME i + 1 <= Len(t)
               PROVE  \A k \in DOMAIN st[i + 1].matches : k[1] = "count_with"
    OBVIOUS
  <2>1. i \in 0 .. Len(t) - 1 /\ i \in 0 .. Len(t)
        /\ \A k \in DOMAIN st[i].matches : k[1] = "count_with"
    BY <1>3
  <2>2. \A k : k \in DOMAIN st[i + 1].matches
                  <=> k \in MatchedCalls(t[i + 1]) \/ k \in DOMAIN st[i].matches
    BY <1>1, <2>1, PlusIs, AccumulatedIs
  <2> QED
    BY <2>1, <2>2 DEF MatchedCalls
<1>4. \A i \in Nat : i \in S
  <2> HIDE DEF S
  <2> QED
    BY <1>2, <1>3, AllNumbers
<1> QED
  BY <1>4 DEF st

\* The tokens of a trace, event by event.
SumsOf(t) == LET sum[i \in 0 .. Len(t)] ==
                     IF i = 0 THEN 0 ELSE sum[i - 1] + t[i].tokens
             IN  sum

SumsBody(r, t) == [i \in 0 .. Len(t) |-> IF i = 0 THEN 0 ELSE r[i - 1] + t[i].tokens]

\* There is a function with the recursive definition of the sums,
LEMMA SumsExist ==
    ASSUME NEW t, Len(t) \in Nat
    PROVE  \E r : r = SumsBody(r, t)
<1> DEFINE Chain(r, n) == r[0] = 0 /\ \A i \in 1 .. n : r[i] = r[i - 1] + t[i].tokens
           S == {n \in Nat : \E r : Chain(r, n)}
<1>1. 0 \in S
  <2> DEFINE r == [k \in {0} |-> 0]
  <2>1. r[0] = 0
    OBVIOUS
  <2> HIDE DEF r
  <2> QED
    BY <2>1
<1>2. ASSUME NEW n \in Nat, n \in S PROVE n + 1 \in S
  <2>1. PICK old : Chain(old, n)
    BY <1>2
  <2> DEFINE last == old[n] + t[n + 1].tokens
             r == [i \in 0 .. n + 1 |-> IF i = n + 1 THEN last ELSE old[i]]
  <2>2. r[n + 1] = last /\ \A i \in 0 .. n : r[i] = old[i]
    OBVIOUS
  <2> HIDE DEF r
  <2>3. ASSUME NEW i \in 1 .. n + 1 PROVE r[i] = r[i - 1] + t[i].tokens
    <3>1. CASE i = n + 1
      BY <2>2, <3>1
    <3>2. CASE i # n + 1
      BY <2>1, <2>2, <3>2
    <3> QED
      BY <3>1, <3>2
  <2>4. r[0] = 0
    BY <2>1, <2>2
  <2> QED
    BY <2>3, <2>4
<1>3. \A n \in Nat : n \in S
  <2> HIDE DEF S
  <2> QED
    BY <1>1, <1>2, AllNumbers
<1>4. PICK f : Chain(f, Len(t))
  BY <1>3
<1> DEFINE r == [k \in 0 .. Len(t) |-> f[k]]
<1>5. ASSUME NEW k \in 0 .. Len(t), k # 0 PROVE r[k] = r[k - 1] + t[k].tokens
  BY <1>4, <1>5
<1>6. r = [k \in 0 .. Len(t) |-> r[k]]
  OBVIOUS
<1> HIDE DEF r
<1>7. r = [k \in 0 .. Len(t) |-> IF k = 0 THEN 0 ELSE r[k - 1] + t[k].tokens]
  BY <1>4, <1>5, <1>6
<1> QED
  BY <1>7 DEF SumsBody

\* so the recursive definition is met.
LEMMA SumIs ==
    ASSUME NEW t, Len(t) \in Nat
    PROVE  /\ Sum(t) = SumsOf(t)[Len(t)]
           /\ SumsOf(t)[0] = 0
           /\ \A i \in 0 .. Len(t) - 1 : SumsOf(t)[i + 1] = SumsOf(t)[i] + t[i + 1].tokens
<1> DEFINE r == CHOOSE q : q = SumsBody(q, t)
<1>1. SumsOf(t) = r
  BY Zenon DEF SumsOf, SumsBody
<1>2. Sum(t) = r[Len(t)]
  BY Zenon DEF Sum, SumsBody
<1> HIDE DEF r
<1> QED
  BY <1>1, <1>2, SumsExist DEF SumsBody

\* The total of tokens is their sum.
LEMMA TokensAreSummed ==
    ASSUME NEW t, Len(t) \in Nat, \A i \in 1 .. Len(t) : t[i].tokens \in Nat
    PROVE  \A i \in 0 .. Len(t) : Get(States(t)[i].tokens, "total", 0) = SumsOf(t)[i]
<1> DEFINE st == States(t)
           sum == SumsOf(t)
           S == {i \in Nat : i <= Len(t) => Get(st[i].tokens, "total", 0) = sum[i] /\ sum[i] \in Nat}
<1>1. st[0] = Fresh /\ (\A i \in 0 .. Len(t) : DOMAIN st[i] = Accumulators)
      /\ \A i \in 0 .. Len(t) - 1 : st[i + 1] = Accumulated(st[i], t[i + 1], i)
  BY StatesAccumulate
<1>2. sum[0] = 0 /\ \A i \in 0 .. Len(t) - 1 : sum[i + 1] = sum[i] + t[i + 1].tokens
  BY SumIs
<1> HIDE DEF st, sum
<1>3. 0 \in S
  <2>1. st[0].tokens = <<>> /\ DOMAIN <<>> = {}
    BY <1>1 DEF Fresh
  <2> QED
    BY <1>2, <2>1 DEF Get
<1>4. ASSUME NEW i \in Nat, i \in S PROVE i + 1 \in S
  <2> SUFFICES ASSUME i + 1 <= Len(t)
               PROVE  Get(st[i + 1].tokens, "total", 0) = sum[i + 1] /\ sum[i + 1] \in Nat
    OBVIOUS
  <2>1. /\ i \in 0 .. Len(t) - 1 /\ i \in 0 .. Len(t) /\ i + 1 \in 1 .. Len(t)
        /\ Get(st[i].tokens, "total", 0) = sum[i] /\ sum[i] \in Nat
    BY <1>4
  <2>2. PICK old, new, n : old = st[i].tokens /\ new = st[i + 1].tokens /\ n = t[i + 1].tokens
    OBVIOUS
  <2>3. new = IF n = 0 THEN old ELSE Plus(old, {"total"}, 0, n)
    BY <1>1, <2>1, <2>2, AccumulatedIs
  <2>4. n \in Nat /\ sum[i + 1] = sum[i] + n /\ Get(old, "total", 0) = sum[i]
    BY <1>2, <2>1, <2>2
  <2>5. /\ "total" \in DOMAIN Plus(old, {"total"}, 0, n)
        /\ Plus(old, {"total"}, 0, n)["total"] = Get(old, "total", 0) + n
    <3>1. PICK T : T = {"total"}
      OBVIOUS
    <3>2. /\ \A x : x \in DOMAIN Plus(old, T, 0, n) <=> x \in T \/ x \in DOMAIN old
          /\ \A x \in T : Plus(old, T, 0, n)[x] = Get(old, x, 0) + n
      BY PlusIs
    <3> QED
      BY <3>1, <3>2
  <2>6. n # 0 => Get(new, "total", 0) = Get(old, "total", 0) + n
    BY <2>3, <2>5 DEF Get
  <2>7. Get(new, "total", 0) = sum[i + 1] /\ sum[i + 1] \in Nat
    BY <2>1, <2>3, <2>4, <2>6
  <2> QED
    BY <2>2, <2>7
<1>5. \A i \in Nat : i \in S
  <2> HIDE DEF S
  <2> QED
    BY <1>3, <1>4, AllNumbers
<1> QED
  BY <1>5 DEF st, sum

\* The event that set a context key last.
SaysAt(t, k, j) == t[j].type = "context_update" /\ k \in DOMAIN t[j].facts

LastSays(t, k, j, i) == SaysAt(t, k, j) /\ \A m \in 1 .. i : SaysAt(t, k, m) => m <= j

ContextSays(s, t, i) ==
    \A k : /\ k \in DOMAIN s.ctx => \E j \in 1 .. i : SaysAt(t, k, j)
           /\ \A j \in 1 .. i : LastSays(t, k, j, i) =>
                  k \in DOMAIN s.ctx /\ s.ctx[k] = t[j].facts[k]

\* A context key has the value it was set to last.
LEMMA ContextIsSaid ==
    ASSUME NEW t, Len(t) \in Nat
    PROVE  \A i \in 0 .. Len(t) : ContextSays(States(t)[i], t, i)
<1> DEFINE st == States(t)
           S == {i \in Nat : i <= Len(t) => ContextSays(st[i], t, i)}
<1>1. st[0] = Fresh /\ (\A i \in 0 .. Len(t) : DOMAIN st[i] = Accumulators)
      /\ \A i \in 0 .. Len(t) - 1 : st[i + 1] = Accumulated(st[i], t[i + 1], i)
  BY StatesAccumulate
<1> HIDE DEF st
<1>2. 0 \in S
  BY <1>1 DEF ContextSays, Fresh
<1>3. ASSUME NEW i \in Nat, i \in S PROVE i + 1 \in S
  <2> SUFFICES ASSUME i + 1 <= Len(t) PROVE ContextSays(st[i + 1], t, i + 1)
    OBVIOUS
  <2>1. i \in 0 .. Len(t) - 1 /\ i \in 0 .. Len(t) /\ ContextSays(st[i], t, i)
    BY <1>3
  <2> DEFINE old == st[i].ctx
             new == st[i + 1].ctx
             e == t[i + 1]
  <2>2. new = IF e.type = "context_update" THEN e.facts ++ old ELSE old
    BY <1>1, <2>1, AccumulatedIs DEF Context
  <2>3. /\ \A k \in DOMAIN old : \E j \in 1 .. i : SaysAt(t, k, j)
        /\ \A k : \A j \in 1 .. i : LastSays(t, k, j, i) => k \in DOMAIN old /\ old[k] = t[j].facts[k]
    BY <2>1 DEF ContextSays
  <2>4. \A k : SaysAt(t, k, i + 1) <=> e.type = "context_update" /\ k \in DOMAIN e.facts
    BY DEF SaysAt
  <2> HIDE DEF old, new
  <2>5. ASSUME NEW k \in DOMAIN new PROVE \E j \in 1 .. i + 1 : SaysAt(t, k, j)
    BY <2>2, <2>3, <2>4 DEF ++
  <2>6. ASSUME NEW k, NEW j \in 1 .. i + 1, LastSays(t, k, j, i + 1)
        PROVE  k \in DOMAIN new /\ new[k] = t[j].facts[k]
    <3>1. CASE j = i + 1
      <4> HIDE DEF e
      <4> QED
        BY <2>2, <2>4, <2>6, <3>1, OverLeft DEF e, LastSays
    <3>2. CASE j # i + 1
      <4>1. j \in 1 .. i
        BY <3>2
      <4>2. k \in DOMAIN old /\ old[k] = t[j].facts[k]
        BY <2>3, <2>6, <4>1 DEF LastSays
      <4>3. CASE e.type = "context_update"
        <5> HIDE DEF e
        <5> QED
          BY <2>2, <2>4, <2>6, <4>1, <4>2, <4>3, OverRight DEF LastSays
      <4>4. CASE e.type # "context_update"
        BY <2>2, <4>2, <4>4
      <4> QED
        BY <4>3, <4>4
    <3> QED
      BY <3>1, <3>2
  <2> QED
    BY <2>5, <2>6 DEF ContextSays, new
<1>4. \A i \in Nat : i \in S
  <2> HIDE DEF S
  <2> QED
    BY <1>2, <1>3, AllNumbers
<1> QED
  BY <1>4 DEF st

\* It is what the meaning of the patterns says was said last.
LEMMA SaidIs ==
    ASSUME NEW t, Sequence(t), NEW i \in 0 .. Len(t), NEW k
    PROVE  /\ Said(t, k, i) = Get(States(t)[i].ctx, k, "")
           /\ k \in DOMAIN States(t)[i].ctx <=> \E j \in 1 .. i : SaysAt(t, k, j)
<1> DEFINE at == {j \in OfType(t, "context_update") : j <= i /\ k \in DOMAIN t[j].facts}
           ctx == States(t)[i].ctx
<1>1. Len(t) \in Nat /\ DOMAIN t = 1 .. Len(t)
  BY SequenceIs
<1>2. \A j : j \in at <=> j \in 1 .. i /\ SaysAt(t, k, j)
  <2>1. \A j : j \in at <=> j \in 1 .. Len(t) /\ j <= i /\ SaysAt(t, k, j)
    BY <1>1 DEF OfType, SaysAt
  <2> HIDE DEF at
  <2> QED
    BY <1>1, <2>1
<1>3. Said(t, k, i) = IF at = {} THEN ""
                      ELSE t[CHOOSE j \in at : \A m \in at : m <= j].facts[k]
  BY DEF Said
<1>4. /\ k \in DOMAIN ctx => \E j \in 1 .. i : SaysAt(t, k, j)
      /\ \A j \in 1 .. i : LastSays(t, k, j, i) => k \in DOMAIN ctx /\ ctx[k] = t[j].facts[k]
  BY <1>1, ContextIsSaid DEF ContextSays
<1> HIDE DEF at, ctx
<1>5. CASE at = {}
  BY <1>2, <1>3, <1>4, <1>5 DEF Get, ctx
<1>6. CASE at # {}
  <2> DEFINE last == CHOOSE j \in at : \A m \in at : m <= j
  <2>1. \E j \in at : \A m \in at : m <= j
    <3>1. i \in Nat /\ at \subseteq 0 .. i
      BY <1>1, <1>2
    <3> QED
      BY <1>6, <3>1, Greatest
  <2>2. last \in at /\ \A m \in at : m <= last
    BY <2>1
  <2>3. Said(t, k, i) = t[last].facts[k]
    BY <1>3, <1>6
  <2> HIDE DEF last
  <2> QED
    BY <1>2, <1>4, <2>2, <2>3 DEF Get, ctx, LastSays
<1> QED
  BY <1>5, <1>6

\* The event that wrote a key last.
WritesAt(t, k, j) == t[j].type = "data_write" /\ ~t[j].internal /\ t[j].key = k

LastWrites(t, k, j, i) == WritesAt(t, k, j) /\ \A m \in 1 .. i : WritesAt(t, k, m) => m <= j

WritersKnown(s, t, i) ==
    \A k : /\ k \in DOMAIN s.writers => \E j \in 1 .. i : WritesAt(t, k, j)
           /\ \A j \in 1 .. i : LastWrites(t, k, j, i) =>
                  k \in DOMAIN s.writers /\ s.writers[k] = t[j].agent

\* A key's writer is the agent that wrote it last.
LEMMA WritersAreKnown ==
    ASSUME NEW t, Len(t) \in Nat
    PROVE  \A i \in 0 .. Len(t) : WritersKnown(States(t)[i], t, i)
<1> DEFINE st == States(t)
           S == {i \in Nat : i <= Len(t) => WritersKnown(st[i], t, i)}
<1>1. st[0] = Fresh /\ (\A i \in 0 .. Len(t) : DOMAIN st[i] = Accumulators)
      /\ \A i \in 0 .. Len(t) - 1 : st[i + 1] = Accumulated(st[i], t[i + 1], i)
  BY StatesAccumulate
<1> HIDE DEF st
<1>2. 0 \in S
  BY <1>1 DEF WritersKnown, Fresh
<1>3. ASSUME NEW i \in Nat, i \in S PROVE i + 1 \in S
  <2> SUFFICES ASSUME i + 1 <= Len(t) PROVE WritersKnown(st[i + 1], t, i + 1)
    OBVIOUS
  <2>1. i \in 0 .. Len(t) - 1 /\ i \in 0 .. Len(t) /\ WritersKnown(st[i], t, i)
    BY <1>3
  <2> DEFINE old == st[i].writers
             new == st[i + 1].writers
             e == t[i + 1]
             one == Constantly({e.key}, e.agent)
             writes == e.type = "data_write" /\ ~e.internal
  <2>2. st[i + 1].writers = Writers(st[i], e)
    BY <1>1, <2>1, AccumulatedIs
  <2>3. new = IF writes THEN one ++ old ELSE old
    BY <2>2 DEF Writers
  <2>4. \A k : /\ k \in DOMAIN old => \E j \in 1 .. i : WritesAt(t, k, j)
               /\ \A j \in 1 .. i : LastWrites(t, k, j, i) =>
                      k \in DOMAIN old /\ old[k] = t[j].agent
    BY <2>1 DEF WritersKnown
  <2>5. \A k : WritesAt(t, k, i + 1) <=> writes /\ k = e.key
    BY DEF WritesAt
  <2>6. (\A k : k \in DOMAIN one <=> k = e.key) /\ one[e.key] = e.agent
    BY DEF Constantly
  <2>7. i + 1 \in 1 .. i + 1 /\ \A m \in 1 .. i : m \in 1 .. i + 1
    OBVIOUS
  <2> HIDE DEF old, new, one, writes, e
  <2>8. ASSUME NEW k, k \in DOMAIN new PROVE \E j \in 1 .. i + 1 : WritesAt(t, k, j)
    <3>1. CASE writes /\ k = e.key
      BY <2>5, <2>7, <3>1
    <3>2. CASE ~(writes /\ k = e.key)
      <4>1. k \in DOMAIN old
        <5>1. CASE writes
          BY <2>3, <2>6, <2>8, <3>2, <5>1, OverRight
        <5>2. CASE ~writes
          BY <2>3, <2>8, <5>2
        <5> QED
          BY <5>1, <5>2
      <4> QED
        BY <2>4, <2>7, <4>1
    <3> QED
      BY <3>1, <3>2
  <2>9. ASSUME NEW k, NEW j \in 1 .. i + 1, LastWrites(t, k, j, i + 1)
        PROVE  k \in DOMAIN new /\ new[k] = t[j].agent
    <3>1. CASE j = i + 1
      BY <2>3, <2>5, <2>6, <2>9, <3>1, OverLeft DEF e, LastWrites
    <3>2. CASE j # i + 1
      <4>1. j \in 1 .. i
        BY <3>2
      <4>2. ~(writes /\ k = e.key)
        BY <2>5, <2>7, <2>9, <4>1 DEF LastWrites
      <4>3. k \in DOMAIN old /\ old[k] = t[j].agent
        BY <2>4, <2>7, <2>9, <4>1 DEF LastWrites
      <4>4. CASE writes
        BY <2>3, <2>6, <4>2, <4>3, <4>4, OverRight
      <4>5. CASE ~writes
        BY <2>3, <4>3, <4>5
      <4> QED
        BY <4>4, <4>5
    <3> QED
      BY <3>1, <3>2
  <2> QED
    BY <2>8, <2>9 DEF WritersKnown, new
<1>4. \A i \in Nat : i \in S
  <2> HIDE DEF S
  <2> QED
    BY <1>2, <1>3, AllNumbers
<1> QED
  BY <1>4 DEF st

\* Who wrote a key last, as the meaning of the patterns has it.
LEMMA WriterOfIs ==
    ASSUME NEW t, Sequence(t), NEW k, NEW i \in 1 .. Len(t)
    PROVE  /\ (\A j \in 1 .. i - 1 : ~WritesAt(t, k, j)) => WriterOf(t, k, i) = ""
           /\ \A j \in 1 .. i - 1 : LastWrites(t, k, j, i - 1) => WriterOf(t, k, i) = t[j].agent
<1> DEFINE at == {j \in OfType(t, "data_write") : j < i /\ t[j].key = k /\ ~t[j].internal}
<1>1. Len(t) \in Nat /\ DOMAIN t = 1 .. Len(t)
  BY SequenceIs
<1>2. \A j : j \in at <=> j \in 1 .. i - 1 /\ WritesAt(t, k, j)
  <2>1. \A j : j \in at <=> j \in 1 .. Len(t) /\ j < i /\ WritesAt(t, k, j)
    BY <1>1 DEF OfType, WritesAt
  <2> HIDE DEF at
  <2> QED
    BY <1>1, <2>1
<1>3. WriterOf(t, k, i) = IF at = {} THEN ""
                          ELSE t[CHOOSE j \in at : \A m \in at : m <= j].agent
  BY DEF WriterOf
<1> HIDE DEF at
<1>4. ASSUME \A j \in 1 .. i - 1 : ~WritesAt(t, k, j) PROVE WriterOf(t, k, i) = ""
  BY <1>2, <1>3, <1>4
<1>5. ASSUME NEW j \in 1 .. i - 1, LastWrites(t, k, j, i - 1) PROVE WriterOf(t, k, i) = t[j].agent
  <2>1. j \in at /\ \A m \in at : m <= j
    BY <1>2, <1>5 DEF LastWrites
  <2>2. (CHOOSE m \in at : \A q \in at : q <= m) = j
    <3> DEFINE c == CHOOSE m \in at : \A q \in at : q <= m
    <3> HIDE DEF c
    <3> QED
      BY <1>2, <2>1 DEF c
  <2> QED
    BY <1>3, <2>1, <2>2
<1> QED
  BY <1>4, <1>5

\* A key somebody wrote, somebody wrote last.
LEMMA SomebodyLast ==
    ASSUME NEW t, NEW k, NEW i \in Nat, NEW j \in 1 .. i, WritesAt(t, k, j)
    PROVE  \E m \in 1 .. i : LastWrites(t, k, m, i)
<1> DEFINE A == {m \in 1 .. i : WritesAt(t, k, m)}
<1>1. A \subseteq 0 .. i /\ A # {}
  OBVIOUS
<1>2. PICK m \in A : \A q \in A : q <= m
  <2> HIDE DEF A
  <2> QED
    BY <1>1, Greatest
<1> QED
  BY <1>2 DEF LastWrites

\* The position before one of a trace.
LEMMA Before ==
    ASSUME NEW n \in Nat, NEW i \in 1 .. n
    PROVE  i - 1 \in 0 .. n /\ i - 1 \in Nat
  OBVIOUS

Flow(x, y) == <<"flow", x, y>>

\* What an event lets flow is what the meaning of the patterns says it does.
LEMMA FlowsAt ==
    ASSUME NEW t, Sequence(t), NEW i \in 1 .. Len(t), NEW x, x # "", NEW y
    PROVE  Flow(x, y) \in Flowed(States(t)[i - 1], t[i]) <=> i \in Flows(t, x, y)
<1> DEFINE s == States(t)[i - 1]
           e == t[i]
           k == e.key
<1>1. Len(t) \in Nat /\ DOMAIN t = 1 .. Len(t) /\ i - 1 \in 0 .. Len(t) /\ i - 1 \in Nat
  BY Before, SequenceIs
<1>2. WritersKnown(s, t, i - 1)
  BY <1>1, WritersAreKnown
<1>3. ASSUME k \in DOMAIN s.writers
      PROVE  WriterOf(t, k, i) = s.writers[k]
  <2>1. PICK j \in 1 .. i - 1 : WritesAt(t, k, j)
    BY <1>2, <1>3 DEF WritersKnown
  <2>2. PICK m \in 1 .. i - 1 : LastWrites(t, k, m, i - 1)
    BY <1>1, <2>1, SomebodyLast
  <2>3. WriterOf(t, k, i) = t[m].agent
    BY <2>2, WriterOfIs
  <2> QED
    BY <1>2, <2>2, <2>3 DEF WritersKnown
<1>4. ASSUME k \notin DOMAIN s.writers
      PROVE  WriterOf(t, k, i) = ""
  <2>1. ASSUME NEW j \in 1 .. i - 1, WritesAt(t, k, j) PROVE FALSE
    <3>1. PICK m \in 1 .. i - 1 : LastWrites(t, k, m, i - 1)
      BY <1>1, <2>1, SomebodyLast
    <3> QED
      BY <1>2, <1>4, <3>1 DEF WritersKnown
  <2> QED
    BY <2>1, WriterOfIs
<1> HIDE DEF s, e, k
<1> QED
  BY <1>1, <1>3, <1>4 DEF s, e, k, Flows, OfType, Flowed, Flow

\* What is kept after one more event.
LEMMA KeptNext ==
    ASSUME NEW t, Len(t) \in Nat, NEW i \in 0 .. Len(t) - 1
    PROVE  States(t)[i + 1].kept
               = States(t)[i].kept \cup Contained(t[i + 1]) \cup Flowed(States(t)[i], t[i + 1])
<1>1. PICK s, e : s = States(t)[i] /\ e = t[i + 1]
  OBVIOUS
<1>2. DOMAIN s = Accumulators /\ States(t)[i + 1] = Accumulated(s, e, i)
  BY <1>1, StatesAccumulate
<1> QED
  BY <1>1, <1>2, AccumulatedIs

\* What flowed stays known.
LEMMA FlowsAreKept ==
    ASSUME NEW t, Len(t) \in Nat, NEW x, NEW y
    PROVE  \A i \in 0 .. Len(t) :
               Flow(x, y) \in States(t)[i].kept
               <=> \E j \in 1 .. i : Flow(x, y) \in Flowed(States(t)[j - 1], t[j])
<1> DEFINE st == States(t)
           flow == Flow(x, y)
           Then(i) == \E j \in 1 .. i : flow \in Flowed(st[j - 1], t[j])
           S == {i \in Nat : i <= Len(t) => (flow \in st[i].kept <=> Then(i))}
<1>1. st[0] = Fresh
  BY StatesAccumulate
<1>2. \A e : flow \notin Contained(e)
  <2>1. \A f : <<"contains", f>> # Flow(x, y)
    BY DEF Flow
  <2> QED
    BY <2>1 DEF Contained
<1> HIDE DEF st, flow
<1>3. 0 \in S
  <2>1. st[0].kept = {}
    BY <1>1 DEF Fresh
  <2>2. ~Then(0)
    OBVIOUS
  <2> QED
    BY <2>1, <2>2
<1>4. ASSUME NEW i \in Nat, i \in S PROVE i + 1 \in S
  <2> SUFFICES ASSUME i + 1 <= Len(t) PROVE flow \in st[i + 1].kept <=> Then(i + 1)
    OBVIOUS
  <2>1. i \in 0 .. Len(t) - 1 /\ i \in 0 .. Len(t) /\ (flow \in st[i].kept <=> Then(i))
    BY <1>4
  <2>2. st[i + 1].kept = st[i].kept \cup Contained(t[i + 1]) \cup Flowed(st[i], t[i + 1])
    BY <2>1, KeptNext DEF st
  <2>3. flow \in st[i + 1].kept <=> flow \in st[i].kept \/ flow \in Flowed(st[i], t[i + 1])
    BY <1>2, <2>2
  <2>4. Then(i + 1) <=> Then(i) \/ flow \in Flowed(st[i], t[i + 1])
    <3>1. 1 .. i + 1 = (1 .. i) \cup {i + 1} /\ (i + 1) - 1 = i
      OBVIOUS
    <3> QED
      BY <3>1
  <2> QED
    BY <2>1, <2>3, <2>4
<1>5. \A i \in Nat : i \in S
  <2> HIDE DEF S
  <2> QED
    BY <1>3, <1>4, AllNumbers
<1> QED
  BY <1>5 DEF st, flow

\* The predicates held after an event are its facts.
LEMMA HeldIs ==
    ASSUME NEW t, Len(t) \in Nat, NEW n \in 1 .. Len(t)
    PROVE  States(t)[n].held = Facts(States(t)[n], t[n])
<1>1. States(t)[n] = Accumulated(States(t)[n - 1], t[n], n - 1)
      /\ DOMAIN States(t)[n - 1] = Accumulators
  BY StatesAccumulate
<1> QED
  BY <1>1, AccumulatedIs

\* Only what a message, a read or a write leaves is kept.
LEMMA KeptKeys ==
    ASSUME NEW t, Len(t) \in Nat
    PROVE  \A i \in 0 .. Len(t) : \A k \in States(t)[i].kept : k[1] \in {"contains", "flow"}
<1> DEFINE st == States(t)
           S == {i \in Nat : i <= Len(t) => \A k \in st[i].kept : k[1] \in {"contains", "flow"}}
<1>1. st[0] = Fresh
  BY StatesAccumulate
<1>2. \A s, e : /\ \A k \in Contained(e) : k[1] = "contains"
                /\ \A k \in Flowed(s, e) : k[1] = "flow"
  BY DEF Contained, Flowed
<1> HIDE DEF st
<1>3. 0 \in S
  <2>1. st[0].kept = {}
    BY <1>1 DEF Fresh
  <2> QED
    BY <2>1
<1>4. ASSUME NEW i \in Nat, i \in S PROVE i + 1 \in S
  <2> SUFFICES ASSUME i + 1 <= Len(t)
               PROVE  \A k \in st[i + 1].kept : k[1] \in {"contains", "flow"}
    OBVIOUS
  <2>1. i \in 0 .. Len(t) - 1 /\ i \in 0 .. Len(t)
        /\ \A k \in st[i].kept : k[1] \in {"contains", "flow"}
    BY <1>4
  <2>2. st[i + 1].kept = st[i].kept \cup Contained(t[i + 1]) \cup Flowed(st[i], t[i + 1])
    BY <2>1, KeptNext DEF st
  <2> QED
    BY <1>2, <2>1, <2>2
<1>5. \A i \in Nat : i \in S
  <2> HIDE DEF S
  <2> QED
    BY <1>3, <1>4, AllNumbers
<1> QED
  BY <1>5 DEF st

\* The facts of an event are told apart by their first name.
LEMMA FactsAre ==
    ASSUME NEW s, \A k \in s.kept : k[1] \in {"contains", "flow"}, NEW e, Carries(e)
    PROVE  /\ \A x : <<"called", x>> \in Facts(s, e) <=> x \in CalledAs(e)
           /\ <<"called_any">> \in Facts(s, e) <=> CalledAs(e) # {}
           /\ \A p : <<"perm", p>> \in Facts(s, e) <=> p \in Get(Perms, e.agent, {})
           /\ \A k : k[1] \notin Derived => (k \in Facts(s, e) <=> k \in e.content \cup e.output)
           /\ \A k, w : <<"ctx", k, w>> \in Facts(s, e) <=> k \in DOMAIN s.ctx /\ s.ctx[k] = w
           /\ \A k, w : <<"ctx_matches", k, w>> \in Facts(s, e)
                            <=> k \in DOMAIN s.ctx /\ w \in Found(s.ctx[k])
<1> DEFINE A == {<<"called", a>> : a \in CalledAs(e)}
           B == IF CalledAs(e) # {} THEN {<<"called_any">>} ELSE {}
           C == e.content \cup e.output
           D == {<<"perm", p>> : p \in Get(Perms, e.agent, {})}
           E == {<<"ctx", k, s.ctx[k]>> : k \in DOMAIN s.ctx}
           M == UNION {{<<"ctx_matches", k, w>> : w \in Found(s.ctx[k])} : k \in DOMAIN s.ctx}
           H == {<<"current_agent", e.agent>>}
<1>1. /\ \A a : <<"called", a>>[1] = "called" /\ <<"perm", a>>[1] = "perm"
                /\ <<"current_agent", a>>[1] = "current_agent"
      /\ \A op, k, v : <<op, k, v>>[1] = op
      /\ <<"called_any">>[1] = "called_any"
  OBVIOUS
<1>2. /\ \A k \in A : k[1] = "called"
      /\ \A k \in B : k[1] = "called_any"
      /\ \A k \in D : k[1] = "perm"
      /\ \A k \in E : k[1] = "ctx"
      /\ \A k \in M : k[1] = "ctx_matches"
      /\ \A k \in H : k[1] = "current_agent"
  BY <1>1
<1>3. \A k \in C : k[1] \notin Derived
  BY DEF Carries
<1>4. \A x : <<"called", x>> \in A <=> x \in CalledAs(e)
  OBVIOUS
<1>5. <<"called_any">> \in B <=> CalledAs(e) # {}
  OBVIOUS
<1>6. \A p : <<"perm", p>> \in D <=> p \in Get(Perms, e.agent, {})
  OBVIOUS
<1>7. \A k, w : <<"ctx", k, w>> \in E <=> k \in DOMAIN s.ctx /\ s.ctx[k] = w
  OBVIOUS
<1>11. \A k, w : <<"ctx_matches", k, w>> \in M <=> k \in DOMAIN s.ctx /\ w \in Found(s.ctx[k])
  OBVIOUS
<1>10. Facts(s, e) = A \cup B \cup e.content \cup e.output \cup s.kept \cup D \cup E \cup M \cup H
  BY Zenon DEF Facts
<1> HIDE DEF A, B, D, E, H, M
<1>8. \A k : k \in Facts(s, e) <=> \/ k \in A \/ k \in B \/ k \in C \/ k \in s.kept
                                   \/ k \in D \/ k \in E \/ k \in M \/ k \in H
  BY <1>10
<1> HIDE DEF C
<1>9. \A k, w : <<"ctx", k, w>> \in Facts(s, e) <=> <<"ctx", k, w>> \in E
  <2> TAKE k, w
  <2> DEFINE q == <<"ctx", k, w>>
  <2>1. q[1] = "ctx"
    OBVIOUS
  <2> HIDE DEF q
  <2>2. q \in Facts(s, e) <=> q \in E
    BY <1>2, <1>3, <1>8, <2>1 DEF Derived
  <2> QED
    BY <2>2 DEF q
<1>12. \A k, w : <<"ctx_matches", k, w>> \in Facts(s, e) <=> <<"ctx_matches", k, w>> \in M
  <2> TAKE k, w
  <2> DEFINE q == <<"ctx_matches", k, w>>
  <2>1. q[1] = "ctx_matches"
    OBVIOUS
  <2> HIDE DEF q
  <2>2. q \in Facts(s, e) <=> q \in M
    BY <1>2, <1>3, <1>8, <2>1 DEF Derived
  <2> QED
    BY <2>2 DEF q
<1>13. \A k, w : <<"ctx", k, w>> \in Facts(s, e) <=> k \in DOMAIN s.ctx /\ s.ctx[k] = w
  BY <1>7, <1>9
<1>14. \A k, w : <<"ctx_matches", k, w>> \in Facts(s, e)
                      <=> k \in DOMAIN s.ctx /\ w \in Found(s.ctx[k])
  BY <1>11, <1>12
<1>15. /\ \A x : <<"called", x>> \in Facts(s, e) <=> x \in CalledAs(e)
       /\ <<"called_any">> \in Facts(s, e) <=> CalledAs(e) # {}
       /\ \A p : <<"perm", p>> \in Facts(s, e) <=> p \in Get(Perms, e.agent, {})
       /\ \A k : k[1] \notin Derived => (k \in Facts(s, e) <=> k \in e.content \cup e.output)
  BY <1>1, <1>2, <1>3, <1>4, <1>5, <1>6, <1>8 DEF C, Derived
<1> QED
  BY <1>13, <1>14, <1>15

\* and what is kept.
LEMMA KeptFacts ==
    ASSUME NEW s, NEW e, Carries(e), NEW k, k[1] \in {"contains", "flow"}
    PROVE  k \in Facts(s, e) <=> k \in s.kept
<1>1. /\ \A a : <<"called", a>>[1] = "called" /\ <<"perm", a>>[1] = "perm"
                /\ <<"current_agent", a>>[1] = "current_agent"
      /\ \A op, q, v : <<op, q, v>>[1] = op
      /\ <<"called_any">>[1] = "called_any"
  OBVIOUS
<1>2. k \notin e.content \cup e.output
  BY DEF Carries, Derived
<1>3. /\ k \notin {<<"called", a>> : a \in CalledAs(e)}
      /\ k \notin (IF CalledAs(e) # {} THEN {<<"called_any">>} ELSE {})
      /\ k \notin {<<"perm", p>> : p \in Get(Perms, e.agent, {})}
      /\ k \notin {<<"ctx", q, s.ctx[q]>> : q \in DOMAIN s.ctx}
      /\ k \notin {<<"current_agent", e.agent>>}
  BY <1>1
<1>4. k \notin UNION {{<<"ctx_matches", q, w>> : w \in Found(s.ctx[q])} : q \in DOMAIN s.ctx}
  BY <1>1
<1> QED
  BY <1>2, <1>3, <1>4, Zenon DEF Facts

\* A field is contained from the write that contains it on.
LEMMA ContainedIs ==
    ASSUME NEW t, Len(t) \in Nat, \A i \in 1 .. Len(t) : Carries(t[i]), NEW x
    PROVE  \A i \in 0 .. Len(t) :
               <<"contains", x>> \in States(t)[i].kept <=> \E j \in 1 .. i : x \in t[j].contains
<1> DEFINE st == States(t)
           has == <<"contains", x>>
           Then(i) == \E j \in 1 .. i : x \in t[j].contains
           S == {i \in Nat : i <= Len(t) => (has \in st[i].kept <=> Then(i))}
<1>1. st[0] = Fresh
  BY StatesAccumulate
<1>2. \A s, e : has \notin Flowed(s, e)
  BY DEF Flowed
<1>3. \A e : Carries(e) => (has \in Contained(e) <=> x \in e.contains)
  BY DEF Contained, Carries
<1> HIDE DEF st, has
<1>4. 0 \in S
  <2>1. st[0].kept = {}
    BY <1>1 DEF Fresh
  <2>2. ~Then(0)
    OBVIOUS
  <2> QED
    BY <2>1, <2>2
<1>5. ASSUME NEW i \in Nat, i \in S PROVE i + 1 \in S
  <2> SUFFICES ASSUME i + 1 <= Len(t) PROVE has \in st[i + 1].kept <=> Then(i + 1)
    OBVIOUS
  <2>1. i \in 0 .. Len(t) - 1 /\ i \in 0 .. Len(t) /\ (has \in st[i].kept <=> Then(i))
    BY <1>5
  <2>2. st[i + 1].kept = st[i].kept \cup Contained(t[i + 1]) \cup Flowed(st[i], t[i + 1])
    BY <2>1, KeptNext DEF st
  <2>3. i + 1 \in 1 .. Len(t)
    OBVIOUS
  <2>4. has \in st[i + 1].kept <=> has \in st[i].kept \/ x \in t[i + 1].contains
    BY <1>2, <1>3, <2>2, <2>3
  <2>5. Then(i + 1) <=> Then(i) \/ x \in t[i + 1].contains
    <3>1. 1 .. i + 1 = (1 .. i) \cup {i + 1}
      OBVIOUS
    <3> QED
      BY <3>1
  <2> QED
    BY <2>1, <2>4, <2>5
<1>6. \A i \in Nat : i \in S
  <2> HIDE DEF S
  <2> QED
    BY <1>4, <1>5, AllNumbers
<1> QED
  BY <1>6 DEF st, has

\* The calls in a row up to the i-th event.
RowTo(t, x, i) ==
    {j \in 1 .. i : /\ x \in CalledAs(t[j])
                    /\ \A k \in j .. i : CalledAs(t[k]) # {} => x \in CalledAs(t[k])}
Row(t, x, i) == Cardinality(RowTo(t, x, i))

\* How many calls in a row there were, one event later.
LEMMA RowNext ==
    ASSUME NEW t, NEW x, NEW i \in Nat
    PROVE  /\ Row(t, x, 0) = 0
           /\ Row(t, x, i) \in Nat
           /\ CalledAs(t[i + 1]) = {} => Row(t, x, i + 1) = Row(t, x, i)
           /\ x \in CalledAs(t[i + 1]) => Row(t, x, i + 1) = Row(t, x, i) + 1
           /\ CalledAs(t[i + 1]) # {} /\ x \notin CalledAs(t[i + 1]) => Row(t, x, i + 1) = 0
<1> DEFINE names == CalledAs(t[i + 1])
           Bound(k) == CalledAs(t[k]) # {} => x \in CalledAs(t[k])
           A == RowTo(t, x, i)
           B == RowTo(t, x, i + 1)
<1>1. RowTo(t, x, 0) = {} /\ UpTo(A, i)
  BY DEF RowTo, UpTo
<1>2. Row(t, x, 0) = 0 /\ Row(t, x, i) \in Nat /\ Cardinality({}) = 0
  BY <1>1, SomeCounted, FS_EmptySet DEF Row
<1>3. \A j : j \in A <=> j \in 1 .. i /\ x \in CalledAs(t[j]) /\ \A k \in j .. i : Bound(k)
  BY DEF RowTo
<1>4. \A j : j \in B <=> /\ j \in 1 .. i + 1 /\ x \in CalledAs(t[j])
                         /\ \A k \in j .. i + 1 : Bound(k)
  BY DEF RowTo
<1>5. Bound(i + 1) <=> (names # {} => x \in names)
  OBVIOUS
<1>6. \A j \in 1 .. i + 1 : (j \in 1 .. i \/ j = i + 1) /\ i + 1 \in j .. i + 1
                            /\ j .. i + 1 = (j .. i) \cup {i + 1}
  OBVIOUS
<1>7. i + 1 \in 1 .. i + 1 /\ \A j \in 1 .. i : j \in 1 .. i + 1
  OBVIOUS
<1>8. x \in CalledAs(t[i + 1]) <=> x \in names
  OBVIOUS
<1> HIDE DEF names, Bound, A, B
<1>9. CASE names = {}
  <2>1. \A j : j \in B <=> j \in A
    BY <1>3, <1>4, <1>5, <1>6, <1>7, <1>8, <1>9
  <2> QED
    BY <1>2, <1>9, <2>1 DEF Row, A, B, names
<1>10. CASE x \in names
  <2>1. \A j : j \in B <=> j \in A \/ j = i + 1
    BY <1>3, <1>4, <1>5, <1>6, <1>7, <1>8, <1>10
  <2> QED
    BY <1>1, <1>2, <1>10, <2>1, OneMore DEF Row, A, B, names
<1>11. CASE names # {} /\ x \notin names
  BY <1>2, <1>4, <1>5, <1>6, <1>11 DEF Row, B, names
<1> QED
  BY <1>2, <1>9, <1>10, <1>11 DEF names

\* It is the number the meaning of the patterns counts.
LEMMA RowIs ==
    ASSUME NEW t, Sequence(t), NEW x
    PROVE  InARow(t, x, Len(t)) = Row(t, x, Len(t))
<1> DEFINE n == Len(t)
           others == {k \in DOMAIN t : CalledAs(t[k]) # {} /\ x \notin CalledAs(t[k])}
           A == {j \in Calls(t, x) : j <= n /\ \A k \in others : k < j \/ k > n}
<1>1. n \in Nat /\ DOMAIN t = 1 .. n
  BY SequenceIs
<1>2. InARow(t, x, Len(t)) = Cardinality(A)
  BY DEF InARow, RowOf
<1>3. \A j : j \in A <=> /\ j \in 1 .. n /\ j <= n /\ x \in CalledAs(t[j])
                         /\ \A k \in others : k < j \/ k > n
  BY <1>1 DEF Calls
<1>4. \A k : k \in others <=> k \in 1 .. n /\ CalledAs(t[k]) # {} /\ x \notin CalledAs(t[k])
  BY <1>1
<1> HIDE DEF n, others, A
<1>5. ASSUME NEW j \in 1 .. n
      PROVE  (\A k \in others : k < j \/ k > n)
             <=> \A k \in j .. n : CalledAs(t[k]) # {} => x \in CalledAs(t[k])
  <2>1. \A k : k \in 1 .. n /\ ~(k < j \/ k > n) <=> k \in j .. n
    BY <1>1
  <2> QED
    BY <1>4, <2>1
<1>6. \A j \in 1 .. n : j <= n
  BY <1>1
<1>7. A = RowTo(t, x, n)
  BY <1>3, <1>5, <1>6 DEF RowTo
<1> QED
  BY <1>2, <1>7 DEF Row, n

RunsKnown(s, t, x, i) ==
    /\ s.last = {} \/ \E j \in 1 .. i : s.last = CalledAs(t[j])
    /\ x \in s.last => x \in DOMAIN s.runs /\ s.runs[x] = Row(t, x, i)
    /\ x \notin s.last => Row(t, x, i) = 0 /\ (x \in DOMAIN s.runs => s.runs[x] = 0)
    /\ \A j \in 1 .. i : x \in CalledAs(t[j]) => x \in DOMAIN s.runs

\* The run of a name, when no call shares a name with a call of it but is
\* not one.
LEMMA RunsFrom ==
    ASSUME NEW s, NEW names, names # {}, NEW x
    PROVE  /\ x \in names /\ names \cap s.last # {} =>
                  x \in DOMAIN Runs(s, names) /\ Runs(s, names)[x] = Get(s.runs, x, 1) + 1
           /\ x \notin names /\ names \cap s.last # {} =>
                  /\ x \in DOMAIN Runs(s, names) <=> x \in DOMAIN s.runs
                  /\ x \in DOMAIN s.runs => Runs(s, names)[x] = s.runs[x]
           /\ x \in names /\ names \cap s.last = {} =>
                  x \in DOMAIN Runs(s, names) /\ Runs(s, names)[x] = 1
           /\ x \notin names /\ names \cap s.last = {} /\ x \in s.last =>
                  x \in DOMAIN Runs(s, names) /\ Runs(s, names)[x] = 0
           /\ x \notin names /\ names \cap s.last = {} /\ x \notin s.last =>
                  /\ x \in DOMAIN Runs(s, names) <=> x \in DOMAIN s.runs
                  /\ x \in DOMAIN s.runs => Runs(s, names)[x] = s.runs[x]
<1>1. CASE names \cap s.last # {}
  <2> DEFINE new == Plus(s.runs, names, 1, 1)
  <2>1. Runs(s, names) = new
    BY <1>1 DEF Runs
  <2>2. /\ \A y : y \in DOMAIN new <=> y \in names \/ y \in DOMAIN s.runs
        /\ \A y \in names : new[y] = Get(s.runs, y, 1) + 1
        /\ \A y \in DOMAIN s.runs \ names : new[y] = s.runs[y]
    BY PlusIs
  <2> HIDE DEF new
  <2> QED
    BY <1>1, <2>1, <2>2
<1>2. CASE names \cap s.last = {}
  <2> DEFINE ones == Constantly(names, 1)
             zeros == Constantly(s.last, 0)
             both == ones ++ zeros
             new == both ++ s.runs
  <2>1. Runs(s, names) = new
    BY <1>2 DEF Runs
  <2>2. /\ DOMAIN ones = names /\ \A y \in names : ones[y] = 1
        /\ DOMAIN zeros = s.last /\ \A y \in s.last : zeros[y] = 0
    BY DEF Constantly
  <2> HIDE DEF ones, zeros
  <2>3. CASE x \in names
    <3>1. x \in DOMAIN both /\ both[x] = ones[x]
      BY <2>2, <2>3, OverLeft
    <3> HIDE DEF both
    <3>2. x \in DOMAIN new /\ new[x] = both[x]
      BY <3>1, OverLeft
    <3> HIDE DEF new
    <3> QED
      BY <1>2, <2>1, <2>2, <2>3, <3>1, <3>2
  <2>4. CASE x \notin names
    <3>1. (x \in DOMAIN both <=> x \in s.last) /\ (x \in s.last => both[x] = zeros[x])
      BY <2>2, <2>4, OverRight
    <3> HIDE DEF both
    <3>2. x \in DOMAIN both => x \in DOMAIN new /\ new[x] = both[x]
      BY OverLeft
    <3>3. x \notin DOMAIN both => /\ x \in DOMAIN new <=> x \in DOMAIN s.runs
                                  /\ x \in DOMAIN s.runs => new[x] = s.runs[x]
      BY OverRight
    <3> HIDE DEF new
    <3> QED
      BY <1>2, <2>1, <2>2, <2>4, <3>1, <3>2, <3>3
  <2> QED
    BY <2>3, <2>4
<1> QED
  BY <1>1, <1>2

\* The run kept of a name is the number of its calls in a row.
LEMMA RunsAreKnown ==
    ASSUME NEW t, Sequence(t), NEW x, Uniform(t, x)
    PROVE  \A i \in 0 .. Len(t) : RunsKnown(States(t)[i], t, x, i)
<1> DEFINE st == States(t)
           S == {i \in Nat : i <= Len(t) => RunsKnown(st[i], t, x, i)}
<1>1. Len(t) \in Nat /\ DOMAIN t = 1 .. Len(t)
  BY SequenceIs
<1>2. st[0] = Fresh /\ (\A i \in 0 .. Len(t) : DOMAIN st[i] = Accumulators)
      /\ \A i \in 0 .. Len(t) - 1 : st[i + 1] = Accumulated(st[i], t[i + 1], i)
  BY <1>1, StatesAccumulate
<1> HIDE DEF st
<1>3. 0 \in S
  BY <1>2, RowNext DEF RunsKnown, Fresh
<1>4. ASSUME NEW i \in Nat, i \in S PROVE i + 1 \in S
  <2> SUFFICES ASSUME i + 1 <= Len(t) PROVE RunsKnown(st[i + 1], t, x, i + 1)
    OBVIOUS
  <2>1. i \in 0 .. Len(t) - 1 /\ i \in 0 .. Len(t) /\ RunsKnown(st[i], t, x, i)
    BY <1>1, <1>4
  <2> DEFINE names == CalledAs(t[i + 1])
             s == st[i]
             last == s.last
             old == s.runs
             new == st[i + 1].runs
             row == Row(t, x, i)
             then == Row(t, x, i + 1)
  <2>2. /\ st[i + 1].runs = Runs(s, names)
        /\ st[i + 1].last = IF names = {} THEN last ELSE names
    BY <1>2, <2>1, AccumulatedIs
  <2>3. /\ last = {} \/ \E j \in 1 .. i : last = CalledAs(t[j])
        /\ x \in last => x \in DOMAIN old /\ old[x] = row
        /\ x \notin last => row = 0 /\ (x \in DOMAIN old => old[x] = 0)
        /\ \A j \in 1 .. i : x \in CalledAs(t[j]) => x \in DOMAIN old
    BY <2>1 DEF RunsKnown
  <2>4. /\ row \in Nat
        /\ names = {} => then = row
        /\ x \in names => then = row + 1
        /\ names # {} /\ x \notin names => then = 0
    BY RowNext
  <2>5. names \cap last # {} => (x \in names <=> x \in last)
    <3>1. SUFFICES ASSUME names \cap last # {} PROVE x \in names <=> x \in last
      OBVIOUS
    <3>2. PICK j \in 1 .. i : last = CalledAs(t[j])
      BY <2>3, <3>1
    <3> QED
      BY <1>1, <3>1, <3>2 DEF Uniform
  <2>6. /\ st[i + 1].last = {} \/ \E j \in 1 .. i + 1 : st[i + 1].last = CalledAs(t[j])
        /\ \A j \in 1 .. i + 1 : x \in CalledAs(t[j]) => x \in names \/ x \in DOMAIN old
    BY <2>2, <2>3
  <2>7. CASE names = {}
    BY <2>2, <2>3, <2>4, <2>6, <2>7 DEF RunsKnown, Runs
  <2>8. CASE names # {} /\ x \in names
    <3>1. x \in DOMAIN new /\ new[x] = row + 1
      <4>1. CASE names \cap last # {}
        BY <2>2, <2>3, <2>5, <2>8, <4>1, RunsFrom DEF Get
      <4>2. CASE names \cap last = {}
        BY <2>2, <2>3, <2>8, <4>2, RunsFrom
      <4> QED
        BY <4>1, <4>2
    <3> QED
      BY <2>2, <2>4, <2>6, <2>8, <3>1 DEF RunsKnown
  <2>9. CASE names # {} /\ x \notin names
    <3>1. /\ x \in DOMAIN new => new[x] = 0
          /\ x \in DOMAIN old => x \in DOMAIN new
      <4>1. CASE names \cap last # {}
        BY <2>2, <2>3, <2>5, <2>9, <4>1, RunsFrom
      <4>2. CASE names \cap last = {} /\ x \in last
        BY <2>2, <2>9, <4>2, RunsFrom
      <4>3. CASE names \cap last = {} /\ x \notin last
        BY <2>2, <2>3, <2>9, <4>3, RunsFrom
      <4> QED
        BY <4>1, <4>2, <4>3
    <3> QED
      BY <2>2, <2>4, <2>6, <2>9, <3>1 DEF RunsKnown
  <2> QED
    BY <2>7, <2>8, <2>9
<1>5. \A i \in Nat : i \in S
  <2> HIDE DEF S
  <2> QED
    BY <1>3, <1>4, AllNumbers
<1> QED
  BY <1>5 DEF st

\* Every event of the trace carries what its kind does.
EventsInv == \A i \in 1 .. Len(trace) : Carries(trace[i])

\* It holds of an imported history,
LEMMA InitEvents == Init => EventsInv
<1> SUFFICES ASSUME Init PROVE EventsInv
  OBVIOUS
<1>1. PICK name \in DOMAIN Books : book = Books[name]
  BY DEF Init
<1> QED
  BY <1>1, EventsAssumption, InitHistory, SequenceIs DEF EventsInv, Init,
     HistoryInv

\* An output changes nothing else of the event it is put on.
LEMMA AttachedCarries ==
    ASSUME NEW t, Sequence(t), \A i \in 1 .. Len(t) : Carries(t[i]),
           NEW out, \A k \in out.keys : k[1] \notin Derived \cup {"called_with"}
    PROVE  \A i \in 1 .. Len(Attached(t, out)) : Carries(Attached(t, out)[i])
<1> DEFINE a == Attached(t, out)
<1>1. Len(a) = Len(t) /\ DOMAIN t = 1 .. Len(t)
  BY AttachedIs, SequenceIs
<1> HIDE DEF a
<1>2. CASE a = t
  BY <1>1, <1>2 DEF a
<1>3. ASSUME NEW m, a = [t EXCEPT ![m].output = @ \cup out.keys]
      PROVE  \A i \in 1 .. Len(a) : Carries(a[i])
  <2> TAKE i \in 1 .. Len(a)
  <2>1. i \in 1 .. Len(t) /\ i \in DOMAIN t /\ Carries(t[i])
    BY <1>1
  <2>2. CASE i # m
    BY <1>3, <2>1, <2>2
  <2>3. CASE i = m
    <3> DEFINE e == t[i]
               f == a[i]
    <3>1. f = [e EXCEPT !.output = @ \cup out.keys]
      BY <1>3, <2>1, <2>3
    <3>2. Carries(e)
      BY <2>1
    <3> HIDE DEF e, f
    <3>3. Carries(f)
      BY <2>1, <3>1, <3>2 DEF Carries, CalledAs, Blank
    <3> QED
      BY <3>3 DEF f
  <2> QED
    BY <2>2, <2>3
<1> QED
  BY <1>2, <1>3 DEF a, Attached

\* and after every step.
LEMMA StepEvents ==
    ASSUME HistoryInv, EventsInv, [Next]_vars
    PROVE  EventsInv'
<1>1. Sequence(trace) /\ Len(trace) \in Nat
  BY SequenceIs DEF HistoryInv
<1>2. PICK name \in DOMAIN Books : book = Books[name]
  BY DEF HistoryInv
<1>3. ASSUME NEW e, e \in book.calls \cup book.seen, trace' = Append(trace, e)
      PROVE  EventsInv'
  BY <1>1, <1>2, <1>3, EventsAssumption, Appended DEF EventsInv
<1>4. ASSUME trace # <<>>, trace' = SubSeq(trace, 1, Len(trace) - 1)
      PROVE  EventsInv'
  BY <1>1, <1>4, Prefix, NoLength DEF EventsInv
<1>5. ASSUME NEW out \in book.outputs, trace' = Attached(trace, out)
      PROVE  EventsInv'
  BY <1>1, <1>2, <1>5, AttachedCarries, EventsAssumption DEF EventsInv
<1>6. ASSUME trace' = trace PROVE EventsInv'
  BY <1>6 DEF EventsInv
<1>7. ASSUME trace' = <<>> PROVE EventsInv'
  BY <1>7, EmptySequence DEF EventsInv
<1>8. ASSUME NEW t \in Thread, NEW e \in book.calls, NEW probe \in BOOLEAN, Check(t, e, probe)
      PROVE  trace' = Append(trace, e)
  BY <1>8 DEF Check, Recorded
<1>9. ASSUME NEW t \in Thread, NEW e \in book.seen, Observe(t, e)
      PROVE  trace' = Append(trace, e)
  BY <1>9 DEF Observe, Recorded
<1>10. ASSUME NEW t \in Thread, Settle(t)
       PROVE  trace' = trace \/ (trace # <<>> /\ trace' = SubSeq(trace, 1, Len(trace) - 1))
  BY <1>10 DEF Settle
<1>11. ASSUME NEW t \in Thread, NEW out \in book.outputs, ObserveOutput(t, out)
       PROVE  trace' = Attached(trace, out)
  BY <1>11 DEF ObserveOutput
<1>12. ASSUME NEW t \in Thread, Finish(t) \/ Rotate(t) \/ Wipe(t) \/ Reset(t)
       PROVE  trace' = trace \/ trace' = <<>>
  BY <1>12 DEF Finish, Rotate, Finished, Wipe, Reset, Wiped
<1>13. CASE \E t \in Thread : \E e \in book.calls, probe \in BOOLEAN : Check(t, e, probe)
  BY <1>3, <1>8, <1>13
<1>14. CASE \E t \in Thread : \E e \in book.seen : Observe(t, e)
  BY <1>3, <1>9, <1>14
<1>15. CASE \E t \in Thread : Settle(t)
  BY <1>4, <1>6, <1>10, <1>15
<1>16. CASE \E t \in Thread : \E out \in book.outputs : ObserveOutput(t, out)
  BY <1>5, <1>11, <1>16
<1>17. CASE \E t \in Thread : Finish(t) \/ Rotate(t) \/ Wipe(t) \/ Reset(t)
  BY <1>6, <1>7, <1>12, <1>17
<1> QED
  BY <1>6, <1>13, <1>14, <1>15, <1>16, <1>17 DEF Next, vars

\* What a valuation holds true.
LEMMA TruthsAre ==
    ASSUME NEW s, NEW e, NEW ts, NEW timed
    PROVE  ValuationAt(s, e, ts, timed).true = s.held
  BY DEF ValuationAt, Valuation

\* A name some event is a call of is counted, and its run is.
LEMMA NamedIsCounted ==
    ASSUME NEW t, Sequence(t), NEW x, NEW j \in 1 .. Len(t), x \in CalledAs(t[j])
    PROVE  /\ x \in DOMAIN States(t)[Len(t)].calls
           /\ States(t)[Len(t)].calls[x] = Cardinality(Calls(t, x))
<1> DEFINE n == Len(t)
           s == States(t)[n]
<1>1. n \in Nat /\ DOMAIN t = 1 .. n /\ n \in 0 .. n
  <2>1. n \in Nat /\ DOMAIN t = 1 .. n
    BY SequenceIs
  <2> HIDE DEF n
  <2> QED
    BY <2>1
<1>2. CallsCounted(s, t, n)
  BY <1>1, CallsAreCounted
<1> HIDE DEF n, s
<1> QED
  BY <1>1, <1>2, SomeCounted DEF Often, n, s, CallsTo, Calls, CallsCounted, UpTo

\* The last position of a trace that is not empty.
LEMMA Ends ==
    ASSUME NEW n \in Nat, n # 0
    PROVE  n \in 0 .. n /\ n \in 1 .. n
  OBVIOUS

\* A flow is one of what is kept.
LEMMA FlowFacts ==
    ASSUME NEW s, NEW e, Carries(e), NEW x, NEW y
    PROVE  Flow(x, y) \in Facts(s, e) <=> Flow(x, y) \in s.kept
<1> DEFINE k == Flow(x, y)
<1> HIDE DEF k
<1> QED
  BY KeptFacts DEF k, Flow

\* A flow is held after the last event exactly if it happened.
LEMMA FlowIsHeld ==
    ASSUME NEW t, Sequence(t), Len(t) # 0, Carries(t[Len(t)]), NEW x, x # "", NEW y
    PROVE  Flow(x, y) \in States(t)[Len(t)].held <=> Flows(t, x, y) # {}
<1> DEFINE n == Len(t)
           s == States(t)[n]
<1>1. n \in Nat /\ DOMAIN t = 1 .. n /\ n \in 0 .. n /\ n \in 1 .. n
  <2>1. n \in Nat /\ DOMAIN t = 1 .. n
    BY SequenceIs
  <2>2. n \in Nat /\ n # 0
    BY <2>1
  <2> HIDE DEF n, s
  <2> QED
    BY <2>1, <2>2, Ends
<1>2. Flow(x, y) \in Facts(s, t[n]) <=> Flow(x, y) \in s.kept
  BY FlowFacts
<1>3. \A j \in Flows(t, x, y) : j \in 1 .. n
  BY <1>1 DEF Flows, OfType
<1> HIDE DEF n, s
<1> QED
  BY <1>1, <1>2, <1>3, HeldIs, FlowsAreKept, FlowsAt DEF n, s

\* So is the last value of every context key that was ever set.
LEMMA ContextIsHeld ==
    ASSUME NEW t, Sequence(t), \A i \in 1 .. Len(t) : Carries(t[i]),
           NEW k, NEW i \in 1 .. Len(t), k \in DOMAIN t[i].facts
    PROVE  /\ <<"ctx", k, Said(t, k, Len(t))>> \in States(t)[Len(t)].held
           /\ \A w \in Found(Said(t, k, Len(t))) :
                  <<"ctx_matches", k, w>> \in States(t)[Len(t)].held
<1> DEFINE n == Len(t)
           s == States(t)[n]
<1>1. n \in Nat /\ n \in 0 .. n /\ n \in 1 .. n
  <2>1. n \in Nat /\ i \in 1 .. n
    BY SequenceIs
  <2> HIDE DEF n
  <2> QED
    BY <2>1
<1>2. SaysAt(t, k, i)
  BY DEF Carries, SaysAt
<1>3. k \in DOMAIN s.ctx /\ Said(t, k, n) = s.ctx[k]
  BY <1>1, <1>2, SaidIs DEF Get
<1>4. \A q \in s.kept : q[1] \in {"contains", "flow"}
  BY <1>1, KeptKeys
<1>5. Carries(t[n])
  BY <1>1
<1> HIDE DEF n, s
<1>6. /\ <<"ctx", k, s.ctx[k]>> \in Facts(s, t[n])
      /\ \A w \in Found(s.ctx[k]) : <<"ctx_matches", k, w>> \in Facts(s, t[n])
  BY <1>3, <1>4, <1>5, FactsAre
<1> QED
  BY <1>1, <1>3, <1>6, HeldIs DEF n, s

\* All of it, for a trace and the valuation of its last event.
LEMMA LastValuation ==
    ASSUME NEW t, Sequence(t), Len(t) # 0, \A i \in 1 .. Len(t) : Carries(t[i]), NEW timed
    PROVE  LET v == ValOf(t, Len(t), timed)
           IN  /\ \A i \in 1 .. Len(t) : \A x \in CalledAs(t[i]) :
                      v.num[<<"count", x>>] = Cardinality(Calls(t, x))
               /\ \A i \in 1 .. Len(t) : \A x \in CalledAs(t[i]) : Uniform(t, x) =>
                      v.num[<<"consecutive_count", x>>] = InARow(t, x, Len(t))
               /\ v.num[<<"delegation_depth">>] = Cardinality(OfType(t, "message"))
               /\ Get(v.num, <<"token_count", "total">>, 0) = Sum(t)
               /\ \A x, y : x # "" => (<<"flow", x, y>> \in v.true <=> Flows(t, x, y) # {})
               /\ \A i \in 1 .. Len(t) : \A k \in DOMAIN t[i].facts :
                      /\ <<"ctx", k, Said(t, k, Len(t))>> \in v.true
                      /\ \A q \in Found(Said(t, k, Len(t))) : <<"ctx_matches", k, q>> \in v.true
<1> DEFINE n == Len(t)
           s == States(t)[n]
           e == t[n]
           v == ValOf(t, n, timed)
<1>1. n \in Nat /\ DOMAIN t = 1 .. n /\ n \in 0 .. n /\ n \in 1 .. n
  <2>1. n \in Nat /\ DOMAIN t = 1 .. n
    BY SequenceIs
  <2> HIDE DEF n, s
  <2> QED
    BY <2>1, Ends
<1>2. v = ValuationAt(s, e, n - 1, timed)
  BY DEF ValOf
<1>3. \A k \in DOMAIN s.matches : k[1] = "count_with"
  BY <1>1, MatchesAre
<1>4. Carries(e)
  BY <1>1
<1>5. /\ \A x \in DOMAIN s.calls : v.num[<<"count", x>>] = s.calls[x]
      /\ \A x \in DOMAIN s.runs : v.num[<<"consecutive_count", x>>] = s.runs[x]
      /\ v.num[<<"delegation_depth">>] = s.depth
      /\ Get(v.num, <<"token_count", "total">>, 0) = Get(s.tokens, "total", 0)
  <2>1. \A k \in DOMAIN e.numbers : k[1] \notin Cumulative
    BY <1>4 DEF Carries
  <2> HIDE DEF s, e, v
  <2> QED
    BY <1>2, <1>3, <2>1, NumbersAre
<1>6. v.true = s.held
  <2> HIDE DEF s, e, v
  <2> QED
    BY <1>2, TruthsAre
<1>7. ASSUME NEW i \in 1 .. n, NEW x \in CalledAs(t[i])
      PROVE  /\ v.num[<<"count", x>>] = Cardinality(Calls(t, x))
             /\ Uniform(t, x) => v.num[<<"consecutive_count", x>>] = InARow(t, x, n)
  <2>1. x \in DOMAIN s.calls /\ s.calls[x] = Cardinality(Calls(t, x))
    BY NamedIsCounted
  <2>2. ASSUME Uniform(t, x)
        PROVE  v.num[<<"consecutive_count", x>>] = InARow(t, x, n)
    <3>1. RunsKnown(s, t, x, n)
      BY <1>1, <2>2, RunsAreKnown
    <3>2. InARow(t, x, n) = Row(t, x, n)
      BY RowIs
    <3> HIDE DEF n, s, v
    <3> QED
      BY <1>5, <3>1, <3>2 DEF RunsKnown
  <2> HIDE DEF n, s, v
  <2> QED
    BY <1>5, <2>1, <2>2
<1>8. v.num[<<"delegation_depth">>] = Cardinality(OfType(t, "message"))
  BY <1>1, <1>5, MessagesAreCounted DEF OftenType, OfType, TypeTo, Typed
<1>9. Get(v.num, <<"token_count", "total">>, 0) = Sum(t)
  <2>1. Get(s.tokens, "total", 0) = SumsOf(t)[n]
    BY <1>1, TokensAreSummed DEF Carries
  <2> HIDE DEF n, s, v, e
  <2> QED
    BY <1>1, <1>5, <2>1, SumIs
<1>10. ASSUME NEW x, x # "", NEW y
       PROVE  <<"flow", x, y>> \in v.true <=> Flows(t, x, y) # {}
  <2>1. Flow(x, y) \in s.held <=> Flows(t, x, y) # {}
    BY <1>4, <1>10, FlowIsHeld
  <2> HIDE DEF s, v
  <2> QED
    BY <1>6, <2>1 DEF Flow
<1>11. ASSUME NEW i \in 1 .. n, NEW k \in DOMAIN t[i].facts
       PROVE  /\ <<"ctx", k, Said(t, k, n)>> \in v.true
              /\ \A q \in Found(Said(t, k, n)) : <<"ctx_matches", k, q>> \in v.true
  <2>1. /\ <<"ctx", k, Said(t, k, n)>> \in s.held
        /\ \A q \in Found(Said(t, k, n)) : <<"ctx_matches", k, q>> \in s.held
    BY ContextIsHeld
  <2> HIDE DEF s, v
  <2> QED
    BY <1>6, <2>1
<1> HIDE DEF s, e, v
<1> QED
  BY <1>7, <1>8, <1>9, <1>10, <1>11 DEF v

\* The verifier's last valuation, of the trace it has seen.
LEMMA HistoryIsGrounded ==
    ASSUME HistoryInv, VerifierInv, EventsInv
    PROVE  GroundedIsHistory
<1> SUFFICES ASSUME Len(verifier.vals) \in DOMAIN trace
             PROVE  LET n == Len(verifier.vals)
                        v == verifier.vals[n]
                        events == SubSeq(trace, 1, n)
                        agents == (UNION {{events[i].agent, events[i].to} : i \in 1 .. n}) \ {""}
                        names == UNION {CalledAs(events[i]) : i \in 1 .. n}
                    IN  /\ \A t \in names :
                               v.num[<<"count", t>>] = Cardinality(Calls(events, t))
                        /\ \A t \in names : Uniform(events, t) =>
                               v.num[<<"consecutive_count", t>>] = InARow(events, t, n)
                        /\ v.num[<<"delegation_depth">>] = Cardinality(OfType(events, "message"))
                        /\ Get(v.num, <<"token_count", "total">>, 0) = Sum(events)
                        /\ \A x, y \in agents :
                               <<"flow", x, y>> \in v.true <=> Flows(events, x, y) # {}
                        /\ \A k \in UNION {DOMAIN events[i].facts : i \in 1 .. n} :
                               /\ <<"ctx", k, Said(events, k, n)>> \in v.true
                               /\ \A q \in Found(Said(events, k, n)) : <<"ctx_matches", k, q>> \in v.true
  BY Zenon DEF GroundedIsHistory
<1> DEFINE n == Len(verifier.vals)
           v == verifier.vals[n]
           events == SubSeq(trace, 1, n)
           agents == (UNION {{events[i].agent, events[i].to} : i \in 1 .. n}) \ {""}
           names == UNION {CalledAs(events[i]) : i \in 1 .. n}
<1>1. Sequence(trace) /\ Len(trace) \in Nat /\ DOMAIN trace = 1 .. Len(trace)
  BY SequenceIs DEF HistoryInv
<1>2. n \in 1 .. Len(trace) /\ n \in 0 .. Len(trace) /\ n \in Nat /\ n # 0 /\ n \in 1 .. n
  <2>1. n \in 1 .. Len(trace)
    BY <1>1
  <2> HIDE DEF n
  <2> QED
    BY <1>1, <2>1
<1>3. /\ Sequence(events) /\ Len(events) = n
      /\ \A i \in 1 .. n : events[i] = trace[i]
  BY <1>1, <1>2, Prefix
<1>4. v = ValOf(trace, n, Timed)
  BY <1>2, ValsAre DEF VerifierInv, VerifierOf
<1> HIDE DEF n, events
<1>5. \A i \in 1 .. Len(events) : Carries(events[i])
  BY <1>1, <1>2, <1>3 DEF EventsInv
<1> DEFINE w == ValOf(events, n, Timed)
<1>6. /\ \A i \in 1 .. n : \A x \in CalledAs(events[i]) :
             w.num[<<"count", x>>] = Cardinality(Calls(events, x))
      /\ \A i \in 1 .. n : \A x \in CalledAs(events[i]) : Uniform(events, x) =>
             w.num[<<"consecutive_count", x>>] = InARow(events, x, n)
      /\ w.num[<<"delegation_depth">>] = Cardinality(OfType(events, "message"))
      /\ Get(w.num, <<"token_count", "total">>, 0) = Sum(events)
      /\ \A x, y : x # "" => (<<"flow", x, y>> \in w.true <=> Flows(events, x, y) # {})
      /\ \A i \in 1 .. n : \A k \in DOMAIN events[i].facts :
             /\ <<"ctx", k, Said(events, k, n)>> \in w.true
             /\ \A q \in Found(Said(events, k, n)) : <<"ctx_matches", k, q>> \in w.true
  BY <1>2, <1>3, <1>5, LastValuation
<1>7. v = w
  BY <1>1, <1>2, <1>3, <1>4, SameValuation
<1> HIDE DEF v, w
<1>8. \A x \in names : \E i \in 1 .. n : x \in CalledAs(events[i])
  OBVIOUS
<1>9. \A x \in agents : x # ""
  OBVIOUS
<1> HIDE DEF names, agents
<1> QED
  BY <1>6, <1>7, <1>8, <1>9 DEF n, v, events, agents, names

\* The counts, runs, depths, totals, flows and context facts that the
\* verifier grounds its rules on are those of the trace it has seen, through
\* every append, rollback, attached output and wipe: what grounding carries
\* from event to event says nothing the history does not.
THEOREM GroundedOnHistory ==
    ASSUME Recursion, BooksOfFormulas
    PROVE  Spec => []GroundedIsHistory
<1>1. HistoryInv /\ VerifierInv /\ EventsInv => GroundedIsHistory
  BY HistoryIsGrounded
<1>2. Init => HistoryInv /\ VerifierInv /\ EventsInv
  BY InitHistory, InitVerifier, InitEvents
<1>3. HistoryInv /\ VerifierInv /\ EventsInv /\ [Next]_vars
          => (HistoryInv /\ VerifierInv /\ EventsInv)'
  BY StepHistory, StepVerifier, StepEvents
<1> QED
  BY <1>1, <1>2, <1>3, PTL DEF Spec

----------------------------------------------------------------------------
(* Numbers that only grow.                                                 *)

\* A table of counts.
Tally(f) == \A x : Get(f, x, 0) \in Nat

\* Adding to a table of counts makes none of them less.
LEMMA PlusGrows ==
    ASSUME NEW f, Tally(f), NEW S, NEW n \in Nat
    PROVE  /\ Tally(Plus(f, S, 0, n))
           /\ \A x : Get(f, x, 0) <= Get(Plus(f, S, 0, n), x, 0)
<1> DEFINE g == Plus(f, S, 0, n)
<1>1. /\ \A x : x \in DOMAIN g <=> x \in S \/ x \in DOMAIN f
      /\ \A x \in S : g[x] = Get(f, x, 0) + n
      /\ \A x \in DOMAIN f \ S : g[x] = f[x]
  BY PlusIs
<1> HIDE DEF g
<1> SUFFICES ASSUME NEW x PROVE Get(g, x, 0) \in Nat /\ Get(f, x, 0) <= Get(g, x, 0)
  BY DEF Tally, g
<1>2. PICK m \in Nat : m = Get(f, x, 0)
  BY DEF Tally
<1> QED
  BY <1>1, <1>2 DEF Get

\* What is accumulated of them, and that it grows.
Tallies(s) == Tally(s.calls) /\ Tally(s.matches) /\ Tally(s.tokens) /\ s.depth \in Nat

Grown(s, a) ==
    /\ \A x : /\ Get(s.calls, x, 0) <= Get(a.calls, x, 0)
              /\ Get(s.matches, x, 0) <= Get(a.matches, x, 0)
              /\ Get(s.tokens, x, 0) <= Get(a.tokens, x, 0)
    /\ s.depth <= a.depth

\* An event makes none of the growing numbers less.
LEMMA AccumulatedGrows ==
    ASSUME NEW s, DOMAIN s = Accumulators, Tallies(s), NEW e, e.tokens \in Nat, NEW ts
    PROVE  LET a == Accumulated(s, e, ts) IN Tallies(a) /\ Grown(s, a)
<1> DEFINE a == Accumulated(s, e, ts)
           names == CalledAs(e)
           matched == MatchedCalls(e)
<1>1. /\ a.calls = Plus(s.calls, names, 0, 1)
      /\ a.matches = Plus(s.matches, matched, 0, 1)
      /\ a.tokens = IF e.tokens = 0 THEN s.tokens ELSE Plus(s.tokens, {"total"}, 0, e.tokens)
      /\ a.depth = IF e.type = "message" THEN s.depth + 1 ELSE s.depth
  BY AccumulatedIs
<1> HIDE DEF a, names, matched
<1>2. Tally(a.tokens) /\ \A x : Get(s.tokens, x, 0) <= Get(a.tokens, x, 0)
  <2>1. CASE e.tokens = 0
    BY <1>1, <2>1 DEF Tallies, Tally
  <2>2. CASE e.tokens # 0
    BY <1>1, <2>2, PlusGrows DEF Tallies
  <2> QED
    BY <2>1, <2>2
<1> QED
  BY <1>1, <1>2, PlusGrows DEF Tallies, Grown, a

\* Along a trace.
LEMMA StatesGrow ==
    ASSUME NEW t, Len(t) \in Nat, \A i \in 1 .. Len(t) : t[i].tokens \in Nat
    PROVE  /\ \A i \in 0 .. Len(t) : Tallies(States(t)[i])
           /\ \A i \in 0 .. Len(t) - 1 : Grown(States(t)[i], States(t)[i + 1])
<1> DEFINE st == States(t)
           S == {i \in Nat : i <= Len(t) => Tallies(st[i])}
<1>1. st[0] = Fresh /\ (\A i \in 0 .. Len(t) : DOMAIN st[i] = Accumulators)
      /\ \A i \in 0 .. Len(t) - 1 : st[i + 1] = Accumulated(st[i], t[i + 1], i)
  BY StatesAccumulate
<1> HIDE DEF st
<1>2. ASSUME NEW i \in 0 .. Len(t) - 1, Tallies(st[i])
      PROVE  Tallies(st[i + 1]) /\ Grown(st[i], st[i + 1])
  <2>1. PICK e : e = t[i + 1]
    OBVIOUS
  <2> QED
    BY <1>1, <1>2, <2>1, AccumulatedGrows
<1>3. 0 \in S
  BY <1>1 DEF Tallies, Tally, Get, Fresh
<1>4. ASSUME NEW i \in Nat, i \in S PROVE i + 1 \in S
  <2> SUFFICES ASSUME i + 1 <= Len(t) PROVE Tallies(st[i + 1])
    OBVIOUS
  <2> QED
    BY <1>2, <1>4
<1>5. \A i \in Nat : i \in S
  <2> HIDE DEF S
  <2> QED
    BY <1>3, <1>4, AllNumbers
<1>6. \A i \in 0 .. Len(t) : Tallies(st[i])
  BY <1>5
<1>7. ASSUME NEW i \in 0 .. Len(t) - 1 PROVE Grown(st[i], st[i + 1])
  BY <1>2, <1>6
<1> QED
  BY <1>6, <1>7 DEF st

\* What does not fall from one position to the next does not fall.
LEMMA Climbs ==
    ASSUME NEW r, NEW n \in Nat, \A i \in 1 .. n : r[i] \in Nat,
           \A i \in 1 .. n : i < n => r[i] <= r[i + 1], NEW i \in 1 .. n
    PROVE  \A j \in i .. n : r[i] <= r[j]
<1> DEFINE S == {d \in Nat : i + d <= n => r[i] <= r[i + d]}
<1>1. 0 \in S
  BY i + 0 = i, r[i] \in Nat
<1>2. ASSUME NEW d \in Nat, d \in S PROVE d + 1 \in S
  <2> SUFFICES ASSUME i + (d + 1) <= n PROVE r[i] <= r[i + (d + 1)]
    OBVIOUS
  <2>1. PICK j : j = i + d
    OBVIOUS
  <2> QED
    BY <1>2, <2>1
<1>3. \A d \in Nat : d \in S
  <2> HIDE DEF S
  <2> QED
    BY <1>1, <1>2, AllNumbers
<1> TAKE j \in i .. n
<1>4. j - i \in Nat /\ i + (j - i) = j /\ j <= n
  OBVIOUS
<1> QED
  BY <1>3, <1>4

\* A growing number of the valuations of a trace.
LEMMA NumbersGrow ==
    ASSUME NEW t, Len(t) \in Nat, \A i \in 1 .. Len(t) : Carries(t[i]), NEW timed,
           NEW k, Growing(k), NEW i \in 1 .. Len(t), NEW j \in i .. Len(t)
    PROVE  /\ Get(ValOf(t, i, timed).num, k, 0) \in Nat
           /\ Get(ValOf(t, j, timed).num, k, 0) \in Nat
           /\ Get(ValOf(t, i, timed).num, k, 0) <= Get(ValOf(t, j, timed).num, k, 0)
<1> DEFINE n == Len(t)
           st == States(t)
           r == [m \in 1 .. n |-> Get(ValOf(t, m, timed).num, k, 0)]
           Reading(s) == IF k = <<"delegation_depth">> THEN s.depth
                         ELSE IF k[1] = "count_with" THEN Get(s.matches, k, 0)
                         ELSE IF k[1] = "count" THEN Get(s.calls, k[2], 0)
                         ELSE Get(s.tokens, k[2], 0)
<1>1. \A m \in 1 .. n : t[m].tokens \in Nat /\ \A q \in DOMAIN t[m].numbers : q[1] \notin Cumulative
  BY DEF Carries
<1>2. /\ \A m \in 0 .. n : Tallies(st[m])
      /\ \A m \in 0 .. n - 1 : Grown(st[m], st[m + 1])
  BY <1>1, StatesGrow
<1>3. \A m \in 0 .. n : \A q \in DOMAIN st[m].matches : q[1] = "count_with"
  BY MatchesAre
<1> HIDE DEF st
<1>4. ASSUME NEW m \in 1 .. n PROVE r[m] = Reading(st[m])
  <2>1. m \in 0 .. n /\ \A q \in DOMAIN t[m].numbers : q[1] \notin Cumulative
    BY <1>1
  <2>2. PICK s, e, ts, num : /\ s = st[m] /\ e = t[m] /\ ts = m - 1
                             /\ num = ValuationAt(s, e, ts, timed).num
    OBVIOUS
  <2>3. /\ Get(num, <<"delegation_depth">>, 0) = s.depth
        /\ \A x : Get(num, <<"count", x>>, 0) = Get(s.calls, x, 0)
        /\ \A x : Get(num, <<"token_count", x>>, 0) = Get(s.tokens, x, 0)
        /\ \A q : q[1] = "count_with" => Get(num, q, 0) = Get(s.matches, q, 0)
    BY <1>3, <2>1, <2>2, NumbersAre
  <2>4. r[m] = Get(num, k, 0)
    BY <2>2 DEF ValOf, st
  <2> HIDE DEF r
  <2>5. CASE k = <<"delegation_depth">>
    BY <2>2, <2>3, <2>4, <2>5
  <2>6. ASSUME NEW x, k = <<"count", x>> PROVE r[m] = Reading(st[m])
    BY <2>2, <2>3, <2>4, <2>6
  <2>7. ASSUME NEW x, k = <<"token_count", x>> PROVE r[m] = Reading(st[m])
    BY <2>2, <2>3, <2>4, <2>7
  <2>8. CASE k[1] = "count_with"
    BY <2>2, <2>3, <2>4, <2>8
  <2> QED
    BY <2>5, <2>6, <2>7, <2>8 DEF Growing
<1>5. ASSUME NEW m \in 0 .. n PROVE Reading(st[m]) \in Nat
  BY <1>2 DEF Tallies, Tally
<1>6. ASSUME NEW m \in 0 .. n - 1 PROVE Reading(st[m]) <= Reading(st[m + 1])
  BY <1>2 DEF Grown
<1> HIDE DEF r, Reading
<1>7. \A m \in 1 .. n : r[m] \in Nat
  <2> TAKE m \in 1 .. n
  <2> QED
    BY <1>4, <1>5
<1>8. \A m \in 1 .. n : m < n => r[m] <= r[m + 1]
  <2> TAKE m \in 1 .. n
  <2> SUFFICES ASSUME m < n PROVE r[m] <= r[m + 1]
    OBVIOUS
  <2> QED
    BY <1>4, <1>6
<1>9. r[i] <= r[j]
  BY <1>7, <1>8, Climbs
<1> QED
  BY <1>7, <1>9 DEF r

----------------------------------------------------------------------------
(* What is evaluated of the parts of a formula.                            *)

\* The parts of a formula are formulas.
LEMMA PartsAreFormulas ==
    /\ \A f : Formula(Not(f)) \/ Formula(G(f)) \/ Formula(F(f)) \/ Formula(X(f)) => Formula(f)
    /\ \A f, g : Formula(Implies(f, g)) \/ Formula(U(f, g)) => Formula(f) /\ Formula(g)
    /\ \A P : Formula(And(P)) \/ Formula(Or(P)) => IsFiniteSet(P) /\ \A p \in P : Formula(p)
<1>1. ASSUME NEW f, NEW h \in {Not(f), G(f), F(f), X(f)}, Formula(h) PROVE Formula(f)
  <2>1. PICK S : Built(h, S) /\ \A g \in S : Formula(g)
    BY <1>1, FormulaParts
  <2>2. h.op \in {"not", "G", "F", "X"} /\ h.of = f
    BY <1>1 DEF Not, G, F, X
  <2>3. PICK g \in S : h \in {Not(g), G(g), F(g), X(g)}
    BY <2>1, <2>2 DEF Built, Top, Bottom, Atom, Le, Ge, Implies, U, And, Or
  <2> QED
    BY <2>1, <2>2, <2>3 DEF Not, G, F, X
<1>2. ASSUME NEW f, NEW g, NEW h \in {Implies(f, g), U(f, g)}, Formula(h)
      PROVE  Formula(f) /\ Formula(g)
  <2>1. PICK S : Built(h, S) /\ \A p \in S : Formula(p)
    BY <1>2, FormulaParts
  <2>2. h.op \in {"implies", "U"}
    BY <1>2 DEF Implies, U
  <2>3. PICK p \in S, q \in S : h \in {Implies(p, q), U(p, q)}
    BY <2>1, <2>2 DEF Built, Top, Bottom, Atom, Le, Ge, Not, G, F, X, And, Or
  <2>4. Implies(p, q).op = "implies" /\ U(p, q).op = "U"
        /\ Implies(f, g).op = "implies" /\ U(f, g).op = "U"
    BY DEF Implies, U
  <2>5. CASE h = Implies(f, g)
    BY <2>1, <2>3, <2>4, <2>5 DEF Implies
  <2>6. CASE h = U(f, g)
    BY <2>1, <2>3, <2>4, <2>6 DEF U
  <2> QED
    BY <1>2, <2>5, <2>6
<1>3. ASSUME NEW P, NEW h \in {And(P), Or(P)}, Formula(h)
      PROVE  IsFiniteSet(P) /\ \A p \in P : Formula(p)
  <2>1. PICK S : Built(h, S) /\ \A p \in S : Formula(p)
    BY <1>3, FormulaParts
  <2>2. h.op \in {"and", "or"} /\ h.parts = P
    BY <1>3 DEF And, Or
  <2>3. PICK Q \in SUBSET S : IsFiniteSet(Q) /\ h \in {And(Q), Or(Q)}
    BY <2>1, <2>2 DEF Built, Top, Bottom, Atom, Le, Ge, Not, G, F, X, Implies, U
  <2> QED
    BY <2>1, <2>2, <2>3 DEF And, Or
<1> QED
  BY <1>1, <1>2, <1>3

\* A limit that is not kept stays so.
LEMMA LimitsStayBroken ==
    ASSUME Recursion, NEW t, Sequence(t), \A i \in 1 .. Len(t) : Carries(t[i]),
           NEW f, Formula(f), Limit(f), NEW i \in 1 .. Len(t), NEW j \in i .. Len(t),
           ~Evaluate(f, ValsTo(t, Len(t), Timed), i)
    PROVE  ~Evaluate(f, ValsTo(t, Len(t), Timed), j)
<1> DEFINE n == Len(t)
           vals == ValsTo(t, n, Timed)
<1>1. n \in Nat
  BY SequenceIs
<1>2. j \in 1 .. n
  BY <1>1
<1>3. Len(vals) = n /\ vals[i] = ValOf(t, i, Timed) /\ vals[j] = ValOf(t, j, Timed)
  BY <1>1, <1>2, ValsAre
<1> DEFINE k == f.left.key
           m == f.right.n
<1>4. m \in Int /\ f = Le(Var(k), Const(m)) /\ Growing(k)
  BY DEF Limit
<1> HIDE DEF k, m
<1> DEFINE a == Get(vals[i].num, k, 0)
           b == Get(vals[j].num, k, 0)
<1>5. a \in Nat /\ b \in Nat /\ a <= b
  BY <1>1, <1>3, <1>4, NumbersGrow
<1> HIDE DEF n, vals
<1>6. \A v : Compare(f, v) <=> Get(v.num, k, 0) <= m
  BY <1>4 DEF Compare, Resolve, Le, Var, Const, Get
<1>7. /\ Evaluate(f, vals, i) <=> Compare(f, vals[i])
      /\ Evaluate(f, vals, j) <=> Compare(f, vals[j])
  BY <1>1, <1>2, <1>3, <1>4, EvaluateIs DEF n
<1>8. ~(a <= m)
  BY <1>6, <1>7 DEF vals, n
<1>9. ~(b <= m)
  <2> HIDE DEF a, b
  <2> QED
    BY <1>4, <1>5, <1>8
<1> QED
  BY <1>6, <1>7, <1>9 DEF vals, n

\* So does one of several.
LEMMA CapsStayBroken ==
    ASSUME Recursion, NEW t, Sequence(t), \A i \in 1 .. Len(t) : Carries(t[i]),
           NEW f, Formula(f), Cap(f), NEW i \in 1 .. Len(t), NEW j \in i .. Len(t),
           ~Evaluate(f, ValsTo(t, Len(t), Timed), i)
    PROVE  ~Evaluate(f, ValsTo(t, Len(t), Timed), j)
<1> DEFINE vals == ValsTo(t, Len(t), Timed)
<1>1. Len(vals) \in Nat /\ i \in 1 .. Len(vals) /\ j \in 1 .. Len(vals)
  BY ValsAre, SequenceIs
<1> HIDE DEF vals
<1>2. CASE Limit(f)
  BY <1>2, LimitsStayBroken
<1>3. ASSUME NEW P, P = f.parts, f = And(P), \A p \in P : Limit(p)
      PROVE  ~Evaluate(f, vals, j)
  <2>1. /\ Evaluate(f, vals, i) <=> \A p \in P : Evaluate(p, vals, i)
        /\ Evaluate(f, vals, j) <=> \A p \in P : Evaluate(p, vals, j)
    BY <1>1, <1>3, EvaluateIs
  <2>2. PICK p \in P : ~Evaluate(p, vals, i)
    BY <2>1 DEF vals
  <2> QED
    BY <1>3, <2>1, <2>2, LimitsStayBroken, PartsAreFormulas DEF vals
<1> QED
  BY <1>2, <1>3 DEF Cap, vals

----------------------------------------------------------------------------
(* Why a call is refused.                                                  *)

\* Every step that refuses a call has such a rule.
LEMMA RefusalHasCause ==
    ASSUME Recursion, BooksOfFormulas, LimitsStandAlone(Books), HistoryInv, VerifierInv, EventsInv,
           [Next]_vars, CallsChecked, "blocked" \in call'.results
    PROVE  \E c \in Contracts : \E r \in Blocking(c) :
               /\ Enforced(c, call'.probe)
               /\ Breaks(c, r, ValsOf(trace'))
               /\ \/ HeldBefore(c, r, ValsOf(trace'))
                  \/ r.formula.op = "G" /\ ~Evaluate(r.formula.of, ValsOf(trace'), Len(ValsOf(trace')))
                  \/ Falls(r)
<1> DEFINE v == verifier'
           probe == call'.probe
<1>1. /\ v.vals = ValsOf(trace') /\ Keeps(v) /\ Len(v.vals) > 0
      /\ call'.results = Results(v, probe)
  BY CheckIs
<1> HIDE DEF v, probe
<1>2. PICK c \in Contracts : "blocked" \in ResultsOf(v, c, probe)
  BY <1>1 DEF Results
<1>3. PICK r \in FreshlyBroken(v, c) : "blocked" = Resulting(c, r.strategy, probe)
  BY <1>2 DEF ResultsOf, Resulting
<1>4. r.strategy = "blocked" /\ (probe \/ Effective(c) # "observe")
  BY <1>3 DEF Resulting
<1>5. WellFormed(c)
  BY ContractsAre
<1>6. r \in Broken(v, c, FALSE) /\ IsFresh(v, r.formula, Position(v, c))
  BY <1>3 DEF FreshlyBroken
<1>7. r \in RulesChecked(c, FALSE) /\ Breaks(c, r, v.vals)
  BY <1>1, <1>5, <1>6, BrokenIs
<1>8. r \in c.rules /\ r \in Blocking(c)
  BY <1>4, <1>7 DEF RulesChecked, Blocking
<1>9. Met(c, v.vals)
  BY <1>7 DEF Breaks
<1>10. AssumptionsMet(v, c) /\ Position(v, c) = From(c, v.vals)
  BY <1>1, <1>5, <1>9, PositionIs, AssumptionsMetIs
<1>11. ASSUME r.formula.op = "G" => AggregatesOf(r.formula) = {} \/ Falls(r)
       PROVE \/ HeldBefore(c, r, v.vals)
             \/ r.formula.op = "G" /\ ~Evaluate(r.formula.of, v.vals, Len(v.vals))
             \/ Falls(r)
  BY <1>1, <1>5, <1>6, <1>7, <1>8, <1>9, <1>10, <1>11, FreshIs
<1>12. ASSUME r.formula.op = "G" /\ Cap(r.formula.of)
       PROVE \/ HeldBefore(c, r, v.vals)
             \/ r.formula.op = "G" /\ ~Evaluate(r.formula.of, v.vals, Len(v.vals))
             \/ Falls(r)
  <2> DEFINE n == Len(v.vals)
             f == r.formula
             pos == From(c, v.vals)
             u == trace'
  <2>1. Sequence(u) /\ \A i \in 1 .. Len(u) : Carries(u[i])
    BY StepHistory, StepEvents DEF HistoryInv, EventsInv
  <2> HIDE DEF u
  <2>2. v.vals = ValsTo(u, Len(u), Timed)
    BY <1>1, <2>1, SeesTheTrace, SequenceIs DEF u
  <2>3. n = Len(u) /\ n \in Nat \ {0} /\ Sequence(v.vals)
    <3>1. Len(u) \in Nat
      BY <2>1, SequenceIs
    <3> QED
      BY <1>1, <2>2, <3>1, ValsAre
  <2>4. pos \in 1 .. n
    <3>1. pos \in Nat \ {0} /\ (pos <= n \/ pos = 1)
      BY <1>1, <1>5, <1>10, PositionIs
    <3> HIDE DEF n, pos
    <3> QED
      BY <2>3, <3>1
  <2>5. Formula(f.of) /\ \E i \in pos .. n : ~Evaluate(f.of, v.vals, i)
    BY <1>5, <1>7, <1>8, <1>12, <2>3, <2>4, AlwaysIs DEF WellFormed,
       FormulasOf, Breaks
  <2>6. PICK i \in pos .. n : ~Evaluate(f.of, v.vals, i)
    BY <2>5
  <2> HIDE DEF n, pos, f
  <2> QED
    BY <1>12, <2>1, <2>2, <2>3, <2>4, <2>5, <2>6, CapsStayBroken DEF f, n
<1> QED
  BY <1>1, <1>4, <1>7, <1>8, <1>11, <1>12 DEF v, probe, Enforced,
     LimitsStandAlone, HistoryInv, Contracts

\* "An action should only be denied for what it did": a refused call broke a
\* rule that held before it, or its own event is one the rule forbids.
THEOREM RefusedCallsHaveCause ==
    ASSUME Recursion, BooksOfFormulas, LimitsStandAlone(Books)
    PROVE  Spec => BlockedHasCause
<1>1. HistoryInv /\ VerifierInv /\ EventsInv /\ [Next]_vars =>
          [CallsChecked /\ "blocked" \in call'.results =>
              LET now == ValsOf(trace')
              IN  \E c \in Contracts : \E r \in Blocking(c) :
                      /\ Enforced(c, call'.probe)
                      /\ Breaks(c, r, now)
                      /\ \/ HeldBefore(c, r, now)
                         \/ r.formula.op = "G" /\ ~Evaluate(r.formula.of, now, Len(now))
                         \/ Falls(r)]_vars
  BY RefusalHasCause
<1>2. Init => HistoryInv /\ VerifierInv /\ EventsInv
  BY InitHistory, InitVerifier, InitEvents
<1>3. HistoryInv /\ VerifierInv /\ EventsInv /\ [Next]_vars
          => (HistoryInv /\ VerifierInv /\ EventsInv)'
  BY StepHistory, StepVerifier, StepEvents
<1> QED
  BY <1>1, <1>2, <1>3, PTL DEF Spec, BlockedHasCause

----------------------------------------------------------------------------
(* What the patterns' formulas say of the positions of a trace.            *)

\* An atom and a comparison are formulas.
LEMMA LeafFormulas ==
    /\ \A k : Formula(Atom(k))
    /\ \A l, r : Formula(Le(l, r)) /\ Formula(Ge(l, r))
<1>1. ASSUME NEW f, Built(f, {}) PROVE Formula(f)
  <2> DEFINE s == [i \in {1} |-> f]
  <2>1. s[1] = f
    OBVIOUS
  <2> HIDE DEF s
  <2>2. Builds(s, 1)
    <3> SUFFICES ASSUME NEW i \in 1 .. 1 PROVE Built(s[i], {s[j] : j \in 1 .. i - 1})
      BY DEF Builds
    <3> QED
      BY <1>1, <2>1
  <2> QED
    BY <2>1, <2>2 DEF Formula
<1>2. ASSUME NEW k PROVE Built(Atom(k), {})
  BY DEF Built
<1>3. ASSUME NEW l, NEW r PROVE Built(Le(l, r), {}) /\ Built(Ge(l, r), {})
  BY DEF Built
<1> QED
  BY <1>1, <1>2, <1>3

\* Of an empty trace only what must yet happen is false.
LEMMA NothingYet ==
    ASSUME Recursion, NEW f, Formula(f), NEW vals, Len(vals) = 0
    PROVE  Evaluate(f, vals, 1) <=> f.op \notin {"F", "U"}
<1>1. 1 > Len(vals)
  OBVIOUS
<1> QED
  BY <1>1 DEF EvaluateBy, Recursion

\* What holds everywhere,
LEMMA EverywhereIs ==
    ASSUME Recursion, NEW vals, Len(vals) \in Nat, NEW f, Formula(G(f))
    PROVE  /\ Formula(f)
           /\ Evaluate(G(f), vals, 1) <=> \A i \in 1 .. Len(vals) : Evaluate(f, vals, i)
<1>1. Formula(f)
  BY PartsAreFormulas
<1>2. CASE Len(vals) = 0
  BY <1>1, <1>2, NothingYet DEF G
<1>3. CASE Len(vals) # 0
  BY <1>1, <1>3, EvaluateIs
<1> QED
  BY <1>2, <1>3

\* what holds whenever something else does,
LEMMA WheneverIs ==
    ASSUME Recursion, NEW vals, Len(vals) \in Nat, NEW f, NEW g, Formula(Whenever(f, g))
    PROVE  /\ Formula(f) /\ Formula(g)
           /\ Evaluate(Whenever(f, g), vals, 1) <=>
                  \A i \in 1 .. Len(vals) : Evaluate(f, vals, i) => Evaluate(g, vals, i)
  BY EvaluateIs, PartsAreFormulas, EverywhereIs DEF Whenever

\* what is forbidden until something else, from a position on,
LEMMA ForbiddenIs ==
    ASSUME Recursion, NEW vals, Len(vals) \in Nat, NEW u, NEW f, Formula(ForbiddenUntil(u, f)),
           NEW pos \in Nat \ {0}, pos <= Len(vals) \/ pos = 1
    PROVE  /\ Formula(u) /\ Formula(f)
           /\ Evaluate(ForbiddenUntil(u, f), vals, pos) <=>
                  \A k \in pos .. Len(vals) : Evaluate(f, vals, k) =>
                      \E j \in pos .. k : Evaluate(u, vals, j)
<1> DEFINE n == Len(vals)
           Calm(i) == \A j \in pos .. i : ~Evaluate(f, vals, j)
<1>1. /\ Formula(U(Not(f), u)) /\ Formula(G(Not(f))) /\ Formula(Not(f))
      /\ Formula(u) /\ Formula(f)
  BY PartsAreFormulas DEF ForbiddenUntil
<1>2. CASE pos \in 1 .. n
  <2> HIDE DEF n
  <2>1. \A i \in pos .. n : i \in 1 .. n /\ \A j \in pos .. i - 1 : j \in 1 .. n
    BY <1>2 DEF n
  <2>2. ASSUME NEW i \in pos .. n, Evaluate(u, vals, i), Calm(i - 1), NEW k \in pos .. n,
               Evaluate(f, vals, k)
        PROVE  \E j \in pos .. k : Evaluate(u, vals, j)
    BY <1>2, <2>2 DEF n
  <2>3. ASSUME \A k \in pos .. n : Evaluate(f, vals, k) => \E j \in pos .. k : Evaluate(u, vals, j),
               ~Calm(n)
        PROVE  \E i \in pos .. n : Evaluate(u, vals, i) /\ Calm(i - 1)
    <3> DEFINE S == {i \in pos .. n : Evaluate(u, vals, i)}
    <3>1. PICK k \in pos .. n : Evaluate(f, vals, k)
      BY <2>3
    <3>2. PICK j \in pos .. k : Evaluate(u, vals, j)
      BY <2>3, <3>1
    <3>3. S \subseteq Nat /\ S # {}
      BY <1>2, <3>2 DEF n
    <3>4. PICK i \in S : \A m \in S : i <= m
      BY <3>3, Least
    <3>5. ASSUME NEW m \in pos .. i - 1 PROVE ~Evaluate(f, vals, m)
      BY <1>2, <2>3, <3>4 DEF n
    <3> QED
      BY <3>4, <3>5
  <2> QED
    BY <1>1, <1>2, <2>1, <2>2, <2>3, EvaluateIs DEF n, ForbiddenUntil
<1>3. CASE pos = 1 /\ n = 0
  BY <1>1, <1>3, NothingYet DEF ForbiddenUntil, Or
<1> QED
  BY <1>2, <1>3

\* of several formulas, all,
LEMMA AllOfIs ==
    ASSUME Recursion, NEW vals, Len(vals) \in Nat, NEW P, Formula(And(P)),
           \A g \in P : g.op \notin {"F", "U"},
           NEW pos \in Nat \ {0}, pos <= Len(vals) \/ pos = 1
    PROVE  /\ \A g \in P : Formula(g)
           /\ Evaluate(And(P), vals, pos) <=> \A g \in P : Evaluate(g, vals, pos)
<1>1. \A g \in P : Formula(g)
  BY PartsAreFormulas
<1>2. CASE pos <= Len(vals)
  BY <1>1, <1>2, EvaluateIs
<1>3. CASE pos = 1 /\ Len(vals) = 0
  BY <1>1, <1>3, NothingYet DEF And
<1> QED
  BY <1>2, <1>3

BoundedBody(r, op, f, m) ==
    [k \in 1 .. m |-> IF k = 1 THEN f ELSE [op |-> op, parts |-> {f, X(r[k - 1])}]]

\* The nesting of a bounded operator is defined.
LEMMA BoundedExists ==
    ASSUME NEW op, NEW f, NEW m \in Nat
    PROVE  \E r : r = BoundedBody(r, op, f, m)
<1> DEFINE Link(g) == [op |-> op, parts |-> {f, X(g)}]
           Chain(r, n) == r[1] = f /\ \A i \in 2 .. n : r[i] = Link(r[i - 1])
           S == {n \in Nat : \E r : Chain(r, n)}
<1> HIDE DEF Link
<1>1. 0 \in S
  <2> DEFINE r == [k \in {1} |-> f]
  <2>1. r[1] = f
    OBVIOUS
  <2> HIDE DEF r
  <2> QED
    BY <2>1
<1>2. ASSUME NEW n \in Nat, n \in S PROVE n + 1 \in S
  <2>1. PICK old : Chain(old, n)
    BY <1>2
  <2> DEFINE r == [i \in 1 .. n + 1 |-> IF i = 1 THEN f ELSE IF i = n + 1 THEN Link(old[n]) ELSE old[i]]
  <2>2. r[1] = f /\ (n # 0 => r[n + 1] = Link(old[n])) /\ \A i \in 2 .. n : r[i] = old[i]
    OBVIOUS
  <2> HIDE DEF r
  <2>3. ASSUME NEW i \in 2 .. n + 1 PROVE r[i] = Link(r[i - 1])
    <3>1. r[i - 1] = old[i - 1]
      BY <2>1, <2>2
    <3>2. CASE i = n + 1
      BY <2>2, <3>1, <3>2
    <3>3. CASE i # n + 1
      BY <2>1, <2>2, <3>1, <3>3
    <3> QED
      BY <3>2, <3>3
  <2> QED
    BY <2>2, <2>3
<1>3. \A n \in Nat : n \in S
  <2> HIDE DEF S
  <2> QED
    BY <1>1, <1>2, AllNumbers
<1>4. PICK q : Chain(q, m)
  BY <1>3
<1> DEFINE r == [k \in 1 .. m |-> q[k]]
<1>5. ASSUME NEW k \in 1 .. m PROVE r[k] = IF k = 1 THEN f ELSE Link(r[k - 1])
  <2>1. CASE k = 1
    BY <1>4, <2>1
  <2>2. CASE k # 1
    BY <1>4, <2>2
  <2> QED
    BY <2>1, <2>2
<1>6. r = [k \in 1 .. m |-> r[k]]
  OBVIOUS
<1> HIDE DEF r
<1> QED
  BY <1>5, <1>6 DEF BoundedBody, Link

\* what happens within a number of steps, or past the end,
LEMMA BoundedEventuallyIs ==
    ASSUME Recursion, NEW vals, Len(vals) \in Nat, NEW f, NEW m \in Nat \ {0},
           Formula(BoundedEventually(f, m))
    PROVE  /\ Formula(f)
           /\ \A i \in 1 .. Len(vals) :
                  Evaluate(BoundedEventually(f, m), vals, i) <=>
                      i + m - 1 > Len(vals) \/ \E j \in i .. i + m - 1 : Evaluate(f, vals, j)
<1> DEFINE n == Len(vals)
           r == CHOOSE q : q = BoundedBody(q, "or", f, m)
           Soon(k, i) == i + k - 1 > n \/ \E j \in i .. i + k - 1 : Evaluate(f, vals, j)
           Right(k) == Formula(r[k]) =>
                           /\ Formula(f)
                           /\ \A i \in 1 .. n : Evaluate(r[k], vals, i) <=> Soon(k, i)
           S == {k \in Nat : k + 1 \in 1 .. m => Right(k + 1)}
<1>1. BoundedEventually(f, m) = r[m]
  BY Zenon DEF BoundedEventually, BoundedBody, Or
<1>2. r = BoundedBody(r, "or", f, m)
  BY BoundedExists
<1> HIDE DEF r
<1>3. r[1] = f /\ \A k \in 1 .. m : k + 1 \in 1 .. m => r[k + 1] = Or({f, X(r[k])})
  <2>1. 1 \in 1 .. m /\ \A k \in 1 .. m : k + 1 # 1 /\ (k + 1) - 1 = k
    OBVIOUS
  <2> QED
    BY <1>2, <2>1 DEF BoundedBody, Or
<1>4. 0 \in S
  <2>1. \A i \in 1 .. n : Soon(1, i) <=> Evaluate(f, vals, i)
    <3> TAKE i \in 1 .. n
    <3> QED
      OBVIOUS
  <2> HIDE DEF n, Soon
  <2> QED
    BY <1>3, <2>1
<1>5. ASSUME NEW k \in Nat, k \in S PROVE k + 1 \in S
  <2> SUFFICES ASSUME (k + 1) + 1 \in 1 .. m, Formula(r[(k + 1) + 1])
               PROVE  /\ Formula(f)
                      /\ \A i \in 1 .. n :
                             Evaluate(r[(k + 1) + 1], vals, i) <=> Soon((k + 1) + 1, i)
    OBVIOUS
  <2>1. PICK p \in 1 .. m : p = k + 1 /\ p + 1 = (k + 1) + 1 /\ Right(p)
    BY <1>5
  <2>2. r[p + 1] = Or({f, X(r[p])})
    BY <1>3, <2>1
  <2>3. Formula(Or({f, X(r[p])}))
    BY <2>1, <2>2
  <2>4. Formula(f) /\ Formula(X(r[p])) /\ Formula(r[p])
    BY <2>3, PartsAreFormulas
  <2>5. ASSUME NEW i \in 1 .. n
        PROVE  Evaluate(r[p + 1], vals, i) <=> Soon(p + 1, i)
    <3>1. Evaluate(Or({f, X(r[p])}), vals, i)
              <=> \E g \in {f, X(r[p])} : Evaluate(g, vals, i)
      BY <2>3, EvaluateIs
    <3>2. Evaluate(X(r[p]), vals, i) <=> i = n \/ Evaluate(r[p], vals, i + 1)
      BY <2>4, EvaluateIs
    <3>3. CASE i = n
      BY <2>2, <3>1, <3>2, <3>3
    <3>4. CASE i # n
      <4>1. Soon(p + 1, i) <=> Evaluate(f, vals, i) \/ Soon(p, i + 1)
        <5> HIDE DEF n
        <5> QED
          OBVIOUS
      <4> QED
        BY <2>1, <2>2, <2>4, <3>1, <3>2, <3>4, <4>1
    <3> QED
      BY <3>3, <3>4
  <2> HIDE DEF Soon, n, Right
  <2> QED
    BY <2>1, <2>4, <2>5
<1>6. \A k \in Nat : k \in S
  <2> HIDE DEF S
  <2> QED
    BY <1>4, <1>5, AllNumbers
<1>7. Right(m)
  <2> HIDE DEF Right
  <2> QED
    BY <1>6
<1> QED
  BY <1>1, <1>7

\* what does not happen within a number of steps,
LEMMA BoundedNeverIs ==
    ASSUME Recursion, NEW vals, Len(vals) \in Nat, NEW f, NEW m \in Nat \ {0},
           Formula(BoundedNever(f, m))
    PROVE  /\ Formula(f)
           /\ \A i \in 1 .. Len(vals) :
                  Evaluate(BoundedNever(f, m), vals, i) <=>
                      \A j \in i .. Len(vals) : j <= i + m - 1 => ~Evaluate(f, vals, j)
<1> DEFINE n == Len(vals)
           h == Not(f)
           r == CHOOSE q : q = BoundedBody(q, "and", h, m)
           Calm(k, i) == \A j \in i .. n : j <= i + k - 1 => ~Evaluate(f, vals, j)
           Right(k) == Formula(r[k]) =>
                           /\ Formula(h)
                           /\ \A i \in 1 .. n : Evaluate(r[k], vals, i) <=> Calm(k, i)
           S == {k \in Nat : k + 1 \in 1 .. m => Right(k + 1)}
<1>1. BoundedNever(f, m) = r[m]
  BY Zenon DEF BoundedNever, BoundedBody, And
<1>2. r = BoundedBody(r, "and", h, m)
  BY BoundedExists
<1>3. ASSUME Formula(h)
      PROVE  Formula(f) /\ \A i \in 1 .. n : Evaluate(h, vals, i) <=> ~Evaluate(f, vals, i)
  BY <1>3, PartsAreFormulas, EvaluateIs
<1> HIDE DEF r, h
<1>4. r[1] = h /\ \A k \in 1 .. m : k + 1 \in 1 .. m => r[k + 1] = And({h, X(r[k])})
  <2>1. 1 \in 1 .. m /\ \A k \in 1 .. m : k + 1 # 1 /\ (k + 1) - 1 = k
    OBVIOUS
  <2> QED
    BY <1>2, <2>1 DEF BoundedBody, And
<1>5. 0 \in S
  <2>1. \A i \in 1 .. n : Calm(1, i) <=> ~Evaluate(f, vals, i)
    <3> TAKE i \in 1 .. n
    <3> QED
      OBVIOUS
  <2> HIDE DEF n, Calm
  <2> QED
    BY <1>3, <1>4, <2>1
<1>6. ASSUME NEW k \in Nat, k \in S PROVE k + 1 \in S
  <2> SUFFICES ASSUME (k + 1) + 1 \in 1 .. m, Formula(r[(k + 1) + 1])
               PROVE  /\ Formula(h)
                      /\ \A i \in 1 .. n :
                             Evaluate(r[(k + 1) + 1], vals, i) <=> Calm((k + 1) + 1, i)
    OBVIOUS
  <2>1. PICK p \in 1 .. m : p = k + 1 /\ p + 1 = (k + 1) + 1 /\ Right(p)
    BY <1>6
  <2>2. r[p + 1] = And({h, X(r[p])})
    BY <1>4, <2>1
  <2>3. Formula(And({h, X(r[p])}))
    BY <2>1, <2>2
  <2>4. Formula(h) /\ Formula(X(r[p])) /\ Formula(r[p])
    BY <2>3, PartsAreFormulas
  <2>5. ASSUME NEW i \in 1 .. n
        PROVE  Evaluate(r[p + 1], vals, i) <=> Calm(p + 1, i)
    <3>1. Evaluate(And({h, X(r[p])}), vals, i)
              <=> \A g \in {h, X(r[p])} : Evaluate(g, vals, i)
      BY <2>3, EvaluateIs
    <3>2. Evaluate(X(r[p]), vals, i) <=> i = n \/ Evaluate(r[p], vals, i + 1)
      BY <2>4, EvaluateIs
    <3>3. Calm(p + 1, i) <=> ~Evaluate(f, vals, i) /\ (i = n \/ Calm(p, i + 1))
      <4> HIDE DEF n
      <4> QED
        OBVIOUS
    <3>4. i # n => (Evaluate(r[p], vals, i + 1) <=> Calm(p, i + 1))
      BY <2>1, <2>4
    <3> HIDE DEF Calm, n
    <3> QED
      BY <1>3, <2>2, <2>4, <3>1, <3>2, <3>3, <3>4
  <2> HIDE DEF Calm, n, Right
  <2> QED
    BY <2>1, <2>4, <2>5
<1>7. \A k \in Nat : k \in S
  <2> HIDE DEF S
  <2> QED
    BY <1>5, <1>6, AllNumbers
<1>8. Right(m)
  <2> HIDE DEF Right
  <2> QED
    BY <1>7
<1> QED
  BY <1>3, <1>1, <1>8

NextBody(r, f, m) == [k \in 0 .. m |-> IF k = 0 THEN f ELSE X(r[k - 1])]

\* Nexts in a row are defined,
LEMMA NextExists ==
    ASSUME NEW f, NEW m \in Nat
    PROVE  \E r : r = NextBody(r, f, m)
<1> DEFINE Chain(r, n) == r[0] = f /\ \A i \in 1 .. n : r[i] = X(r[i - 1])
           S == {n \in Nat : \E r : Chain(r, n)}
<1>1. 0 \in S
  <2> DEFINE r == [k \in {0} |-> f]
  <2>1. r[0] = f
    OBVIOUS
  <2> HIDE DEF r
  <2> QED
    BY <2>1
<1>2. ASSUME NEW n \in Nat, n \in S PROVE n + 1 \in S
  <2>1. PICK old : Chain(old, n)
    BY <1>2
  <2> DEFINE last == X(old[n])
             r == [i \in 0 .. n + 1 |-> IF i = n + 1 THEN last ELSE old[i]]
  <2>2. r[n + 1] = last /\ \A i \in 0 .. n : r[i] = old[i]
    OBVIOUS
  <2> HIDE DEF r
  <2>3. ASSUME NEW i \in 1 .. n + 1 PROVE r[i] = X(r[i - 1])
    <3>1. r[i - 1] = old[i - 1]
      BY <2>2
    <3>2. CASE i = n + 1
      BY <2>2, <3>1, <3>2
    <3>3. CASE i # n + 1
      BY <2>1, <2>2, <3>1, <3>3
    <3> QED
      BY <3>2, <3>3
  <2> QED
    BY <2>1, <2>2, <2>3
<1>3. \A n \in Nat : n \in S
  <2> HIDE DEF S
  <2> QED
    BY <1>1, <1>2, AllNumbers
<1>4. PICK q : Chain(q, m)
  BY <1>3
<1> DEFINE r == [k \in 0 .. m |-> q[k]]
<1>5. ASSUME NEW k \in 0 .. m PROVE r[k] = IF k = 0 THEN f ELSE X(r[k - 1])
  <2>1. CASE k = 0
    BY <1>4, <2>1
  <2>2. CASE k # 0
    BY <1>4, <2>2
  <2> QED
    BY <2>1, <2>2
<1>6. r = [k \in 0 .. m |-> r[k]]
  OBVIOUS
<1> HIDE DEF r
<1> QED
  BY <1>5, <1>6 DEF NextBody

\* and look as many positions on.
LEMMA NextNIs ==
    ASSUME Recursion, NEW vals, Len(vals) \in Nat, NEW f, NEW m \in Nat, Formula(NextN(f, m))
    PROVE  /\ Formula(f)
           /\ \A i \in 1 .. Len(vals) :
                  Evaluate(NextN(f, m), vals, i) <=>
                      i + m > Len(vals) \/ Evaluate(f, vals, i + m)
<1> DEFINE n == Len(vals)
           r == CHOOSE q : q = NextBody(q, f, m)
           There(k, i) == i + k > n \/ Evaluate(f, vals, i + k)
           Right(k) == Formula(r[k]) =>
                           /\ Formula(f)
                           /\ \A i \in 1 .. n : Evaluate(r[k], vals, i) <=> There(k, i)
           S == {k \in Nat : k <= m => Right(k)}
<1>1. NextN(f, m) = r[m]
  BY Zenon DEF NextN, NextBody
<1>2. r = NextBody(r, f, m)
  BY NextExists
<1> HIDE DEF r
<1>3. r[0] = f /\ \A k \in Nat : k + 1 <= m => r[k + 1] = X(r[k])
  BY <1>2 DEF NextBody
<1>4. 0 \in S
  <2>1. \A i \in 1 .. n : There(0, i) <=> Evaluate(f, vals, i)
    <3> TAKE i \in 1 .. n
    <3> QED
      OBVIOUS
  <2> HIDE DEF n, There
  <2> QED
    BY <1>3, <2>1
<1>5. ASSUME NEW k \in Nat, k \in S PROVE k + 1 \in S
  <2> SUFFICES ASSUME k + 1 <= m, Formula(r[k + 1])
               PROVE  /\ Formula(f)
                      /\ \A i \in 1 .. n : Evaluate(r[k + 1], vals, i) <=> There(k + 1, i)
    OBVIOUS
  <2>1. Right(k)
    BY <1>5
  <2>2. r[k + 1] = X(r[k])
    BY <1>3
  <2>3. Formula(X(r[k])) /\ Formula(r[k])
    BY <2>2, PartsAreFormulas
  <2>4. ASSUME NEW i \in 1 .. n
        PROVE  Evaluate(r[k + 1], vals, i) <=> There(k + 1, i)
    <3>1. Evaluate(X(r[k]), vals, i) <=> i = n \/ Evaluate(r[k], vals, i + 1)
      BY <2>3, EvaluateIs
    <3>2. i # n => (Evaluate(r[k], vals, i + 1) <=> There(k, i + 1))
      BY <2>1, <2>3
    <3>3. There(k + 1, i) <=> i = n \/ There(k, i + 1)
      <4> HIDE DEF n
      <4> QED
        OBVIOUS
    <3> HIDE DEF There, n
    <3> QED
      BY <2>2, <3>1, <3>2, <3>3
  <2> HIDE DEF There, n
  <2> QED
    BY <2>1, <2>3, <2>4
<1>6. \A k \in Nat : k \in S
  <2> HIDE DEF S
  <2> QED
    BY <1>4, <1>5, AllNumbers
<1>7. Right(m)
  <2> HIDE DEF Right
  <2> QED
    BY <1>6
<1> QED
  BY <1>1, <1>7

----------------------------------------------------------------------------
(* What the predicates are of the events.                                  *)

\* Positions of a trace.
LEMMA Positions ==
    ASSUME NEW n \in Nat
    PROVE  \A i \in 1 .. n : /\ i \in Nat /\ i \in 0 .. n
                            /\ \A j \in 1 .. i : j \in 1 .. n
  OBVIOUS

\* A name that is not empty.
Given(x) == x # ""

\* A trace of events as their kinds carry them, its valuations, and the
\* positions a formula holds at.
Grounds(t) == Sequence(t) /\ \A i \in 1 .. Len(t) : Carries(t[i])
Vals(t) == ValsTo(t, Len(t), Timed)
At(f, t) == {i \in 1 .. Len(t) : Evaluate(f, Vals(t), i)}

\* The valuations of such a trace, one for each event.
LEMMA ValsOfGrounds ==
    ASSUME NEW t, Grounds(t)
    PROVE  /\ Len(t) \in Nat /\ DOMAIN t = 1 .. Len(t)
           /\ Len(Vals(t)) = Len(t)
           /\ \A i \in 1 .. Len(t) :
                  /\ Vals(t)[i] = ValOf(t, i, Timed)
                  /\ Vals(t)[i].true = Facts(States(t)[i], t[i])
                  /\ Carries(t[i])
                  /\ \A k \in States(t)[i].kept : k[1] \in {"contains", "flow"}
<1>1. Len(t) \in Nat /\ DOMAIN t = 1 .. Len(t)
  BY SequenceIs DEF Grounds
<1>2. Len(Vals(t)) = Len(t) /\ \A i \in 1 .. Len(t) : Vals(t)[i] = ValOf(t, i, Timed)
  BY <1>1, ValsAre DEF Vals
<1>3. ASSUME NEW i \in 1 .. Len(t)
      PROVE  /\ Vals(t)[i].true = Facts(States(t)[i], t[i])
             /\ Carries(t[i])
             /\ \A k \in States(t)[i].kept : k[1] \in {"contains", "flow"}
  <2>1. PICK n \in Nat : n = Len(t)
    BY <1>1
  <2> QED
    BY <1>1, <1>2, <2>1, TruthsAre, HeldIs, KeptKeys DEF ValOf, Grounds
<1> QED
  BY <1>1, <1>2, <1>3

\* An atom holds where it is a fact.
LEMMA AtomAt ==
    ASSUME Recursion, NEW t, Grounds(t), NEW k
    PROVE  \A i : i \in At(Atom(k), t) <=> i \in 1 .. Len(t) /\ k \in Facts(States(t)[i], t[i])
<1>1. ASSUME NEW i \in 1 .. Len(t)
      PROVE  Evaluate(Atom(k), Vals(t), i) <=> k \in Facts(States(t)[i], t[i])
  BY ValsOfGrounds, EvaluateIs, LeafFormulas
<1> QED
  BY <1>1 DEF At

\* Where a call, a content, a permission, any call, a context value, what was
\* contained and what flowed hold.
LEMMA CalledAt ==
    ASSUME Recursion, NEW t, Grounds(t), NEW x
    PROVE  At(Called(x), t) = Calls(t, x)
  BY AtomAt, ValsOfGrounds, FactsAre DEF Calls, Called

\* what an event carries holds where it is carried,
LEMMA ContentAt ==
    ASSUME Recursion, NEW t, Grounds(t), NEW k, k[1] \notin Derived
    PROVE  At(Atom(k), t) = With(t, k)
<1>1. ASSUME NEW s, NEW e, Carries(e), \A q \in s.kept : q[1] \in {"contains", "flow"}
      PROVE  k \in Facts(s, e) <=> k \in e.content \cup e.output
  BY <1>1, FactsAre
<1> QED
  BY <1>1, AtomAt, ValsOfGrounds DEF With

\* a permission where an agent that has it acts,
LEMMA HoldersAt ==
    ASSUME Recursion, NEW t, Grounds(t), NEW p
    PROVE  At(Atom(<<"perm", p>>), t) = Holders(t, p)
  BY AtomAt, ValsOfGrounds, FactsAre DEF Holders

\* "called_any" at every call,
LEMMA AnyCallAt ==
    ASSUME Recursion, NEW t, Grounds(t)
    PROVE  \A i : i \in At(Atom(<<"called_any">>), t)
                      <=> i \in DOMAIN t /\ CalledAs(t[i]) # {}
<1>1. DOMAIN t = 1 .. Len(t)
  BY ValsOfGrounds
<1> QED
  BY <1>1, AtomAt, ValsOfGrounds, FactsAre

\* a context predicate where the context says so,
LEMMA ContextAt ==
    ASSUME Recursion, NEW t, Grounds(t), NEW k, NEW w, Given(w)
    PROVE  /\ \A i : i \in At(Atom(<<"ctx", k, w>>), t) <=> i \in DOMAIN t /\ Said(t, k, i) = w
           /\ \A i : i \in At(Atom(<<"ctx_matches", k, w>>), t)
                        <=> i \in DOMAIN t /\ w \in Found(Said(t, k, i))
<1>1. ASSUME NEW s, NEW e, Carries(e), \A q \in s.kept : q[1] \in {"contains", "flow"}
      PROVE  /\ <<"ctx", k, w>> \in Facts(s, e) <=> k \in DOMAIN s.ctx /\ s.ctx[k] = w
             /\ <<"ctx_matches", k, w>> \in Facts(s, e)
                    <=> k \in DOMAIN s.ctx /\ w \in Found(s.ctx[k])
  BY <1>1, FactsAre
<1>2. ASSUME NEW i \in 1 .. Len(t)
      PROVE  Said(t, k, i) = Get(States(t)[i].ctx, k, "")
  BY SaidIs, ValsOfGrounds, Positions DEF Grounds
<1>3. w \notin Found("")
  BY FindsAssumption DEF Found, Get, Given
<1>4. \A i \in 1 .. Len(t) :
          /\ Said(t, k, i) = w <=> k \in DOMAIN States(t)[i].ctx /\ States(t)[i].ctx[k] = w
          /\ w \in Found(Said(t, k, i))
                 <=> k \in DOMAIN States(t)[i].ctx /\ w \in Found(States(t)[i].ctx[k])
  <2> TAKE i \in 1 .. Len(t)
  <2>1. PICK c, v : c = States(t)[i].ctx /\ v = Said(t, k, i) /\ v = Get(c, k, "")
    BY <1>2
  <2>2. v = w <=> k \in DOMAIN c /\ c[k] = w
    BY <2>1 DEF Get, Given
  <2>3. w \in Found(v) <=> k \in DOMAIN c /\ w \in Found(c[k])
    BY <1>3, <2>1 DEF Get
  <2> QED
    BY <2>1, <2>2, <2>3
<1> QED
  BY <1>1, <1>4, AtomAt, ValsOfGrounds

\* and what is kept holds from then on:
LEMMA KeptAt ==
    ASSUME Recursion, NEW t, Grounds(t), NEW k, k[1] \in {"contains", "flow"}
    PROVE  \A i : i \in At(Atom(k), t) <=> i \in 1 .. Len(t) /\ k \in States(t)[i].kept
<1>1. ASSUME NEW s, NEW e, Carries(e)
      PROVE  k \in Facts(s, e) <=> k \in s.kept
  BY <1>1, KeptFacts
<1> QED
  BY <1>1, AtomAt, ValsOfGrounds

\* a field from the write that contains it,
LEMMA ContainedAt ==
    ASSUME Recursion, NEW t, Grounds(t), NEW x
    PROVE  \A i : i \in At(Atom(<<"contains", x>>), t)
                      <=> i \in 1 .. Len(t) /\ \E j \in 1 .. i : x \in t[j].contains
<1>1. PICK k : k = <<"contains", x>>
  OBVIOUS
<1>2. \A i : i \in At(Atom(k), t) <=> i \in 1 .. Len(t) /\ k \in States(t)[i].kept
  BY <1>1, KeptAt
<1> QED
  BY <1>1, <1>2, ContainedIs, ValsOfGrounds, Positions

\* a flow from the event that made it,
LEMMA KeptFlowAt ==
    ASSUME Recursion, NEW t, Grounds(t), NEW x, NEW y
    PROVE  \A i : i \in At(Atom(<<"flow", x, y>>), t)
                      <=> i \in 1 .. Len(t) /\ Flow(x, y) \in States(t)[i].kept
<1> DEFINE k == Flow(x, y)
<1> HIDE DEF k
<1> QED
  BY KeptAt DEF k, Flow

\* which is the first of the flows the meaning counts.
LEMMA FlowAt ==
    ASSUME Recursion, NEW t, Grounds(t), NEW x, Given(x), NEW y
    PROVE  \A i : i \in At(Atom(<<"flow", x, y>>), t)
                      <=> i \in 1 .. Len(t) /\ \E j \in 1 .. i : j \in Flows(t, x, y)
<1> DEFINE k == Flow(x, y)
<1>1. \A i : i \in At(Atom(<<"flow", x, y>>), t)
                <=> i \in 1 .. Len(t) /\ k \in States(t)[i].kept
  BY KeptFlowAt
<1>2. \A i \in 0 .. Len(t) :
          k \in States(t)[i].kept <=> \E j \in 1 .. i : k \in Flowed(States(t)[j - 1], t[j])
  BY FlowsAreKept, ValsOfGrounds
<1>3. \A j \in 1 .. Len(t) : k \in Flowed(States(t)[j - 1], t[j]) <=> j \in Flows(t, x, y)
  BY FlowsAt DEF Grounds, Given
<1> HIDE DEF k
<1> QED
  BY <1>1, <1>2, <1>3, Positions, ValsOfGrounds

\* Where a number is within a limit.
LEMMA LimitAt ==
    ASSUME Recursion, NEW t, Grounds(t), NEW k, NEW m
    PROVE  /\ \A i : i \in At(Le(Var(k), Const(m)), t)
                         <=> i \in 1 .. Len(t) /\ Get(ValOf(t, i, Timed).num, k, 0) <= m
           /\ \A i : i \in At(Ge(Var(k), Const(m)), t)
                         <=> i \in 1 .. Len(t) /\ Get(ValOf(t, i, Timed).num, k, 0) >= m
<1> DEFINE l == Le(Var(k), Const(m))
           g == Ge(Var(k), Const(m))
<1>1. ASSUME NEW i \in 1 .. Len(t)
      PROVE  /\ Evaluate(l, Vals(t), i) <=> Get(ValOf(t, i, Timed).num, k, 0) <= m
             /\ Evaluate(g, Vals(t), i) <=> Get(ValOf(t, i, Timed).num, k, 0) >= m
  <2>1. Len(Vals(t)) \in Nat /\ i \in 1 .. Len(Vals(t)) /\ Vals(t)[i] = ValOf(t, i, Timed)
    BY ValsOfGrounds
  <2>2. /\ Evaluate(l, Vals(t), i) <=> Compare(l, Vals(t)[i])
        /\ Evaluate(g, Vals(t), i) <=> Compare(g, Vals(t)[i])
    BY <2>1, EvaluateIs, LeafFormulas
  <2>3. l.op = "le" /\ l.left = Var(k) /\ l.right = Const(m)
    BY DEF Le
  <2>4. g.op = "ge" /\ g.left = Var(k) /\ g.right = Const(m)
    BY DEF Ge
  <2> HIDE DEF l, g
  <2> QED
    BY <2>1, <2>2, <2>3, <2>4 DEF Compare, Resolve, Var, Const, Get
<1> HIDE DEF l, g
<1> QED
  BY <1>1 DEF l, g, At

\* What a formula says of a whole trace.
Says(f, t) == Evaluate(f, Vals(t), 1)

\* Where the operators hold.
LEMMA NotAt ==
    ASSUME Recursion, NEW t, Grounds(t), NEW f, Formula(Not(f))
    PROVE  /\ Formula(f)
           /\ \A i : i \in At(Not(f), t) <=> i \in 1 .. Len(t) /\ i \notin At(f, t)
<1>1. ASSUME NEW i \in 1 .. Len(t)
      PROVE  Evaluate(Not(f), Vals(t), i) <=> ~Evaluate(f, Vals(t), i)
  BY EvaluateIs, ValsOfGrounds
<1> QED
  BY <1>1, PartsAreFormulas DEF At

\* an "and" and an "or" by their parts,
LEMMA PartsAt ==
    ASSUME Recursion, NEW t, Grounds(t), NEW P
    PROVE  /\ Formula(And(P)) => /\ \A g \in P : Formula(g)
                                 /\ \A i : i \in At(And(P), t)
                                        <=> i \in 1 .. Len(t) /\ \A g \in P : i \in At(g, t)
           /\ Formula(Or(P)) => /\ \A g \in P : Formula(g)
                                /\ \A i : i \in At(Or(P), t)
                                       <=> i \in 1 .. Len(t) /\ \E g \in P : i \in At(g, t)
<1>1. ASSUME NEW i \in 1 .. Len(t)
      PROVE  /\ Formula(And(P)) => (Evaluate(And(P), Vals(t), i)
                                        <=> \A g \in P : Evaluate(g, Vals(t), i))
             /\ Formula(Or(P)) => (Evaluate(Or(P), Vals(t), i)
                                       <=> \E g \in P : Evaluate(g, Vals(t), i))
  BY EvaluateIs, ValsOfGrounds
<1> QED
  BY <1>1, PartsAreFormulas DEF At

\* and an X and an F by what comes later.
LEMMA LaterAt ==
    ASSUME Recursion, NEW t, Grounds(t), NEW f
    PROVE  /\ Formula(X(f)) => /\ Formula(f)
                               /\ \A i : i \in At(X(f), t)
                                      <=> i \in 1 .. Len(t) /\ (i = Len(t) \/ i + 1 \in At(f, t))
           /\ Formula(F(f)) => /\ Formula(f)
                               /\ \A i : i \in At(F(f), t)
                                      <=> i \in 1 .. Len(t) /\ \E j \in At(f, t) : i <= j
           /\ Formula(G(f)) => /\ Formula(f)
                               /\ \A i : i \in At(G(f), t)
                                      <=> /\ i \in 1 .. Len(t)
                                          /\ \A j \in i .. Len(t) : j \in At(f, t)
<1>1. PICK n \in Nat : n = Len(t) /\ n = Len(Vals(t))
  BY ValsOfGrounds
<1>2. ASSUME NEW i \in 1 .. n
      PROVE  /\ Formula(X(f)) => (Evaluate(X(f), Vals(t), i)
                                      <=> i = n \/ Evaluate(f, Vals(t), i + 1))
             /\ Formula(F(f)) => (Evaluate(F(f), Vals(t), i)
                                      <=> \E j \in i .. n : Evaluate(f, Vals(t), j))
             /\ Formula(G(f)) => (Evaluate(G(f), Vals(t), i)
                                      <=> \A j \in i .. n : Evaluate(f, Vals(t), j))
  BY <1>1, EvaluateIs
<1> QED
  BY <1>1, <1>2, PartsAreFormulas DEF At

\* What holds is within the trace.
LEMMA AtBounds ==
    ASSUME NEW t, NEW f
    PROVE  At(f, t) \subseteq 1 .. Len(t)
BY DEF At

\* What the operators on top say of the trace.
LEMMA WheneverSays ==
    ASSUME Recursion, NEW t, Grounds(t), NEW f, NEW g, Formula(Whenever(f, g))
    PROVE  /\ Formula(f) /\ Formula(g)
           /\ Says(Whenever(f, g), t) <=> At(f, t) \subseteq At(g, t)
  BY WheneverIs, ValsOfGrounds DEF Says, At

\* A G holds if its body does at every position.
LEMMA EverywhereSays ==
    ASSUME Recursion, NEW t, Grounds(t), NEW f, Formula(G(f))
    PROVE  /\ Formula(f)
           /\ Says(G(f), t) <=> \A i \in 1 .. Len(t) : i \in At(f, t)
  BY EverywhereIs, ValsOfGrounds DEF Says, At

\* What is forbidden until something happens comes with it or after it,
LEMMA ForbiddenAt ==
    ASSUME Recursion, NEW t, Grounds(t), NEW u, NEW f, Formula(ForbiddenUntil(u, f)),
           NEW pos \in Nat \ {0}, pos <= Len(t) \/ pos = 1
    PROVE  /\ Formula(u) /\ Formula(f)
           /\ Evaluate(ForbiddenUntil(u, f), Vals(t), pos) <=>
                  \A k \in At(f, t) : pos <= k => \E j \in At(u, t) : pos <= j /\ j <= k
<1>1. PICK n \in Nat : n = Len(t) /\ n = Len(Vals(t))
  BY ValsOfGrounds
<1> QED
  BY <1>1, ForbiddenIs DEF At

\* on the whole trace too.
LEMMA ForbiddenSays ==
    ASSUME Recursion, NEW t, Grounds(t), NEW u, NEW f, Formula(ForbiddenUntil(u, f))
    PROVE  /\ Formula(u) /\ Formula(f)
           /\ Says(ForbiddenUntil(u, f), t) <=>
                  \A k \in At(f, t) : \E j \in At(u, t) : j <= k
  BY ForbiddenAt, AtBounds, ValsOfGrounds DEF Says

\* An "and" on top holds if all of its parts do.
LEMMA AllSay ==
    ASSUME Recursion, NEW t, Grounds(t), NEW P, Formula(And(P)),
           \A g \in P : g.op \notin {"F", "U"}
    PROVE  /\ \A g \in P : Formula(g)
           /\ Says(And(P), t) <=> \A g \in P : Says(g, t)
  BY AllOfIs, ValsOfGrounds DEF Says

\* Names no tool answers to both of are not called at once.
LEMMA DistinctCalls ==
    ASSUME NEW t, Grounds(t), NEW x, NEW y, Distinct(x, y)
    PROVE  Calls(t, x) \cap Calls(t, y) = {}
<1> SUFFICES ASSUME NEW i \in DOMAIN t, x \in CalledAs(t[i]), y \in CalledAs(t[i])
             PROVE  FALSE
  BY DEF Calls
<1>1. Carries(t[i])
  BY ValsOfGrounds
<1> QED
  BY <1>1 DEF Distinct, Carries, CalledAs

\* Calls are positions.
LEMMA CallBounds ==
    ASSUME NEW t, Grounds(t), NEW x
    PROVE  Calls(t, x) \subseteq 1 .. Len(t) /\ Calls(t, x) \subseteq Int
  BY ValsOfGrounds DEF Calls

----------------------------------------------------------------------------
(* Each pattern says what the reference says it does.                      *)

\* One thing before another.
LEMMA PrecedeSays ==
    ASSUME Recursion, NEW t, Grounds(t), NEW x, NEW y, Distinct(x, y),
           Formula(must_precede(x, y))
    PROVE  Says(must_precede(x, y), t) <=> Preceded(Calls(t, y), Calls(t, x))
  BY CallBounds, DistinctCalls, CalledAt, ForbiddenSays DEF Preceded,
     must_precede

\* One thing, by who may do it, before another.
LEMMA DestructiveSays ==
    ASSUME Recursion, NEW t, Grounds(t), NEW x, NEW y, Distinct(x, y), NEW role,
           Formula(destructive_action_gate(y, x, role))
    PROVE  Says(destructive_action_gate(y, x, role), t)
               <=> Preceded(Calls(t, y), Calls(t, x) \cap Holders(t, role))
<1> DEFINE P == {Called(x), Atom(<<"perm", role>>)}
           u == And(P)
           f == Called(y)
<1>1. destructive_action_gate(y, x, role) = ForbiddenUntil(u, f)
  BY DEF destructive_action_gate, ForbiddenUntil
<1> HIDE DEF u, f
<1>2. /\ Formula(u)
      /\ Says(ForbiddenUntil(u, f), t) <=>
             \A k \in At(f, t) : \E j \in At(u, t) : j <= k
  BY <1>1, ForbiddenSays
<1>3. \A i : i \in At(u, t) <=> i \in Calls(t, x) \cap Holders(t, role)
  <2> HIDE DEF P
  <2> QED
    BY <1>2, CalledAt, HoldersAt, PartsAt, CallBounds DEF u, P
<1> QED
  BY <1>1, <1>2, <1>3, CalledAt, CallBounds, DistinctCalls DEF Preceded, f

\* One thing right after another.
LEMMA StepSays ==
    ASSUME Recursion, NEW t, Grounds(t), NEW x, NEW y,
           Formula(workflow_step(Called(x), Called(y)))
    PROVE  Says(workflow_step(Called(x), Called(y)), t)
               <=> Next1(t, Calls(t, x), Calls(t, y))
  BY CalledAt, LaterAt, WheneverSays, CallBounds DEF Next1, workflow_step

\* One thing some time after another,
LEMMA FollowSays ==
    ASSUME Recursion, NEW t, Grounds(t), NEW x, NEW y,
           Formula(always_followed_by(x, y))
    PROVE  Says(always_followed_by(x, y), t) <=> Followed(Calls(t, x), Calls(t, y))
  BY CalledAt, LaterAt, WheneverSays, CallBounds DEF Followed,
     always_followed_by

\* or two things,
LEMMA StepsSay ==
    ASSUME Recursion, NEW t, Grounds(t), NEW x, NEW y, NEW z,
           Formula(required_steps_completion(x, {y, z}))
    PROVE  Says(required_steps_completion(x, {y, z}), t)
               <=> Followed(Calls(t, x), Calls(t, y)) /\ Followed(Calls(t, x), Calls(t, z))
<1> DEFINE P == {F(Called(s)) : s \in {y, z}}
<1>1. /\ Formula(And(P))
      /\ Says(required_steps_completion(x, {y, z}), t)
             <=> At(Called(x), t) \subseteq At(And(P), t)
  BY WheneverSays DEF required_steps_completion
<1>2. F(Called(y)) \in P /\ F(Called(z)) \in P
  OBVIOUS
<1>3. \A g \in P : g = F(Called(y)) \/ g = F(Called(z))
  OBVIOUS
<1> HIDE DEF P
<1>4. ASSUME NEW w, Formula(F(Called(w)))
      PROVE  \A i : i \in At(F(Called(w)), t)
                 <=> i \in 1 .. Len(t) /\ \E j \in Calls(t, w) : i <= j
  BY <1>4, LaterAt, CalledAt
<1>5. Says(required_steps_completion(x, {y, z}), t)
          <=> \A i \in Calls(t, x) : /\ \E j \in Calls(t, y) : i <= j
                                     /\ \E j \in Calls(t, z) : i <= j
  BY <1>1, <1>2, <1>3, <1>4, CalledAt, CallBounds, PartsAt
<1> QED
  BY <1>5, CallBounds DEF Followed

\* what holds of the position after one,
LEMMA NextAt ==
    ASSUME Recursion, NEW t, Grounds(t), NEW f, NEW g, Formula(Whenever(f, X(g)))
    PROVE  /\ Formula(f) /\ Formula(g)
           /\ Says(Whenever(f, X(g)), t)
                  <=> \A i \in At(f, t) : i = Len(t) \/ i + 1 \in At(g, t)
  BY AtBounds, LaterAt, WheneverSays

\* one thing within some steps of another,
LEMMA DeadlineSays ==
    ASSUME Recursion, NEW t, Grounds(t), NEW x, NEW y, NEW m \in Nat \ {0},
           Formula(deadline(x, y, m))
    PROVE  Says(deadline(x, y, m), t) <=> Answered(t, Calls(t, x), Calls(t, y), m)
<1> DEFINE g == BoundedEventually(Called(y), m)
<1>1. /\ Formula(g)
      /\ Says(deadline(x, y, m), t)
             <=> \A i \in At(Called(x), t) : i = Len(t) \/ i + 1 \in At(g, t)
  BY NextAt DEF deadline
<1>2. PICK n \in Nat : n = Len(t) /\ n = Len(Vals(t))
  BY ValsOfGrounds
<1>3. \A i \in 1 .. n : Evaluate(g, Vals(t), i) <=>
          i + m - 1 > n \/ \E j \in i .. i + m - 1 : Evaluate(Called(y), Vals(t), j)
  BY <1>1, <1>2, BoundedEventuallyIs
<1> HIDE DEF g
<1>4. \A h, i : i \in At(h, t) <=> i \in 1 .. n /\ Evaluate(h, Vals(t), i)
  BY <1>2 DEF At
<1>5. Calls(t, y) = At(Called(y), t) /\ Calls(t, x) = At(Called(x), t)
  BY CalledAt
<1>6. ASSUME NEW i \in 1 .. n
      PROVE  (i = n \/ i + 1 \in At(g, t))
                 <=> (i + m > n \/ \E j \in Calls(t, y) : i < j /\ j <= i + m)
  <2>1. CASE i + m > n
    BY <1>3, <1>4, <2>1
  <2>2. CASE i + m <= n
    BY <1>3, <1>4, <1>5, <2>2
  <2> QED
    BY <2>1, <2>2
<1> QED
  BY <1>1, <1>2, <1>5, <1>6, CallBounds DEF Answered

\* one thing not within some steps of itself,
LEMMA CooldownSays ==
    ASSUME Recursion, NEW t, Grounds(t), NEW x, NEW m \in Nat \ {0}, Formula(cooldown(x, m))
    PROVE  Says(cooldown(x, m), t) <=> Apart(Calls(t, x), m)
<1> DEFINE g == BoundedNever(Called(x), m)
<1>1. /\ Formula(g)
      /\ Says(cooldown(x, m), t)
             <=> \A i \in At(Called(x), t) : i = Len(t) \/ i + 1 \in At(g, t)
  BY NextAt DEF cooldown
<1>2. PICK n \in Nat : n = Len(t) /\ n = Len(Vals(t))
  BY ValsOfGrounds
<1>3. \A i \in 1 .. n : Evaluate(g, Vals(t), i) <=>
          \A j \in i .. n : j <= i + m - 1 => ~Evaluate(Called(x), Vals(t), j)
  BY <1>1, <1>2, BoundedNeverIs
<1> HIDE DEF g
<1>4. \A h, i : i \in At(h, t) <=> i \in 1 .. n /\ Evaluate(h, Vals(t), i)
  BY <1>2 DEF At
<1>5. Calls(t, x) = At(Called(x), t)
  BY CalledAt
<1>6. ASSUME NEW i \in 1 .. n
      PROVE  (i = n \/ i + 1 \in At(g, t))
                 <=> \A j \in Calls(t, x) : i < j => j - i > m
  <2>1. CASE i = n
    BY <1>4, <1>5, <2>1
  <2>2. CASE i # n
    BY <1>3, <1>4, <1>5, <2>2
  <2> QED
    BY <2>1, <2>2
<1> QED
  BY <1>1, <1>2, <1>5, <1>6, CallBounds DEF Apart

\* one thing never after another,
LEMMA ReversalSays ==
    ASSUME Recursion, NEW t, Grounds(t), NEW x, NEW y, Formula(no_reversal(x, y))
    PROVE  Says(no_reversal(x, y), t) <=> \A i \in Calls(t, x), j \in Calls(t, y) : j < i
<1> DEFINE g == Not(Called(y))
<1>1. /\ Formula(G(g))
      /\ Says(no_reversal(x, y), t) <=> At(Called(x), t) \subseteq At(G(g), t)
  BY WheneverSays DEF no_reversal
<1>2. PICK n \in Nat : n = Len(t)
  BY ValsOfGrounds
<1>3. Formula(g) /\ \A i : i \in At(G(g), t)
                        <=> i \in 1 .. n /\ \A j \in i .. n : j \in At(g, t)
  BY <1>1, <1>2, LaterAt
<1>4. \A j : j \in At(g, t) <=> j \in 1 .. n /\ j \notin At(Called(y), t)
  BY <1>2, <1>3, NotAt
<1> HIDE DEF g
<1> QED
  BY <1>1, <1>2, <1>3, <1>4, CalledAt, CallBounds

\* one thing or another,
LEMMA ExclusionSays ==
    ASSUME Recursion, NEW t, Grounds(t), NEW x, NEW y, Formula(mutual_exclusion(x, y))
    PROVE  Says(mutual_exclusion(x, y), t) <=> Calls(t, x) = {} \/ Calls(t, y) = {}
<1> DEFINE P == {no_reversal(x, y), no_reversal(y, x)}
<1>1. \A g \in P : g.op \notin {"F", "U"}
  BY DEF no_reversal, Whenever, G
<1>2. /\ \A g \in P : Formula(g)
      /\ Says(And(P), t) <=> \A g \in P : Says(g, t)
  <2>1. Formula(And(P))
    BY DEF mutual_exclusion
  <2> HIDE DEF P
  <2> QED
    BY <1>1, <2>1, AllSay
<1> QED
  BY <1>2, ReversalSays, CallBounds DEF mutual_exclusion

\* one thing between two others,
LEMMA SanitizedSays ==
    ASSUME Recursion, NEW t, Grounds(t), NEW x, NEW z, NEW y, Distinct(z, y),
           Formula(sanitized_before_sink(x, z, y))
    PROVE  Says(sanitized_before_sink(x, z, y), t)
               <=> Cleared(Calls(t, x), Calls(t, z), Calls(t, y))
<1> DEFINE g == ForbiddenUntil(Called(z), Called(y))
<1>1. /\ Formula(g)
      /\ Says(sanitized_before_sink(x, z, y), t)
             <=> \A i \in At(Called(x), t) : i = Len(t) \/ i + 1 \in At(g, t)
  BY NextAt DEF sanitized_before_sink
<1>2. PICK n \in Nat : n = Len(t)
  BY ValsOfGrounds
<1>3. /\ Calls(t, x) = At(Called(x), t) /\ Calls(t, y) = At(Called(y), t)
      /\ Calls(t, z) = At(Called(z), t)
  BY CalledAt
<1>4. \A w : Calls(t, w) \subseteq 1 .. n
  BY <1>2, CallBounds
<1>5. ASSUME NEW pos \in 1 .. n
      PROVE  pos \in At(g, t) <=>
                 \A k \in Calls(t, y) : pos <= k => \E j \in Calls(t, z) : pos <= j /\ j <= k
  <2>1. Evaluate(ForbiddenUntil(Called(z), Called(y)), Vals(t), pos) <=>
            \A k \in At(Called(y), t) : pos <= k => \E j \in At(Called(z), t) : pos <= j /\ j <= k
    BY <1>1, <1>2, ForbiddenAt
  <2> QED
    BY <1>2, <1>3, <2>1 DEF At
<1> HIDE DEF g
<1>6. ASSUME NEW i \in 1 .. n
      PROVE  (i = n \/ i + 1 \in At(g, t)) <=>
                 \A k \in Calls(t, y) : i < k => \E j \in Calls(t, z) : i < j /\ j < k
  <2>1. CASE i = n
    BY <1>4, <2>1
  <2>2. CASE i # n
    BY <1>4, <1>5, <2>2, DistinctCalls
  <2> QED
    BY <2>1, <2>2
<1> QED
  BY <1>1, <1>2, <1>3, <1>4, <1>6 DEF Cleared

\* one thing not long before another: the formula is stricter,
LEMMA FreshnessSays ==
    ASSUME Recursion, NEW t, Grounds(t), NEW x, NEW y, Distinct(x, y), NEW m \in Nat,
           Formula(approval_freshness(x, y, m)), Says(approval_freshness(x, y, m), t)
    PROVE  Within(Calls(t, y), Calls(t, x), m)
<1> DEFINE closed == ForbiddenUntil(Called(x), Called(y))
           g == NextN(closed, m + 1)
           P == {closed, Whenever(Called(x), g)}
<1>1. approval_freshness(x, y, m) = And(P)
  BY DEF approval_freshness
<1>2. \A h \in P : h.op \notin {"F", "U"}
  BY DEF ForbiddenUntil, Or, Whenever, G
<1>3. closed \in P /\ Whenever(Called(x), g) \in P
  OBVIOUS
<1>4. \A h \in P : Formula(h) /\ Says(h, t)
  <2> HIDE DEF P
  <2> QED
    BY <1>1, <1>2, AllSay
<1>5. PICK n \in Nat : n = Len(t) /\ n = Len(Vals(t))
  BY ValsOfGrounds
<1>6. \A w : Calls(t, w) \subseteq 1 .. n
  BY <1>5, CallBounds
<1>7. Formula(closed) /\ Says(closed, t)
  BY <1>3, <1>4
<1>8. \A k \in Calls(t, y) : \E j \in Calls(t, x) : j <= k
  BY <1>7, CalledAt, ForbiddenSays
<1>9. ASSUME NEW pos \in 1 .. n, Evaluate(closed, Vals(t), pos), NEW k \in Calls(t, y), pos <= k
      PROVE  \E j \in Calls(t, x) : pos <= j /\ j <= k
  <2>1. \A q \in At(Called(y), t) : pos <= q => \E j \in At(Called(x), t) : pos <= j /\ j <= q
    <3>1. pos \in Nat \ {0} /\ pos <= Len(t)
      BY <1>5
    <3> QED
      BY <1>7, <1>9, <3>1, ForbiddenAt
  <2> QED
    BY <1>9, <2>1, CalledAt
<1>10. ASSUME NEW j \in Calls(t, x), j + (m + 1) <= n
       PROVE  Evaluate(closed, Vals(t), j + (m + 1))
  <2>1. Formula(g) /\ At(Called(x), t) \subseteq At(g, t)
    BY <1>3, <1>4, WheneverSays
  <2>2. j \in 1 .. n /\ Evaluate(g, Vals(t), j)
    BY <1>5, <1>6, <2>1, CalledAt DEF At
  <2>3. Evaluate(g, Vals(t), j) <=> j + (m + 1) > n \/ Evaluate(closed, Vals(t), j + (m + 1))
    <3> HIDE DEF closed
    <3> QED
      BY <1>5, <2>1, <2>2, NextNIs
  <2> QED
    BY <1>10, <2>2, <2>3
<1> HIDE DEF closed, g, P
<1> SUFFICES ASSUME NEW i \in Calls(t, y)
             PROVE  \E j \in Calls(t, x) : j < i /\ i - j <= m
  BY DEF Within
<1> DEFINE S == {j \in Calls(t, x) : j < i}
<1>11. i \in 1 .. n
  BY <1>6
<1>12. \A j \in Calls(t, x) : j \in 1 .. n /\ j # i
  BY <1>6, DistinctCalls
<1>13. S \subseteq 0 .. n
  BY <1>12
<1>14. S # {}
  <2>1. PICK j \in Calls(t, x) : j <= i
    BY <1>8
  <2> QED
    BY <1>11, <1>12, <2>1
<1>15. PICK j \in S : \A k \in S : k <= j
  <2> HIDE DEF S
  <2> QED
    BY <1>13, <1>14, Greatest
<1>16. j \in Calls(t, x) /\ j \in 1 .. n /\ j < i
  BY <1>12, <1>15
<1>17. ASSUME i - j > m
       PROVE  FALSE
  <2>1. PICK k \in Calls(t, x) : j + (m + 1) <= k /\ k <= i
    BY <1>9, <1>10, <1>11, <1>16, <1>17
  <2> QED
    BY <1>11, <1>12, <1>15, <1>16, <2>1
<1> QED
  BY <1>11, <1>16, <1>17

\* what never happens,
LEMMA NeverSays ==
    ASSUME Recursion, NEW t, Grounds(t), NEW f, Formula(G(Not(f)))
    PROVE  /\ Formula(f)
           /\ Says(G(Not(f)), t) <=> At(f, t) = {}
  BY AtBounds, NotAt, EverywhereSays

\* what is never together with something else,
LEMMA WithoutSays ==
    ASSUME Recursion, NEW t, Grounds(t), NEW f, NEW g, Formula(Whenever(f, Not(g)))
    PROVE  /\ Formula(f) /\ Formula(g)
           /\ Says(Whenever(f, Not(g)), t) <=> At(f, t) \cap At(g, t) = {}
  BY AtBounds, NotAt, WheneverSays

\* One formula, or none of one.
LEMMA OnlyAt ==
    ASSUME Recursion, NEW t, Grounds(t), NEW f
    PROVE  /\ Formula(And({f})) => At(And({f}), t) = At(f, t)
           /\ Formula(Or({f})) => At(Or({f}), t) = At(f, t)
<1>1. \A P : /\ Formula(And(P)) => \A i : i \in At(And(P), t)
                                       <=> i \in 1 .. Len(t) /\ \A g \in P : i \in At(g, t)
             /\ Formula(Or(P)) => \A i : i \in At(Or(P), t)
                                      <=> i \in 1 .. Len(t) /\ \E g \in P : i \in At(g, t)
  BY PartsAt
<1>2. Formula(And({f})) => \A i : i \in At(And({f}), t)
                               <=> i \in 1 .. Len(t) /\ i \in At(f, t)
  BY <1>1
<1>3. Formula(Or({f})) => \A i : i \in At(Or({f}), t)
                              <=> i \in 1 .. Len(t) /\ i \in At(f, t)
  BY <1>1
<1> QED
  BY <1>2, <1>3, AtBounds

\* A key with a name that grounding does not derive.
LEMMA KeyAt ==
    ASSUME Recursion, NEW t, Grounds(t), NEW x, x \notin Derived
    PROVE  At(Atom(<<x>>), t) = With(t, <<x>>)
<1> DEFINE k == <<x>>
<1> HIDE DEF k
<1> QED
  BY ContentAt DEF k

\* what the arguments of a call must not be,
LEMMA BlacklistSays ==
    ASSUME Recursion, NEW t, Grounds(t), NEW x, NEW y, y \notin Derived
    PROVE  /\ Formula(arg_blacklist(x, {<<y>>})) =>
                  (Says(arg_blacklist(x, {<<y>>}), t) <=> Calls(t, x) \cap With(t, <<y>>) = {})
           /\ Formula(arg_length_limit(x, <<y>>)) =>
                  (Says(arg_length_limit(x, <<y>>), t) <=> Calls(t, x) \cap With(t, <<y>>) = {})
<1>1. At(Atom(<<y>>), t) = With(t, <<y>>) /\ At(Called(x), t) = Calls(t, x)
  BY CalledAt, KeyAt
<1> DEFINE f == Not(Atom(<<y>>))
<1>2. ASSUME Formula(Whenever(Called(x), And({f})))
      PROVE  Says(Whenever(Called(x), And({f})), t) <=> Calls(t, x) \cap With(t, <<y>>) = {}
  <2>1. /\ Formula(And({f}))
        /\ Says(Whenever(Called(x), And({f})), t) <=> At(Called(x), t) \subseteq At(And({f}), t)
    BY <1>2, WheneverSays
  <2>2. At(And({f}), t) = At(f, t)
    <3> HIDE DEF f
    <3> QED
      BY <2>1, OnlyAt
  <2>3. Formula(f)
    <3> HIDE DEF f
    <3> QED
      BY <2>1, PartsAt
  <2>4. \A i : i \in At(f, t) <=> i \in 1 .. Len(t) /\ i \notin At(Atom(<<y>>), t)
    BY <2>3, NotAt
  <2> HIDE DEF f
  <2> QED
    BY <1>1, <2>1, <2>2, <2>4, AtBounds
<1> QED
  BY <1>1, <1>2, WithoutSays DEF arg_length_limit, arg_blacklist

\* and what they must be,
LEMMA AllowlistSays ==
    ASSUME Recursion, NEW t, Grounds(t), NEW x, NEW y, y \notin Derived
    PROVE  /\ Formula(arg_allowlist(x, {<<y>>})) =>
                  (Says(arg_allowlist(x, {<<y>>}), t) <=> Calls(t, x) \subseteq With(t, <<y>>))
           /\ Formula(scope_limit(x, <<y>>)) =>
                  (Says(scope_limit(x, <<y>>), t) <=> Calls(t, x) \subseteq With(t, <<y>>))
<1>1. At(Atom(<<y>>), t) = With(t, <<y>>) /\ At(Called(x), t) = Calls(t, x)
  BY CalledAt, KeyAt
<1> DEFINE f == Atom(<<y>>)
<1>2. ASSUME Formula(Whenever(Called(x), Or({f})))
      PROVE  Says(Whenever(Called(x), Or({f})), t) <=> Calls(t, x) \subseteq With(t, <<y>>)
  <2>1. /\ Formula(Or({f}))
        /\ Says(Whenever(Called(x), Or({f})), t) <=> At(Called(x), t) \subseteq At(Or({f}), t)
    BY <1>2, WheneverSays
  <2>2. At(Or({f}), t) = At(f, t)
    <3> HIDE DEF f
    <3> QED
      BY <2>1, OnlyAt
  <2> QED
    BY <1>1, <2>1, <2>2
<1> QED
  BY <1>1, <1>2, WheneverSays DEF scope_limit, arg_allowlist

\* what must not be said or done,
LEMMA ForbidsSay ==
    ASSUME Recursion, NEW t, Grounds(t), NEW x
    PROVE  /\ Formula(redirect_to_safe(x)) => (Says(redirect_to_safe(x), t) <=> Calls(t, x) = {})
           /\ x \notin Derived /\ Formula(no_pii(<<x>>)) =>
                  (Says(no_pii(<<x>>), t) <=> With(t, <<x>>) = {})
           /\ x \notin Derived /\ Formula(no_keywords(<<x>>)) =>
                  (Says(no_keywords(<<x>>), t) <=> With(t, <<x>>) = {})
  BY CalledAt, NeverSays, KeyAt DEF no_pii, redirect_to_safe, no_keywords

\* what needs a permission,
LEMMA PermissionSays ==
    ASSUME Recursion, NEW t, Grounds(t), NEW x, NEW y, Formula(requires_permission(x, y))
    PROVE  Says(requires_permission(x, y), t) <=> Calls(t, x) \subseteq Holders(t, y)
  BY CalledAt, HoldersAt, WheneverSays DEF requires_permission

\* what comes only with something else,
LEMMA TogetherSays ==
    ASSUME Recursion, NEW t, Grounds(t), NEW k, NEW q, k[1] \notin Derived, q[1] \notin Derived,
           Formula(Whenever(Atom(k), Atom(q)))
    PROVE  Says(Whenever(Atom(k), Atom(q)), t) <=> With(t, k) \subseteq With(t, q)
  BY WheneverSays, ContentAt

\* what is used only as it is,
LEMMA IntactSays ==
    ASSUME Recursion, NEW t, Grounds(t), NEW x, NEW y, x \notin Derived, y \notin Derived,
           Formula(data_intact(<<x>>, <<y>>))
    PROVE  Says(data_intact(<<x>>, <<y>>), t) <=> With(t, <<x>>) \subseteq With(t, <<y>>)
<1>1. Says(data_intact(<<x>>, <<y>>), t) <=> At(Atom(<<x>>), t) \subseteq At(Atom(<<y>>), t)
  BY WheneverSays DEF data_intact
<1> QED
  BY <1>1, KeyAt

\* what is claimed only with evidence, what is unclear only with a question,
LEMMA EvidenceSays ==
    ASSUME Recursion, NEW t, Grounds(t), NEW x
    PROVE  /\ Formula(claim_requires_evidence(x)) =>
                  (Says(claim_requires_evidence(x), t)
                      <=> With(t, <<"claim_emitted", x>>)
                              \subseteq With(t, <<"evidence_verdict", x, "PASS">>))
           /\ Formula(underdetermined_must_clarify(x)) =>
                  (Says(underdetermined_must_clarify(x), t)
                      <=> With(t, <<"evidence_verdict", x, "UNDERDETERMINED">>)
                              \subseteq With(t, <<"evidence_action", x, "clarify">>))
<1> DEFINE a == <<"claim_emitted", x>>
           b == <<"evidence_verdict", x, "PASS">>
           c == <<"evidence_verdict", x, "UNDERDETERMINED">>
           d == <<"evidence_action", x, "clarify">>
<1> HIDE DEF a, b, c, d
<1> QED
  BY TogetherSays DEF a, b, c, d, claim_requires_evidence,
     underdetermined_must_clarify, Derived

\* no call but of these,
LEMMA OnlyToolsSay ==
    ASSUME Recursion, NEW t, Grounds(t), NEW x, NEW y, Formula(tool_allowlist({x, y}))
    PROVE  Says(tool_allowlist({x, y}), t)
               <=> \A i \in DOMAIN t : CalledAs(t[i]) # {} => i \in Calls(t, x) \cup Calls(t, y)
<1> DEFINE P == {Called(s) : s \in {x, y}}
           any == Atom(<<"called_any">>)
<1>1. /\ Formula(Or(P))
      /\ Says(tool_allowlist({x, y}), t) <=> At(any, t) \subseteq At(Or(P), t)
  BY WheneverSays DEF tool_allowlist, AnyOf
<1>2. Called(x) \in P /\ Called(y) \in P /\ \A g \in P : g = Called(x) \/ g = Called(y)
  OBVIOUS
<1>3. \A i : i \in At(any, t) <=> i \in DOMAIN t /\ CalledAs(t[i]) # {}
  BY AnyCallAt
<1> HIDE DEF P, any
<1> QED
  BY <1>1, <1>2, <1>3, CalledAt, CallBounds, PartsAt

\* no flow of what was written,
LEMMA LeakSays ==
    ASSUME Recursion, NEW t, Grounds(t), NEW x, Given(x), NEW y, Formula(no_data_leak(x, y))
    PROVE  Says(no_data_leak(x, y), t)
               <=> (\A i \in DOMAIN t : x \notin t[i].contains) \/ Flows(t, x, y) = {}
<1> DEFINE A == At(Atom(<<"contains", x>>), t)
           B == At(Atom(<<"flow", x, y>>), t)
<1>1. Says(no_data_leak(x, y), t) <=> A \cap B = {}
  BY WithoutSays DEF no_data_leak
<1>2. PICK n \in Nat : n = Len(t) /\ DOMAIN t = 1 .. n
  BY ValsOfGrounds
<1>3. \A i : i \in A <=> i \in 1 .. n /\ \E j \in 1 .. i : x \in t[j].contains
  BY <1>2, ContainedAt
<1>4. \A i : i \in B <=> i \in 1 .. n /\ \E j \in 1 .. i : j \in Flows(t, x, y)
  BY <1>2, FlowAt
<1> HIDE DEF A, B
<1>5. \A i \in 1 .. n, j \in 1 .. n : \E k \in 1 .. n : i \in 1 .. k /\ j \in 1 .. k
  <2> TAKE i \in 1 .. n, j \in 1 .. n
  <2>1. CASE i <= j
    BY <2>1
  <2>2. CASE ~(i <= j)
    BY <2>2
  <2> QED
    BY <2>1, <2>2
<1>6. ASSUME A \cap B = {}, NEW i \in 1 .. n, x \in t[i].contains, NEW j \in Flows(t, x, y)
      PROVE  FALSE
  BY <1>2, <1>3, <1>4, <1>5, <1>6 DEF Flows, OfType
<1>7. ASSUME NEW i \in A \cap B
      PROVE  (\E j \in 1 .. n : x \in t[j].contains) /\ Flows(t, x, y) # {}
  BY <1>3, <1>4, <1>7
<1> QED
  BY <1>1, <1>2, <1>6, <1>7

\* what needs a context,
LEMMA ContextSaysSo ==
    ASSUME Recursion, NEW t, Grounds(t), NEW x, NEW k, NEW w, Given(w)
    PROVE  /\ Formula(ctx_required(x, k, {w})) =>
                  (Says(ctx_required(x, k, {w}), t) <=> \A i \in Calls(t, x) : Said(t, k, i) = w)
           /\ Formula(ctx_matches_required(x, k, w)) =>
                  (Says(ctx_matches_required(x, k, w), t)
                      <=> \A i \in Calls(t, x) : w \in Found(Said(t, k, i)))
<1>1. At(Called(x), t) = Calls(t, x) /\ Calls(t, x) \subseteq DOMAIN t
  BY CalledAt DEF Calls
<1> DEFINE f == Atom(<<"ctx", k, w>>)
<1> HIDE DEF f
<1>2. ASSUME Formula(Whenever(Called(x), Or({f})))
      PROVE  Says(Whenever(Called(x), Or({f})), t) <=> At(Called(x), t) \subseteq At(f, t)
  BY <1>2, OnlyAt, WheneverSays
<1>3. ASSUME Formula(ctx_required(x, k, {w}))
      PROVE  Says(ctx_required(x, k, {w}), t) <=> \A i \in Calls(t, x) : Said(t, k, i) = w
  <2>1. ctx_required(x, k, {w}) = Whenever(Called(x), Or({f}))
    BY DEF ctx_required, f
  <2>2. \A i : i \in At(f, t) <=> i \in DOMAIN t /\ Said(t, k, i) = w
    BY ContextAt DEF f
  <2> QED
    BY <1>1, <1>2, <1>3, <2>1, <2>2
<1>4. ASSUME Formula(ctx_matches_required(x, k, w))
      PROVE  Says(ctx_matches_required(x, k, w), t)
                 <=> \A i \in Calls(t, x) : w \in Found(Said(t, k, i))
  <2>1. PICK g : g = Atom(<<"ctx_matches", k, w>>)
    OBVIOUS
  <2>2. ctx_matches_required(x, k, w) = Whenever(Called(x), g)
    BY <2>1 DEF ctx_matches_required
  <2>3. \A i : i \in At(g, t) <=> i \in DOMAIN t /\ w \in Found(Said(t, k, i))
    BY <2>1, ContextAt
  <2>4. Says(Whenever(Called(x), g), t) <=> At(Called(x), t) \subseteq At(g, t)
    BY <1>4, <2>2, WheneverSays
  <2> QED
    BY <1>1, <2>2, <2>3, <2>4
<1> QED
  BY <1>3, <1>4

\* one thing before another, once there was a third,
LEMMA GateSays ==
    ASSUME Recursion, NEW t, Grounds(t), NEW x, NEW y, NEW c,
           Distinct(x, y), Distinct(x, c), Distinct(c, y), Formula(must_precede(c, y)),
           NEW m \in Calls(t, x), \A i \in Calls(t, x) : m <= i
    PROVE  Evaluate(must_precede(c, y), Vals(t), m)
               <=> Gated(Calls(t, x), Calls(t, y), Calls(t, c))
<1> DEFINE S == Calls(t, x)
           T == Calls(t, y)
           M == Calls(t, c)
<1>1. PICK n \in Nat : n = Len(t)
  BY ValsOfGrounds
<1>2. S \subseteq 1 .. n /\ T \subseteq 1 .. n /\ M \subseteq 1 .. n
  BY <1>1, CallBounds
<1>3. m \in S /\ m \in 1 .. n /\ \A i \in S : m <= i
  BY <1>2
<1> HIDE DEF S, T, M
<1>4. \A i \in S : \A k \in T \cup M : i < k => m < k
  BY <1>2, <1>3
<1>5. Gated(S, T, M) <=>
          \A k \in T : m < k => \E j \in M : m < j /\ j < k
  <2>1. ASSUME Gated(S, T, M), NEW k \in T, m < k
        PROVE  \E j \in M : m < j /\ j < k
    <3>1. PICK i \in S, j \in M : i < j /\ j < k
      BY <1>3, <2>1 DEF Gated
    <3> QED
      BY <1>4, <3>1
  <2>2. ASSUME \A k \in T : m < k => \E j \in M : m < j /\ j < k,
               NEW k \in T, NEW i \in S, i < k
        PROVE  \E q \in S, j \in M : q < j /\ j < k
    BY <1>3, <1>4, <2>2
  <2> QED
    BY <2>1, <2>2 DEF Gated
<1> QED
  BY <1>1, <1>2, <1>3, <1>5, CalledAt, ForbiddenAt, DistinctCalls DEF S, T, M,
     must_precede

\* a number of the event itself, within a limit,
LEMMA OwnNumber ==
    ASSUME NEW t, Grounds(t), NEW x, x \notin Cumulative \cup {"now"}, NEW timed
    PROVE  \A i \in 1 .. Len(t) :
               Get(ValOf(t, i, timed).num, <<x>>, 0) = Get(t[i].numbers, <<x>>, 0)
<1> SUFFICES ASSUME NEW i \in 1 .. Len(t)
             PROVE  Get(ValOf(t, i, timed).num, <<x>>, 0) = Get(t[i].numbers, <<x>>, 0)
  OBVIOUS
<1>1. PICK k : k = <<x>>
  OBVIOUS
<1>2. PICK s, e : s = States(t)[i] /\ e = t[i]
  OBVIOUS
<1> QED
  BY <1>1, <1>2, NumbersAre, MatchesAre, ValsOfGrounds, Positions DEF ValOf

\* how long at most,
LEMMA LengthSays ==
    ASSUME Recursion, NEW t, Grounds(t), NEW x, x \notin Cumulative \cup {"now"}, NEW m,
           Formula(max_length(<<x>>, m))
    PROVE  Says(max_length(<<x>>, m), t)
               <=> \A i \in DOMAIN t : Get(t[i].numbers, <<x>>, 0) <= m
<1> DEFINE f == Le(Var(<<x>>), Const(m))
<1>1. max_length(<<x>>, m) = G(f)
  BY DEF max_length, AtMost
<1>2. \A i : i \in At(f, t) <=> i \in 1 .. Len(t) /\ Get(ValOf(t, i, Timed).num, <<x>>, 0) <= m
  BY LimitAt
<1> HIDE DEF f
<1> QED
  BY <1>1, <1>2, OwnNumber, ValsOfGrounds, EverywhereSays

\* or a range that allows what an event without the number counts as,
LEMMA RangeSays ==
    ASSUME Recursion, NEW t, Grounds(t), NEW x, x \notin Cumulative \cup {"now"},
           NEW a \in Int, NEW b \in Int, a <= 0, 0 <= b,
           Formula(arg_value_range(<<x>>, a, b))
    PROVE  Says(arg_value_range(<<x>>, a, b), t)
               <=> \A i \in DOMAIN t : <<x>> \in DOMAIN t[i].numbers =>
                       t[i].numbers[<<x>>] \in a .. b
<1> DEFINE l == Ge(Var(<<x>>), Const(a))
           u == Le(Var(<<x>>), Const(b))
           P == {l, u}
<1>1. arg_value_range(<<x>>, a, b) = G(And(P))
  BY DEF arg_value_range
<1>2. /\ \A i : i \in At(u, t) <=> i \in 1 .. Len(t) /\ Get(ValOf(t, i, Timed).num, <<x>>, 0) <= b
      /\ \A i : i \in At(l, t) <=> i \in 1 .. Len(t) /\ Get(ValOf(t, i, Timed).num, <<x>>, 0) >= a
  BY LimitAt
<1>3. DOMAIN t = 1 .. Len(t) /\ \A i \in 1 .. Len(t) : Carries(t[i])
  BY ValsOfGrounds
<1>4. l \in P /\ u \in P /\ \A g \in P : g = l \/ g = u
  OBVIOUS
<1> HIDE DEF l, u, P
<1>5. /\ Formula(And(P))
      /\ Says(G(And(P)), t) <=> \A i \in 1 .. Len(t) : i \in At(And(P), t)
  BY <1>1, EverywhereSays
<1>6. ASSUME NEW i \in 1 .. Len(t)
      PROVE  (Get(t[i].numbers, <<x>>, 0) <= b /\ Get(t[i].numbers, <<x>>, 0) >= a)
                 <=> (<<x>> \in DOMAIN t[i].numbers => t[i].numbers[<<x>>] \in a .. b)
  <2>1. PICK k, f : k = <<x>> /\ f = t[i].numbers
    OBVIOUS
  <2>2. CASE k \in DOMAIN f
    <3>1. Get(f, k, 0) = f[k] /\ f[k] \in Int
      BY <1>3, <2>1, <2>2 DEF Get, Carries
    <3>2. PICK z \in Int : z = f[k]
      BY <3>1
    <3> QED
      BY <2>1, <2>2, <3>1, <3>2
  <2>3. CASE k \notin DOMAIN f
    BY <2>1, <2>3 DEF Get
  <2> QED
    BY <2>2, <2>3
<1> QED
  BY <1>1, <1>2, <1>3, <1>4, <1>5, <1>6, OwnNumber, PartsAt

\* How many calls up to the i-th event matched an expression.
Matched(x, y) == <<"called_with", x, y>>
MatchCount(x, y) == <<"count_with", x, y>>
MatchesTo(t, x, y, i) == {j \in 1 .. i : Matched(x, y) \in t[j].content}
OftenMatched(t, x, y, i) == Cardinality(MatchesTo(t, x, y, i))

\* One event later.
LEMMA OftenMatchedNext ==
    ASSUME NEW t, NEW x, NEW y, NEW i \in Nat
    PROVE  /\ OftenMatched(t, x, y, 0) = 0
           /\ OftenMatched(t, x, y, i) \in Nat
           /\ OftenMatched(t, x, y, i + 1)
                  = IF Matched(x, y) \in t[i + 1].content THEN OftenMatched(t, x, y, i) + 1
                    ELSE OftenMatched(t, x, y, i)
<1>1. MatchesTo(t, x, y, 0) = {} /\ UpTo(MatchesTo(t, x, y, i), i)
  BY DEF MatchesTo, UpTo
<1>2. OftenMatched(t, x, y, 0) = 0 /\ OftenMatched(t, x, y, i) \in Nat
  BY <1>1, SomeCounted, FS_EmptySet DEF OftenMatched
<1>3. CASE Matched(x, y) \in t[i + 1].content
  <2>1. \A j : j \in MatchesTo(t, x, y, i + 1) <=> j \in MatchesTo(t, x, y, i) \/ j = i + 1
    BY <1>3 DEF MatchesTo
  <2> QED
    BY <1>1, <1>2, <1>3, <2>1, OneMore DEF OftenMatched
<1>4. CASE Matched(x, y) \notin t[i + 1].content
  <2>1. MatchesTo(t, x, y, i + 1) = MatchesTo(t, x, y, i)
    BY <1>4 DEF MatchesTo
  <2> QED
    BY <1>2, <1>4, <2>1 DEF OftenMatched
<1> QED
  BY <1>3, <1>4

\* An event counts for an expression exactly if it matches it.
LEMMA MatchedCallIs ==
    ASSUME NEW e, Carries(e), NEW x, NEW y
    PROVE  MatchCount(x, y) \in MatchedCalls(e) <=> Matched(x, y) \in e.content
<1>1. ASSUME NEW c \in e.content, c[1] = "called_with", MatchCount(x, y) = <<"count_with", c[2], c[3]>>
      PROVE  c = Matched(x, y)
  BY <1>1 DEF Matched, Carries, MatchCount
<1> QED
  BY <1>1 DEF MatchedCalls, Matched, MatchCount

\* The count kept of an expression is the number of events that match it.
LEMMA MatchesAreCounted ==
    ASSUME NEW t, Len(t) \in Nat, \A i \in 1 .. Len(t) : Carries(t[i]), NEW x, NEW y
    PROVE  \A i \in 0 .. Len(t) :
               Get(States(t)[i].matches, MatchCount(x, y), 0) = OftenMatched(t, x, y, i)
<1> DEFINE st == States(t)
           q == MatchCount(x, y)
           S == {i \in Nat : i <= Len(t) => Get(st[i].matches, q, 0) = OftenMatched(t, x, y, i)}
<1>1. st[0] = Fresh /\ (\A i \in 0 .. Len(t) : DOMAIN st[i] = Accumulators)
      /\ \A i \in 0 .. Len(t) - 1 : st[i + 1] = Accumulated(st[i], t[i + 1], i)
  BY StatesAccumulate
<1> HIDE DEF st
<1>2. \A e : Carries(e) => (q \in MatchedCalls(e) <=> Matched(x, y) \in e.content)
  BY MatchedCallIs
<1> HIDE DEF q
<1>3. 0 \in S
  BY <1>1, OftenMatchedNext DEF Get, Fresh
<1>4. ASSUME NEW i \in Nat, i \in S PROVE i + 1 \in S
  <2> SUFFICES ASSUME i + 1 <= Len(t)
               PROVE  Get(st[i + 1].matches, q, 0) = OftenMatched(t, x, y, i + 1)
    OBVIOUS
  <2>1. /\ i \in 0 .. Len(t) - 1 /\ i \in 0 .. Len(t) /\ i + 1 \in 1 .. Len(t)
        /\ Get(st[i].matches, q, 0) = OftenMatched(t, x, y, i)
    BY <1>4
  <2>2. PICK old, new, M, e : old = st[i].matches /\ new = st[i + 1].matches
                              /\ M = MatchedCalls(t[i + 1]) /\ e = t[i + 1]
    OBVIOUS
  <2>3. q \in M <=> Matched(x, y) \in e.content
    BY <1>2, <2>1, <2>2
  <2>4. Get(new, q, 0) = IF q \in M THEN Get(old, q, 0) + 1 ELSE Get(old, q, 0)
    BY <1>1, <2>1, <2>2, PlusIs, AccumulatedIs DEF Get
  <2> QED
    BY <2>1, <2>2, <2>3, <2>4, OftenMatchedNext
<1>5. \A i \in Nat : i \in S
  <2> HIDE DEF S
  <2> QED
    BY <1>3, <1>4, AllNumbers
<1> QED
  BY <1>5 DEF st, q

\* Those events are the calls of the tool that match.
LEMMA MatchesAreCalls ==
    ASSUME NEW t, Grounds(t), NEW x, NEW y
    PROVE  /\ MatchesTo(t, x, y, Len(t)) = With(t, <<"called_with", x, y>>)
           /\ With(t, <<"called_with", x, y>>) \subseteq Calls(t, x)
<1>1. DOMAIN t = 1 .. Len(t) /\ \A i \in 1 .. Len(t) : Carries(t[i])
  BY ValsOfGrounds
<1>2. Matched(x, y)[1] = "called_with" /\ Matched(x, y)[2] = x
  BY DEF Matched
<1> QED
  BY <1>1, <1>2 DEF Matched, MatchesTo, Calls, Carries, With

\* The growing numbers of the last valuation.
LEMMA LastNumbers ==
    ASSUME NEW t, Grounds(t), Len(t) # 0, NEW timed
    PROVE  LET num == ValOf(t, Len(t), timed).num
           IN  /\ \A x : Get(num, <<"count", x>>, 0) = Cardinality(Calls(t, x))
               /\ \A x, y : Get(num, <<"count_with", x, y>>, 0)
                                = Cardinality(With(t, <<"called_with", x, y>>))
               /\ Get(num, <<"token_count", "total">>, 0) = Sum(t)
               /\ Get(num, <<"delegation_depth">>, 0) = Cardinality(OfType(t, "message"))
<1>1. PICK n \in Nat : n = Len(t)
  BY ValsOfGrounds
<1>2. n # 0 /\ n \in 0 .. n /\ n \in 1 .. n /\ Len(t) \in Nat
  BY <1>1, Ends
<1>3. DOMAIN t = 1 .. n /\ \A i \in 1 .. n : Carries(t[i])
  BY <1>1, ValsOfGrounds
<1>4. PICK s, e : s = States(t)[n] /\ e = t[n]
  OBVIOUS
<1>5. \A k \in DOMAIN e.numbers : k[1] \notin Cumulative
  BY <1>2, <1>3, <1>4 DEF Carries
<1>6. PICK num : num = ValuationAt(s, e, n - 1, timed).num
  OBVIOUS
<1>7. /\ \A x : Get(num, <<"count", x>>, 0) = Get(s.calls, x, 0)
      /\ \A x : Get(num, <<"token_count", x>>, 0) = Get(s.tokens, x, 0)
      /\ \A k : k[1] = "count_with" => Get(num, k, 0) = Get(s.matches, k, 0)
      /\ Get(num, <<"delegation_depth">>, 0) = s.depth
  BY <1>1, <1>2, <1>4, <1>5, <1>6, NumbersAre, MatchesAre
<1>8. \A x : Get(s.calls, x, 0) = Cardinality(Calls(t, x))
  <2> TAKE x
  <2>1. CallsCounted(s, t, n) /\ Calls(t, x) = CallsTo(t, x, n)
    BY <1>1, <1>2, <1>3, <1>4, CallsAreCounted DEF Calls, CallsTo
  <2> QED
    BY <2>1 DEF CallsCounted, Often, Get
<1>9. \A x, y : Get(s.matches, MatchCount(x, y), 0) = Cardinality(With(t, <<"called_with", x, y>>))
  BY <1>1, <1>2, <1>3, <1>4, MatchesAreCounted, MatchesAreCalls DEF OftenMatched
<1>10. Get(s.tokens, "total", 0) = Sum(t)
  <2>1. Get(States(t)[n].tokens, "total", 0) = SumsOf(t)[n]
    BY <1>1, <1>2, <1>3, TokensAreSummed DEF Carries
  <2> QED
    BY <1>1, <1>2, <1>4, <2>1, SumIs
<1>11. Get(num, <<"delegation_depth">>, 0) = Cardinality(OfType(t, "message"))
  BY <1>1, <1>2, <1>3, <1>4, <1>7, MessagesAreCounted DEF OftenType, OfType,
     TypeTo, Typed
<1> QED
  BY <1>1, <1>4, <1>6, <1>7, <1>8, <1>9, <1>10, <1>11 DEF ValOf, MatchCount

\* A limit on a number that only grows is kept if it is at the end.
LEMMA GrowingEverywhere ==
    ASSUME NEW t, Grounds(t), NEW k, Growing(k), NEW m \in Int
    PROVE  (\A i \in 1 .. Len(t) : Get(ValOf(t, i, Timed).num, k, 0) <= m)
               <=> (Len(t) # 0 => Get(ValOf(t, Len(t), Timed).num, k, 0) <= m)
<1> DEFINE r == [i \in 1 .. Len(t) |-> Get(ValOf(t, i, Timed).num, k, 0)]
<1>1. PICK n \in Nat : n = Len(t)
  BY ValsOfGrounds
<1>2. ASSUME NEW i \in 1 .. n
      PROVE  r[i] \in Nat /\ r[n] \in Nat /\ r[i] <= r[n]
  BY <1>1, NumbersGrow, ValsOfGrounds
<1>3. \A i \in 1 .. n : r[i] = Get(ValOf(t, i, Timed).num, k, 0)
  BY <1>1
<1> HIDE DEF r
<1>4. CASE n = 0
  BY <1>1, <1>4
<1>5. CASE n # 0
  <2>1. ASSUME r[n] <= m, NEW i \in 1 .. n PROVE r[i] <= m
    <3>1. PICK a, b \in Nat : a = r[i] /\ b = r[n] /\ a <= b
      BY <1>2
    <3> QED
      BY <2>1, <3>1
  <2> QED
    BY <1>1, <1>3, <1>5, <2>1, Ends
<1> QED
  BY <1>4, <1>5

\* so a limit on it says how large it is at the end:
LEMMA GrowingSays ==
    ASSUME Recursion, NEW t, Grounds(t), NEW k, Growing(k), NEW m \in Int,
           Formula(AtMost(k, m))
    PROVE  Says(AtMost(k, m), t)
               <=> (Len(t) # 0 => Get(ValOf(t, Len(t), Timed).num, k, 0) <= m)
<1> DEFINE f == Le(Var(k), Const(m))
<1>1. AtMost(k, m) = G(f)
  BY DEF AtMost
<1>2. \A i : i \in At(f, t) <=> i \in 1 .. Len(t) /\ Get(ValOf(t, i, Timed).num, k, 0) <= m
  BY LimitAt
<1> HIDE DEF f
<1> QED
  BY <1>1, <1>2, GrowingEverywhere, EverywhereSays

\* Of an empty trace there are no calls, no messages and no tokens.
LEMMA NothingYetCounted ==
    ASSUME NEW t, Grounds(t), Len(t) = 0
    PROVE  /\ \A x : Cardinality(Calls(t, x)) = 0
           /\ \A k : Cardinality(With(t, k)) = 0
           /\ Cardinality(OfType(t, "message")) = 0
           /\ Sum(t) = 0
  BY FS_EmptySet, SumIs, ValsOfGrounds DEF Calls, With, OfType

\* how often,
LEMMA CountSays ==
    ASSUME Recursion, NEW t, Grounds(t), NEW x, NEW m \in Nat, Formula(rate_limit(x, m))
    PROVE  Says(rate_limit(x, m), t) <=> Cardinality(Calls(t, x)) <= m
<1>1. PICK k : k = <<"count", x>>
  OBVIOUS
<1> QED
  BY <1>1, GrowingSays, LastNumbers, NothingYetCounted DEF Growing, rate_limit

\* how often with the same arguments,
LEMMA DuplicateSays ==
    ASSUME Recursion, NEW t, Grounds(t), NEW x, NEW y, NEW m \in Nat,
           Formula(duplicate_call_limit(x, y, m))
    PROVE  Says(duplicate_call_limit(x, y, m), t)
               <=> Cardinality(Calls(t, x) \cap With(t, <<"called_with", x, y>>)) <= m
<1>1. PICK k : k = <<"count_with", x, y>>
  OBVIOUS
<1>2. duplicate_call_limit(x, y, m) = AtMost(k, m)
  BY <1>1 DEF duplicate_call_limit
<1>3. Says(AtMost(k, m), t) <=> (Len(t) # 0 => Get(ValOf(t, Len(t), Timed).num, k, 0) <= m)
  BY <1>1, <1>2, GrowingSays DEF Growing
<1>4. Len(t) = 0 => Cardinality(With(t, <<"called_with", x, y>>)) <= m
  BY NothingYetCounted
<1>5. Calls(t, x) \cap With(t, <<"called_with", x, y>>) = With(t, <<"called_with", x, y>>)
  BY MatchesAreCalls
<1> QED
  BY <1>1, <1>2, <1>3, <1>4, <1>5, LastNumbers

\* how many tokens, how many delegations,
LEMMA TotalsSay ==
    ASSUME Recursion, NEW t, Grounds(t), NEW m \in Nat
    PROVE  /\ Formula(token_budget(m)) => (Says(token_budget(m), t) <=> Sum(t) <= m)
           /\ Formula(delegation_depth_limit(m)) =>
                  (Says(delegation_depth_limit(m), t)
                      <=> Cardinality(OfType(t, "message")) <= m)
<1>1. PICK k : k = <<"token_count", "total">>
  OBVIOUS
<1>2. PICK d : d = <<"delegation_depth">>
  OBVIOUS
<1> QED
  BY <1>1, <1>2, GrowingSays, LastNumbers, NothingYetCounted DEF Growing,
     token_budget, delegation_depth_limit

\* never at all with arguments like these,
LEMMA BashSays ==
    ASSUME Recursion, NEW t, Grounds(t), NEW y, Formula(dangerous_bash_commands({y}))
    PROVE  Says(dangerous_bash_commands({y}), t) <=> With(t, <<"called_with", "bash", y>>) = {}
<1>1. PICK k : k = <<"count_with", "bash", y>>
  OBVIOUS
<1> DEFINE f == Le(Var(k), Const(0))
<1>2. dangerous_bash_commands({y}) = G(And({f}))
  BY <1>1 DEF dangerous_bash_commands
<1>3. \A i : i \in At(f, t) <=> i \in 1 .. Len(t) /\ Get(ValOf(t, i, Timed).num, k, 0) <= 0
  BY LimitAt
<1> HIDE DEF f
<1>4. Says(G(And({f})), t) <=> \A i \in 1 .. Len(t) : Get(ValOf(t, i, Timed).num, k, 0) <= 0
  BY <1>2, <1>3, OnlyAt, EverywhereSays
<1> DEFINE W == With(t, <<"called_with", "bash", y>>)
<1>5. W \subseteq 1 .. Len(t) /\ Len(t) \in Nat
  BY ValsOfGrounds DEF With
<1>6. Len(t) # 0 => Get(ValOf(t, Len(t), Timed).num, k, 0) = Cardinality(W)
  BY <1>1, LastNumbers
<1>7. Len(t) = 0 => Cardinality(W) = 0
  BY NothingYetCounted
<1> HIDE DEF W
<1>8. IsFiniteSet(W) /\ Cardinality(W) \in Nat
  <2>1. IsFiniteSet(1 .. Len(t))
    BY <1>5, FS_Interval
  <2> QED
    BY <1>5, <2>1, FS_CardinalityType, FS_Subset
<1>9. Cardinality(W) <= 0 <=> Cardinality(W) = 0
  BY <1>8
<1>10. Says(G(And({f})), t) <=> Cardinality(W) <= 0
  BY <1>1, <1>4, <1>6, <1>7, <1>9, GrowingEverywhere DEF Growing
<1> QED
  BY <1>2, <1>8, <1>9, <1>10, FS_EmptySet DEF W

\* The calls in a row up to any event.
LEMMA RowAt ==
    ASSUME NEW t, Grounds(t), NEW x, NEW n \in 1 .. Len(t)
    PROVE  InARow(t, x, n) = Row(t, x, n)
<1> DEFINE others == {k \in DOMAIN t : CalledAs(t[k]) # {} /\ x \notin CalledAs(t[k])}
           A == {j \in Calls(t, x) : j <= n /\ \A k \in others : k < j \/ k > n}
<1>1. PICK l \in Nat : l = Len(t) /\ DOMAIN t = 1 .. l
  BY ValsOfGrounds
<1>2. InARow(t, x, n) = Cardinality(A)
  BY DEF InARow, RowOf
<1>3. n \in 1 .. l
  BY <1>1
<1>4. \A j : j \in A <=> /\ j \in 1 .. l /\ j <= n /\ x \in CalledAs(t[j])
                         /\ \A k \in others : k < j \/ k > n
  BY <1>1 DEF Calls
<1>5. \A k : k \in others <=> k \in 1 .. l /\ CalledAs(t[k]) # {} /\ x \notin CalledAs(t[k])
  BY <1>1
<1> HIDE DEF others, A
<1>6. ASSUME NEW j \in 1 .. n
      PROVE  (\A k \in others : k < j \/ k > n)
             <=> \A k \in j .. n : CalledAs(t[k]) # {} => x \in CalledAs(t[k])
  <2>1. \A k : k \in 1 .. l /\ ~(k < j \/ k > n) <=> k \in j .. n
    BY <1>3
  <2> QED
    BY <1>5, <2>1
<1>7. \A j : j \in 1 .. l /\ j <= n <=> j \in 1 .. n
  BY <1>3
<1>8. A = RowTo(t, x, n)
  BY <1>4, <1>6, <1>7 DEF RowTo
<1> QED
  BY <1>2, <1>8 DEF Row

\* The calls of a name that stands alone are of tools that answer to it.
LEMMA AloneIsUniform ==
    ASSUME NEW t, Grounds(t), NEW x, Alone(x)
    PROVE  Uniform(t, x)
<1> SUFFICES ASSUME NEW i \in DOMAIN t, NEW j \in DOMAIN t, x \in CalledAs(t[i]),
                    CalledAs(t[i]) \cap CalledAs(t[j]) # {}
             PROVE  x \in CalledAs(t[j])
  BY DEF Uniform
<1>1. \A e : Carries(e) /\ CalledAs(e) # {} => e.tool \in DOMAIN Aliases /\ CalledAs(e) = Aliases[e.tool]
  BY Zenon DEF CalledAs, Carries
<1> QED
  BY <1>1, ValsOfGrounds DEF Alone

\* how often in a row,
LEMMA LoopSays ==
    ASSUME Recursion, NEW t, Grounds(t), NEW x, Alone(x), NEW m \in Nat,
           Formula(loop_detection(x, m))
    PROVE  Says(loop_detection(x, m), t) <=> \A i \in DOMAIN t : InARow(t, x, i) <= m
<1> DEFINE f == Le(Var(<<"consecutive_count", x>>), Const(m))
<1>1. loop_detection(x, m) = G(f)
  BY DEF loop_detection, AtMost
<1>2. \A i : i \in At(f, t)
         <=> i \in 1 .. Len(t) /\ Get(ValOf(t, i, Timed).num, <<"consecutive_count", x>>, 0) <= m
  BY LimitAt
<1> HIDE DEF f
<1>3. Says(G(f), t) <=> \A i \in 1 .. Len(t) : i \in At(f, t)
  BY <1>1, EverywhereSays
<1>4. Sequence(t) /\ Uniform(t, x)
  BY AloneIsUniform DEF Grounds
<1>5. PICK n \in Nat : n = Len(t) /\ DOMAIN t = 1 .. n
  BY ValsOfGrounds
<1>6. ASSUME NEW i \in 1 .. n
      PROVE  Get(ValOf(t, i, Timed).num, <<"consecutive_count", x>>, 0) = InARow(t, x, i)
  <2>1. i \in 0 .. n
    OBVIOUS
  <2>2. InARow(t, x, i) = Row(t, x, i)
    BY <1>5, RowAt
  <2>3. RunsKnown(States(t)[i], t, x, i)
    BY <1>4, <1>5, <2>1, RunsAreKnown
  <2>4. \A k \in DOMAIN t[i].numbers : k[1] \notin Cumulative
    <3>1. Carries(t[i])
      BY <1>5, ValsOfGrounds
    <3> QED
      BY <3>1 DEF Carries
  <2>5. \A k \in DOMAIN States(t)[i].matches : k[1] = "count_with"
    BY <1>5, <2>1, MatchesAre
  <2>6. ValOf(t, i, Timed) = ValuationAt(States(t)[i], t[i], i - 1, Timed)
    BY DEF ValOf
  <2>7. Get(ValOf(t, i, Timed).num, <<"consecutive_count", x>>, 0) = Get(States(t)[i].runs, x, 0)
    BY <2>4, <2>5, <2>6, NumbersAre
  <2>8. Get(States(t)[i].runs, x, 0) = Row(t, x, i)
    BY <2>3 DEF RunsKnown, Get
  <2> QED
    BY <2>2, <2>7, <2>8
<1> QED
  BY <1>1, <1>2, <1>3, <1>5, <1>6

----------------------------------------------------------------------------
(* How long ago.                                                           *)

\* What one event makes of the times kept.
LEMMA TimesAre ==
    ASSUME NEW s, DOMAIN s = Accumulators, NEW e, NEW ts
    PROVE  \E now : Accumulated(s, e, ts).since = Constantly(now \ s.held, ts) ++ s.since
                    /\ Accumulated(s, e, ts).held = now
<1> DEFINE names == CalledAs(e)
           t == [s EXCEPT !.runs = Runs(s, names),
                          !.last = IF names = {} THEN s.last ELSE names,
                          !.calls = Plus(s.calls, names, 0, 1),
                          !.matches = Plus(s.matches, MatchedCalls(e), 0, 1),
                          !.writers = Writers(s, e),
                          !.kept = s.kept \cup Contained(e) \cup Flowed(s, e),
                          !.ctx = Context(s, e),
                          !.tokens = IF e.tokens = 0 THEN s.tokens
                                     ELSE Plus(s.tokens, {"total"}, 0, e.tokens),
                          !.depth = IF e.type = "message" THEN s.depth + 1 ELSE s.depth]
           now == Facts(t, e)
           since == Constantly(now \ s.held, ts) ++ s.since
           a == [t EXCEPT !.since = Constantly(now \ s.held, ts) ++ s.since, !.held = now]
<1>1. Accumulated(s, e, ts) = a
  BY Zenon DEF Accumulated
<1> HIDE DEF t, since, now
<1>2. a = [t EXCEPT !.since = since, !.held = now]
  BY DEF since
<1> HIDE DEF a
<1>3. a.since = since /\ a.held = now
  BY <1>2 DEF Accumulators
<1> QED
  BY <1>1, <1>3 DEF since

\* Predicate p came to hold at the time kept of it.
Came(st, p, i) ==
    \E j \in 1 .. i : st[i].since[p] = j - 1 /\ p \in st[j].held /\ p \notin st[j - 1].held

\* The time kept of a predicate is when it came to hold.
LEMMA TimesAreKept ==
    ASSUME NEW t, Len(t) \in Nat
    PROVE  \A i \in 0 .. Len(t) : \A p \in DOMAIN States(t)[i].since : Came(States(t), p, i)
<1> DEFINE st == States(t)
           S == {i \in Nat : i <= Len(t) => \A p \in DOMAIN st[i].since : Came(st, p, i)}
<1>1. st[0] = Fresh /\ (\A i \in 0 .. Len(t) : DOMAIN st[i] = Accumulators)
      /\ \A i \in 0 .. Len(t) - 1 : st[i + 1] = Accumulated(st[i], t[i + 1], i)
  BY StatesAccumulate
<1> HIDE DEF st
<1>2. 0 \in S
  <2>1. st[0].since = <<>> /\ DOMAIN <<>> = {}
    BY <1>1 DEF Fresh
  <2> QED
    BY <2>1
<1>3. ASSUME NEW i \in Nat, i \in S PROVE i + 1 \in S
  <2> SUFFICES ASSUME i + 1 <= Len(t), NEW p \in DOMAIN st[i + 1].since
               PROVE  Came(st, p, i + 1)
    OBVIOUS
  <2>1. i \in 0 .. Len(t) - 1 /\ i \in 0 .. Len(t)
        /\ \A q \in DOMAIN st[i].since : Came(st, q, i)
    BY <1>3
  <2>2. PICK now : /\ st[i + 1].since = Constantly(now \ st[i].held, i) ++ st[i].since
                   /\ st[i + 1].held = now
    <3>1. PICK s, e : s = st[i] /\ e = t[i + 1]
      OBVIOUS
    <3>2. DOMAIN s = Accumulators /\ st[i + 1] = Accumulated(s, e, i)
      BY <1>1, <2>1, <3>1
    <3>3. \E now : Accumulated(s, e, i).since = Constantly(now \ s.held, i) ++ s.since
                   /\ Accumulated(s, e, i).held = now
      BY <3>2, TimesAre
    <3> QED
      BY <3>1, <3>2, <3>3
  <2> DEFINE new == Constantly(now \ st[i].held, i)
             old == st[i].since
  <2>3. DOMAIN new = now \ st[i].held /\ \A q \in DOMAIN new : new[q] = i
    BY DEF Constantly
  <2>4. st[i + 1].since = new ++ old
    BY <2>2
  <2> HIDE DEF new
  <2>5. CASE p \in DOMAIN new
    <3>1. (new ++ old)[p] = i
      BY <2>3, <2>5, OverLeft
    <3>2. i + 1 \in 1 .. i + 1 /\ (i + 1) - 1 = i
      OBVIOUS
    <3>3. p \in st[i + 1].held /\ p \notin st[i].held
      BY <2>2, <2>3, <2>5
    <3> QED
      BY <2>4, <3>1, <3>2, <3>3 DEF Came
  <2>6. CASE p \notin DOMAIN new
    <3>1. p \in DOMAIN old /\ (new ++ old)[p] = old[p]
      BY <2>4, <2>6, OverRight
    <3>2. PICK j \in 1 .. i : old[p] = j - 1 /\ p \in st[j].held /\ p \notin st[j - 1].held
      BY <2>1, <3>1 DEF Came
    <3>3. j \in 1 .. i + 1
      OBVIOUS
    <3> QED
      BY <2>4, <3>1, <3>2, <3>3 DEF Came
  <2> QED
    BY <2>5, <2>6
<1>4. \A i \in Nat : i \in S
  <2> HIDE DEF S
  <2> QED
    BY <1>2, <1>3, AllNumbers
<1> QED
  BY <1>4 DEF st

\* The numbers a formula reads are those its parts read.
LEMMA ReadsBelow ==
    ASSUME Recursion
    PROVE  /\ \A k, m : k[1] \in Cumulative => k \in AggregatesOf(Le(Var(k), Const(m)))
           /\ \A f : Formula(G(f)) => AggregatesOf(f) \subseteq AggregatesOf(G(f))
           /\ \A f, g : Formula(Implies(f, g)) => AggregatesOf(g) \subseteq AggregatesOf(Implies(f, g))
           /\ \A P : Formula(And(P)) => \A f \in P : AggregatesOf(f) \subseteq AggregatesOf(And(P))
<1>1. \A f : Formula(f) => AggregatesOf(f) = AggregatesBy(AggregatesOf, f)
  BY DEF Recursion
<1>2. ASSUME NEW k, NEW m, k[1] \in Cumulative PROVE k \in AggregatesOf(Le(Var(k), Const(m)))
  <2> DEFINE f == Le(Var(k), Const(m))
  <2> HIDE DEF f
  <2> QED
    BY <1>1, <1>2, LeafFormulas DEF f, AggregatesBy, Var, Le
<1>3. ASSUME NEW f, NEW g, g \in Below(f), f.op \notin {"le", "ge"}, Formula(f)
      PROVE  AggregatesOf(g) \subseteq AggregatesOf(f)
  BY <1>1, <1>3 DEF AggregatesBy
<1> QED
  BY <1>2, <1>3 DEF G, Below, Implies, And

\* A predicate whose age is not long came to hold not long ago.
LEMMA AgeIs ==
    ASSUME NEW t, Grounds(t), NEW p \in Timed, NEW m \in Nat, m < Never,
           NEW i \in 1 .. Len(t), Get(ValOf(t, i, Timed).num, <<"time_since", p>>, 0) <= m
    PROVE  \E j \in 1 .. i : /\ i - j <= m
                             /\ p \in States(t)[j].held /\ p \notin States(t)[j - 1].held
<1>1. PICK n \in Nat : n = Len(t)
  BY ValsOfGrounds
<1>2. PICK s, e : s = States(t)[i] /\ e = t[i]
  OBVIOUS
<1>3. i \in 0 .. Len(t) /\ i \in Nat /\ Len(t) \in Nat
  BY <1>1
<1>4. (IF p \in DOMAIN s.since THEN (i - 1) - s.since[p] ELSE Never) <= m
  BY <1>2, <1>3, NumbersAre, MatchesAre DEF ValOf
<1>5. p \in DOMAIN s.since
  BY <1>4 DEF Never
<1>6. PICK j \in 1 .. i : s.since[p] = j - 1 /\ p \in States(t)[j].held
                          /\ p \notin States(t)[j - 1].held
  BY <1>2, <1>3, <1>5, TimesAreKept DEF Came
<1> QED
  BY <1>3, <1>4, <1>5, <1>6

\* since it was called,
LEMMA TimeSays ==
    ASSUME Recursion, NEW t, Grounds(t), NEW x, NEW m \in Nat, m < Never,
           <<"called", x>> \in Timed,
           Formula(time_since(<<"called", x>>, m)), Says(time_since(<<"called", x>>, m), t)
    PROVE  \A i \in DOMAIN t : \E j \in Calls(t, x) : j <= i /\ i - j <= m
<1>1. PICK p : p = <<"called", x>>
  OBVIOUS
<1>2. PICK k : k = <<"time_since", p>>
  OBVIOUS
<1> DEFINE f == Le(Var(k), Const(m))
<1>3. time_since(<<"called", x>>, m) = G(f)
  BY <1>1, <1>2 DEF time_since, AtMost
<1>4. \A i : i \in At(f, t) <=> i \in 1 .. Len(t) /\ Get(ValOf(t, i, Timed).num, k, 0) <= m
  BY LimitAt
<1> HIDE DEF f
<1>5. \A i \in 1 .. Len(t) : i \in At(f, t)
  BY <1>3, EverywhereSays
<1>6. PICK n \in Nat : n = Len(t) /\ DOMAIN t = 1 .. n
  BY ValsOfGrounds
<1>7. ASSUME NEW j \in 1 .. n, p \in States(t)[j].held PROVE j \in Calls(t, x)
  <2>1. PICK s, e : s = States(t)[j] /\ e = t[j]
    OBVIOUS
  <2>2. Carries(e) /\ \A q \in s.kept : q[1] \in {"contains", "flow"}
    BY <1>6, <2>1, ValsOfGrounds
  <2>3. s.held = Facts(s, e)
    BY <1>6, <2>1, HeldIs
  <2>4. \A y : <<"called", y>> \in Facts(s, e) <=> y \in CalledAs(e)
    BY <2>2, FactsAre
  <2>5. x \in CalledAs(e)
    BY <1>1, <1>7, <2>1, <2>3, <2>4
  <2> QED
    BY <1>6, <2>1, <2>5 DEF Calls
<1>8. ASSUME NEW i \in 1 .. n PROVE \E j \in Calls(t, x) : j <= i /\ i - j <= m
  <2>1. Get(ValOf(t, i, Timed).num, <<"time_since", p>>, 0) <= m
    BY <1>2, <1>4, <1>5, <1>6
  <2>2. p \in Timed /\ i \in 1 .. Len(t)
    BY <1>1, <1>6
  <2>3. PICK j \in 1 .. i : i - j <= m /\ p \in States(t)[j].held
    BY <2>1, <2>2, AgeIs
  <2>4. j \in 1 .. n /\ j <= i
    OBVIOUS
  <2> QED
    BY <1>7, <2>3, <2>4
<1> QED
  BY <1>6, <1>8

\* The context says a new thing when it is updated.
LEMMA UpdatedAt ==
    ASSUME NEW t, Grounds(t), NEW k, NEW w, NEW j \in 1 .. Len(t),
           <<"ctx", k, w>> \in States(t)[j].held, <<"ctx", k, w>> \notin States(t)[j - 1].held
    PROVE  /\ t[j].type = "context_update"
           /\ k \in DOMAIN t[j].facts /\ t[j].facts[k] = w
<1>1. PICK n \in Nat : n = Len(t)
  BY ValsOfGrounds
<1>2. PICK s, r, e : s = States(t)[j] /\ r = States(t)[j - 1] /\ e = t[j]
  OBVIOUS
<1>3. j - 1 \in 0 .. Len(t) - 1 /\ j - 1 \in 0 .. Len(t) /\ (j - 1) + 1 = j /\ Len(t) \in Nat
  BY <1>1
<1>4. DOMAIN r = Accumulators /\ s = Accumulated(r, e, j - 1)
  BY <1>2, <1>3, StatesAccumulate
<1>5. s.ctx = Context(r, e)
  BY <1>4, AccumulatedIs
<1>6. k \in DOMAIN s.ctx /\ s.ctx[k] = w
  <2>1. Carries(e) /\ \A q \in s.kept : q[1] \in {"contains", "flow"}
    BY <1>2, ValsOfGrounds
  <2>2. s.held = Facts(s, e)
    BY <1>2, <1>3, HeldIs
  <2>3. \A q, v : <<"ctx", q, v>> \in Facts(s, e) <=> q \in DOMAIN s.ctx /\ s.ctx[q] = v
    BY <2>1, FactsAre
  <2> QED
    BY <1>2, <2>2, <2>3
<1>7. ~(k \in DOMAIN r.ctx /\ r.ctx[k] = w)
  <2>1. CASE j = 1
    <3>1. r = Fresh
      BY <1>2, <1>3, <2>1, StatesAccumulate
    <3>2. r.ctx = <<>> /\ DOMAIN <<>> = {}
      BY <3>1 DEF Fresh
    <3> QED
      BY <3>2
  <2>2. CASE j # 1
    <3>1. j - 1 \in 1 .. Len(t)
      BY <1>1, <2>2
    <3>2. PICK d : d = t[j - 1]
      OBVIOUS
    <3>3. Carries(d) /\ \A q \in r.kept : q[1] \in {"contains", "flow"}
      BY <1>2, <3>1, <3>2, ValsOfGrounds
    <3>4. r.held = Facts(r, d)
      BY <1>2, <1>3, <3>1, <3>2, HeldIs
    <3>5. \A q, v : <<"ctx", q, v>> \in Facts(r, d) <=> q \in DOMAIN r.ctx /\ r.ctx[q] = v
      BY <3>3, FactsAre
    <3> QED
      BY <1>2, <3>4, <3>5
  <2> QED
    BY <2>1, <2>2
<1>8. s.ctx = IF e.type = "context_update" THEN e.facts ++ r.ctx ELSE r.ctx
  BY <1>5 DEF Context
<1>9. e.type = "context_update"
  BY <1>6, <1>7, <1>8
<1>10. k \in DOMAIN e.facts
  <2>1. CASE k \notin DOMAIN e.facts
    <3>1. /\ k \in DOMAIN (e.facts ++ r.ctx) <=> k \in DOMAIN r.ctx
          /\ k \in DOMAIN r.ctx => (e.facts ++ r.ctx)[k] = r.ctx[k]
      BY <2>1, OverRight
    <3> QED
      BY <1>6, <1>7, <1>8, <1>9, <3>1
  <2> QED
    BY <2>1
<1>11. e.facts[k] = w
  <2>1. (e.facts ++ r.ctx)[k] = e.facts[k]
    BY <1>10, OverLeft
  <2> QED
    BY <1>6, <1>8, <1>9, <2>1
<1> QED
  BY <1>2, <1>9, <1>10, <1>11

\* What an approval that is still active says of every call.
Approved(t, x, w, m) ==
    \A i \in Calls(t, x) :
        /\ "allow" \in Found(Said(t, "approval.decision", i))
        /\ w \in Found(Said(t, "approval.role", i))
        /\ \E j \in OfType(t, "context_update") :
               /\ j < i /\ i - j <= m
               /\ Get(t[j].facts, "approval.role", "") = w

\* since it was approved.
LEMMA ApprovalSays ==
    ASSUME Recursion, NEW t, Grounds(t), NEW x, NEW w, Given(w), NEW m \in Nat, m < Never,
           <<"ctx", "approval.role", w>> \in Timed,
           Formula(approval_active(x, w, m)), Says(approval_active(x, w, m), t)
    PROVE  Approved(t, x, w, m)
<1>1. PICK p : p = <<"ctx", "approval.role", w>>
  OBVIOUS
<1>2. PICK k : k = <<"time_since", p>>
  OBVIOUS
<1> DEFINE role == Atom(<<"ctx_matches", "approval.role", w>>)
           said == Atom(<<"ctx_matches", "approval.decision", "allow">>)
           age == Le(Var(k), Const(m))
           P == {role, said, age}
<1>3. approval_active(x, w, m) = Whenever(Called(x), And(P))
  BY <1>1, <1>2 DEF approval_active
<1>4. \A i : i \in At(age, t) <=> i \in 1 .. Len(t) /\ Get(ValOf(t, i, Timed).num, k, 0) <= m
  BY LimitAt
<1>5. \A i : i \in At(role, t) <=> i \in DOMAIN t /\ w \in Found(Said(t, "approval.role", i))
  BY ContextAt
<1>6. \A i : i \in At(said, t)
                <=> i \in DOMAIN t /\ "allow" \in Found(Said(t, "approval.decision", i))
  <2>1. Given("allow")
    BY DEF Given
  <2> QED
    BY <2>1, ContextAt
<1> HIDE DEF role, said, age
<1>7. Formula(And(P)) /\ Calls(t, x) \subseteq At(And(P), t)
  <2> HIDE DEF P
  <2> QED
    BY <1>3, WheneverSays, CalledAt
<1>8. \A i \in Calls(t, x) : i \in At(role, t) /\ i \in At(said, t) /\ i \in At(age, t)
  <2>1. \A i \in At(And(P), t) : \A g \in P : i \in At(g, t)
    <3> HIDE DEF P
    <3> QED
      BY <1>7, PartsAt
  <2> QED
    BY <1>7, <2>1
<1>9. PICK n \in Nat : n = Len(t) /\ DOMAIN t = 1 .. n
  BY ValsOfGrounds
<1>10. ASSUME NEW i \in Calls(t, x)
       PROVE  \E j \in OfType(t, "context_update") :
                  /\ j < i /\ i - j <= m
                  /\ Get(t[j].facts, "approval.role", "") = w
  <2>1. i \in 1 .. n /\ CalledAs(t[i]) # {}
    BY <1>9, <1>10 DEF Calls
  <2>2. PICK j \in 1 .. i : i - j <= m /\ p \in States(t)[j].held /\ p \notin States(t)[j - 1].held
    BY <1>1, <1>2, <1>4, <1>8, <1>9, <2>1, AgeIs
  <2>3. j \in 1 .. n /\ j \in 1 .. Len(t) /\ j \in DOMAIN t
    BY <1>9, <2>1
  <2>4. t[j].type = "context_update" /\ "approval.role" \in DOMAIN t[j].facts
        /\ t[j].facts["approval.role"] = w
    BY <1>1, <2>2, <2>3, UpdatedAt
  <2>5. t[i].type = "tool_call"
    BY <2>1, Zenon DEF CalledAs
  <2>6. j < i
    BY <2>1, <2>4, <2>5
  <2>7. Get(t[j].facts, "approval.role", "") = w
    BY <2>4, Zenon DEF Get
  <2> QED
    BY <2>2, <2>3, <2>4, <2>6, <2>7 DEF OfType
<1> QED
  BY <1>5, <1>6, <1>8, <1>10 DEF Approved

----------------------------------------------------------------------------
(* The rules of the library.                                               *)

\* The formula of a rule holds on the trace just if what it asks is so.
Agrees(p, t) ==
    /\ Says(Compiled(p), t) => Asked(p, t)
    /\ Asked(p, t) /\ p.name \notin Unrenewed => Says(Compiled(p), t)

\* The predicates whose age a rule asks for are kept.
Kept(p) ==
    /\ p.name = "time_since" => <<"called", p.a>> \in Timed
    /\ p.name = "approval_active" => <<"ctx", "approval.role", p.b>> \in Timed

\* What the words take for granted of a rule's arguments, name by name.
LEMMA SensibleIs ==
    ASSUME NEW p, Sensible(p)
    PROVE  /\ p.n \in Nat
           /\ p.name \in {"must_precede", "must_confirm", "dry_run_before_commit",
                          "backup_before_destructive", "destructive_action_gate",
                          "approval_freshness", "confirm_after_source",
                          "untrusted_source_gate"} => Distinct(p.a, p.b)
           /\ p.name = "confirm_after_source" =>
                  Distinct(p.a, "confirm") /\ Distinct("confirm", p.b)
           /\ p.name = "untrusted_source_gate" =>
                  Distinct(p.a, "confirm_reconfirmed") /\ Distinct("confirm_reconfirmed", p.b)
           /\ p.name = "sanitized_before_sink" => Distinct("z", p.b)
           /\ p.name \in {"deadline", "cooldown"} => p.n # 0
           /\ p.name \in {"time_since", "approval_active"} => p.n < Never
           /\ p.name = "loop_detection" => Alone(p.a)
           /\ p.name \in {"arg_blacklist", "dangerous_sql_verbs", "arg_length_limit",
                          "arg_allowlist", "scope_limit", "data_intact"} => p.b \notin Derived
           /\ p.name \in {"data_intact", "no_pii", "no_keywords"} => p.a \notin Derived
           /\ p.name = "max_length" => p.a \notin Cumulative \cup {"now"}
           /\ p.name = "arg_value_range" => p.b \notin Cumulative \cup {"now"} /\ p.n = 0
           /\ p.name \in {"ctx_required", "ctx_matches_required", "approval_active"} => Given(p.b)
           /\ p.name = "no_data_leak" => Given(p.a)
  BY Zenon DEF Sensible, Given

\* Rules about the order of calls.
LEMMA OrdersAgree ==
    ASSUME Recursion, NEW t, Grounds(t), NEW p, Sensible(p), Kept(p), Formula(Compiled(p)),
           p.name \in {"must_precede", "must_confirm", "dry_run_before_commit",
                       "backup_before_destructive", "destructive_action_gate",
                       "workflow_step", "always_followed_by", "audit_after",
                       "required_steps_completion", "deadline", "no_reversal",
                       "mutual_exclusion", "segregation_of_duty",
                       "sanitized_before_sink", "approval_freshness", "cooldown"}
    PROVE  Agrees(p, t)
<1>1. CASE p.name = "must_precede"
  BY <1>1, PrecedeSays, SensibleIs DEF Agrees, Asked, Compiled
<1>2. CASE p.name = "must_confirm"
  BY <1>2, PrecedeSays, SensibleIs DEF Agrees, Asked, Compiled, must_confirm
<1>3. CASE p.name = "dry_run_before_commit"
  BY <1>3, PrecedeSays, SensibleIs DEF Agrees, Asked, Compiled,
     dry_run_before_commit
<1>4. CASE p.name = "backup_before_destructive"
  BY <1>4, PrecedeSays, SensibleIs DEF Agrees, Asked, Compiled,
     backup_before_destructive
<1>5. CASE p.name = "destructive_action_gate"
  BY <1>5, DestructiveSays, SensibleIs DEF Agrees, Asked, Compiled
<1>6. CASE p.name = "workflow_step"
  BY <1>6, StepSays DEF Agrees, Asked, Compiled
<1>7. CASE p.name = "always_followed_by"
  BY <1>7, FollowSays DEF Agrees, Asked, Compiled
<1>8. CASE p.name = "audit_after"
  BY <1>8, FollowSays DEF Agrees, Asked, Compiled, audit_after
<1>9. CASE p.name = "required_steps_completion"
  BY <1>9, StepsSay DEF Agrees, Asked, Compiled
<1>10. CASE p.name = "deadline"
  BY <1>10, DeadlineSays, SensibleIs DEF Agrees, Asked, Compiled
<1>11. CASE p.name = "no_reversal"
  BY <1>11, ReversalSays DEF Agrees, Asked, Compiled
<1>12. CASE p.name = "mutual_exclusion"
  BY <1>12, ExclusionSays DEF Agrees, Asked, Compiled
<1>13. CASE p.name = "segregation_of_duty"
  BY <1>13, ExclusionSays DEF Agrees, Asked, Compiled, segregation_of_duty
<1>14. CASE p.name = "sanitized_before_sink"
  BY <1>14, SanitizedSays, SensibleIs DEF Agrees, Asked, Compiled
<1>15. CASE p.name = "approval_freshness"
  BY <1>15, FreshnessSays, SensibleIs DEF Agrees, Unrenewed, Compiled, Asked
<1>16. CASE p.name = "cooldown"
  BY <1>16, CooldownSays, SensibleIs DEF Agrees, Asked, Compiled
<1> QED
  BY <1>1, <1>2, <1>3, <1>4, <1>5, <1>6, <1>7, <1>8, <1>9, <1>10, <1>11, <1>12, <1>13, <1>14, <1>15, <1>16

\* Rules about a number.
LEMMA NumbersAgree ==
    ASSUME Recursion, NEW t, Grounds(t), NEW p, Sensible(p), Kept(p), Formula(Compiled(p)),
           p.name \in {"rate_limit", "bounded_retry", "idempotent", "irreversible_once",
                       "loop_detection", "duplicate_call_limit", "token_budget",
                       "delegation_depth_limit", "arg_value_range", "max_length",
                       "time_since"}
    PROVE  Agrees(p, t)
<1>1. CASE p.name = "rate_limit"
  BY <1>1, CountSays, SensibleIs DEF Agrees, Asked, Compiled
<1>2. CASE p.name = "bounded_retry"
  BY <1>2, CountSays, SensibleIs DEF Agrees, Asked, Compiled, bounded_retry
<1>3. CASE p.name = "idempotent"
  BY <1>3, CountSays, SensibleIs DEF Agrees, Asked, Compiled, idempotent
<1>4. CASE p.name = "irreversible_once"
  BY <1>4, CountSays, SensibleIs DEF Agrees, Asked, Compiled, irreversible_once
<1>5. CASE p.name = "loop_detection"
  BY <1>5, LoopSays, SensibleIs DEF Agrees, Asked, Compiled
<1>6. CASE p.name = "duplicate_call_limit"
  BY <1>6, DuplicateSays, SensibleIs DEF Agrees, Asked, Compiled
<1>7. CASE p.name = "token_budget"
  BY <1>7, TotalsSay, SensibleIs DEF Agrees, Asked, Compiled
<1>8. CASE p.name = "delegation_depth_limit"
  BY <1>8, TotalsSay, SensibleIs DEF Agrees, Asked, Compiled
<1>9. CASE p.name = "arg_value_range"
  BY <1>9, RangeSays, SensibleIs DEF Agrees, Asked, Compiled
<1>10. CASE p.name = "max_length"
  BY <1>10, LengthSays, SensibleIs DEF Agrees, Asked, Compiled
<1>11. CASE p.name = "time_since"
  BY <1>11, TimeSays, SensibleIs DEF Agrees, Unrenewed, Compiled, Asked, Kept
<1> QED
  BY <1>1, <1>2, <1>3, <1>4, <1>5, <1>6, <1>7, <1>8, <1>9, <1>10, <1>11

\* Rules about what events carry.
LEMMA ContentsAgree ==
    ASSUME Recursion, NEW t, Grounds(t), NEW p, Sensible(p), Kept(p), Formula(Compiled(p)),
           p.name \in {"dangerous_bash_commands", "dangerous_sql_verbs", "arg_blacklist",
                       "arg_length_limit", "arg_allowlist", "scope_limit", "data_intact",
                       "no_pii", "no_keywords", "redirect_to_safe", "tool_allowlist",
                       "claim_requires_evidence", "underdetermined_must_clarify"}
    PROVE  Agrees(p, t)
<1>1. CASE p.name = "dangerous_bash_commands"
  BY <1>1, BashSays DEF Agrees, Asked, Compiled
<1>2. CASE p.name = "dangerous_sql_verbs"
  BY <1>2, BlacklistSays, SensibleIs DEF Agrees, Asked, Compiled,
     dangerous_sql_verbs
<1>3. CASE p.name = "arg_blacklist"
  <2>1. Compiled(p) = arg_blacklist(p.a, {<<p.b>>})
    BY <1>3 DEF Compiled
  <2>2. Says(arg_blacklist(p.a, {<<p.b>>}), t) <=> Asked(p, t)
    BY <1>3, <2>1, BlacklistSays, SensibleIs DEF Asked
  <2> QED
    BY <2>1, <2>2 DEF Agrees
<1>4. CASE p.name = "arg_length_limit"
  <2>1. Compiled(p) = arg_length_limit(p.a, <<p.b>>)
    BY <1>4 DEF Compiled
  <2>2. Says(arg_length_limit(p.a, <<p.b>>), t) <=> Asked(p, t)
    BY <1>4, <2>1, BlacklistSays, SensibleIs DEF Asked
  <2> QED
    BY <2>1, <2>2 DEF Agrees
<1>5. CASE p.name = "arg_allowlist"
  <2>1. Compiled(p) = arg_allowlist(p.a, {<<p.b>>})
    BY <1>5 DEF Compiled
  <2>2. Says(arg_allowlist(p.a, {<<p.b>>}), t) <=> Asked(p, t)
    BY <1>5, <2>1, AllowlistSays, SensibleIs DEF Asked
  <2> QED
    BY <2>1, <2>2 DEF Agrees
<1>6. CASE p.name = "scope_limit"
  <2>1. Compiled(p) = scope_limit(p.a, <<p.b>>)
    BY <1>6 DEF Compiled
  <2>2. Says(scope_limit(p.a, <<p.b>>), t) <=> Asked(p, t)
    BY <1>6, <2>1, AllowlistSays, SensibleIs DEF Asked
  <2> QED
    BY <2>1, <2>2 DEF Agrees
<1>7. CASE p.name = "data_intact"
  BY <1>7, IntactSays, SensibleIs DEF Agrees, Asked, Compiled
<1>8. CASE p.name = "no_pii"
  BY <1>8, ForbidsSay, SensibleIs DEF Agrees, Asked, Compiled
<1>9. CASE p.name = "no_keywords"
  BY <1>9, ForbidsSay, SensibleIs DEF Agrees, Asked, Compiled
<1>10. CASE p.name = "redirect_to_safe"
  BY <1>10, ForbidsSay DEF Agrees, Asked, Compiled
<1>11. CASE p.name = "tool_allowlist"
  BY <1>11, OnlyToolsSay DEF Agrees, Asked, Compiled
<1>12. CASE p.name = "claim_requires_evidence"
  BY <1>12, EvidenceSays DEF Agrees, Asked, Compiled
<1>13. CASE p.name = "underdetermined_must_clarify"
  BY <1>13, EvidenceSays DEF Agrees, Asked, Compiled
<1> QED
  BY <1>1, <1>2, <1>3, <1>4, <1>5, <1>6, <1>7, <1>8, <1>9, <1>10, <1>11, <1>12, <1>13

\* Rules about agents and the context.
LEMMA ContextsAgree ==
    ASSUME Recursion, NEW t, Grounds(t), NEW p, Sensible(p), Kept(p), Formula(Compiled(p)),
           p.name \in {"requires_permission", "no_data_leak", "ctx_required",
                       "ctx_matches_required", "approval_active"}
    PROVE  Agrees(p, t)
<1>1. CASE p.name = "requires_permission"
  BY <1>1, PermissionSays DEF Agrees, Asked, Compiled
<1>2. CASE p.name = "no_data_leak"
  BY <1>2, LeakSays, SensibleIs DEF Agrees, Asked, Compiled
<1>3. CASE p.name = "ctx_required"
  <2>1. PICK k : k = "caller"
    OBVIOUS
  <2>2. Compiled(p) = ctx_required(p.a, k, {p.b})
    BY <1>3, <2>1 DEF Compiled
  <2>3. Says(ctx_required(p.a, k, {p.b}), t)
            <=> \A i \in Calls(t, p.a) : Said(t, k, i) = p.b
    BY <1>3, <2>2, ContextSaysSo, SensibleIs
  <2> QED
    BY <1>3, <2>1, <2>2, <2>3 DEF Agrees, Asked
<1>4. CASE p.name = "ctx_matches_required"
  <2>1. PICK k : k = "caller"
    OBVIOUS
  <2>2. Compiled(p) = ctx_matches_required(p.a, k, p.b)
    BY <1>4, <2>1 DEF Compiled
  <2>3. Given(p.b) /\ Formula(ctx_matches_required(p.a, k, p.b))
    BY <1>4, <2>2, SensibleIs
  <2>4. Says(ctx_matches_required(p.a, k, p.b), t)
            <=> \A i \in Calls(t, p.a) : p.b \in Found(Said(t, k, i))
    BY <2>3, ContextSaysSo
  <2>5. Asked(p, t) <=> \A i \in Calls(t, p.a) : p.b \in Found(Said(t, k, i))
    BY <1>4, <2>1 DEF Asked
  <2> QED
    BY <2>2, <2>4, <2>5 DEF Agrees
<1>5. CASE p.name = "approval_active"
  <2>1. Asked(p, t) <=> Approved(t, p.a, p.b, p.n)
    BY <1>5, Zenon DEF Asked, Approved
  <2> QED
    BY <1>5, <2>1, ApprovalSays, SensibleIs DEF Agrees, Unrenewed, Compiled, Kept
<1> QED
  BY <1>1, <1>2, <1>3, <1>4, <1>5

\* The age of a predicate is kept when a rule asks for it.
LEMMA AskedIsTimed ==
    ASSUME NEW c \in Contracts, NEW f \in FormulasOf(c), NEW k \in AggregatesOf(f),
           k[1] = "time_since"
    PROVE  k[2] \in Timed
  BY DEF Timed

\* So the ages that a rule of the deployment asks for are kept.
LEMMA AgesAreKept ==
    ASSUME Recursion, NEW c \in Contracts, NEW p, Formula(Compiled(p)),
           Compiled(p) \in FormulasOf(c)
    PROVE  Kept(p)
<1>1. ASSUME p.name = "time_since" PROVE <<"called", p.a>> \in Timed
  <2>1. PICK k : k = <<"time_since", <<"called", p.a>>>>
    OBVIOUS
  <2> DEFINE f == Le(Var(k), Const(p.n))
  <2> HIDE DEF f
  <2> QED
    BY <1>1, <2>1, AskedIsTimed, ReadsBelow DEF time_since, AtMost, Compiled,
       Cumulative
<1>2. ASSUME p.name = "approval_active" PROVE <<"ctx", "approval.role", p.b>> \in Timed
  <2>1. PICK k : k = <<"time_since", <<"ctx", "approval.role", p.b>>>>
    OBVIOUS
  <2> DEFINE f == Le(Var(k), Const(p.n))
             P == {Atom(<<"ctx_matches", "approval.role", p.b>>),
                   Atom(<<"ctx_matches", "approval.decision", "allow">>), f}
             g == Implies(Called(p.a), And(P))
  <2>2. Compiled(p) = G(g)
    BY <1>2, <2>1 DEF approval_active, Whenever, Compiled
  <2>3. k[1] = "time_since" /\ k[1] \in Cumulative /\ k[2] = <<"ctx", "approval.role", p.b>>
    BY <2>1 DEF Cumulative
  <2>4. k \in AggregatesOf(f)
    BY <2>3, ReadsBelow
  <2>5. f \in P
    OBVIOUS
  <2> HIDE DEF f, P
  <2>6. Formula(g)
    <3> HIDE DEF g
    <3> QED
      BY <2>2, PartsAreFormulas
  <2>7. k \in AggregatesOf(g)
    BY <2>4, <2>5, <2>6, ReadsBelow, PartsAreFormulas
  <2> HIDE DEF g
  <2> QED
    BY <2>2, <2>3, <2>7, AskedIsTimed, ReadsBelow
<1> QED
  BY <1>1, <1>2 DEF Kept

\* The rules that a call opens.
Gates == {"confirm_after_source", "untrusted_source_gate"}

\* A rule that is always there says what it means,
LEMMA AlwaysAgrees ==
    ASSUME Recursion, NEW t, Grounds(t), NEW p, Sensible(p), Kept(p), Formula(Compiled(p)),
           p.name \in PatternNames \ Gates
    PROVE  Agrees(p, t)
  BY OrdersAgree, NumbersAgree, ContentsAgree, ContextsAgree DEF PatternNames,
     Gates

\* and so does one that a call opens, from that call on.
LEMMA GateAgrees ==
    ASSUME Recursion, NEW t, Grounds(t), NEW p, Sensible(p), Formula(Compiled(p)),
           p.name \in Gates
    PROVE  /\ Calls(t, p.a) = {} => Asked(p, t)
           /\ \A m \in Calls(t, p.a) : (\A i \in Calls(t, p.a) : m <= i) =>
                  (Evaluate(Compiled(p), Vals(t), m) <=> Asked(p, t))
<1>1. \A S, T : Gated({}, S, T)
  BY DEF Gated
<1>2. CASE p.name = "confirm_after_source"
  <2>1. PICK c : c = "confirm"
    OBVIOUS
  <2> QED
    BY <1>1, <1>2, <2>1, GateSays, SensibleIs DEF Asked, Compiled,
       confirm_after_source
<1>3. CASE p.name = "untrusted_source_gate"
  <2>1. PICK c : c = "confirm_reconfirmed"
    OBVIOUS
  <2> DEFINE f == must_precede(c, p.b)
             P == {f}
  <2>2. Compiled(p) = And(P)
    <3>1. untrusted_source_gate({p.a}, {p.b}).rule = And(P)
      BY <2>1 DEF untrusted_source_gate
    <3> HIDE DEF P
    <3> QED
      BY <1>3, <3>1 DEF Compiled
  <2>3. Formula(And(P)) /\ Formula(f)
    <3>1. f \in P
      OBVIOUS
    <3> HIDE DEF P
    <3> QED
      BY <2>2, <3>1, PartsAreFormulas
  <2>4. ASSUME NEW m \in Calls(t, p.a), \A i \in Calls(t, p.a) : m <= i
        PROVE  Evaluate(And(P), Vals(t), m) <=> Gated(Calls(t, p.a), Calls(t, p.b), Calls(t, c))
    <3>1. Evaluate(And(P), Vals(t), m) <=> \A g \in P : Evaluate(g, Vals(t), m)
      <4> HIDE DEF P
      <4> QED
        BY <2>3, EvaluateIs, CallBounds, ValsOfGrounds
    <3>2. Evaluate(f, Vals(t), m) <=> Gated(Calls(t, p.a), Calls(t, p.b), Calls(t, c))
      BY <1>3, <2>1, <2>3, <2>4, GateSays, SensibleIs
    <3> HIDE DEF f
    <3> QED
      BY <3>1, <3>2
  <2> HIDE DEF P
  <2> QED
    BY <1>1, <1>3, <2>1, <2>2, <2>4 DEF Asked
<1> QED
  BY <1>2, <1>3 DEF Gates

\* The rules of a contract that one call opens are evaluated from the first.
LEMMA OpensAt ==
    ASSUME Recursion, NEW t, Grounds(t), NEW x, NEW c, c.reactive,
           c.assumptions = <<Called(x)>>
    PROVE  /\ Met(c, Vals(t)) <=> Calls(t, x) # {}
           /\ Calls(t, x) # {} => /\ From(c, Vals(t)) \in Calls(t, x)
                                  /\ \A i \in Calls(t, x) : From(c, Vals(t)) <= i
<1> DEFINE f == Called(x)
           vals == Vals(t)
<1>1. DOMAIN c.assumptions = {1} /\ c.assumptions[1] = f /\ c.assumptions # <<>>
  OBVIOUS
<1>2. Trigger(f) = f
  BY DEF Trigger, Called, Atom
<1>3. PICK n \in Nat : n = Len(t) /\ n = Len(vals)
  BY ValsOfGrounds
<1>4. DOMAIN vals = 1 .. n
  BY <1>3 DEF Vals, ValsTo
<1>5. \A k : k \in Calls(t, x) <=> k \in 1 .. n /\ Evaluate(f, vals, k)
  BY <1>3, CalledAt DEF At
<1> HIDE DEF f, vals
<1>6. ASSUME Calls(t, x) # {}
      PROVE  First(f, vals) \in Calls(t, x) /\ \A i \in Calls(t, x) : First(f, vals) <= i
  <2>1. PICK m \in Calls(t, x) : \A i \in Calls(t, x) : m <= i
    BY <1>5, <1>6, Least
  <2>2. m \in 1 .. n /\ Evaluate(f, vals, m)
    BY <1>5
  <2>3. \A j \in 1 .. m - 1 : ~Evaluate(f, vals, j)
    <3> SUFFICES ASSUME NEW j \in 1 .. m - 1, Evaluate(f, vals, j) PROVE FALSE
      OBVIOUS
    <3> QED
      BY <1>5, <2>1, <2>2
  <2> DEFINE k == First(f, vals)
  <2>4. /\ k \in DOMAIN vals /\ Evaluate(f, vals, k)
        /\ \A j \in 1 .. k - 1 : ~Evaluate(f, vals, j)
    BY <1>4, <2>2, <2>3 DEF First
  <2> HIDE DEF k
  <2>5. k \in Calls(t, x) /\ k \in 1 .. n
    BY <1>4, <1>5, <2>4
  <2>6. ASSUME NEW i \in Calls(t, x) PROVE k <= i
    BY <1>5, <2>4, <2>5
  <2> QED
    BY <2>5, <2>6 DEF k
<1> QED
  BY <1>1, <1>2, <1>4, <1>5, <1>6 DEF vals, Met, From, Triggers

\* A limit on messages is one on every chain of them,
LEMMA ChainsAreMessages ==
    ASSUME NEW t, Grounds(t), NEW n \in Nat, Cardinality(OfType(t, "message")) <= n
    PROVE  \A S \in SUBSET OfType(t, "message") : Cardinality(S) <= n
<1>1. PICK m \in Nat : m = Len(t) /\ DOMAIN t = 1 .. m
  BY ValsOfGrounds
<1>2. OfType(t, "message") \subseteq 1 .. m /\ IsFiniteSet(1 .. m)
  BY <1>1, FS_Interval DEF OfType
<1>3. IsFiniteSet(OfType(t, "message")) /\ Cardinality(OfType(t, "message")) \in Nat
  BY <1>2, FS_Subset, FS_CardinalityType
<1> QED
  BY <1>3, FS_Subset, FS_CardinalityType

\* and one on calls in a row is one on those alike.
LEMMA AlikeAreInARow ==
    ASSUME NEW t, Grounds(t), NEW x, NEW n \in Nat, NEW i, InARow(t, x, i) <= n
    PROVE  Cardinality({j \in RowOf(t, x, i) : t[j].content = t[i].content}) <= n
<1>1. PICK m \in Nat : m = Len(t) /\ DOMAIN t = 1 .. m
  BY ValsOfGrounds
<1> DEFINE R == RowOf(t, x, i)
           A == {j \in R : t[j].content = t[i].content}
<1>2. R \subseteq 1 .. m /\ IsFiniteSet(1 .. m)
  BY <1>1, FS_Interval DEF RowOf, Calls
<1>3. Cardinality(R) <= n
  BY DEF InARow
<1> HIDE DEF R
<1>4. IsFiniteSet(R) /\ A \subseteq R
  BY <1>2, FS_Subset
<1> HIDE DEF A
<1>5. Cardinality(A) <= Cardinality(R) /\ Cardinality(A) \in Nat /\ Cardinality(R) \in Nat
  BY <1>4, FS_Subset, FS_CardinalityType
<1> QED
  BY <1>3, <1>5 DEF A, R

\* What a formula asks is what the reference says of the rule, or more, or
\* less, or something else.
LEMMA AskedIsMeant ==
    ASSUME NEW t, Grounds(t), NEW p, Sensible(p)
    PROVE  /\ Asked(p, t) /\ p.name \notin Looser \cup Unlike => Meant(p, t)
           /\ Meant(p, t) /\ p.name \notin Stricter \cup Unlike => Asked(p, t)
<1> DEFINE a == Calls(t, p.a)
           b == Calls(t, p.b)
<1>1. CASE p.name = "destructive_action_gate"
  BY <1>1 DEF Asked, Meant, Preceded, Stricter
<1>2. CASE p.name = "segregation_of_duty"
  <2>1. Asked(p, t) => a = {} \/ b = {}
    BY <1>2 DEF Asked
  <2> QED
    BY <1>2, <2>1 DEF Meant, Stricter
<1>3. CASE p.name = "bounded_retry"
  <2>1. a \subseteq 1 .. Len(t) /\ Len(t) \in Nat
    BY ValsOfGrounds DEF Calls
  <2>2. Cardinality(a) \in Nat /\ p.n \in Nat
    <3> HIDE DEF a
    <3>1. PICK m \in Nat : m = Len(t)
      BY <2>1
    <3>2. IsFiniteSet(1 .. m) /\ a \subseteq 1 .. m
      BY <2>1, <3>1, FS_Interval
    <3>3. IsFiniteSet(a)
      BY <3>2, FS_Subset
    <3>4. Cardinality(a) \in Nat
      BY <3>3, FS_CardinalityType
    <3>5. p.n \in Nat
      BY <1>3, SensibleIs
    <3> QED
      BY <3>4, <3>5
  <2>3. Asked(p, t) => Cardinality(a) <= p.n
    BY <1>3 DEF Asked
  <2> HIDE DEF a
  <2>4. Cardinality(a) <= p.n => Cardinality(a) <= p.n + 1
    BY <2>2
  <2> QED
    BY <1>3, <2>3, <2>4 DEF Meant, Stricter, a
<1>4. CASE p.name = "loop_detection"
  <2>1. Asked(p, t) => \A i \in DOMAIN t : InARow(t, p.a, i) <= p.n
    BY <1>4 DEF Asked
  <2>2. (\A i \in DOMAIN t : Cardinality({j \in RowOf(t, p.a, i) :
                                             t[j].content = t[i].content}) <= p.n)
            => Meant(p, t)
    BY <1>4 DEF Meant
  <2> QED
    BY <1>4, <2>1, <2>2, AlikeAreInARow, SensibleIs DEF Stricter
<1>5. CASE p.name = "delegation_depth_limit"
  <2>1. Asked(p, t) => Cardinality(OfType(t, "message")) <= p.n
    BY <1>5 DEF Asked
  <2>2. (\A S \in SUBSET OfType(t, "message") : Cardinality(S) <= p.n) => Meant(p, t)
    BY <1>5 DEF Meant
  <2> QED
    BY <1>5, <2>1, <2>2, ChainsAreMessages, SensibleIs DEF Stricter
<1>6. CASE p.name = "no_data_leak"
  BY <1>6 DEF Asked, Meant, Looser
<1>7. CASE p.name \in Gates
  <2>1. \A S, M, T : Cleared(S, M, T) => Gated(S, T, M)
    BY DEF Cleared, Gated
  <2> QED
    BY <1>7, <2>1 DEF Asked, Meant, Looser, Gates
<1>8. CASE p.name \notin Gates \cup {"destructive_action_gate", "segregation_of_duty",
                                    "bounded_retry", "loop_detection",
                                    "delegation_depth_limit", "no_data_leak"}
  <2>1. Meant(p, t) <=> Asked(p, t)
    BY <1>8, Zenon DEF Meant, Gates
  <2> QED
    BY <2>1
<1> QED
  BY <1>1, <1>2, <1>3, <1>4, <1>5, <1>6, <1>7, <1>8

\* A rule alone in its deployment says what its formula is to ask.
LEMMA HistoryAsks ==
    ASSUME Recursion, BooksOfFormulas, OfPatterns(Books), HistoryInv, EventsInv,
           book.rule # NoRule
    PROVE  LET p == book.rule
               now == ValsOf(trace)
               holds == \A c \in Contracts : Met(c, now) =>
                            \A r \in c.rules : Evaluate(r.formula, now, From(c, now))
           IN  /\ Sensible(p) /\ Grounds(trace)
               /\ holds => Asked(p, trace)
               /\ Asked(p, trace) /\ p.name \notin Unrenewed => holds
<1> DEFINE p == book.rule
           now == ValsOf(trace)
           Holds == \A c \in Contracts : Met(c, now) =>
                        \A r \in c.rules : Evaluate(r.formula, now, From(c, now))
<1> SUFFICES /\ Sensible(p) /\ Grounds(trace)
             /\ Holds => Asked(p, trace)
             /\ Asked(p, trace) /\ p.name \notin Unrenewed => Holds
  OBVIOUS
<1>1. PICK c \in book.contracts : \E r \in c.rules :
          /\ book.contracts = {c} /\ c.rules = {r}
          /\ p.name \in PatternNames
          /\ r.formula = Compiled(p)
          /\ Sensible(p)
          /\ IF p.name \in Gates
             THEN c.reactive /\ c.assumptions = <<Called(p.a)>>
             ELSE c.assumptions = <<>>
  BY DEF OnePattern, Gates, HistoryInv, OfPatterns
<1>2. PICK r \in c.rules :
          /\ book.contracts = {c} /\ c.rules = {r}
          /\ p.name \in PatternNames
          /\ r.formula = Compiled(p)
          /\ Sensible(p)
          /\ IF p.name \in Gates
             THEN c.reactive /\ c.assumptions = <<Called(p.a)>>
             ELSE c.assumptions = <<>>
  BY <1>1
<1>3. Grounds(trace)
  BY DEF HistoryInv, EventsInv, Grounds
<1>4. now = Vals(trace)
  BY <1>3, GroundIs, ValsOfGrounds DEF ValsOf, Vals
<1>5. c \in Contracts /\ Contracts = {c}
  BY <1>2 DEF Contracts
<1>6. Compiled(p) \in FormulasOf(c) /\ Formula(Compiled(p))
  BY <1>2, <1>5, ContractsAre DEF WellFormed, FormulasOf
<1>10. Sensible(p)
  BY <1>2
<1> HIDE DEF p, now
<1>7. Holds <=> (Met(c, now) => Evaluate(Compiled(p), now, From(c, now)))
  BY <1>2, <1>5
<1> HIDE DEF Holds
<1>8. CASE p.name \notin Gates
  <2>1. Agrees(p, trace)
    BY <1>2, <1>3, <1>5, <1>6, <1>8, AlwaysAgrees, AgesAreKept
  <2> QED
    BY <1>2, <1>3, <1>4, <1>7, <1>8, <1>10, <2>1 DEF Agrees, Says, Met, From
<1>9. CASE p.name \in Gates
  <2> DEFINE S == Calls(trace, p.a)
             m == From(c, now)
  <2>1. /\ Met(c, now) <=> S # {}
        /\ S # {} => m \in S /\ \A i \in S : m <= i
    BY <1>2, <1>3, <1>4, <1>9, OpensAt
  <2>2. /\ S = {} => Asked(p, trace)
        /\ \A k \in S : (\A i \in S : k <= i) => (Evaluate(Compiled(p), now, k) <=> Asked(p, trace))
    BY <1>2, <1>3, <1>4, <1>6, <1>9, GateAgrees
  <2> HIDE DEF S, m
  <2> QED
    BY <1>3, <1>7, <1>10, <2>1, <2>2 DEF m
<1> QED
  BY <1>8, <1>9

\* and so what the reference says of it, where the two agree.
LEMMA HistoryMeans ==
    ASSUME Recursion, BooksOfFormulas, OfPatterns(Books), HistoryInv, EventsInv
    PROVE  PatternMeaning
<1> DEFINE p == book.rule
           now == ValsOf(trace)
           Holds == \A c \in Contracts : Met(c, now) =>
                        \A r \in c.rules : Evaluate(r.formula, now, From(c, now))
<1>1. SUFFICES ASSUME p # NoRule
               PROVE  /\ Holds => Asked(p, trace)
                      /\ Asked(p, trace) /\ p.name \notin Unrenewed => Holds
                      /\ Holds /\ p.name \notin Looser \cup Unlike => Meant(p, trace)
                      /\ Meant(p, trace) /\ p.name \notin Stricter \cup Unlike => Holds
  BY DEF PatternMeaning
<1>2. /\ Sensible(p) /\ Grounds(trace)
      /\ Holds => Asked(p, trace)
      /\ Asked(p, trace) /\ p.name \notin Unrenewed => Holds
  BY <1>1, HistoryAsks
<1> HIDE DEF p, now, Holds
<1>3. /\ Asked(p, trace) /\ p.name \notin Looser \cup Unlike => Meant(p, trace)
      /\ Meant(p, trace) /\ p.name \notin Stricter \cup Unlike => Asked(p, trace)
  BY <1>2, AskedIsMeant
<1>4. Unrenewed \subseteq Stricter \cup Unlike
  BY DEF Unrenewed, Stricter, Unlike
<1> QED
  BY <1>2, <1>3, <1>4

\* The invariant PatternMeaning, for every trace any deployment of one rule
\* of the library can have, with any tools, aliases, permissions, numbers and
\* names inside others: the formula the rule compiles to holds on it just if
\* the events are as the formula is to ask of them (if it holds, for the three
\* whose occurrences are not renewed).  That is what the pattern reference
\* says of the rule, but for the rules whose formula asks more (Stricter),
\* less (Looser) or something else (Unlike).
THEOREM PatternsMeanWhatTheySay ==
    ASSUME Recursion, BooksOfFormulas, OfPatterns(Books)
    PROVE  Spec => []PatternMeaning
<1>1. HistoryInv /\ EventsInv => PatternMeaning
  BY HistoryMeans
<1>2. Init => HistoryInv /\ EventsInv
  BY InitHistory, InitEvents
<1>3. HistoryInv /\ EventsInv /\ [Next]_vars => (HistoryInv /\ EventsInv)'
  BY StepHistory, StepEvents
<1> QED
  BY <1>1, <1>2, <1>3, PTL DEF Spec
=============================================================================
