------------------------------ MODULE Verifier ------------------------------
(* The incremental verifier, sponsio/runtime/verifier.py.  It keeps the    *)
(* valuations of the trace it saw last, the grounding state before its     *)
(* last event, and what each formula that was consulted still requires;    *)
(* rolling the last event back restores all of it.  The runtime checks     *)
(* only the formulas a contract reaches, so each is behind by as many      *)
(* events as it was not consulted for.                                     *)
(*                                                                         *)
(* A contract has assumptions, in order, and rules: a formula, whether it  *)
(* is an obligation that only the end of the session decides, and what     *)
(* breaking it does.  It is checked over the whole trace, or, when it is   *)
(* reactive, from the first position its assumptions were met at.          *)
EXTENDS Progression, Grounding

Unknown == [op |-> "unknown"]    \* no residual to restore
NoState == [calls |-> "unknown"] \* no grounding state to restore

NewVerifier == [vals |-> <<>>, state |-> Fresh, before |-> NoState,
                progs |-> <<>>, found |-> <<>>]

\* A trace that got shorter is grounded from its first event.
Synced(v, trace, timed) ==
    GroundFrom(IF Len(trace) < Len(v.vals) THEN NewVerifier ELSE v, trace, timed)

\* What formula f still requires, counted from position pos: its progression
\* brought up to the last valuation.
Progressed(v, f, pos) ==
    LET n == Len(v.vals)
        p == Get(v.progs, <<f, pos>>,
                 [residual |-> Initial(f), before |-> Unknown, upto |-> pos - 1])
        advanced[i \in p.upto .. n] ==
            IF i = p.upto THEN p
            ELSE [residual |-> Advance(advanced[i - 1].residual, v.vals[i]),
                  before |-> advanced[i - 1].residual, upto |-> i]
    IN  IF p.upto >= n THEN p ELSE advanced[n]

HoldsFrom(v, f, pos) ==
    IF pos > Len(v.vals) THEN Evaluate(f, v.vals, pos)
    ELSE HoldsAtEnd(Progressed(v, f, pos).residual)

HeldBeforeLast(v, f, pos) ==
    LET n == Len(v.vals)
        p == Progressed(v, f, pos)
    IN  IF pos >= n THEN Evaluate(f, <<>>, 1)
        ELSE IF p.before = Unknown
        THEN Evaluate(f, SubSeq(v.vals, 1, n - 1), pos)
        ELSE HoldsAtEnd(p.before)

Moved(v, key) ==
    LET n == Len(v.vals)
        last == v.vals[n].num
        prior == v.vals[n - 1].num
    IN  \/ (key \in DOMAIN last) # (key \in DOMAIN prior)
        \/ key \in DOMAIN last /\ last[key] # prior[key]

\* Mutant for IsFresh: only the last position is looked at.
IsFreshByBody(v, f, pos) ==
    f.op = "G" => ~Evaluate(f.of, v.vals, Len(v.vals))

\* A broken rule is put down to the last event only if that event broke it:
\* it held before, or it moved a number the rule limits, or, where the rule
\* limits none, its own position breaks the rule's body.
IsFresh(v, f, pos) ==
    LET n == Len(v.vals)
        numbers == AggregatesOf(f.of)
    IN  IF n <= 1 THEN n = 1
        ELSE IF f.op = "G"
        THEN \/ HeldBeforeLast(v, f, 1)
             \/ \E key \in numbers : Moved(v, key)
             \/ numbers = {} /\ ~Evaluate(f.of, v.vals, n)
        ELSE pos >= n \/ HeldBeforeLast(v, f, pos)

FirstAt(v, trigger, from) ==
    LET at == {i \in from .. Len(v.vals) : Evaluate(trigger, v.vals, i)}
    IN  IF at = {} THEN 0 ELSE CHOOSE i \in at : \A j \in at : i <= j

\* Where a trigger first held, 0 for nowhere: the scan resumes where it
\* stopped, unless the trigger looks at other positions.
Scanned(v, trigger) ==
    LET entry == Get(v.found, trigger, [upto |-> 0, at |-> 0])
    IN  [upto |-> IF entry.at # 0 THEN entry.upto ELSE Len(v.vals),
         at |-> IF entry.at # 0 THEN entry.at
                ELSE FirstAt(v, trigger, entry.upto + 1)]

Activation(v, trigger) ==
    IF Temporal(trigger) THEN FirstAt(v, trigger, 1) ELSE Scanned(v, trigger).at

Trigger(f) == IF f.op = "F" THEN f.of ELSE f
Triggers(c) == {Trigger(c.assumptions[i]) : i \in DOMAIN c.assumptions}

Unmet(v, c, a) == IF c.reactive THEN Activation(v, Trigger(a)) = 0
                  ELSE ~HoldsFrom(v, a, 1)

\* The assumptions that are evaluated: up to the first that fails.
Reached(v, c) == {i \in DOMAIN c.assumptions :
                     \A j \in 1 .. i - 1 : ~Unmet(v, c, c.assumptions[j])}

AssumptionsMet(v, c) ==
    \A i \in DOMAIN c.assumptions : ~Unmet(v, c, c.assumptions[i])

\* Where the rules of a contract are evaluated from.
Position(v, c) ==
    IF c.reactive /\ c.assumptions # <<>>
    THEN LET at == {Activation(v, t) : t \in Triggers(c)}
         IN  CHOOSE k \in at : \A j \in at : j <= k
    ELSE 1

RulesChecked(c, atEnd) == {r \in c.rules : atEnd \/ ~r.obligation}

\* Mutant for Broken: the assumptions are not asked for.
BrokenUngated(v, c, atEnd) ==
    {r \in RulesChecked(c, atEnd) :
        /\ Position(v, c) # 0
        /\ ~HoldsFrom(v, r.formula, Position(v, c))}

\* The rules of a contract that do not hold, if its assumptions do.
Broken(v, c, atEnd) ==
    IF AssumptionsMet(v, c)
    THEN {r \in RulesChecked(c, atEnd) : ~HoldsFrom(v, r.formula, Position(v, c))}
    ELSE {}

\* Mutant for FreshlyBroken: a rule broken before is put down to this event.
FreshlyBrokenEver(v, c) == Broken(v, c, FALSE)

FreshlyBroken(v, c) ==
    {r \in Broken(v, c, FALSE) : IsFresh(v, r.formula, Position(v, c))}

\* The progressions and the scans that checking a contract leaves behind.
Consulted(v, c, atEnd) ==
    (IF c.reactive THEN {} ELSE {<<c.assumptions[i], 1>> : i \in Reached(v, c)})
    \cup (IF AssumptionsMet(v, c)
          THEN {<<r.formula, Position(v, c)>> : r \in RulesChecked(c, atEnd)}
               \cup {<<r.formula, 1>> :
                        r \in {b \in Broken(v, c, atEnd) : b.formula.op = "G"}}
          ELSE {})

Checked(v, contracts, atEnd) ==
    LET touched == UNION {Consulted(v, c, atEnd) : c \in contracts}
        present == {k \in touched : k[2] <= Len(v.vals)}
        scanned == UNION {{Trigger(c.assumptions[i]) : i \in Reached(v, c)} :
                             c \in {d \in contracts : d.reactive}}
    IN  [v EXCEPT
            !.progs = [k \in present |-> Progressed(v, k[1], k[2])] ++ v.progs,
            !.found = [t \in {s \in scanned : ~Temporal(s)} |-> Scanned(v, t)]
                      ++ v.found]

\* Mutants for RolledBack: a scan, or a progression, keeps what it found in
\* the event.
RolledBackKeepingScans(v) ==
    LET n == Len(v.vals)
        kept == {k \in DOMAIN v.progs :
                    v.progs[k].upto < n \/ v.progs[k].before # Unknown}
    IN  IF n = 0 \/ v.before = NoState THEN NewVerifier
        ELSE [v EXCEPT !.vals = SubSeq(v.vals, 1, n - 1), !.state = v.before,
                       !.before = NoState,
                       !.progs = [k \in kept |->
                           IF v.progs[k].upto < n THEN v.progs[k]
                           ELSE [residual |-> v.progs[k].before, before |-> Unknown,
                                 upto |-> n - 1]]]

RolledBackKeepingProgressions(v) ==
    IF v.vals = <<>> \/ v.before = NoState THEN NewVerifier
    ELSE [v EXCEPT !.vals = SubSeq(v.vals, 1, Len(v.vals) - 1),
                   !.state = v.before, !.before = NoState, !.found = <<>>]

\* The trace lost its last event.
RolledBack(v) ==
    LET n == Len(v.vals)
        kept == {k \in DOMAIN v.progs :
                    v.progs[k].upto < n \/ v.progs[k].before # Unknown}
    IN  IF n = 0 \/ v.before = NoState THEN NewVerifier
        ELSE [vals |-> SubSeq(v.vals, 1, n - 1), state |-> v.before,
              before |-> NoState,
              progs |-> [k \in kept |->
                  IF v.progs[k].upto < n THEN v.progs[k]
                  ELSE [residual |-> v.progs[k].before, before |-> Unknown,
                        upto |-> n - 1]],
              found |-> [t \in DOMAIN v.found |->
                  LET e == v.found[t] IN
                  [upto |-> IF e.upto < n THEN e.upto ELSE n - 1,
                   at |-> IF e.at = n THEN 0 ELSE e.at]]]
=============================================================================
