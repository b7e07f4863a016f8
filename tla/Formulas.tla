------------------------------ MODULE Formulas ------------------------------
(* The contract language of sponsio/formulas: formulas over the predicates *)
(* an event is grounded to, and the recursive evaluator that the rest of   *)
(* the runtime is tested against.                                          *)
(*                                                                         *)
(* A valuation is what one event was grounded to: the keys that are true,  *)
(* and the numbers that have a value.  A key is a tuple of names.  And and *)
(* Or take a set of formulas, since both are commutative and idempotent    *)
(* and the source nests them only to write n-ary ones.                     *)
EXTENDS Integers, Sequences, FiniteSets

Valuation(true, num) == [true |-> true, num |-> num]

Atom(key) == [op |-> "atom", key |-> key]
Var(key) == [term |-> "var", key |-> key]
Const(n) == [term |-> "const", n |-> n]
Le(l, r) == [op |-> "le", left |-> l, right |-> r]
Ge(l, r) == [op |-> "ge", left |-> l, right |-> r]

Top == [op |-> "true"]
Bottom == [op |-> "false"]
Not(f) == [op |-> "not", of |-> f]
And(fs) == [op |-> "and", parts |-> fs]
Or(fs) == [op |-> "or", parts |-> fs]
Implies(f, g) == [op |-> "implies", if |-> f, then |-> g]
G(f) == [op |-> "G", of |-> f]
F(f) == [op |-> "F", of |-> f]
X(f) == [op |-> "X", of |-> f]
U(f, g) == [op |-> "U", hold |-> f, until |-> g]

\* The formulas right below f.
Below(f) ==
    CASE f.op \in {"not", "G", "F", "X", "pending"} -> {f.of}
      [] f.op \in {"and", "or"} -> f.parts
      [] f.op = "implies" -> {f.if, f.then}
      [] f.op = "U" -> {f.hold, f.until}
      [] OTHER -> {}

\* A number nothing was recorded for counts as zero.
Resolve(term, v) ==
    IF term.term = "const" THEN term.n
    ELSE IF term.key \in DOMAIN v.num THEN v.num[term.key] ELSE 0

Compare(f, v) ==
    IF f.op = "le" THEN Resolve(f.left, v) <= Resolve(f.right, v)
    ELSE Resolve(f.left, v) >= Resolve(f.right, v)

\* The functions of the code that walk a formula call themselves on its
\* parts.  Whoever asks them takes them as constants, one step of each is an
\* operator of the one that decides the parts, and Evaluators closes the
\* recursion.
CONSTANTS Evaluate(_, _, _), Temporal(_), AggregatesOf(_)

\* Does f hold on the valuations from position pos to the end?  Past the end
\* only an F or a U is false; X at the last position is true.
EvaluateBy(Holds(_, _, _), f, vals, pos) ==
    LET Here(g) == Holds(g, vals, pos)
        Later == pos .. Len(vals)
    IN  IF pos > Len(vals) THEN f.op \notin {"F", "U"}
        ELSE CASE f.op = "true" -> TRUE
               [] f.op = "false" -> FALSE
               [] f.op = "atom" -> f.key \in vals[pos].true
               [] f.op \in {"le", "ge"} -> Compare(f, vals[pos])
               [] f.op = "not" -> ~Here(f.of)
               [] f.op = "and" -> \A g \in f.parts : Here(g)
               [] f.op = "or" -> \E g \in f.parts : Here(g)
               [] f.op = "implies" -> Here(f.if) => Here(f.then)
               [] f.op = "G" -> \A i \in Later : Holds(f.of, vals, i)
               [] f.op = "F" -> \E i \in Later : Holds(f.of, vals, i)
               [] f.op = "X" -> pos = Len(vals) \/ Holds(f.of, vals, pos + 1)
               [] f.op = "U" ->
                    \E i \in Later :
                        /\ Holds(f.until, vals, i)
                        /\ \A j \in pos .. i - 1 : Holds(f.hold, vals, j)

\* Does f, or anything below it, look at another position?
TemporalBy(Looks(_), f) ==
    f.op \in {"G", "F", "X", "U", "pending"} \/ \E g \in Below(f) : Looks(g)

\* The numbers f reads that accumulate over the trace: an event that does
\* not move one of them is not the event that broke a limit on it.
Cumulative == {"count", "count_with", "token_count", "consecutive_count",
               "delegation_depth", "time_since"}

AggregatesBy(Numbers(_), f) ==
    IF f.op \in {"le", "ge"}
    THEN {t.key : t \in {u \in {f.left, f.right} :
                            u.term = "var" /\ u.key[1] \in Cumulative}}
    ELSE UNION {Numbers(g) : g \in Below(f)}
=============================================================================
