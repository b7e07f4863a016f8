---------------------------- MODULE Progression -----------------------------
(* The incremental evaluator, sponsio/formulas/dfa_evaluator.py: a formula *)
(* is rewritten by each valuation to what it still requires of the later   *)
(* ones, and the rest is collapsed by the end-of-trace rules when an       *)
(* answer is wanted.                                                       *)
EXTENDS Formulas

\* As the functions of Formulas are.
CONSTANTS Simplify(_), Progress(_, _), Finalize(_)

\* X leaves its child to the next position, wrapped: past the end the
\* obligation counts as met, whatever it is.
Pending(f) == [op |-> "pending", of |-> f]

Decided(f) == f \in {Top, Bottom}

\* An And or an Or of simplified parts: those of a nested one are its own,
\* the unit is dropped, the absorbing constant decides, one copy of each
\* part is kept.
Fold(op, unit, zero, parts) ==
    LET flat == UNION {IF p.op = op THEN p.parts ELSE {p} : p \in parts}
        kept == flat \ {unit}
    IN  IF zero \in kept THEN zero
        ELSE IF kept = {} THEN unit
        ELSE IF Cardinality(kept) = 1 THEN CHOOSE p \in kept : TRUE
        ELSE [op |-> op, parts |-> kept]

Negated(f) ==
    IF f = Top THEN Bottom ELSE IF f = Bottom THEN Top
    ELSE IF f.op = "not" THEN f.of ELSE Not(f)

Implied(f, g) ==
    IF f = Bottom \/ g = Top THEN Top
    ELSE IF f = Top THEN g
    ELSE IF g = Bottom THEN Negated(f) ELSE Implies(f, g)

SimplifyBy(Simple(_), f) ==
    CASE f.op = "not" -> Negated(Simple(f.of))
      [] f.op = "and" -> Fold("and", Top, Bottom, {Simple(p) : p \in f.parts})
      [] f.op = "or" -> Fold("or", Bottom, Top, {Simple(p) : p \in f.parts})
      [] f.op = "implies" -> Implied(Simple(f.if), Simple(f.then))
      [] OTHER -> f

\* What f requires of the positions after one with valuation v.
ProgressBy(Rest(_, _), f, v) ==
    CASE f.op = "atom" -> IF f.key \in v.true THEN Top ELSE Bottom
      [] f.op \in {"le", "ge"} -> IF Compare(f, v) THEN Top ELSE Bottom
      [] f.op = "pending" -> Rest(f.of, v)
      [] f.op = "not" -> Not(Rest(f.of, v))
      [] f.op = "and" -> And({Rest(p, v) : p \in f.parts})
      [] f.op = "or" -> Or({Rest(p, v) : p \in f.parts})
      [] f.op = "implies" -> Implies(Rest(f.if, v), Rest(f.then, v))
      [] f.op = "G" -> And({Rest(f.of, v), f})
      [] f.op = "F" -> Or({Rest(f.of, v), f})
      [] f.op = "X" -> Pending(f.of)
      [] f.op = "U" -> Or({Rest(f.until, v), And({Rest(f.hold, v), f})})
      [] OTHER -> f

\* f at the end of the trace.  What is owed to a next position that does not
\* exist is met; an F or a U still open is not.
FinalizeBy(Ended(_), f) ==
    CASE Decided(f) -> f
      [] f.op \in {"G", "X", "pending"} -> Top
      [] f.op = "not" -> Negated(Ended(f.of))
      [] f.op = "and" -> Simplify(And({Ended(p) : p \in f.parts}))
      [] f.op = "or" -> Simplify(Or({Ended(p) : p \in f.parts}))
      [] f.op = "implies" -> Simplify(Implies(Ended(f.if), Ended(f.then)))
      [] OTHER -> Bottom

Initial(f) == Simplify(f)

Advance(residual, v) ==
    IF Decided(residual) THEN residual ELSE Simplify(Progress(residual, v))

HoldsAtEnd(residual) == Finalize(residual) = Top
=============================================================================
