----------------------------- MODULE Evaluators -----------------------------
(* The functions of the code that walk a formula, by recursion on it: what *)
(* a model gives the constants of Formulas and Progression.                *)
EXTENDS Progression

\* sponsio/formulas/evaluator.py.
RECURSIVE EvaluateRec(_, _, _)
EvaluateRec(f, vals, pos) == EvaluateBy(EvaluateRec, f, vals, pos)

\* sponsio/runtime/verifier.py.
RECURSIVE TemporalRec(_)
TemporalRec(f) == TemporalBy(TemporalRec, f)

RECURSIVE AggregatesRec(_)
AggregatesRec(f) == AggregatesBy(AggregatesRec, f)

\* sponsio/formulas/dfa_evaluator.py.
RECURSIVE SimplifyRec(_)
SimplifyRec(f) == SimplifyBy(SimplifyRec, f)

RECURSIVE ProgressRec(_, _)
ProgressRec(f, v) == ProgressBy(ProgressRec, f, v)

RECURSIVE FinalizeRec(_)
FinalizeRec(f) == FinalizeBy(FinalizeRec, f)
=============================================================================
