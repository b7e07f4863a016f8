---------------------------- MODULE MCRulePolicy ----------------------------
(* Small instances of RulePolicy for TLC.  One call is in flight at a      *)
(* time: the requirement can change any number of times between a call's   *)
(* two reads, so a second call adds no state of the others' variables.     *)
EXTENDS RulePolicy, TLC

CONSTANTS c1, r1, r2, x1, x2, k1

MCCall == {c1}
MCRule == {r1, r2}
MCText == {x1}
MCTexts == {x1, x2}
MCKey == {k1}

MCSymmetry == Permutations(MCRule)
=============================================================================
