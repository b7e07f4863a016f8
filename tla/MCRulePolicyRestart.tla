------------------------- MODULE MCRulePolicyRestart ------------------------
(* A sentence of the documents the code does not keep, stated with a ghost *)
(* that follows the policy's steps.                                        *)
EXTENDS MCRulePolicy

\* Every rule a call was decided by, less what reloads gave up.
VARIABLE floor

FloorInit == Init /\ floor = {}

FloorNext ==
    /\ Next
    /\ floor' = CASE ReloadPut -> floor \cap taken.ids
                  [] (\E c \in Call : Resolve(c)) /\ verdict'.kind = "rules" ->
                        floor \cup Owed(verdict'.ids)
                  [] OTHER -> floor

FloorSpec == FloorInit /\ [][FloorNext]_<<vars, floor>>

\* "A daemon that restarts onto rules weaker than the last approved set
\* refuses that library's calls until a reload" (docs/concepts/
\* threat-model.md): no call is decided without a rule that an earlier call
\* was decided by, unless a reload gave it up.
DeniedUntilReload == verdict.kind = "rules" => floor \subseteq verdict.ids
=============================================================================
