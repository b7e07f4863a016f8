------------------------------ MODULE Patterns ------------------------------
(* The pattern library, sponsio/patterns/library.py: what each named rule  *)
(* compiles to.  A content key (which argument matches which expression)   *)
(* is one name here, since the event says which of them match it.          *)
EXTENDS Formulas

Called(t) == Atom(<<"called", t>>)
AnyOf(ts) == Or({Called(t) : t \in ts})
AtMost(key, n) == G(Le(Var(key), Const(n)))
Whenever(f, g) == G(Implies(f, g))

\* The bounded operators: n steps of an eventually, of a never, of a next.
BoundedEventually(f, n) ==
    LET within[k \in 1 .. n] ==
            IF k = 1 THEN f ELSE Or({f, X(within[k - 1])})
    IN  within[n]
BoundedNever(f, n) ==
    LET within[k \in 1 .. n] ==
            IF k = 1 THEN Not(f) ELSE And({Not(f), X(within[k - 1])})
    IN  within[n]
NextN(f, n) ==
    LET after[k \in 0 .. n] == IF k = 0 THEN f ELSE X(after[k - 1])
    IN  after[n]

ForbiddenUntil(until, f) == Or({U(Not(f), until), G(Not(f))})

workflow_step(trigger, next) == Whenever(trigger, X(next))
must_precede(before, after) == ForbiddenUntil(Called(before), Called(after))
always_followed_by(trigger, response) ==
    Whenever(Called(trigger), F(Called(response)))
no_reversal(commitment, contradiction) ==
    Whenever(Called(commitment), G(Not(Called(contradiction))))
requires_permission(tool, perm) == Whenever(Called(tool), Atom(<<"perm", perm>>))
no_data_leak(source, external) ==
    Whenever(Atom(<<"contains", source>>),
             Not(Atom(<<"flow", source, external>>)))
\* Mutant for mutual_exclusion: one order only.
mutual_exclusion_forward(a, b) == no_reversal(a, b)

mutual_exclusion(a, b) == And({no_reversal(a, b), no_reversal(b, a)})
segregation_of_duty(a, b) == mutual_exclusion(a, b)
rate_limit(action, n) == AtMost(<<"count", action>>, n)
idempotent(action) == rate_limit(action, 1)
bounded_retry(action, n) == rate_limit(action, n)
irreversible_once(action) == rate_limit(action, 1)
deadline(trigger, action, n) ==
    Whenever(Called(trigger), X(BoundedEventually(Called(action), n)))
must_confirm(action, confirm) == must_precede(confirm, action)
cooldown(action, n) ==
    Whenever(Called(action), X(BoundedNever(Called(action), n)))
arg_blacklist(tool, keys) ==
    Whenever(Called(tool), And({Not(Atom(k)) : k \in keys}))
arg_allowlist(tool, keys) ==
    Whenever(Called(tool), Or({Atom(k) : k \in keys}))
scope_limit(tool, within) == Whenever(Called(tool), Atom(within))
arg_length_limit(tool, exceeds) == Whenever(Called(tool), Not(Atom(exceeds)))
data_intact(uses, within) == Whenever(Atom(uses), Atom(within))
destructive_action_gate(tool, confirm, role) ==
    Or({G(Not(Called(tool))),
        U(Not(Called(tool)), And({Called(confirm), Atom(<<"perm", role>>)}))})
untrusted_source_gate(sources, sinks) ==
    [assume |-> AnyOf(sources),
     rule |-> And({must_precede("confirm_reconfirmed", s) : s \in sinks})]
required_steps_completion(trigger, steps) ==
    Whenever(Called(trigger), And({F(Called(s)) : s \in steps}))
loop_detection(action, n) == AtMost(<<"consecutive_count", action>>, n)
dry_run_before_commit(dry_run, commit) == must_precede(dry_run, commit)
backup_before_destructive(backup, action) == must_precede(backup, action)
audit_after(action, audit) == always_followed_by(action, audit)
approval_freshness(approval, action, n) ==
    LET closed == ForbiddenUntil(Called(approval), Called(action))
    IN  And({closed, Whenever(Called(approval), NextN(closed, n + 1))})
sanitized_before_sink(source, sanitizer, sink) ==
    Whenever(Called(source), X(ForbiddenUntil(Called(sanitizer), Called(sink))))
duplicate_call_limit(tool, expr, n) == AtMost(<<"count_with", tool, expr>>, n)
tool_allowlist(tools) == Whenever(Atom(<<"called_any">>), AnyOf(tools))
redirect_to_safe(unsafe) == G(Not(Called(unsafe)))
dangerous_bash_commands(exprs) ==
    G(And({Le(Var(<<"count_with", "bash", e>>), Const(0)) : e \in exprs}))
dangerous_sql_verbs(tool, keys) == arg_blacklist(tool, keys)
confirm_after_source(source, action, confirm) ==
    [assume |-> Called(source), rule |-> must_precede(confirm, action)]
token_budget(n) == AtMost(<<"token_count", "total">>, n)
arg_value_range(key, least, most) ==
    G(And({Ge(Var(key), Const(least)), Le(Var(key), Const(most))}))
max_length(words, n) == AtMost(words, n)
no_pii(key) == G(Not(Atom(key)))
no_keywords(key) == G(Not(Atom(key)))
delegation_depth_limit(n) == AtMost(<<"delegation_depth">>, n)
ctx_required(tool, key, values) ==
    Whenever(Called(tool), Or({Atom(<<"ctx", key, w>>) : w \in values}))
ctx_matches_required(tool, key, w) ==
    Whenever(Called(tool), Atom(<<"ctx_matches", key, w>>))
time_since(key, n) == AtMost(<<"time_since", key>>, n)
approval_active(action, role, n) ==
    Whenever(Called(action),
             And({Atom(<<"ctx_matches", "approval.role", role>>),
                  Atom(<<"ctx_matches", "approval.decision", "allow">>),
                  Le(Var(<<"time_since", <<"ctx", "approval.role", role>>>>),
                     Const(n))}))
claim_requires_evidence(p) ==
    Whenever(Atom(<<"claim_emitted", p>>), Atom(<<"evidence_verdict", p, "PASS">>))
underdetermined_must_clarify(p) ==
    Whenever(Atom(<<"evidence_verdict", p, "UNDERDETERMINED">>),
             Atom(<<"evidence_action", p, "clarify">>))
=============================================================================
