-------------------------- MODULE PatternMeanings ---------------------------
(* What the formula of each rule asks, and what the pattern reference      *)
(* (docs/reference/patterns.md) promises of it, both said of the events    *)
(* themselves: no predicates, no valuations, no temporal operators.  p is  *)
(* a rule as its author wrote it, a name and its arguments.                *)
EXTENDS Patterns, Grounding

Rule(name, a, b, n) == [name |-> name, a |-> a, b |-> b, n |-> n]

\* The formula a rule compiles to, and the one that gates it, if any.
Compiled(p) ==
    CASE p.name = "must_precede" -> must_precede(p.a, p.b)
      [] p.name = "must_confirm" -> must_confirm(p.b, p.a)
      [] p.name = "dry_run_before_commit" -> dry_run_before_commit(p.a, p.b)
      [] p.name = "backup_before_destructive" -> backup_before_destructive(p.a, p.b)
      [] p.name = "destructive_action_gate" -> destructive_action_gate(p.b, p.a, "approver")
      [] p.name = "confirm_after_source" -> confirm_after_source(p.a, p.b, "confirm").rule
      [] p.name = "untrusted_source_gate" -> untrusted_source_gate({p.a}, {p.b}).rule
      [] p.name = "workflow_step" -> workflow_step(Called(p.a), Called(p.b))
      [] p.name = "always_followed_by" -> always_followed_by(p.a, p.b)
      [] p.name = "audit_after" -> audit_after(p.a, p.b)
      [] p.name = "required_steps_completion" -> required_steps_completion(p.a, {p.b, "z"})
      [] p.name = "deadline" -> deadline(p.a, p.b, p.n)
      [] p.name = "no_reversal" -> no_reversal(p.a, p.b)
      [] p.name = "mutual_exclusion" -> mutual_exclusion(p.a, p.b)
      [] p.name = "segregation_of_duty" -> segregation_of_duty(p.a, p.b)
      [] p.name = "sanitized_before_sink" -> sanitized_before_sink(p.a, "z", p.b)
      [] p.name = "approval_freshness" -> approval_freshness(p.a, p.b, p.n)
      [] p.name = "cooldown" -> cooldown(p.a, p.n)
      [] p.name = "rate_limit" -> rate_limit(p.a, p.n)
      [] p.name = "bounded_retry" -> bounded_retry(p.a, p.n)
      [] p.name = "idempotent" -> idempotent(p.a)
      [] p.name = "irreversible_once" -> irreversible_once(p.a)
      [] p.name = "loop_detection" -> loop_detection(p.a, p.n)
      [] p.name = "duplicate_call_limit" -> duplicate_call_limit(p.a, p.b, p.n)
      [] p.name = "dangerous_bash_commands" -> dangerous_bash_commands({p.b})
      [] p.name = "dangerous_sql_verbs" -> dangerous_sql_verbs(p.a, {<<p.b>>})
      [] p.name = "arg_blacklist" -> arg_blacklist(p.a, {<<p.b>>})
      [] p.name = "arg_allowlist" -> arg_allowlist(p.a, {<<p.b>>})
      [] p.name = "scope_limit" -> scope_limit(p.a, <<p.b>>)
      [] p.name = "arg_length_limit" -> arg_length_limit(p.a, <<p.b>>)
      [] p.name = "arg_value_range" -> arg_value_range(<<p.b>>, p.n, p.n + 1)
      [] p.name = "data_intact" -> data_intact(<<p.a>>, <<p.b>>)
      [] p.name = "no_pii" -> no_pii(<<p.a>>)
      [] p.name = "no_keywords" -> no_keywords(<<p.a>>)
      [] p.name = "max_length" -> max_length(<<p.a>>, p.n)
      [] p.name = "token_budget" -> token_budget(p.n)
      [] p.name = "delegation_depth_limit" -> delegation_depth_limit(p.n)
      [] p.name = "tool_allowlist" -> tool_allowlist({p.a, p.b})
      [] p.name = "redirect_to_safe" -> redirect_to_safe(p.a)
      [] p.name = "requires_permission" -> requires_permission(p.a, p.b)
      [] p.name = "no_data_leak" -> no_data_leak(p.a, p.b)
      [] p.name = "ctx_required" -> ctx_required(p.a, "caller", {p.b})
      [] p.name = "ctx_matches_required" -> ctx_matches_required(p.a, "caller", p.b)
      [] p.name = "time_since" -> time_since(<<"called", p.a>>, p.n)
      [] p.name = "approval_active" -> approval_active(p.a, p.b, p.n)
      [] p.name = "claim_requires_evidence" -> claim_requires_evidence(p.a)
      [] p.name = "underdetermined_must_clarify" -> underdetermined_must_clarify(p.a)

PatternNames ==
    {"must_precede", "must_confirm", "dry_run_before_commit",
     "backup_before_destructive", "destructive_action_gate", "confirm_after_source",
     "untrusted_source_gate", "workflow_step", "always_followed_by", "audit_after",
     "required_steps_completion", "deadline", "no_reversal", "mutual_exclusion",
     "segregation_of_duty", "sanitized_before_sink", "approval_freshness",
     "cooldown", "rate_limit", "bounded_retry", "idempotent", "irreversible_once",
     "loop_detection", "duplicate_call_limit", "dangerous_bash_commands",
     "dangerous_sql_verbs", "arg_blacklist", "arg_allowlist", "scope_limit",
     "arg_length_limit", "arg_value_range", "data_intact", "no_pii", "no_keywords",
     "max_length", "token_budget", "delegation_depth_limit", "tool_allowlist",
     "redirect_to_safe", "requires_permission", "no_data_leak", "ctx_required",
     "ctx_matches_required", "time_since", "approval_active",
     "claim_requires_evidence", "underdetermined_must_clarify"}

Liveness == {"always_followed_by", "audit_after", "required_steps_completion"}

\* Positions of the calls of a tool, and of the events with a content key.
Calls(trace, t) == {i \in DOMAIN trace : t \in CalledAs(trace[i])}
With(trace, key) == {i \in DOMAIN trace :
                        key \in trace[i].content \cup trace[i].output}

\* Every position in S has one of T among the n before it, or anywhere before.
Preceded(S, T) == \A i \in S : \E j \in T : j < i
Within(S, T, n) == \A i \in S : \E j \in T : j < i /\ i - j <= n
\* ... after it, or the next one.
Followed(S, T) == \A i \in S : \E j \in T : j >= i
Next1(trace, S, T) == \A i \in S : i = Len(trace) \/ i + 1 \in T
Answered(trace, S, T, n) ==
    \A i \in S : i + n > Len(trace) \/ \E j \in T : i < j /\ j <= i + n
Apart(S, n) == \A i, j \in S : i < j => j - i > n
\* Between one of S and a later one of T there is one of M.
Cleared(S, M, T) ==
    \A i \in S, k \in T : i < k => \E j \in M : i < j /\ j < k
\* Once there was one of S, one of T needs one of M since the first of S.
Gated(S, T, M) ==
    \A k \in T : (\E i \in S : i < k) => \E i \in S, j \in M : i < j /\ j < k

\* The calls in a row of a tool up to position i: other events in between do
\* not break the row.
RowOf(trace, t, i) ==
    LET others == {k \in DOMAIN trace :
                      CalledAs(trace[k]) # {} /\ t \notin CalledAs(trace[k])}
    IN  {j \in Calls(trace, t) : j <= i /\ \A k \in others : k < j \/ k > i}

InARow(trace, t, i) == Cardinality(RowOf(trace, t, i))

Sum(trace) == LET sum[i \in 0 .. Len(trace)] ==
                      IF i = 0 THEN 0 ELSE sum[i - 1] + trace[i].tokens
              IN  sum[Len(trace)]

OfType(trace, type) == {i \in DOMAIN trace : trace[i].type = type}

\* The value a context key was given last before position i, "" for none.
Said(trace, key, i) ==
    LET at == {j \in OfType(trace, "context_update") :
                  j <= i /\ key \in DOMAIN trace[j].facts}
    IN  IF at = {} THEN ""
        ELSE trace[CHOOSE j \in at : \A k \in at : k <= j].facts[key]

\* Who wrote a key last before position i, "" for nobody.
WriterOf(trace, key, i) ==
    LET at == {j \in OfType(trace, "data_write") :
                  j < i /\ trace[j].key = key /\ ~trace[j].internal}
    IN  IF at = {} THEN ""
        ELSE trace[CHOOSE j \in at : \A k \in at : k <= j].agent

Flows(trace, from, to) ==
    {i \in OfType(trace, "message") : trace[i].agent = from /\ trace[i].to = to}
    \cup {i \in OfType(trace, "data_read") :
             trace[i].agent = to /\ from # to
             /\ WriterOf(trace, trace[i].key, i) = from}

\* Messages each of which is sent by whom the one before was sent to.
Relay(trace, S) ==
    \A i, j \in S : i < j /\ (\A k \in S : k <= i \/ k >= j)
                      => trace[i].to = trace[j].agent

Holders(trace, perm) ==
    {i \in DOMAIN trace : perm \in Get(Perms, trace[i].agent, {})}

\* What the formula of a rule asks of the events.
Asked(p, trace) ==
    LET a == Calls(trace, p.a)
        b == Calls(trace, p.b)
        z == Calls(trace, "z")
    IN CASE p.name \in {"must_precede", "must_confirm", "dry_run_before_commit",
                        "backup_before_destructive"} -> Preceded(b, a)
         [] p.name = "destructive_action_gate" ->
                Preceded(b, a \cap Holders(trace, "approver"))
         [] p.name = "confirm_after_source" ->
                Gated(a, b, Calls(trace, "confirm"))
         [] p.name = "untrusted_source_gate" ->
                Gated(a, b, Calls(trace, "confirm_reconfirmed"))
         [] p.name = "workflow_step" -> Next1(trace, a, b)
         [] p.name \in {"always_followed_by", "audit_after"} -> Followed(a, b)
         [] p.name = "required_steps_completion" -> Followed(a, b) /\ Followed(a, z)
         [] p.name = "deadline" -> Answered(trace, a, b, p.n)
         [] p.name = "no_reversal" -> \A i \in a, j \in b : j < i
         [] p.name \in {"mutual_exclusion", "segregation_of_duty"} -> a = {} \/ b = {}
         [] p.name = "sanitized_before_sink" -> Cleared(a, z, b)
         [] p.name = "approval_freshness" -> Within(b, a, p.n)
         [] p.name = "cooldown" -> Apart(a, p.n)
         [] p.name \in {"rate_limit", "bounded_retry"} -> Cardinality(a) <= p.n
         [] p.name \in {"idempotent", "irreversible_once"} -> Cardinality(a) <= 1
         [] p.name = "loop_detection" -> \A i \in DOMAIN trace : InARow(trace, p.a, i) <= p.n
         [] p.name = "duplicate_call_limit" ->
                Cardinality(a \cap With(trace, <<"called_with", p.a, p.b>>)) <= p.n
         [] p.name = "dangerous_bash_commands" ->
                With(trace, <<"called_with", "bash", p.b>>) = {}
         [] p.name \in {"arg_blacklist", "dangerous_sql_verbs", "arg_length_limit"} ->
                a \cap With(trace, <<p.b>>) = {}
         [] p.name \in {"arg_allowlist", "scope_limit"} -> a \subseteq With(trace, <<p.b>>)
         [] p.name = "arg_value_range" ->
                \A i \in DOMAIN trace : <<p.b>> \in DOMAIN trace[i].numbers =>
                    trace[i].numbers[<<p.b>>] \in p.n .. p.n + 1
         [] p.name = "data_intact" -> With(trace, <<p.a>>) \subseteq With(trace, <<p.b>>)
         [] p.name \in {"no_pii", "no_keywords"} -> With(trace, <<p.a>>) = {}
         [] p.name = "max_length" ->
                \A i \in DOMAIN trace : Get(trace[i].numbers, <<p.a>>, 0) <= p.n
         [] p.name = "token_budget" -> Sum(trace) <= p.n
         [] p.name = "delegation_depth_limit" ->
                Cardinality(OfType(trace, "message")) <= p.n
         [] p.name = "tool_allowlist" ->
                \A i \in DOMAIN trace : CalledAs(trace[i]) # {} => i \in a \cup b
         [] p.name = "redirect_to_safe" -> a = {}
         [] p.name = "requires_permission" -> a \subseteq Holders(trace, p.b)
         [] p.name = "no_data_leak" ->
                \/ \A i \in DOMAIN trace : p.a \notin trace[i].contains
                \/ Flows(trace, p.a, p.b) = {}
         [] p.name = "ctx_required" -> \A i \in a : Said(trace, "caller", i) = p.b
         [] p.name = "ctx_matches_required" ->
                \A i \in a : p.b \in Found(Said(trace, "caller", i))
         [] p.name = "time_since" -> 
                \A i \in DOMAIN trace : \E j \in a : j <= i /\ i - j <= p.n
         [] p.name = "approval_active" ->
                \A i \in a :
                    /\ "allow" \in Found(Said(trace, "approval.decision", i))
                    /\ p.b \in Found(Said(trace, "approval.role", i))
                    /\ \E j \in OfType(trace, "context_update") :
                           /\ j < i /\ i - j <= p.n
                           /\ Get(trace[j].facts, "approval.role", "") = p.b
         [] p.name = "claim_requires_evidence" ->
                With(trace, <<"claim_emitted", p.a>>)
                    \subseteq With(trace, <<"evidence_verdict", p.a, "PASS">>)
         [] p.name = "underdetermined_must_clarify" ->
                With(trace, <<"evidence_verdict", p.a, "UNDERDETERMINED">>)
                    \subseteq With(trace, <<"evidence_action", p.a, "clarify">>)

\* Where formula and reference differ.  A second occurrence inside the window
\* of the first does not extend it.
Unrenewed == {"approval_freshness", "approval_active", "time_since"}

\* The formula asks more than the words.
Stricter == {"approval_freshness", "time_since", "destructive_action_gate",
             "segregation_of_duty", "bounded_retry", "loop_detection",
             "delegation_depth_limit"}

\* The formula asks less.
Looser == {"no_data_leak", "untrusted_source_gate", "confirm_after_source"}

\* The formula asks something else: that the steps follow the gate, where the
\* reference has them completed before it; that a command uses allowed paths
\* only, where the reference has a field immutable once written; that the
\* role and the decision said last have the names somewhere in them, where
\* the reference has that role approve the action.
Unlike == {"required_steps_completion", "data_intact", "approval_active"}

\* What the reference says of a rule that is not in Unlike.
Meant(p, trace) ==
    LET a == Calls(trace, p.a)
        b == Calls(trace, p.b)
    IN CASE p.name = "destructive_action_gate" -> Preceded(b, a)
         [] p.name = "segregation_of_duty" ->
                \A i \in a, j \in b : trace[i].agent # trace[j].agent
         [] p.name = "bounded_retry" -> Cardinality(a) <= p.n + 1
         [] p.name = "loop_detection" ->
                \A i \in DOMAIN trace :
                    Cardinality({j \in RowOf(trace, p.a, i) :
                                    trace[j].content = trace[i].content}) <= p.n
         [] p.name = "delegation_depth_limit" ->
                \A S \in SUBSET OfType(trace, "message") :
                    Relay(trace, S) => Cardinality(S) <= p.n
         [] p.name = "no_data_leak" -> Flows(trace, p.a, p.b) = {}
         [] p.name = "untrusted_source_gate" ->
                Cleared(a, Calls(trace, "confirm_reconfirmed"), b)
         [] p.name = "confirm_after_source" -> Cleared(a, Calls(trace, "confirm"), b)
         [] OTHER -> Asked(p, trace)
=============================================================================
