------------------------------- MODULE MCGuard -------------------------------
(* Small deployments of the guard for TLC: one for each pattern, with two  *)
(* or three calls its agent may try, and some with contracts of other      *)
(* shapes, imported traces, contract modes and threads.                    *)
EXTENDS GuardProperties, Evaluators, TLC

MCAliases == [t \in {"a", "b", "z", "bash", "confirm", "confirm_reconfirmed"} |-> {t}]
             @@ ("mcp__x__a" :> {"mcp__x__a", "a"})

\* A longer name has a shorter one in it, and so has a decision.
MCFinds == ("non-vip" :> {"vip"}) @@ ("deputy boss" :> {"boss"})
           @@ ("disallow" :> {"allow"})

MCPerms == "me" :> {"approver", "write"}

Tool(t) == [Blank EXCEPT !.type = "tool_call", !.agent = "me", !.tool = t]
By(agent, e) == [e EXCEPT !.agent = agent]
Matching(t, keys) == [Tool(t) EXCEPT !.content = keys]
Context1(key, value) == [Blank EXCEPT !.type = "context_update", !.agent = "me",
                                      !.facts = key :> value]
Approval(role, decision) ==
    [Blank EXCEPT !.type = "context_update", !.agent = "me",
                  !.facts = ("approval.role" :> role) @@ ("approval.decision" :> decision)]
Write(by, key, fields) == [Blank EXCEPT !.type = "data_write", !.agent = by,
                                        !.key = key, !.contains = fields]
Read(key) == [Blank EXCEPT !.type = "data_read", !.agent = "me", !.key = key]
Message(to) == [Blank EXCEPT !.type = "message", !.agent = "me", !.to = to]
Response(tokens, keys, numbers) ==
    [Blank EXCEPT !.type = "llm_response", !.agent = "me", !.tokens = tokens,
                  !.content = keys, !.numbers = numbers]

\* A contract with no assumption, or with one that activates it.
Always(rules) == [assumptions |-> <<>>, rules |-> rules, reactive |-> FALSE, mode |-> ""]
After(f, rules) == [assumptions |-> <<f>>, rules |-> rules, reactive |-> TRUE, mode |-> ""]
Blocks(f) == [formula |-> f, obligation |-> FALSE, strategy |-> "blocked"]
Owes(f) == [formula |-> f, obligation |-> TRUE, strategy |-> "blocked"]

Book(contracts, calls, seen) ==
    [contracts |-> contracts, calls |-> calls, seen |-> seen, outputs |-> {},
     history |-> <<>>, modes |-> {"enforce", "observe"}, threads |-> {"t1"},
     rule |-> NoRule, maxTrace |-> 3]

RuleOf(p) == [formula |-> Compiled(p), obligation |-> p.name \in Liveness,
              strategy |-> IF p.name = "redirect_to_safe" THEN "redirected" ELSE "blocked"]

\* A deployment of one pattern.
Of(p, calls, seen) ==
    [Book({IF p.name \in {"confirm_after_source", "untrusted_source_gate"}
           THEN After(Called(p.a), {RuleOf(p)}) ELSE Always({RuleOf(p)})},
          calls, seen)
     EXCEPT !.rule = p]

ab == {Tool("a"), Tool("b")}
abz == ab \cup {Tool("z")}

\* The patterns over the order and the number of calls of two tools.
OrderBooks ==
    [n \in {"must_precede", "must_confirm", "dry_run_before_commit",
            "backup_before_destructive", "workflow_step", "always_followed_by",
            "audit_after", "required_steps_completion", "no_reversal",
            "mutual_exclusion", "sanitized_before_sink"}
        |-> Of(Rule(n, "a", "b", 0), abz, {})]
    @@ [n \in {"segregation_of_duty", "destructive_action_gate"}
        |-> Of(Rule(n, "a", "b", 0), abz, {By("other", Tool("a"))})]
    @@ [n \in {"approval_freshness", "cooldown", "deadline", "rate_limit",
               "bounded_retry", "idempotent", "irreversible_once"}
        |-> Of(Rule(n, "a", "b", 1), ab, {})]
    @@ [n \in {"time_since", "loop_detection"}
        |-> Of(Rule(n, "a", "b", 1),
               ab \cup {Tool("mcp__x__a"), Matching("a", {<<"p">>})}, {})]
    @@ [n \in {"tool_allowlist", "redirect_to_safe"}
        |-> Of(Rule(n, "a", "b", 0), abz, {Message("b")})]
    @@ ("confirm_after_source" :>
            Of(Rule("confirm_after_source", "a", "b", 0), ab \cup {Tool("confirm")}, {}))
    @@ ("untrusted_source_gate" :>
            Of(Rule("untrusted_source_gate", "a", "b", 0),
               ab \cup {Tool("confirm_reconfirmed")}, {}))

\* The patterns over arguments, responses and evidence.
ContentBooks ==
    [n \in {"arg_blacklist", "dangerous_sql_verbs", "arg_length_limit",
            "arg_allowlist", "scope_limit"}
        |-> Of(Rule(n, "a", "p", 0),
               {Tool("a"), Matching("a", {<<"p">>}), Tool("b"), Matching("b", {<<"p">>})}, {})]
    @@ ("duplicate_call_limit" :>
            Of(Rule("duplicate_call_limit", "a", "p", 1),
               {Tool("a"), Matching("a", {<<"called_with", "a", "p">>}), Tool("b")}, {}))
    @@ ("dangerous_bash_commands" :>
            Of(Rule("dangerous_bash_commands", "a", "p", 0),
               {Tool("bash"), Matching("bash", {<<"called_with", "bash", "p">>}),
                Tool("b")}, {}))
    @@ ("data_intact" :>
            Of(Rule("data_intact", "p", "q", 0),
               {Matching("a", {<<"p">>}), Matching("a", {<<"p">>, <<"q">>}), Tool("b")}, {}))
    @@ ("arg_value_range" :>
            Of(Rule("arg_value_range", "a", "p", 0),
               {[Tool("a") EXCEPT !.numbers = <<"p">> :> n] : n \in 1 .. 2}
               \cup {Tool("b")}, {}))
    @@ [n \in {"no_pii", "no_keywords"}
        |-> Of(Rule(n, "p", "", 0), {Tool("a")},
               {Response(0, {<<"p">>}, <<>>), Response(0, {}, <<>>)})]
    @@ ("max_length" :>
            Of(Rule("max_length", "p", "", 1), {Tool("a")},
               {Response(0, {}, <<"p">> :> n) : n \in 1 .. 2}))
    @@ [n \in {"claim_requires_evidence"}
        |-> Of(Rule(n, "p", "", 0), {Tool("a")},
               {Response(0, {<<"claim_emitted", "p">>}, <<>>),
                Response(0, {<<"claim_emitted", "p">>,
                             <<"evidence_verdict", "p", "PASS">>}, <<>>)})]
    @@ [n \in {"underdetermined_must_clarify"}
        |-> Of(Rule(n, "p", "", 0), {Tool("a")},
               {Response(0, {<<"evidence_verdict", "p", "UNDERDETERMINED">>}, <<>>),
                Response(0, {<<"evidence_verdict", "p", "UNDERDETERMINED">>,
                             <<"evidence_action", "p", "clarify">>}, <<>>)})]

\* The patterns over permissions, flows, context and counters.
StateBooks ==
    ("token_budget" :>
        Of(Rule("token_budget", "a", "", 2), {Tool("a")},
           {Response(n, {}, <<>>) : n \in 1 .. 2}))
    @@ ("delegation_depth_limit" :>
        Of(Rule("delegation_depth_limit", "a", "", 1), {Tool("a")},
           {Message("b"), By("b", Message("me"))}))
    @@ ("requires_permission" :>
        Of(Rule("requires_permission", "a", "admin", 0), ab, {}))
    @@ ("no_data_leak" :>
        [Of(Rule("no_data_leak", "other", "me", 0), {Tool("a")},
            {Write("me", "k", {"other"}), Read("k"), Message("other")})
         EXCEPT !.history = <<Write("other", "k", {})>>])
    @@ [n \in {"ctx_required", "ctx_matches_required"}
        |-> Of(Rule(n, "a", "vip", 0), ab,
               {Context1("caller", w) : w \in {"vip", "non-vip", "guest"}})]
    @@ ("approval_active" :>
        Of(Rule("approval_active", "a", "boss", 1), {Tool("a")},
           {Approval("boss", "allow"), Approval("deputy boss", "allow"),
            Approval("peer", "allow"), Approval("boss", "disallow"),
            Approval("boss", "deny")}))

\* Contracts of other shapes: an assumption that must come true, one about
\* the first event, a reactive one that owes an answer, a formula under a
\* formula, a redirection, a contract in a mode of its own, and calls another
\* thread observes.
OtherBooks ==
    ("eventually" :>
        Book({[assumptions |-> <<F(Called("a")), Not(Called("z"))>>,
               rules |-> {Blocks(must_precede("z", "b")), Owes(always_followed_by("a", "b"))},
               reactive |-> FALSE, mode |-> ""]}, abz, {}))
    @@ ("first" :>
        Book({[assumptions |-> <<AnyOf({"a", "b"})>>, rules |-> {Blocks(rate_limit("a", 1))},
               reactive |-> FALSE, mode |-> ""]}, abz, {}))
    @@ ("reactive" :>
        Book({After(F(Called("a")), {Blocks(rate_limit("b", 1)),
                                     Owes(always_followed_by("b", "z"))}),
              After(Atom(<<"ctx", "caller", "vip">>), {Blocks(must_precede("z", "b"))})},
             abz, {Context1("caller", "vip")}))
    @@ ("nested" :>
        Book({After(F(And({Called("b"), X(Called("a"))})), {Blocks(must_precede("z", "a"))}),
              Always({Blocks(Not(U(Called("a"), And({Called("b"), X(Called("z"))})))),
                      Blocks(G(Or({Not(Called("b")), X(X(Not(Called("z")))),
                                   F(Called("a"))})))})},
             abz, {}))
    @@ ("modes" :>
        Book({[Always({Blocks(idempotent("a"))}) EXCEPT !.mode = "observe"],
              Always({[Blocks(G(Not(Called("b")))) EXCEPT !.strategy = "redirected"],
                      [Blocks(rate_limit("z", 0)) EXCEPT !.strategy = "escalated"]})},
             abz, {}))
    @@ ("imported" :>
        [Book({Always({Blocks(rate_limit("a", 1)), Blocks(no_reversal("b", "z")),
                       Owes(always_followed_by("a", "b"))})}, abz, {})
         EXCEPT !.history = <<Tool("a"), Tool("a")>>])
    @@ ("outputs" :>
        [Book({Always({Blocks(G(Not(Atom(<<"said", "p">>)))), Blocks(rate_limit("a", 2)),
                       Owes(always_followed_by("a", "b"))})}, ab, {Message("b")})
         EXCEPT !.outputs = {[tool |-> "a", agent |-> "me", keys |-> {<<"said", "p">>}]},
                !.threads = {"t1", "t2"}])

MCThread == {"t1", "t2"}

\* Four events where a rule, or an assumption, needs them to be broken again
\* after it was met, three elsewhere.
Longer == {"approval_freshness", "sanitized_before_sink", "confirm_after_source",
           "untrusted_source_gate", "loop_detection", "nested", "imported", "gate"}

Bounded(books) ==
    [b \in DOMAIN books |-> [books[b] EXCEPT !.maxTrace = IF b \in Longer THEN 4 ELSE 3]]

MCBooks == Bounded(OrderBooks @@ ContentBooks @@ StateBooks @@ OtherBooks)

ASSUME DeploymentsAssumption == OfPatterns(MCBooks) /\ LimitsStandAlone(MCBooks)

\* The gate as its docstring says to write it.
MCGate == Bounded("gate" :>
    LET p == Rule("untrusted_source_gate", "a", "b", 0)
        gate == untrusted_source_gate({"a"}, {"b"})
    IN  [Book({[assumptions |-> <<gate.assume>>, rules |-> {Blocks(gate.rule)},
                reactive |-> FALSE, mode |-> ""]},
              {Tool("a"), Tool("b"), Tool("z"), Tool("confirm_reconfirmed")}, {})
         EXCEPT !.rule = p])

\* "After a source fires, the enforcement activates -> sinks require
\* confirm_reconfirmed first" (untrusted_source_gate): in a guard that
\* enforces, no sink was called after a source without a confirmation.
SinksAreGated ==
    LET sources == Calls(trace, "a")
        sinks == Calls(trace, "b")
    IN  mode = "enforce" /\ LockFree =>
            \A i \in sources, k \in sinks : i < k =>
                \E j \in Calls(trace, "confirm_reconfirmed") : j < k
=============================================================================
