---------------------------- MODULE GuardProperties --------------------------
(* What the guard owes its host, said with the reference evaluator over a  *)
(* trace grounded from its first event: nothing the incremental verifier   *)
(* keeps is used to judge it.                                              *)
EXTENDS Guard, PatternMeanings

\* A deployment that is not about one pattern.
NoRule == [name |-> "none"]

ValsOf(events) == Ground(events, Timed)

\* Are a contract's assumptions met on these valuations, and where are its
\* rules evaluated from?
Met(c, vals) ==
    \A i \in DOMAIN c.assumptions :
        LET a == c.assumptions[i]
        IN  IF c.reactive THEN \E k \in DOMAIN vals : Evaluate(Trigger(a), vals, k)
            ELSE Evaluate(a, vals, 1)

First(f, vals) == CHOOSE k \in DOMAIN vals :
                      /\ Evaluate(f, vals, k)
                      /\ \A j \in 1 .. k - 1 : ~Evaluate(f, vals, j)

From(c, vals) ==
    IF c.reactive /\ c.assumptions # <<>>
    THEN LET firsts == {First(f, vals) : f \in Triggers(c)}
         IN  CHOOSE k \in firsts : \A j \in firsts : j <= k
    ELSE 1

Enforced(c, probe) == probe \/ Effective(c) # "observe"
Blocking(c) == {r \in c.rules : r.strategy = "blocked" /\ ~r.obligation}

\* Rule r of contract c, applicable now, held on the events before the last.
HeldBefore(c, r, now) ==
    LET n == Len(now)
        pos == From(c, now)
    IN  pos >= n \/ Evaluate(r.formula, SubSeq(now, 1, n - 1), pos)

Breaks(c, r, now) == Met(c, now) /\ ~Evaluate(r.formula, now, From(c, now))

\* A reactive rule that looks at other positions, or limits a number, is not
\* covered: whether the last event broke it is asked of the whole trace, not
\* of the part since it was activated.
Judged(c, r) == \/ ~c.reactive
                \/ r.formula.op # "G"
                \/ ~Temporal(r.formula.of) /\ AggregatesOf(r.formula) = {}

\* Rules on numbers that fall again are left out where the guard takes any
\* change of the number for a new violation.
Falls(r) == \E k \in AggregatesOf(r.formula) :
                k[1] \in {"consecutive_count", "time_since"}

CallsChecked == call = NoCall /\ call' # NoCall

\* The variables keep their shapes, and no progression has read an event that
\* is not in the trace any more.
TypeOK ==
    /\ mode \in {"enforce", "observe"}
    /\ Len(trace) <= book.maxTrace
    /\ rotating \subseteq Thread
    /\ call = NoCall \/ call.by \in Thread
    /\ finished \in BOOLEAN
    /\ pending \subseteq UNION {Owed(c) : c \in Contracts}
    /\ overlapped \in BOOLEAN
    /\ \A k \in DOMAIN verifier.progs : verifier.progs[k].upto <= Len(trace)

\* What the incremental verifier keeps is what the reference evaluator says:
\* its valuations are those of the trace, each progression answers as its
\* formula does on the positions it has seen (one that has seen none is not
\* asked), each scan stopped at the first position its trigger held at,
\* through every rollback, output, wipe and resynchronisation.
CachesAgree ==
    LET n == Len(verifier.vals)
    IN  /\ n <= Len(trace)
        /\ verifier.vals = SubSeq(ValsOf(trace), 1, n)
        /\ \A k \in DOMAIN verifier.progs :
               LET p == verifier.progs[k]
               IN  p.upto >= k[2] =>
                       (HoldsAtEnd(p.residual)
                        <=> Evaluate(k[1], SubSeq(verifier.vals, 1, p.upto), k[2]))
        /\ \A t \in DOMAIN verifier.found :
               LET e == verifier.found[t]
                   at == {i \in 1 .. n : Evaluate(t, verifier.vals, i)}
               IN  IF e.at = 0 THEN at \cap 1 .. e.upto = {}
                   ELSE e.at \in at /\ \A i \in at : e.at <= i

\* A call that is let through breaks no enforced blocking rule that applied
\* and held before it.
AdmittedKeepsRules ==
    [][CallsChecked /\ "blocked" \notin call'.results =>
        LET now == ValsOf(trace')
        IN  \A c \in Contracts : \A r \in Blocking(c) :
                /\ Enforced(c, call'.probe)
                /\ Judged(c, r)
                /\ Met(c, now)
                /\ HeldBefore(c, r, now)
                => ~Breaks(c, r, now)]_vars

\* "An action should only be denied for what it did": a refused call broke a
\* rule that held before it, or its own event is one the rule forbids.
BlockedHasCause ==
    [][CallsChecked /\ "blocked" \in call'.results =>
        LET now == ValsOf(trace')
        IN  \E c \in Contracts : \E r \in Blocking(c) :
                /\ Enforced(c, call'.probe)
                /\ Breaks(c, r, now)
                /\ \/ HeldBefore(c, r, now)
                   \/ r.formula.op = "G" /\ ~Evaluate(r.formula.of, now, Len(now))
                   \/ Falls(r)]_vars

\* Between calls the trace is the history: every event admitted or observed,
\* in order, and nothing of a refused call or of a probe.
HistoryIsAdmitted == LockFree /\ ~overlapped => trace = admitted

\* The reports at a session's end are exactly the obligations unmet on the
\* whole trace, of the contracts whose assumptions hold on it.
ReportsAllPending ==
    [][finished' /\ ~finished =>
        LET now == ValsOf(trace)
        IN  pending' = UNION {{r \in Owed(c) : Breaks(c, r, now)} : c \in Contracts}]_vars

\* Every call that shares a name with a call of t is a call of t.
Uniform(events, t) ==
    \A i, j \in DOMAIN events :
        /\ t \in CalledAs(events[i])
        /\ CalledAs(events[i]) \cap CalledAs(events[j]) # {}
        => t \in CalledAs(events[j])

\* The numbers and facts grounding accumulates are those of the history
\* itself: how often a tool was called, how often in a row, what a context
\* key was set to last, who wrote what reached whom, how long ago.
GroundedIsHistory ==
    \A n \in {Len(verifier.vals)} \cap DOMAIN trace :
        LET v == verifier.vals[n]
            events == SubSeq(trace, 1, n)
            agents == (UNION {{events[i].agent, events[i].to} : i \in 1 .. n}) \ {""}
            names == UNION {CalledAs(events[i]) : i \in 1 .. n}
        IN  /\ \A t \in names :
                   v.num[<<"count", t>>] = Cardinality(Calls(events, t))
            /\ \A t \in names : Uniform(events, t) =>
                   v.num[<<"consecutive_count", t>>] = InARow(events, t, n)
            /\ v.num[<<"delegation_depth">>] = Cardinality(OfType(events, "message"))
            /\ Get(v.num, <<"token_count", "total">>, 0) = Sum(events)
            /\ \A x, y \in agents :
                   <<"flow", x, y>> \in v.true <=> Flows(events, x, y) # {}
            /\ \A k \in UNION {DOMAIN events[i].facts : i \in 1 .. n} :
                   /\ <<"ctx", k, Said(events, k, n)>> \in v.true
                   /\ \A w \in Found(Said(events, k, n)) : <<"ctx_matches", k, w>> \in v.true

\* A rule by its author's name asks, of any history the guard can have, what
\* its formula is to ask of the events, and that is what the pattern
\* reference says of it, or more, or less, where PatternMeanings says so.
PatternMeaning ==
    LET rule == book.rule
        now == ValsOf(trace)
        holds == \A c \in Contracts : Met(c, now) =>
                     \A r \in c.rules : Evaluate(r.formula, now, From(c, now))
    IN  rule # NoRule =>
            /\ holds => Asked(rule, trace)
            /\ Asked(rule, trace) /\ rule.name \notin Unrenewed => holds
            /\ holds /\ rule.name \notin Looser \cup Unlike => Meant(rule, trace)
            /\ Meant(rule, trace) /\ rule.name \notin Stricter \cup Unlike => holds

----------------------------------------------------------------------------
(* What a theorem takes for granted of the deployments.                    *)

\* No tool answers to both names; and none that shares a name with a tool
\* that answers to x does not.
Distinct(x, y) == \A t \in DOMAIN Aliases : x \notin Aliases[t] \/ y \notin Aliases[t]
Alone(x) ==
    \A t, u \in DOMAIN Aliases :
        x \in Aliases[t] /\ Aliases[t] \cap Aliases[u] # {} => x \in Aliases[u]

\* What the words of a rule take for granted of its arguments.  A range has
\* to allow 0, since an event without the number counts as one with 0.
Sensible(p) ==
    /\ p.n \in Nat
    /\ p.name \in {"must_precede", "must_confirm", "dry_run_before_commit",
                  "backup_before_destructive", "destructive_action_gate",
                  "approval_freshness", "confirm_after_source",
                  "untrusted_source_gate"} => Distinct(p.a, p.b)
    /\ p.name = "confirm_after_source" =>
           Distinct(p.a, "confirm") /\ Distinct("confirm", p.b)
    /\ p.name = "untrusted_source_gate" =>
           Distinct(p.a, "confirm_reconfirmed") /\ Distinct("confirm_reconfirmed", p.b)
    /\ p.name = "sanitized_before_sink" => Distinct("z", p.b)
    /\ p.name \in {"deadline", "cooldown"} => p.n # 0
    /\ p.name \in {"time_since", "approval_active"} => p.n < Never
    /\ p.name = "loop_detection" => Alone(p.a)
    /\ p.name \in {"arg_blacklist", "dangerous_sql_verbs", "arg_length_limit",
                  "arg_allowlist", "scope_limit", "data_intact"} => p.b \notin Derived
    /\ p.name \in {"data_intact", "no_pii", "no_keywords"} => p.a \notin Derived
    /\ p.name = "max_length" => p.a \notin Cumulative \cup {"now"}
    /\ p.name = "arg_value_range" => p.b \notin Cumulative \cup {"now"} /\ p.n = 0
    /\ p.name \in {"ctx_required", "ctx_matches_required", "approval_active"} => p.b # ""
    /\ p.name = "no_data_leak" => p.a # ""

\* A rule of the library, alone in its deployment.
OnePattern(b) ==
    \E c \in b.contracts : \E r \in c.rules :
        /\ b.contracts = {c} /\ c.rules = {r}
        /\ b.rule.name \in PatternNames
        /\ r.formula = Compiled(b.rule)
        /\ Sensible(b.rule)
        /\ IF b.rule.name \in {"confirm_after_source", "untrusted_source_gate"}
           THEN c.reactive /\ c.assumptions = <<Called(b.rule.a)>>
           ELSE c.assumptions = <<>>

OfPatterns(books) ==
    \A name \in DOMAIN books : books[name].rule # NoRule => OnePattern(books[name])

\* A limit on a number that only grows, and such limits and nothing else.
Growing(k) ==
    \/ k = <<"delegation_depth">>
    \/ k[1] \in {"count", "token_count"} /\ k = <<k[1], k[2]>>
    \/ k[1] = "count_with"

Limit(f) ==
    /\ f.op = "le" /\ f.left.term = "var" /\ f.right.term = "const"
    /\ f.right.n \in Int /\ Growing(f.left.key)
    /\ f = Le(Var(f.left.key), Const(f.right.n))

Cap(f) ==
    \/ Limit(f)
    \/ /\ f.op = "and"
       /\ f = And(f.parts)
       /\ \A p \in f.parts : Limit(p)

\* Blocking invariants that limit a number that only grows limit such numbers
\* and nothing else: one that has other conditions too can be moved by an
\* event that these let pass.
LimitsStandAlone(books) ==
    \A name \in DOMAIN books : \A c \in books[name].contracts : \A r \in Blocking(c) :
        r.formula.op = "G" => \/ AggregatesOf(r.formula) = {} \/ Falls(r)
                              \/ Cap(r.formula.of)
=============================================================================
