----------------------------- MODULE Grounding ------------------------------
(* What the trace says: sponsio/tracer/grounding.py turns each event into  *)
(* a valuation, carrying what accumulates from event to event in a state   *)
(* of its own, so that a long trace is not read again for every check.     *)
(*                                                                         *)
(* Regular expressions over arguments, outputs and responses are decided   *)
(* by the environment: an event carries the set of content keys that match *)
(* it.  A pattern over a context value is a name, searched for anywhere in *)
(* the value, as re.search does: Finds says which others a value has in it.*)
EXTENDS Formulas

CONSTANTS Aliases,   \* tool -> the names it answers to, its own among them
          Perms,     \* agent -> the permissions its contract gives it
          Finds      \* context value -> the names of others found inside it

\* Nothing is found inside the empty value.
ASSUME FindsAssumption == "" \notin DOMAIN Finds

ASSUME AliasesAssumption == \A t \in DOMAIN Aliases : t \in Aliases[t]

\* An event.  ts is its position: the runtime numbers events by the length
\* of the trace they are appended to.
Blank == [type |-> "other", agent |-> "", tool |-> "", content |-> {},
          output |-> {}, numbers |-> <<>>, key |-> "", contains |-> {},
          internal |-> FALSE, to |-> "", facts |-> <<>>, tokens |-> 0]

\* The predicates that grounding derives, and no content gives.
Derived == {"called", "called_any", "contains", "flow", "perm", "ctx", "ctx_matches",
            "current_agent"}

\* The names an event is a call of.
CalledAs(e) ==
    IF e.type = "tool_call" /\ e.tool # "" THEN Aliases[e.tool] ELSE {}

\* What an event of each kind carries: facts only a context update, fields
\* only a write, the match of a call's arguments only that call, and nothing
\* that is for grounding to derive or to count.
Carries(e) ==
    /\ DOMAIN e = DOMAIN Blank
    /\ e.tool \in {""} \cup DOMAIN Aliases
    /\ e.tokens \in Nat
    /\ \A k \in DOMAIN e.numbers : k[1] \notin Cumulative /\ e.numbers[k] \in Int
    /\ \A k \in e.content \cup e.output : k[1] \notin Derived
    /\ \A k \in e.content : k[1] = "called_with" =>
           k = <<"called_with", k[2], k[3]>> /\ k[2] \in CalledAs(e)
    /\ \A k \in e.output : k[1] # "called_with"
    /\ e.type = "context_update" \/ DOMAIN e.facts = {}
    /\ e.type = "data_write" \/ e.contains = {}

\* A sentinel later than every event: what never happened is long ago.
Never == 1000

Get(f, x, default) == IF x \in DOMAIN f THEN f[x] ELSE default
Constantly(S, value) == [x \in S |-> value]

\* f, and g where f is not defined.
f ++ g == [x \in DOMAIN f \cup DOMAIN g |-> IF x \in DOMAIN f THEN f[x] ELSE g[x]]

Plus(f, S, start, n) == [x \in S |-> Get(f, x, start) + n] ++ f

Fresh == [calls |-> <<>>, matches |-> <<>>, runs |-> <<>>, last |-> {},
          writers |-> <<>>, kept |-> {}, ctx |-> <<>>, tokens |-> <<>>,
          depth |-> 0, since |-> <<>>, held |-> {}]

\* Mutant for Runs: another tool's call does not end a run.
RunsOn(s, names) == IF names = {} THEN s.runs ELSE Plus(s.runs, names, 0, 1)

\* The calls in a row under each name: a call that shares a name with the
\* one before continues its run, any other ends it.
Runs(s, names) ==
    IF names = {} THEN s.runs
    ELSE IF names \cap s.last # {} THEN Plus(s.runs, names, 1, 1)
    ELSE Constantly(names, 1) ++ Constantly(s.last, 0) ++ s.runs

MatchedCalls(e) == {<<"count_with", k[2], k[3]>> :
                        k \in {c \in e.content : c[1] = "called_with"}}

Writers(s, e) ==
    IF e.type = "data_write" /\ ~e.internal
    THEN Constantly({e.key}, e.agent) ++ s.writers ELSE s.writers

Contained(e) == IF e.type = "data_write"
                THEN {<<"contains", f>> : f \in e.contains} ELSE {}

\* A message flows to its addressee, a read from whoever wrote the key last.
Flowed(s, e) ==
    IF e.type = "message" THEN {<<"flow", e.agent, e.to>>}
    ELSE IF e.type = "data_read" /\ e.key \in DOMAIN s.writers
            /\ s.writers[e.key] # e.agent
    THEN {<<"flow", s.writers[e.key], e.agent>>}
    ELSE {}

\* The names a search finds in a context value: its own, and those inside it.
Found(value) == {value} \cup Get(Finds, value, {})

Context(s, e) == IF e.type = "context_update" THEN e.facts ++ s.ctx ELSE s.ctx

\* The predicates that are true of event e, s being what was accumulated
\* with it.
Facts(s, e) ==
    {<<"called", a>> : a \in CalledAs(e)}
    \cup (IF CalledAs(e) # {} THEN {<<"called_any">>} ELSE {})
    \cup e.content \cup e.output \cup s.kept
    \cup {<<"perm", p>> : p \in Get(Perms, e.agent, {})}
    \cup {<<"ctx", k, s.ctx[k]>> : k \in DOMAIN s.ctx}
    \cup (UNION {{<<"ctx_matches", k, w>> : w \in Found(s.ctx[k])} : k \in DOMAIN s.ctx})
    \cup {<<"current_agent", e.agent>>}

\* The accumulators after event e at time ts.  since keeps when a predicate
\* last became true; one that merely stays true is not renewed.
Accumulated(s, e, ts) ==
    LET names == CalledAs(e)
        t == [s EXCEPT
               !.runs = Runs(s, names),
               !.last = IF names = {} THEN s.last ELSE names,
               !.calls = Plus(s.calls, names, 0, 1),
               !.matches = Plus(s.matches, MatchedCalls(e), 0, 1),
               !.writers = Writers(s, e),
               !.kept = s.kept \cup Contained(e) \cup Flowed(s, e),
               !.ctx = Context(s, e),
               !.tokens = IF e.tokens = 0 THEN s.tokens
                          ELSE Plus(s.tokens, {"total"}, 0, e.tokens),
               !.depth = IF e.type = "message" THEN s.depth + 1 ELSE s.depth]
        now == Facts(t, e)
    IN  [t EXCEPT !.since = Constantly(now \ s.held, ts) ++ s.since,
                  !.held = now]

Keyed(name, f) == [k \in {<<name, x>> : x \in DOMAIN f} |-> f[k[2]]]

\* The valuation of event e at time ts, s being what was accumulated with
\* it, and timed the predicates whose age some rule asks for.
ValuationAt(s, e, ts, timed) ==
    Valuation(s.held,
        [k \in {<<"time_since", p>> : p \in timed} |->
            IF k[2] \in DOMAIN s.since THEN ts - s.since[k[2]] ELSE Never]
        ++ Keyed("count", s.calls) ++ s.matches
        ++ Keyed("token_count", s.tokens) ++ Keyed("consecutive_count", s.runs)
        ++ Constantly({<<"delegation_depth">>}, s.depth) ++ Constantly({<<"now">>}, ts)
        ++ e.numbers)

\* g after one more event.  It keeps the state from before that event.
Grounded(g, e, ts, timed) ==
    LET s == Accumulated(g.state, e, ts)
    IN  [g EXCEPT !.before = g.state, !.state = s,
                  !.vals = Append(@, ValuationAt(s, e, ts, timed))]

\* Grounding the events of trace after those g has valuations of.
GroundFrom(g, trace, timed) ==
    LET ground[i \in Len(g.vals) .. Len(trace)] ==
            IF i = Len(g.vals) THEN g
            ELSE Grounded(ground[i - 1], trace[i], i - 1, timed)
    IN  ground[Len(trace)]

NothingGrounded == [state |-> Fresh, before |-> Fresh, vals |-> <<>>]

Ground(trace, timed) == GroundFrom(NothingGrounded, trace, timed).vals
=============================================================================
