------------------------------- MODULE Guard --------------------------------
(* The guard an agent's host embeds: sponsio/runtime/monitor.py, which     *)
(* appends each event to the trace, checks every contract and decides what *)
(* breaking a rule does, under integrations/base.py, which rolls a refused *)
(* call back, ends sessions and rotates them.                              *)
(*                                                                         *)
(* A call is checked under the guard's lock, but what is observed (a read, *)
(* a write, a message, a context fact, a response, an output) takes only   *)
(* the monitor's: it can land between the check of a call and its          *)
(* rollback.  overlapped records that it did.                              *)
(*                                                                         *)
(* A deployment, kept in book, is its contracts, the calls the agent       *)
(* tries, the events and the outputs the host observes, the trace it       *)
(* imported, the modes it runs in, its threads, and maxTrace, a bound on   *)
(* the events of its trace.                                                *)
EXTENDS Verifier

CONSTANTS Thread, Books   \* the deployments, by name

ASSUME ThreadAssumption == "nobody" \notin Thread

ASSUME BooksAssumption ==
    \A name \in DOMAIN Books :
        LET b == Books[name]
        IN  /\ b.modes \subseteq {"enforce", "observe"}
            /\ b.maxTrace \in Nat
            /\ b.history \in Seq({b.history[i] : i \in DOMAIN b.history})
            /\ Len(b.history) <= b.maxTrace

ASSUME EventsAssumption ==
    \A name \in DOMAIN Books :
        LET b == Books[name]
        IN  /\ \A e \in b.calls \cup b.seen : Carries(e)
            /\ \A i \in DOMAIN b.history : Carries(b.history[i])
            /\ \A out \in b.outputs : \A k \in out.keys :
                   k[1] \notin Derived \cup {"called_with"}

VARIABLES book,        \* the deployment
          mode,        \* the guard's mode, "enforce" or "observe"
          trace, verifier,
          call,        \* the call between its check and its settling
          rotating,    \* threads between a rotation's two steps
          finished, pending,
          admitted,    \* history: the events that should be in the trace
          overlapped   \* history: an observation landed before a rollback

vars == <<book, mode, trace, verifier, call, rotating, finished, pending,
          admitted, overlapped>>

NoCall == [by |-> "nobody"]

Contracts == book.contracts

FormulasOf(c) == {c.assumptions[i] : i \in DOMAIN c.assumptions}
                 \cup {r.formula : r \in c.rules}

\* The predicates whose age some rule of the deployment asks for.
Timed == {k[2] : k \in {key \in UNION {AggregatesOf(f) :
                             f \in UNION {FormulasOf(c) : c \in Contracts}} :
                         key[1] = "time_since"}}

\* A contract's own mode overrides the guard's.
Effective(c) == IF c.mode = "" THEN mode ELSE c.mode

Owed(c) == {r \in c.rules : r.obligation}
Owing == {c \in Contracts : Owed(c) # {}}

\* What a contract's results turn into: only shadowed in observe mode, raw
\* for a probe.
Resulting(c, action, probe) ==
    IF ~probe /\ Effective(c) = "observe" THEN "observed" ELSE action

\* An assumption that fails is a notification; a rule that the event broke
\* does what its strategy does.
ResultsOf(v, c, probe) ==
    (IF AssumptionsMet(v, c) THEN {} ELSE {Resulting(c, "escalated", probe)})
    \cup {Resulting(c, r.strategy, probe) : r \in FreshlyBroken(v, c)}

Results(v, probe) == UNION {ResultsOf(v, c, probe) : c \in Contracts}
Unpaid(v) == UNION {Broken(v, c, TRUE) \cap Owed(c) : c \in Owing}

Undone(probe, results) ==
    \/ probe
    \/ mode # "observe" /\ results \cap {"blocked", "redirected"} # {}

Idle(t) == t \in book.threads /\ call.by # t /\ t \notin rotating
LockFree == call = NoCall
Room == Len(trace) < book.maxTrace

Init ==
    /\ \E name \in DOMAIN Books : book = Books[name]
    /\ mode \in book.modes
    /\ trace = book.history
    /\ verifier = NewVerifier
    /\ call = NoCall
    /\ rotating = {}
    /\ finished = FALSE
    /\ pending = {}
    /\ admitted = trace
    /\ overlapped = FALSE

\* The monitor appends the event and checks it, under its own lock.
Recorded(e) ==
    /\ Room
    /\ trace' = Append(trace, e)
    /\ \E v \in {Synced(verifier, trace', Timed)} :
           verifier' = Checked(v, Contracts, FALSE)

\* guard_before, and the dry run of filter_tools, up to the check.
Check(t, e, probe) ==
    /\ Idle(t)
    /\ LockFree
    /\ Recorded(e)
    /\ call' = [by |-> t, probe |-> probe, results |-> Results(verifier', probe)]
    /\ admitted' = IF Undone(probe, call'.results) THEN admitted
                   ELSE Append(admitted, e)
    /\ UNCHANGED <<book, mode, rotating, finished, pending, overlapped>>

\* Mutant for Settle: a redirected call stays in the trace.
SettleBlocked(t) ==
    /\ call.by = t
    /\ IF /\ trace # <<>>
          /\ \/ call.probe
             \/ mode # "observe" /\ "blocked" \in call.results
       THEN /\ trace' = SubSeq(trace, 1, Len(trace) - 1)
            /\ verifier' = RolledBack(verifier)
       ELSE UNCHANGED <<trace, verifier>>
    /\ call' = NoCall
    /\ UNCHANGED <<book, mode, rotating, finished, pending, admitted, overlapped>>

\* The rest of it: whatever event is last by now is taken out again.
Settle(t) ==
    /\ call.by = t
    /\ IF Undone(call.probe, call.results) /\ trace # <<>>
       THEN /\ trace' = SubSeq(trace, 1, Len(trace) - 1)
            /\ verifier' = RolledBack(verifier)
       ELSE UNCHANGED <<trace, verifier>>
    /\ call' = NoCall
    /\ UNCHANGED <<book, mode, rotating, finished, pending, admitted, overlapped>>

\* Another thread changes the trace: before a rollback it can be the wrong
\* event that goes.
Overlapping ==
    overlapped' = \/ overlapped
                  \/ call # NoCall /\ Undone(call.probe, call.results)

\* observe_data_write, observe_data_read, observe_delegation,
\* observe_context, observe_llm_call: the results are reported, not enforced.
Observe(t, e) ==
    /\ Idle(t)
    /\ Recorded(e)
    /\ admitted' = Append(admitted, e)
    /\ Overlapping
    /\ UNCHANGED <<book, mode, call, rotating, finished, pending>>

Attached(events, out) ==
    LET at == {i \in DOMAIN events : /\ events[i].type = "tool_call"
                                     /\ events[i].tool = out.tool
                                     /\ events[i].agent = out.agent}
        last == CHOOSE i \in at : \A j \in at : j <= i
    IN  IF at = {} THEN events
        ELSE [events EXCEPT ![last].output = @ \cup out.keys]

\* An output is put on the tool's last call, without either lock.
ObserveOutput(t, out) ==
    /\ Idle(t)
    /\ trace # Attached(trace, out)
    /\ trace' = Attached(trace, out)
    /\ verifier' = NewVerifier
    /\ admitted' = Attached(admitted, out)
    /\ Overlapping
    /\ UNCHANGED <<book, mode, call, rotating, finished, pending>>

\* finish_session, once per window: obligations are decided at the end.
Finished ==
    /\ LockFree
    /\ IF finished THEN UNCHANGED <<verifier, pending>>
       ELSE /\ \E v \in {Synced(verifier, trace, Timed)} :
                   verifier' = Checked(v, Owing, TRUE)
            /\ pending' = Unpaid(verifier')
    /\ finished' = TRUE
    /\ UNCHANGED <<book, mode, trace, call, admitted, overlapped>>

Finish(t) == Idle(t) /\ ~finished /\ Finished /\ UNCHANGED rotating

\* rotate_session: the session is finished under the lock, which is let go
\* and taken again to wipe the window.
Rotate(t) == Idle(t) /\ Finished /\ rotating' = rotating \cup {t}

Wiped ==
    /\ trace' = <<>>
    /\ verifier' = NewVerifier
    /\ finished' = FALSE
    /\ pending' = {}
    /\ admitted' = <<>>
    /\ UNCHANGED <<book, mode, call>>

Wipe(t) == /\ t \in rotating
           /\ LockFree
           /\ Wiped
           /\ rotating' = rotating \ {t}
           /\ UNCHANGED overlapped

\* reset takes no lock of the guard's.
Reset(t) == Idle(t) /\ trace # <<>> /\ Wiped /\ Overlapping /\ UNCHANGED rotating

Next ==
    \E t \in Thread :
        \/ \E e \in book.calls, probe \in BOOLEAN : Check(t, e, probe)
        \/ Settle(t)
        \/ \E e \in book.seen : Observe(t, e)
        \/ \E out \in book.outputs : ObserveOutput(t, out)
        \/ Finish(t)
        \/ Rotate(t)
        \/ Wipe(t)
        \/ Reset(t)

Spec == Init /\ [][Next]_vars
=============================================================================
