----------------------------- MODULE LiveGuards -----------------------------
(***************************************************************************)
(* LiveGuards of sponsio/daemon/guard_service.py: guards kept between the  *)
(* calls of a conversation instead of being rebuilt from its history, with *)
(* the calls that use them (evaluate, sponsio/guard_stdin.py).             *)
(*                                                                         *)
(* One conversation is modelled, with one cache key per bucket: a changed  *)
(* library or mode is another key, which finds nothing, as after Evict.    *)
(* The daemon holds the conversation's lock through evaluate, commit and   *)
(* the recording of an output, so one call is under way at a time; what    *)
(* does not take that lock (a rules reload, eviction, the TTL) may fall    *)
(* between any two of its steps.                                           *)
(*                                                                         *)
(* Abstractions.  A guard is the trace its monitor holds and the prefix of *)
(* it the verifier has grounded; a decision reads the grounded trace.      *)
(* What the rules say is left out: each call may be decided either way.    *)
(* The log is TraceStore's: here a write succeeds or raises.               *)
(***************************************************************************)
EXTENDS Conversation

CONSTANTS
    Reads,      \* buckets whose library has an atom that reads outputs
    None,       \* no guard; no entry
    Logged,     \* conversations a start may have loaded from a log
    MaxSeq,     \* bound: no call is numbered MaxSeq or above
    MaxGen      \* bound: at most MaxGen conversations come and go

\* What load makes of any log: numbers in the order of the list, the counter
\* after the last of them, and each output on the call it was attached to
\* (AdmissionOrder and AttachesSound of TraceStore).
Loadable(m) ==
    /\ \A i, j \in DOMAIN m.events : i < j => m.events[i].seq < m.events[j].seq
    /\ m.nextSeq = IF m.events = <<>> THEN 0 ELSE m.events[Len(m.events)].seq + 1
    /\ \A k \in DOMAIN m.attaches :
          /\ m.attaches[k].at \in DOMAIN m.events
          /\ m.events[m.attaches[k].at].content = m.attaches[k].content

ASSUME ReadsAssumption == Reads \subseteq Bucket
ASSUME LoggedAssumption == Logged \subseteq Memory /\ \A m \in Logged : Loadable(m)

\* An event as a guard holds it: ts is the store's seq, or the length of
\* the guard's trace for the one it admitted itself.
Held == [ts : Nat, tool : Tool, content : Output \cup {NoOutput}]

Guard == [trace : Seq(Held), ground : Seq(Held)]

Revision == [gen : Nat, events : Nat, attaches : Nat]

\* The position in the trace of each stored event, by its index.
Positions == Seq(Nat \ {0})

\* _Live: a guard, what it was synced to, and where each stored event is.
Live == [guard : Guard, rev : Revision, positions : Positions]

ASSUME NoneAssumption == None \notin Live

VARIABLES
    conv,       \* the conversation
    known,      \* it exists
    idle,       \* its last activity is older than the TTL
    gen,        \* its generation, the latest given out
    cache,      \* _idle: the guard of each bucket
    pc,         \* where the call under way is
    call,       \* its bucket, tool, guard, and what it has read so far
    busy,       \* the _busy entry of its key
    pending     \* calls the gateway has decided and not yet committed

store == <<conv, known, idle, gen>>
vars == <<conv, known, idle, gen, cache, pc, call, busy, pending>>

----------------------------------------------------------------------------
(* The store, as a reader finds it: an expired conversation is dropped.    *)

Expired == known /\ idle
Found == known /\ ~idle

Access ==
    /\ known' = Found
    /\ conv' = IF Expired THEN NewConversation ELSE conv
    /\ idle' = (idle /\ ~Expired)
    /\ UNCHANGED gen

\* append that finds m: a conversation is created if there is none.
Written(m) ==
    /\ conv' = m
    /\ known' = TRUE
    /\ idle' = FALSE
    /\ gen' = IF Found THEN gen ELSE gen + 1

Current == IF Found THEN conv ELSE NewConversation

Here == [gen |-> gen, events |-> Len(conv.events), attaches |-> Len(conv.attaches)]

Records(m) == [i \in DOMAIN m.events |->
                  [ts |-> m.events[i].seq, tool |-> m.events[i].tool,
                   content |-> m.events[i].content]]

----------------------------------------------------------------------------
(* The guard.                                                              *)

\* What grounding keeps of an event: its output only where an atom reads it.
Mask(b, s) == IF b \in Reads THEN s
              ELSE [i \in DOMAIN s |-> [s[i] EXCEPT !.content = NoOutput]]

\* TraceVerifier.sync: the events after the grounded ones are grounded.
Grounded(b, g) ==
    g.ground \o Mask(b, SubSeq(g.trace, Len(g.ground) + 1, Len(g.trace)))

Built(m) == [trace |-> Records(m), ground |-> <<>>]

\* check_action numbers the call by the length of the trace.
Candidate(g, t) == [ts |-> Len(g.trace), tool |-> t, content |-> NoOutput]

\* The guard after a decision whose event stays in its trace.
Extended(b, g, t) ==
    LET s == Append(g.trace, Candidate(g, t))
    IN [trace |-> s, ground |-> Grounded(b, [g EXCEPT !.trace = s])]

\* The guard after a blocked call (rollback_last_event) or a probe.
RolledBack(b, g) == [g EXCEPT !.ground = Grounded(b, g)]

----------------------------------------------------------------------------
(* _sync: bring a cached guard up to the store.                            *)

\* changes_since: NoSuchRevision unless rev is a past state of the conversation.
IsPast(rev) ==
    /\ Found
    /\ rev.gen = gen
    /\ rev.events <= Len(conv.events)
    /\ rev.attaches <= Len(conv.attaches)

NewEvents(rev) == rev.events + 1 .. Len(conv.events)
NewAttaches(rev) == rev.attaches + 1 .. Len(conv.attaches)

Placed(l) ==
    [i \in DOMAIN l.positions \cup NewEvents(l.rev) |->
        IF i \in NewEvents(l.rev) THEN Len(l.guard.trace) + i - l.rev.events
                                  ELSE l.positions[i]]

Lengthened(l) ==
    l.guard.trace \o SubSeq(Records(conv), l.rev.events + 1, Len(conv.events))

\* No new event sorts before the one in front of it.
InOrder(s, n) == \A i \in n + 1 .. Len(s) : i > 1 => s[i - 1].ts <= s[i].ts

\* Each new output is put on the event it was attached to.
WithOutputs(s, rev, p) ==
    [i \in DOMAIN s |->
        LET here == {k \in NewAttaches(rev) : p[conv.attaches[k].at] = i}
        IN IF here = {} THEN s[i]
           ELSE [s[i] EXCEPT !.content =
                    conv.attaches[CHOOSE k \in here : \A j \in here : j <= k].content]]

CanSync(l) ==
    /\ IsPast(l.rev)
    /\ Len(l.guard.trace) = Len(l.positions)
    /\ InOrder(Lengthened(l), Len(l.guard.trace))
    /\ \A k \in NewAttaches(l.rev) : conv.attaches[k].at \in DOMAIN Placed(l)

\* Mutant for Regrounded: an output leaves the grounding alone.
RegroundedNever(b, l) == l.guard.ground

\* verifier.reset when an output arrived and the library reads outputs.
Regrounded(b, l) ==
    IF b \in Reads /\ NewAttaches(l.rev) # {} THEN <<>> ELSE l.guard.ground

Synced(b, l) ==
    [guard |-> [trace |-> WithOutputs(Lengthened(l), l.rev, Placed(l)),
                ground |-> Regrounded(b, l)],
     rev |-> Here,
     positions |-> Placed(l)]

----------------------------------------------------------------------------
(* evaluate, from the lookup of the guard to its return.                   *)

NoCall == [bucket |-> None]

Begin(b, t, g) ==
    call' = [bucket |-> b, tool |-> t, guard |-> g, context |-> FALSE, rev |-> None]

\* checkout.  A guard that cannot be synced is dropped, and one is built.
Checkout(b, t) ==
    LET l == cache[b]
    IN /\ pc = "free"
       /\ cache' = [cache EXCEPT ![b] = None]
       /\ IF l = None THEN UNCHANGED store ELSE Access
       /\ IF l # None /\ CanSync(l)
          THEN LET s == Synced(b, l)
               IN /\ Begin(b, t, s.guard)
                  /\ busy' = [rev |-> s.rev, positions |-> s.positions]
                  /\ pc' = "decide"
          ELSE /\ Begin(b, t, Built(NewConversation))
               /\ busy' = None
               /\ pc' = "build"
       /\ UNCHANGED pending

\* _session_guard on a miss: a new guard over the stored history.
Build ==
    /\ pc = "build"
    /\ Access
    /\ call' = [call EXCEPT !.guard = Built(Current)]
    /\ pc' = "decide"
    /\ UNCHANGED <<cache, busy, pending>>

\* guard_before admits the call.  A context payload also put an event in
\* the guard's trace that the store never records.
DecideAllowed ==
    /\ pc = "decide"
    /\ \E context \in BOOLEAN :
          call' = [call EXCEPT !.guard = Extended(call.bucket, call.guard, call.tool),
                               !.context = context]
    /\ pc' = "append"
    /\ UNCHANGED <<store, cache, busy, pending>>

\* It blocks the call, or answers filter_tools: the event is rolled back.
\* A call observe mode redirects is refused and stays in the guard's trace.
DecideDenied ==
    /\ pc = "decide"
    /\ \E context \in BOOLEAN,
          g \in {RolledBack(call.bucket, call.guard),
                 Extended(call.bucket, call.guard, call.tool)} :
          call' = [call EXCEPT !.guard = g, !.context = context]
    /\ pc' = "return"
    /\ UNCHANGED <<store, cache, busy, pending>>

Discard(b) == cache' = [cache EXCEPT ![b] = None] /\ busy' = None

\* It raises, or admits a call the gateway will commit once it ran.
DecideDiscarding ==
    /\ pc = "decide"
    /\ Discard(call.bucket)
    /\ \E admitted \in {{}, {[bucket |-> call.bucket, tool |-> call.tool]}} :
          pending' = pending \cup admitted
    /\ call' = NoCall
    /\ pc' = "free"
    /\ UNCHANGED store

\* traces.append.  A log write that raises is reported, the call is allowed
\* all the same, and a conversation made for it stays, empty.
AppendCall ==
    /\ pc = "append"
    /\ Current.nextSeq < MaxSeq
    /\ Found \/ gen < MaxGen
    /\ \E m \in {WithEvent(Current, call.bucket, call.tool, Current.nextSeq, NoOutput),
                Current} : Written(m)
    /\ pc' = "return"
    /\ UNCHANGED <<cache, call, busy, pending>>

\* Mutants for Advance: the number the guard gave the call is not compared
\* with the one before; the position of the stored call is not kept.
AdvanceUnordered(t, b) ==
    IF /\ b.rev.gen = gen
       /\ b.rev.attaches = Len(conv.attaches)
       /\ \/ /\ Len(conv.events) = b.rev.events + 1
             /\ Len(t) = Len(b.positions) + 1
          \/ /\ Len(conv.events) = b.rev.events
             /\ Len(t) = Len(b.positions)
    THEN {[i \in 1 .. Len(conv.events) |->
              IF i = b.rev.events + 1 THEN Len(t) ELSE b.positions[i]]}
    ELSE {}

AdvanceForgetting(t, b) ==
    IF /\ b.rev.gen = gen
       /\ b.rev.attaches = Len(conv.attaches)
       /\ Len(conv.events) \in {b.rev.events, b.rev.events + 1}
       /\ Len(t) - Len(b.positions) = Len(conv.events) - b.rev.events
    THEN {b.positions}
    ELSE {}

\* _advance: the positions once the decision is accounted for: one event
\* more in store and trace, or none.  Empty when the guard must go.
Advance(t, b) ==
    IF /\ b.rev.gen = gen
       /\ b.rev.attaches = Len(conv.attaches)
       /\ \/ /\ Len(conv.events) = b.rev.events + 1
             /\ Len(t) = Len(b.positions) + 1
             /\ Len(t) >= 2 => t[Len(t) - 1].ts < t[Len(t)].ts
          \/ /\ Len(conv.events) = b.rev.events
             /\ Len(t) = Len(b.positions)
    THEN {[i \in 1 .. Len(conv.events) |->
              IF i = b.rev.events + 1 THEN Len(t) ELSE b.positions[i]]}
    ELSE {}

Keep(g, rev, p) ==
    cache' = [cache EXCEPT ![call.bucket] = [guard |-> g, rev |-> rev, positions |-> p]]

Finish ==
    /\ call' = NoCall
    /\ pc' = "free"

\* A guard whose trace got a context event is not kept.
ReturnContext ==
    /\ pc = "return"
    /\ call.context
    /\ Discard(call.bucket)
    /\ Finish
    /\ UNCHANGED <<store, pending>>

\* checkin, when the conversation is gone.
ReturnGone ==
    /\ pc = "return"
    /\ ~call.context
    /\ ~Found
    /\ Access
    /\ busy' = None
    /\ Finish
    /\ UNCHANGED <<cache, pending>>

\* checkin of a guard that came from the cache.
ReturnReused ==
    /\ pc = "return"
    /\ ~call.context
    /\ Found
    /\ busy # None
    /\ LET P == Advance(call.guard.trace, busy)
       IN \/ \E p \in P : Keep(call.guard, Here, p)
          \/ P = {} /\ UNCHANGED cache
    /\ busy' = None
    /\ Finish
    /\ UNCHANGED <<store, pending>>

\* checkin of a new guard: the revision is read first, the records next.
ReturnNew ==
    /\ pc = "return"
    /\ ~call.context
    /\ Found
    /\ busy = None
    /\ call' = [call EXCEPT !.rev = Here]
    /\ pc' = "adopt"
    /\ UNCHANGED <<store, cache, busy, pending>>

\* _fresh compares tool and number (the event type too), not the content.
SameEvents(s, r) ==
    /\ Len(s) = Len(r)
    /\ \A i \in DOMAIN s : s[i].ts = r[i].ts /\ s[i].tool = r[i].tool

Adopt ==
    /\ pc = "adopt"
    /\ Access
    /\ IF SameEvents(call.guard.trace, Records(Current))
       THEN Keep(call.guard, call.rev, [i \in DOMAIN Current.events |-> i])
       ELSE UNCHANGED cache
    /\ Finish
    /\ UNCHANGED <<busy, pending>>

----------------------------------------------------------------------------
(* What else happens to the conversation and the cache.                    *)

\* GuardService.commit, after the gateway's call ran.
Commit(b, t) ==
    /\ pc = "free"
    /\ [bucket |-> b, tool |-> t] \in pending
    /\ Current.nextSeq < MaxSeq
    /\ Found \/ gen < MaxGen
    /\ Written(WithEvent(Current, b, t, Current.nextSeq, NoOutput))
    /\ pending' = pending \ {[bucket |-> b, tool |-> t]}
    /\ UNCHANGED <<cache, pc, call, busy>>

\* attach_output on a call that waits for one; its write may raise, which
\* leaves the same in memory.
Attach(b, t, o) ==
    /\ pc = "free"
    /\ Found
    /\ conv' = ApplyAttach(conv, b, t, o)
    /\ conv' # conv
    /\ UNCHANGED <<known, idle, gen, cache, pc, call, busy, pending>>

\* An output for a conversation that expired: it is dropped.
AttachGone ==
    /\ pc = "free"
    /\ Expired
    /\ Access
    /\ UNCHANGED <<cache, pc, call, busy, pending>>

GoIdle ==
    /\ known
    /\ ~idle
    /\ idle' = TRUE
    /\ UNCHANGED <<conv, known, gen, cache, pc, call, busy, pending>>

\* The least recently used guard makes room for another conversation's.
Evict(b) ==
    /\ cache[b] # None
    /\ cache' = [cache EXCEPT ![b] = None]
    /\ UNCHANGED <<store, pc, call, busy, pending>>

\* clear, by `sponsio rules reload`, busy guards included.
Clear ==
    /\ cache' = [b \in Bucket |-> None]
    /\ busy' = None
    /\ UNCHANGED <<store, pc, call, pending>>

----------------------------------------------------------------------------
\* The daemon starts with what load restored from the log.
Init ==
    /\ conv \in Logged
    /\ known = (conv.events # <<>>)
    /\ idle = FALSE
    /\ gen = IF known THEN 1 ELSE 0
    /\ cache = [b \in Bucket |-> None]
    /\ pc = "free"
    /\ call = NoCall
    /\ busy = None
    /\ pending = {}

Next ==
    \/ \E b \in Bucket, t \in Tool : Checkout(b, t) \/ Commit(b, t)
    \/ Build
    \/ DecideAllowed \/ DecideDenied \/ DecideDiscarding
    \/ AppendCall
    \/ ReturnContext \/ ReturnGone \/ ReturnReused \/ ReturnNew \/ Adopt
    \/ \E b \in Bucket, t \in Tool, o \in Output : Attach(b, t, o)
    \/ AttachGone
    \/ GoIdle
    \/ \E b \in Bucket : Evict(b)
    \/ Clear

Spec == Init /\ [][Next]_vars

----------------------------------------------------------------------------
(* Properties.                                                             *)

TypeOK ==
    /\ conv \in Memory
    /\ known \in BOOLEAN
    /\ idle \in BOOLEAN
    /\ gen \in Nat
    /\ cache \in [Bucket -> Live \cup {None}]
    /\ pc \in {"free", "build", "decide", "append", "return", "adopt"}
    /\ call \in {NoCall} \cup [bucket : Bucket, tool : Tool, guard : Guard,
                               context : BOOLEAN, rev : Revision \cup {None}]
    /\ (call = NoCall) <=> (pc = "free")
    /\ busy \in [rev : Revision, positions : Positions] \cup {None}
    /\ pending \subseteq [bucket : Bucket, tool : Tool]

\* "The reused guard must decide exactly as a rebuilt one would" (docstring
\* of LiveGuards): when a call is decided, the grounded trace its guard
\* decides it by is the one a guard built from the store would have,
\* whatever calls of other buckets, outputs, expiry, failed writes, reloads
\* and evictions came between.
ReusedAsRebuilt ==
    pc = "decide" =>
        Grounded(call.bucket, call.guard) = Grounded(call.bucket, Built(conv))

\* A guard is dropped for one reason, that its conversation was: every other
\* test in _sync is a precaution no history makes fail, so a check in a
\* conversation that goes on never pays for the history again.
DroppedOnlyWithConversation ==
    \A b \in Bucket :
        cache[b] # None /\ Found /\ cache[b].rev.gen = gen => CanSync(cache[b])

\* A kept guard is what a guard built at its revision would be by now: the
\* calls stored then, in order, with the outputs attached by then.
OutputAt(i, rev) ==
    IF \E k \in NewAttaches(rev) : conv.attaches[k].at = i
    THEN NoOutput ELSE conv.events[i].content

AsOf(rev) ==
    [i \in 1 .. rev.events |->
        [ts |-> conv.events[i].seq, tool |-> conv.events[i].tool,
         content |-> OutputAt(i, rev)]]

KeptIsPast ==
    \A b \in Bucket :
        cache[b] # None /\ known /\ cache[b].rev.gen = gen =>
            LET l == cache[b]
            IN /\ l.rev.events <= Len(conv.events)
               /\ l.rev.attaches <= Len(conv.attaches)
               /\ l.positions = [i \in 1 .. l.rev.events |-> i]
               /\ l.guard.trace = AsOf(l.rev)
               /\ l.guard.ground =
                    Mask(b, SubSeq(AsOf(l.rev), 1, Len(l.guard.ground)))
=============================================================================
