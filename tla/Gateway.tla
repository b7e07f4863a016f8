------------------------------ MODULE Gateway ------------------------------
(***************************************************************************)
(* The MCP gateway: Gateway.call_tool and Upstream of                      *)
(* sponsio/daemon/gateway.py, for one configured server.                   *)
(*                                                                         *)
(* A caller is the thread of one gateway.call_tool.  It lists the server's *)
(* tools, decides the call under its session's lock, sends it upstream and *)
(* records it.  Callers share the server's process; a thread per process   *)
(* reads its replies; the file gateway.yaml may change, and whichever      *)
(* thread notices (here one of its own, as of a gateway.list_tools) stops  *)
(* the server that is replaced.                                            *)
(*                                                                         *)
(* Abstractions.  The tool list has one page and always holds the tool.    *)
(* What the rules say is left out: a call may be decided either way.       *)
(* Requests of the server (ping) and the output's PostToolUse are left     *)
(* out.                                                                    *)
(***************************************************************************)
EXTENDS Naturals, Sequences, FiniteSets

CONSTANTS
    Caller,     \* calls, one thread each
    Session,
    SessionOf,  \* the session of each call
    None,       \* no process, no server, no lock holder, no answer yet
    Gone,       \* the answer of a request whose process ended
    MaxUp,      \* bound: Upstream objects made for the server
    MaxProc     \* bound: processes started

ASSUME CallerAssumption == SessionOf \in [Caller -> Session]
ASSUME BoundAssumption == MaxUp \in Nat \ {0} /\ MaxProc \in Nat
ASSUME NoneAssumption == None \notin Nat \cup Caller

Up == 1 .. MaxUp
Kind == {"init", "list", "call"}

\* A request as it is pending, and as it is sent.
Request == [id : Nat, by : Caller]
Message == [id : Nat, by : Caller, kind : Kind]

\* A reply: a result, or a JSON-RPC error (the request was not run).
Reply == [id : Nat, by : Caller, ok : BOOLEAN]

\* An Upstream object: its process, the last id it gave, its requests, the
\* holders of its start and write locks, whether it has the tool list.
Object == [proc : Nat \cup {None}, nextId : Nat, pending : SUBSET Request,
           starter : Caller \cup {None}, writer : Caller \cup {None}, listed : BOOLEAN]

\* A process: its object, what the daemon has buffered for its input, what
\* is in its input pipe, the replies in its output pipe.
Process == [of : Up, alive : BOOLEAN, closed : BOOLEAN, reading : BOOLEAN,
            buffer : SUBSET Message, inbox : SUBSET Message, out : SUBSET Reply]

\* A caller: its object, what it wants of it ("list" or "call"), the
\* request under way, the process it was written to, and the end of the call.
Thread == [pc : {"inventory", "ensure", "send", "flush", "wait", "kill",
                 "decide", "lookup", "settle", "over"},
           up : Up \cup {None}, goal : {"list", "call"}, kind : Kind, id : Nat,
           to : Nat, answer : Reply \cup {None, Gone},
           outcome : {"none", "answered", "notRun", "unanswered", "raised"}]

VARIABLES
    up,         \* the object in _upstreams, None when the server was removed
    made,       \* objects made
    object,     \* the Upstream objects
    server,     \* the processes started, in order
    closing,    \* objects to close, and their processes to kill
    thread,     \* the callers
    session,    \* holder of each session's lock
    counted     \* calls in the history

\* ghosts: calls that ran; calls written to a process; the calls decided in
\* a call's session before it that its decision was made without.
VARIABLES ran, sent, missed

ghosts == <<ran, sent>>
history == <<session, counted, missed>>
gateway == <<up, made, closing, history>>
vars == <<gateway, object, server, thread, ghosts>>

----------------------------------------------------------------------------
(* A caller's state.                                                       *)

NewThread == [pc |-> "inventory", up |-> None, goal |-> "list", kind |-> "list", id |-> 0,
              to |-> 0, answer |-> None, outcome |-> "none"]

\* The call returns.
Over(t, outcome) == [NewThread EXCEPT !.pc = "over", !.goal = t.goal, !.outcome = outcome,
                                      !.to = IF outcome = "notRun" THEN t.to ELSE 0]

\* The server contributes no tools, or the call was certainly not run.
Failed(t) == IF t.goal = "list" THEN Over(t, "none")
                                ELSE [t EXCEPT !.pc = "settle", !.outcome = "notRun"]

\* The request is over: its answer is used or given up.
Used(t) == [t EXCEPT !.id = 0, !.answer = None, !.to = IF t.kind = "call" THEN @ ELSE 0]

\* Where a request that did not succeed leaves its caller.
Unsuccessful(t, outcome) ==
    CASE t.kind = "init" -> [Used(t) EXCEPT !.pc = "kill"]
      [] t.kind = "list" -> Failed(Used(t))
      [] t.kind = "call" -> [Used(t) EXCEPT !.pc = "settle", !.outcome = outcome]

Become(c, t) == thread' = [thread EXCEPT ![c] = t]

\* The object and the process that a caller uses.
Obj(c) == object[thread[c].up]
Proc(c) == Obj(c).proc

----------------------------------------------------------------------------
(* Requests: _request and _send.                                           *)

CallsIn(messages) == {m.by : m \in {n \in messages : n.kind = "call"}}

\* A process ends, with some of its requests run and not answered.
Ends(p) ==
    /\ server' = [server EXCEPT ![p].alive = FALSE, ![p].inbox = {}]
    /\ \E done \in SUBSET CallsIn(server[p].inbox) : ran' = ran \cup done

\* Mutant for NewId: an id is used again when its request is over.
FreeId(o) == CHOOSE i \in 1 .. Cardinality(o.pending) + 1 :
                 \A q \in o.pending : q.id # i

NewId(o) == o.nextId + 1

\* Object o with c's new request registered; c sends it next.
Registered(o, c) ==
    [o EXCEPT !.nextId = @ + 1, !.pending = @ \cup {[id |-> NewId(o), by |-> c]}]

Requesting(t, kind) ==
    [t EXCEPT !.pc = "send", !.kind = kind, !.id = NewId(object[t.up]), !.answer = None]

Unregistered(c) == [Obj(c) EXCEPT !.pending = {q \in @ : q.id # thread[c].id}]

\* _send reads the object's process now: it may be gone, or a later one.
Write(c) ==
    /\ thread[c].pc = "send"
    /\ Proc(c) # None
    /\ Obj(c).writer = None
    /\ ~server[Proc(c)].closed
    /\ server' = [server EXCEPT ![Proc(c)].buffer =
                    @ \cup {[id |-> thread[c].id, by |-> c, kind |-> thread[c].kind]}]
    /\ object' = [object EXCEPT ![thread[c].up].writer = c]
    /\ Become(c, [thread[c] EXCEPT !.pc = "flush", !.to = Proc(c)])
    /\ UNCHANGED <<gateway, ghosts>>

\* The server may never take it: no deadline ends the write.
Flush(c) ==
    LET p == thread[c].to
    IN /\ thread[c].pc = "flush"
       /\ server[p].alive
       /\ ~server[p].closed
       /\ server' = [server EXCEPT ![p].inbox = @ \cup server[p].buffer, ![p].buffer = {}]
       /\ sent' = sent \cup CallsIn(server[p].buffer)
       /\ object' = [object EXCEPT ![thread[c].up].writer = None]
       /\ Become(c, [thread[c] EXCEPT !.pc = "wait"])
       /\ UNCHANGED <<gateway, ran>>

\* Mutant for NotSent: a request that was not sent counts as unanswered.
NotSentUnsure(c) == Unsuccessful(thread[c], "unanswered")

\* _send raised: NotRun.
NotSent(c) == Unsuccessful(thread[c], "notRun")

WriteFails(c) ==
    /\ thread[c].pc = "send"
    /\ Proc(c) # None => Obj(c).writer = None /\ server[Proc(c)].closed
    /\ object' = [object EXCEPT ![thread[c].up] = Unregistered(c)]
    /\ Become(c, NotSent(c))
    /\ UNCHANGED <<gateway, server, ghosts>>

\* The pipe is broken, or close() closed the file under the write.
FlushFails(c) ==
    LET p == thread[c].to
    IN /\ thread[c].pc = "flush"
       /\ ~server[p].alive \/ server[p].closed
       /\ server' = [server EXCEPT ![p].buffer = {}]
       /\ object' = [object EXCEPT ![thread[c].up] = [Unregistered(c) EXCEPT !.writer = None]]
       /\ Become(c, NotSent(c))
       /\ UNCHANGED <<gateway, ghosts>>

\* timeout_s passed, or the reader ended ("`server` exited").
Unanswered(c) ==
    /\ thread[c].pc = "wait"
    /\ thread[c].answer \in {None, Gone}
    /\ object' = [object EXCEPT ![thread[c].up] = Unregistered(c)]
    /\ Become(c, Unsuccessful(thread[c], "unanswered"))
    /\ UNCHANGED <<gateway, server, ghosts>>

Answered(c, kind) ==
    /\ thread[c].pc = "wait"
    /\ thread[c].kind = kind
    /\ thread[c].answer \notin {None, Gone}

\* A JSON-RPC error: NotRun.
CallRejected(c) ==
    /\ Answered(c, "call")
    /\ ~thread[c].answer.ok
    /\ Become(c, Unsuccessful(thread[c], "notRun"))
    /\ UNCHANGED <<gateway, object, server, ghosts>>

CallAnswered(c) ==
    /\ Answered(c, "call")
    /\ thread[c].answer.ok
    /\ Become(c, [Used(thread[c]) EXCEPT !.pc = "settle", !.outcome = "answered"])
    /\ UNCHANGED <<gateway, object, server, ghosts>>

Listed(c) ==
    /\ Answered(c, "list")
    /\ object' = [object EXCEPT ![thread[c].up].listed = TRUE]
    /\ Become(c, [Used(thread[c]) EXCEPT !.pc = "decide"])
    /\ UNCHANGED <<gateway, server, ghosts>>

----------------------------------------------------------------------------
(* _ensure and _start.                                                     *)

\* tools() or call() goes on with a live process.
Proceed(c, o, t) ==
    IF t.goal = "list" /\ o.listed
    THEN Become(c, [t EXCEPT !.pc = "decide"]) /\ object' = [object EXCEPT ![t.up] = o]
    ELSE Become(c, Requesting(t, t.goal)) /\ object' = [object EXCEPT ![t.up] = Registered(o, c)]

Alive(o) == o.proc # None /\ server[o.proc].alive

Ensuring(c) == thread[c].pc = "ensure" /\ Obj(c).starter = None

EnsureAlive(c) ==
    /\ Ensuring(c)
    /\ Alive(Obj(c))
    /\ Proceed(c, Obj(c), thread[c])
    /\ UNCHANGED <<gateway, server, ghosts>>

Start(c) ==
    /\ Ensuring(c)
    /\ ~Alive(Obj(c))
    /\ Len(server) < MaxProc
    /\ server' = Append(server, [of |-> thread[c].up, alive |-> TRUE, closed |-> FALSE,
                                 reading |-> TRUE, buffer |-> {}, inbox |-> {}, out |-> {}])
    /\ object' = [object EXCEPT ![thread[c].up] =
                    [Registered(@, c) EXCEPT !.proc = Len(server'), !.listed = FALSE,
                                             !.starter = c]]
    /\ Become(c, Requesting(thread[c], "init"))
    /\ UNCHANGED <<gateway, ghosts>>

\* Popen raised.
StartFails(c) ==
    /\ Ensuring(c)
    /\ ~Alive(Obj(c))
    /\ object' = [object EXCEPT ![thread[c].up].listed = FALSE]
    /\ Become(c, Failed(thread[c]))
    /\ UNCHANGED <<gateway, server, ghosts>>

\* initialize was answered: the process is told so, by a write that may
\* block like any other, and the lock released.
Initialized(c) ==
    /\ Answered(c, "init")
    /\ Obj(c).writer = None
    /\ server[Proc(c)].alive
    /\ Proceed(c, [Obj(c) EXCEPT !.starter = None], Used(thread[c]))
    /\ UNCHANGED <<gateway, server, ghosts>>

\* It ended before it was told.
NotifyFails(c) ==
    /\ Answered(c, "init")
    /\ Obj(c).writer = None
    /\ ~server[Proc(c)].alive
    /\ Become(c, Unsuccessful(thread[c], "unanswered"))
    /\ UNCHANGED <<gateway, object, server, ghosts>>

\* Mutant for Unstarted: the start lock is not released.
StillStarting(o) == o

Unstarted(o) == [o EXCEPT !.starter = None]

\* The handshake failed: the process is killed, and _ensure raises.
KillStarted(c) ==
    /\ thread[c].pc = "kill"
    /\ Ends(Proc(c))
    /\ object' = [object EXCEPT ![thread[c].up] = Unstarted(@)]
    /\ Become(c, Failed(thread[c]))
    /\ UNCHANGED <<gateway, sent>>

----------------------------------------------------------------------------
(* call_tool.                                                              *)

\* inventory: a server that was removed has no tools.
Inventory(c) ==
    /\ thread[c].pc = "inventory"
    /\ Become(c, IF up = None THEN Over(thread[c], "none")
                              ELSE [thread[c] EXCEPT !.up = up, !.pc = "ensure"])
    /\ UNCHANGED <<gateway, object, server, ghosts>>

CallsOf(s) == {c \in Caller : SessionOf[c] = s}

\* The rules admit the call on the history as it is.
Decided(c) ==
    LET calls == CallsOf(SessionOf[c])
    IN /\ thread[c].pc = "decide"
       /\ missed' = [missed EXCEPT ![c] = {d \in calls : thread[d].goal = "call"} \ counted]
       /\ Become(c, [thread[c] EXCEPT !.pc = "lookup", !.goal = "call"])
       /\ UNCHANGED <<up, made, object, server, closing, counted, ghosts>>

\* Mutant for Admit: the session's lock is not taken.
AdmitAtOnce(c) == Decided(c) /\ UNCHANGED session

\* decide(record=False), under the session's lock.
Admit(c) ==
    /\ session[SessionOf[c]] = None
    /\ session' = [session EXCEPT ![SessionOf[c]] = c]
    /\ Decided(c)

Refuse(c) ==
    /\ thread[c].pc = "decide"
    /\ session[SessionOf[c]] = None
    /\ Become(c, Over(thread[c], "none"))
    /\ UNCHANGED <<gateway, object, server, ghosts>>

\* upstreams()[server], read again: it may be another object, or none.
Lookup(c) ==
    /\ thread[c].pc = "lookup"
    /\ Become(c, IF up = None THEN Failed(thread[c])
                              ELSE [thread[c] EXCEPT !.up = up, !.pc = "ensure"])
    /\ UNCHANGED <<gateway, object, server, ghosts>>

\* commit, for a call that ran or may have.  Its log write may raise, and
\* call_tool with it.
Settle(c) ==
    LET outcome == thread[c].outcome
    IN /\ thread[c].pc = "settle"
       /\ \/ /\ outcome = "notRun"
             /\ Become(c, Over(thread[c], outcome))
             /\ UNCHANGED counted
          \/ /\ outcome \in {"answered", "unanswered"}
             /\ Become(c, Over(thread[c], outcome))
             /\ counted' = counted \cup {c}
          \/ /\ outcome \in {"answered", "unanswered"}
             /\ Become(c, Over(thread[c], "raised"))
             /\ UNCHANGED counted
       /\ session' = [s \in Session |-> IF session[s] = c THEN None ELSE session[s]]
       /\ UNCHANGED <<up, made, object, server, closing, missed, ghosts>>

----------------------------------------------------------------------------
(* The thread that reads a process's output.                               *)

\* These pending requests get the answer, and are pending no more.
Answer(u, requests, answer) ==
    /\ object' = [object EXCEPT ![u].pending = @ \ requests]
    /\ thread' = [c \in Caller |-> IF \E q \in requests : q.by = c
                                  THEN [thread[c] EXCEPT !.answer = answer] ELSE thread[c]]

ReadReply(p) ==
    /\ server[p].reading
    /\ \E r \in server[p].out :
          /\ server' = [server EXCEPT ![p].out = @ \ {r}]
          /\ Answer(server[p].of, {q \in object[server[p].of].pending : q.id = r.id}, r)
    /\ UNCHANGED <<gateway, ghosts>>

\* The process ended: nothing pending on its object will be answered.
ReadEnd(p) ==
    /\ server[p].reading
    /\ ~server[p].alive
    /\ server[p].out = {}
    /\ server' = [server EXCEPT ![p].reading = FALSE]
    /\ Answer(server[p].of, object[server[p].of].pending, Gone)
    /\ UNCHANGED <<gateway, ghosts>>

\* notifications/tools/list_changed.
ListChanged(p) ==
    /\ server[p].reading
    /\ object[server[p].of].listed
    /\ object' = [object EXCEPT ![server[p].of].listed = FALSE]
    /\ UNCHANGED <<gateway, server, thread, ghosts>>

----------------------------------------------------------------------------
(* The server and gateway.yaml.                                            *)

\* The server answers a request it has run; or it answers a call with a
\* JSON-RPC error and does not run it.  A reply it never writes is one that
\* is never read; a start or a listing it rejects ends like a timed-out one.
ServerAnswers(p) ==
    \E m \in server[p].inbox, ok \in BOOLEAN :
        /\ server[p].alive
        /\ ~ok => m.kind = "call"
        /\ ran' = IF ok THEN ran \cup CallsIn({m}) ELSE ran
        /\ server' = [server EXCEPT ![p].inbox = @ \ {m},
                                    ![p].out = @ \cup {[id |-> m.id, by |-> m.by, ok |-> ok]}]
        /\ UNCHANGED <<gateway, object, thread, sent>>

ServerExits(p) ==
    /\ server[p].alive
    /\ Ends(p)
    /\ UNCHANGED <<gateway, object, thread, sent>>

\* upstreams() sees another entry for the server, or none.
Reconfigure ==
    /\ made < MaxUp
    /\ up # None
    /\ \/ up' = made + 1 /\ made' = made + 1
       \/ up' = None /\ UNCHANGED made
    /\ closing' = [closing EXCEPT !.objects = @ \cup {up}]
    /\ UNCHANGED <<history, object, server, thread, ghosts>>

\* Mutant for Close: that it was never started is not checked.
CloseUnstarted(u) ==
    /\ u \in closing.objects
    /\ object[u].starter = None
    /\ object' = [object EXCEPT ![u].proc = None]
    /\ closing' = [closing EXCEPT !.objects = @ \ {u}, !.kills = @ \cup {object[u].proc}]
    /\ UNCHANGED <<up, made, history, server, thread, ghosts>>

\* close() takes the process under the start lock and closes its input
\* without the write lock, which flushes what another thread has buffered,
Close(u) ==
    LET p == object[u].proc
    IN /\ u \in closing.objects
       /\ object[u].starter = None
       /\ object' = [object EXCEPT ![u].proc = None]
       /\ \/ /\ p = None
             /\ closing' = [closing EXCEPT !.objects = @ \ {u}]
             /\ UNCHANGED <<server, sent>>
          \/ /\ p # None
             /\ closing' = [closing EXCEPT !.objects = @ \ {u}, !.kills = @ \cup {p}]
             /\ LET out == IF server[p].alive THEN server[p].buffer ELSE {}
                IN /\ server' = [server EXCEPT ![p].closed = TRUE, ![p].buffer = {},
                                               ![p].inbox = @ \cup out]
                   /\ sent' = sent \cup CallsIn(out)
       /\ UNCHANGED <<up, made, history, thread, ran>>

\* and kills it.
CloseKill(p) ==
    /\ p \in closing.kills
    /\ Ends(p)
    /\ closing' = [closing EXCEPT !.kills = @ \ {p}]
    /\ UNCHANGED <<up, made, history, object, thread, sent>>

----------------------------------------------------------------------------
Init ==
    /\ up = 1
    /\ made = 1
    /\ object = [u \in Up |-> [proc |-> None, nextId |-> 0, pending |-> {}, starter |-> None,
                               writer |-> None, listed |-> FALSE]]
    /\ server = <<>>
    /\ closing = [objects |-> {}, kills |-> {}]
    /\ thread = [c \in Caller |-> NewThread]
    /\ session = [s \in Session |-> None]
    /\ counted = {}
    /\ ran = {}
    /\ sent = {}
    /\ missed = [c \in Caller |-> {}]

CallerStep(c) ==
    \/ Inventory(c) \/ Admit(c) \/ Refuse(c) \/ Lookup(c) \/ Settle(c)
    \/ EnsureAlive(c) \/ Start(c) \/ StartFails(c)
    \/ Initialized(c) \/ NotifyFails(c) \/ KillStarted(c)
    \/ Write(c) \/ WriteFails(c) \/ Flush(c) \/ FlushFails(c)
    \/ Unanswered(c) \/ CallRejected(c) \/ CallAnswered(c) \/ Listed(c)

ProcessStep(p) ==
    \/ ReadReply(p) \/ ReadEnd(p) \/ ListChanged(p)
    \/ ServerAnswers(p) \/ ServerExits(p) \/ CloseKill(p)

Next ==
    \/ \E c \in Caller : CallerStep(c)
    \/ \E p \in 1 .. Len(server) : ProcessStep(p)
    \/ Reconfigure
    \/ \E u \in Up : Close(u)

\* c is in a write to the process of its object, holding the write lock.
Writing(c) == thread[c].pc = "flush" \/ Answered(c, "init")

\* c is to write next, behind a thread that holds the lock.
Behind(c) == thread[c].pc = "send" /\ \E d \in Caller : Writing(d) /\ thread[d].up = thread[c].up

\* The steps that wait for nothing without a deadline.
Prompt(c) ==
    \/ ~Writing(c) /\ ~Behind(c) /\ CallerStep(c)
    \/ FlushFails(c) \/ NotifyFails(c)

\* Some thread of the daemon that can go on does; nothing is asked of a
\* server, not even that it reads what is written to it.
Fairness == WF_thread(\E c \in Caller : Prompt(c))

Spec == Init /\ [][Next]_vars /\ Fairness

----------------------------------------------------------------------------
(* Properties.                                                             *)

TypeOK ==
    /\ up \in Up \cup {None}
    /\ made \in Up
    /\ object \in [Up -> Object]
    /\ server \in Seq(Process)
    /\ closing \in [objects : SUBSET Up, kills : SUBSET (1 .. Len(server))]
    /\ thread \in [Caller -> Thread]
    /\ session \in [Session -> Caller \cup {None}]
    /\ counted \subseteq Caller
    /\ ran \subseteq Caller
    /\ sent \subseteq Caller
    /\ missed \in [Caller -> SUBSET Caller]

\* "Requests from several threads share the process, matched to replies by
\* id" (docstring of Upstream): whatever times out, is answered late or is
\* sent to a process started since, an answer is to the caller's own request.
AnswerIsOwn ==
    \A c \in Caller :
        LET t == thread[c]
        IN t.answer \notin {None, Gone} => t.answer.id = t.id /\ t.answer.by = c

\* Calls the code does not record though they may have run: the log write
\* raised; or close() flushed the call and made its own flush fail.
Excused(c) ==
    \/ thread[c].outcome = "raised"
    \/ thread[c].outcome = "notRun" /\ thread[c].to # 0 /\ server[thread[c].to].closed

\* A call is decided against every earlier call of its session that ran by
\* then or runs later, however the earlier call ended for its caller.
DecidedOnPast ==
    \A c \in Caller : \A d \in missed[c] \cap ran : Excused(d)

\* "and against none that did not" (comment in call_tool): a call in the
\* history was handed to a process; at worst it was not answered.
CountedWasSent == counted \subseteq sent

\* A call whose server hangs, exits, restarts or is replaced is answered,
\* unless a write to a server that stopped reading blocks for ever: it has
\* no deadline, and holds the write lock, the session's and maybe the start
\* lock against the other calls.
EveryCallReturns ==
    \/ <>(\A c \in Caller : thread[c].pc = "over")
    \/ \E c \in Caller : <>[]Writing(c)
=============================================================================
