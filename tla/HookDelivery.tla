---------------------------- MODULE HookDelivery ----------------------------
(***************************************************************************)
(* A host's hook and the daemon it asks: the shim's one call and one retry *)
(* (run, sponsio/shim/sponsio_shim.py), the daemon processes it may start  *)
(* (daemon_run, sponsio/cli/groups/daemon.py), and their lock, socket and  *)
(* worker threads (DaemonServer, sponsio/daemon/server.py).                *)
(*                                                                         *)
(* Each hook is one tool call of one conversation and each process is used *)
(* once.  Both sockets are bound and removed together and are one here.    *)
(* What a call is decided by is left out: a worker may admit or refuse it. *)
(* The admitted calls in the log and in a daemon's memory are TraceStore's *)
(* events; nothing damages the log here and no write fails.                *)
(***************************************************************************)
EXTENDS Naturals, Sequences, FiniteSets

CONSTANTS
    Hook,       \* the tool calls, each with its hook process
    Proc,       \* the daemon processes that may be started
    None,       \* no process: the lock is free, there is no socket file
    First       \* a process that serves at the start

ASSUME NoneAssumption == None \notin Proc
ASSUME FirstAssumption == First \in Proc

VARIABLES
    phase,      \* where each process is
    lock,       \* the process that holds <state_dir>/daemon.lock
    sock,       \* the process that bound the socket file there is
    log,        \* the admitted calls in the write-ahead log
    mem,        \* the admitted calls in each process's memory
    hook,       \* where each hook is
    try,        \* its attempt, 1 or 2
    request,    \* its last request: to which process, and how far it got
    verdict     \* what the host was told

daemon == <<phase, lock, sock, log, mem>>
shim == <<hook, try, verdict>>
vars == <<daemon, shim, request>>

Phases == {"unused", "detached", "started", "loaded", "locked", "serving", "stopping",
           "exiting", "gone"}
Alive(d) == phase[d] \notin {"unused", "gone"}
NoRequest == [to |-> None, state |-> "none"]

\* A connect succeeds: the process that bound the file listens.
Answers == sock # None /\ phase[sock] = "serving"

----------------------------------------------------------------------------
(* The daemon process.                                                     *)

\* `sponsio daemon run --detach`: nothing is run when a daemon answers by now.
RunDetached(d) ==
    /\ phase[d] = "detached"
    /\ phase' = [phase EXCEPT ![d] = IF Answers THEN "gone" ELSE "started"]
    /\ UNCHANGED <<lock, sock, log, mem, shim, request>>

\* `sponsio daemon run`: GuardService, whose store replays the log, is made
\* before the server is started.
Load(d) ==
    /\ phase[d] = "started"
    /\ mem' = [mem EXCEPT ![d] = log]
    /\ phase' = [phase EXCEPT ![d] = "loaded"]
    /\ UNCHANGED <<lock, sock, log, shim, request>>

\* Mutant for AcquireLock: the lock is shared.
AcquireLockShared(d) ==
    /\ phase[d] = "loaded"
    /\ lock' = d
    /\ phase' = [phase EXCEPT ![d] = "locked"]
    /\ UNCHANGED <<sock, log, mem, shim, request>>

\* _acquire_lock, which does not wait: the loser exits.
AcquireLock(d) ==
    /\ phase[d] = "loaded"
    /\ lock' = IF lock = None THEN d ELSE lock
    /\ phase' = [phase EXCEPT ![d] = IF lock = None THEN "locked" ELSE "gone"]
    /\ UNCHANGED <<sock, log, mem, shim, request>>

\* _prepare_socket_path and _bind.  A socket somebody answers on is left
\* alone; one nobody answers on is removed.
Bind(d) ==
    /\ phase[d] = "locked"
    /\ IF Answers
       THEN /\ phase' = [phase EXCEPT ![d] = "gone"]
            /\ lock' = None
            /\ UNCHANGED sock
       ELSE /\ phase' = [phase EXCEPT ![d] = "serving"]
            /\ sock' = d
            /\ UNCHANGED lock
    /\ UNCHANGED <<log, mem, shim, request>>

\* SIGTERM, stop: the sockets are closed and their files removed.
CloseSockets(d) ==
    /\ phase[d] = "serving"
    /\ phase' = [phase EXCEPT ![d] = "stopping"]
    /\ sock' = None
    /\ UNCHANGED <<lock, log, mem, shim, request>>

\* The workers are joined for two seconds at most; one that is still
\* deciding goes on after the lock is released.
ReleaseLock(d) ==
    /\ phase[d] = "stopping"
    /\ phase' = [phase EXCEPT ![d] = "exiting"]
    /\ lock' = IF lock = d THEN None ELSE lock
    /\ UNCHANGED <<sock, log, mem, shim, request>>

Exit(d) ==
    /\ phase[d] = "exiting"
    /\ phase' = [phase EXCEPT ![d] = "gone"]
    /\ UNCHANGED <<lock, sock, log, mem, shim, request>>

\* A crash at any point: the kernel drops the flock, the file stays.
Crash(d) ==
    /\ Alive(d)
    /\ phase' = [phase EXCEPT ![d] = "gone"]
    /\ lock' = IF lock = d THEN None ELSE lock
    /\ UNCHANGED <<sock, log, mem, shim, request>>

----------------------------------------------------------------------------
(* A request inside the daemon: _accept_loop and _serve_connection.        *)

Accept(h) ==
    /\ request[h].state = "queued"
    /\ phase[request[h].to] = "serving"
    /\ request' = [request EXCEPT ![h].state = "accepted"]
    /\ UNCHANGED <<daemon, shim>>

\* Mutants for Admit: the log is written again from this process's memory; a
\* daemon that was told to stop no longer writes.
AdmitRewriting(h) ==
    LET d == request[h].to
    IN /\ request[h].state = "accepted"
       /\ Alive(d)
       /\ log' = Append(mem[d], h)
       /\ mem' = [mem EXCEPT ![d] = Append(@, h)]
       /\ request' = [request EXCEPT ![h].state = "admitted"]
       /\ UNCHANGED <<phase, lock, sock, shim>>

AdmitUnwritten(h) ==
    LET d == request[h].to
    IN /\ request[h].state = "accepted"
       /\ Alive(d)
       /\ log' = IF phase[d] = "serving" THEN Append(log, h) ELSE log
       /\ mem' = [mem EXCEPT ![d] = Append(@, h)]
       /\ request' = [request EXCEPT ![h].state = "admitted"]
       /\ UNCHANGED <<phase, lock, sock, shim>>

\* guard.check: an admitted call is written to the log before it is
\* acknowledged.
Admit(h) ==
    LET d == request[h].to
    IN /\ request[h].state = "accepted"
       /\ Alive(d)
       /\ log' = Append(log, h)
       /\ mem' = [mem EXCEPT ![d] = Append(@, h)]
       /\ request' = [request EXCEPT ![h].state = "admitted"]
       /\ UNCHANGED <<phase, lock, sock, shim>>

Refuse(h) ==
    /\ request[h].state = "accepted"
    /\ Alive(request[h].to)
    /\ request' = [request EXCEPT ![h].state = "refused"]
    /\ UNCHANGED <<daemon, shim>>

----------------------------------------------------------------------------
(* The shim.                                                               *)

Answered(h, v) ==
    /\ hook' = [hook EXCEPT ![h] = "done"]
    /\ verdict' = [verdict EXCEPT ![h] = v]
    /\ UNCHANGED try

\* The request is sent on a new connection.
Send(h) ==
    /\ hook[h] = "call"
    /\ Answers
    /\ hook' = [hook EXCEPT ![h] = "sent"]
    /\ request' = [request EXCEPT ![h] = [to |-> sock, state |-> "queued"]]
    /\ UNCHANGED <<daemon, try, verdict>>

\* Unreachable, or ReplyLost, which is one: the first time a daemon is
\* started, the second time the call is denied.
NoAnswer(h) ==
    IF try[h] = 1
    THEN hook' = [hook EXCEPT ![h] = "start"] /\ UNCHANGED <<try, verdict>>
    ELSE Answered(h, "deny")

\* The connect fails.
Unconnected(h) ==
    /\ hook[h] = "call"
    /\ ~Answers
    /\ NoAnswer(h)
    /\ UNCHANGED <<daemon, request>>

\* The connection closes before a reply: the process is gone, or it closed
\* the listening socket before it accepted.
ConnectionLost(h) ==
    /\ hook[h] = "sent"
    /\ \/ ~Alive(request[h].to)
       \/ request[h].state = "queued" /\ phase[request[h].to] # "serving"
    /\ NoAnswer(h)
    /\ UNCHANGED <<daemon, request>>

ReceiveReply(h) ==
    /\ hook[h] = "sent"
    /\ request[h].state \in {"admitted", "refused"}
    /\ Alive(request[h].to)
    /\ Answered(h, IF request[h].state = "admitted" THEN "allow" ELSE "deny")
    /\ UNCHANGED <<daemon, request>>

\* start_daemon: a detached `daemon run`, which the shim does not wait for.
StartProcess ==
    \E d \in Proc : /\ phase[d] = "unused"
                   /\ phase' = [phase EXCEPT ![d] = "detached"]

StartDaemon(h) ==
    /\ hook[h] = "start"
    /\ StartProcess
    /\ hook' = [hook EXCEPT ![h] = "wait"]
    /\ UNCHANGED <<lock, sock, log, mem, try, verdict, request>>

StartFails(h) ==
    /\ hook[h] = "start"
    /\ Answered(h, "deny")
    /\ UNCHANGED <<daemon, request>>

\* wait_for_socket.
CameUp(h) ==
    /\ hook[h] = "wait"
    /\ Answers
    /\ hook' = [hook EXCEPT ![h] = "call"]
    /\ try' = [try EXCEPT ![h] = @ + 1]
    /\ UNCHANGED <<daemon, verdict, request>>

\* Mutant for Timeout: only the wait for the socket has a deadline.
TimeoutOfWait(h) ==
    /\ hook[h] = "wait"
    /\ Answered(h, "deny")
    /\ UNCHANGED <<daemon, request>>

\* The deadline passes.  When it is the first call's, a daemon is started
\* all the same before the call is denied.
Timeout(h) ==
    /\ \/ hook[h] \in {"sent", "wait"}
       \/ hook[h] = "call" /\ try[h] = 2
    /\ IF hook[h] = "sent" /\ try[h] = 1
       THEN StartProcess \/ UNCHANGED phase
       ELSE UNCHANGED phase
    /\ Answered(h, "deny")
    /\ UNCHANGED <<lock, sock, log, mem, request>>

----------------------------------------------------------------------------
Init ==
    /\ phase = [d \in Proc |-> IF d = First THEN "serving" ELSE "unused"]
    /\ lock = First
    /\ sock = First
    /\ log = <<>>
    /\ mem = [d \in Proc |-> <<>>]
    /\ hook = [h \in Hook |-> "call"]
    /\ try = [h \in Hook |-> 1]
    /\ request = [h \in Hook |-> NoRequest]
    /\ verdict = [h \in Hook |-> "none"]

ShimStep(h) ==
    \/ Send(h) \/ Unconnected(h) \/ ConnectionLost(h) \/ ReceiveReply(h)
    \/ StartDaemon(h) \/ StartFails(h) \/ CameUp(h) \/ Timeout(h)

Next ==
    \/ \E d \in Proc : \/ RunDetached(d) \/ Load(d) \/ AcquireLock(d) \/ Bind(d)
                       \/ CloseSockets(d) \/ ReleaseLock(d) \/ Exit(d) \/ Crash(d)
    \/ \E h \in Hook : Accept(h) \/ Admit(h) \/ Refuse(h) \/ ShimStep(h)

\* The host runs its hook process, and every wait of the shim has a
\* deadline.  Nothing is assumed of the daemons.
Spec == Init /\ [][Next]_vars /\ \A h \in Hook : WF_vars(ShimStep(h))

----------------------------------------------------------------------------
(* Properties.                                                             *)

TypeOK ==
    /\ phase \in [Proc -> Phases]
    /\ lock \in Proc \cup {None}
    /\ sock \in Proc \cup {None}
    /\ log \in Seq(Hook)
    /\ mem \in [Proc -> Seq(Hook)]
    /\ hook \in [Hook -> {"call", "sent", "start", "wait", "done"}]
    /\ try \in [Hook -> {1, 2}]
    /\ request \in [Hook -> {NoRequest} \cup
                       [to : Proc, state : {"queued", "accepted", "admitted", "refused"}]]
    /\ verdict \in [Hook -> {"none", "allow", "deny"}]

\* "Two daemons cannot serve the same state dir (each would keep its own
\* trace, and the second to bind would have removed the first one's
\* socket)" (DaemonServer): a serving daemon has the lock and the socket.
OneServes ==
    \A d \in Proc : phase[d] = "serving" => lock = d /\ sock = d

\* The host runs a call only if a daemon admitted it, and then the log has
\* it, whatever crashed, was restarted, lost a reply or answered late.
RunsAreRecorded ==
    \A h \in Hook : verdict[h] = "allow" => \E i \in DOMAIN log : log[i] = h

\* Every hook answers its host, allow or deny, whatever the daemons do.
EveryHookAnswers == \A h \in Hook : <>(verdict[h] # "none")

\* What a daemon has in memory is in the log, in the same order, so a
\* decision is never made by a call that a crash would undo.
MemoryIsLogged ==
    \A d \in Proc : \E f \in [DOMAIN mem[d] -> DOMAIN log] :
        /\ \A i \in DOMAIN mem[d] : log[f[i]] = mem[d][i]
        /\ \A i, j \in DOMAIN mem[d] : i < j => f[i] < f[j]
=============================================================================
