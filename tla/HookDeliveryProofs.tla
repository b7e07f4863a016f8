------------------------- MODULE HookDeliveryProofs -------------------------
(* Safety of hook delivery, for any number of hooks and daemon processes.  *)
EXTENDS HookDelivery, TLAPS

\* A hook that starts a daemon, or waits for it, is still in its first try.
OneRetry == \A h \in Hook : hook[h] \in {"start", "wait"} => try[h] = 1

Types == TypeOK /\ OneRetry

\* A process past _acquire_lock and not past stop has the lock; one that
\* serves has the socket file too.
Holders == {"locked", "serving", "stopping"}
Exclusive ==
    /\ \A d \in Proc : phase[d] \in Holders => lock = d
    /\ \A d \in Proc : phase[d] = "serving" => sock = d

\* A call that was admitted is in the log before its reply is sent.
Logged(h) == \E i \in DOMAIN log : log[i] = h
Recorded ==
    \A h \in Hook : request[h].state = "admitted" \/ verdict[h] = "allow" => Logged(h)

----------------------------------------------------------------------------
(* Types.                                                                  *)

\* A step of the shim keeps the shapes, and retries once at most.
LEMMA ShimTypes ==
    ASSUME NEW h \in Hook, Types, ShimStep(h)
    PROVE  Types'
<1> USE NoneAssumption DEF Types, TypeOK, OneRetry, Phases, daemon, shim, NoRequest
<1>1. CASE Send(h)
  BY <1>1 DEF Send, Answers
<1>2. CASE Unconnected(h)
  BY <1>2 DEF Unconnected, NoAnswer, Answered
<1>3. CASE ConnectionLost(h)
  BY <1>3 DEF ConnectionLost, NoAnswer, Answered
<1>4. CASE ReceiveReply(h)
  BY <1>4 DEF ReceiveReply, Answered
<1>5. CASE StartDaemon(h)
  BY <1>5 DEF StartDaemon, StartProcess
<1>6. CASE StartFails(h)
  BY <1>6 DEF StartFails, Answered
<1>7. CASE CameUp(h)
  BY <1>7 DEF CameUp
<1>8. CASE Timeout(h)
  BY <1>8 DEF Timeout, StartProcess, Answered
<1> QED
  BY <1>1, <1>2, <1>3, <1>4, <1>5, <1>6, <1>7, <1>8 DEF ShimStep

\* So does a step of a daemon process, and a request being served.
LEMMA ProcessTypes ==
    ASSUME NEW d \in Proc, Types,
           \/ RunDetached(d) \/ Load(d) \/ AcquireLock(d) \/ Bind(d)
           \/ CloseSockets(d) \/ ReleaseLock(d) \/ Exit(d) \/ Crash(d)
    PROVE  Types'
BY NoneAssumption
DEF Types, TypeOK, OneRetry, Phases, daemon, shim, RunDetached, Load, AcquireLock, Bind,
    CloseSockets, ReleaseLock, Exit, Crash

LEMMA RequestTypes ==
    ASSUME NEW h \in Hook, Types, Accept(h) \/ Admit(h) \/ Refuse(h)
    PROVE  Types'
<1> USE DEF Types, TypeOK, OneRetry, Phases, daemon, shim, NoRequest
<1>1. CASE Accept(h)
  BY <1>1 DEF Accept
<1>2. CASE Admit(h)
  <2>1. log' \in Seq(Hook)
    BY <1>2 DEF Admit
  <2>2. mem' \in [Proc -> Seq(Hook)]
    BY <1>2 DEF Admit
  <2>3. request' \in [Hook -> {NoRequest} \cup
                           [to : Proc, state : {"queued", "accepted", "admitted", "refused"}]]
    BY <1>2 DEF Admit
  <2> QED
    BY <1>2, <2>1, <2>2, <2>3 DEF Admit
<1>3. CASE Refuse(h)
  BY <1>3 DEF Refuse
<1> QED
  BY <1>1, <1>2, <1>3

\* The types are inductive.
LEMMA InitTypes == Init => Types
BY FirstAssumption DEF Init, Types, TypeOK, OneRetry, Phases, NoRequest

LEMMA NextTypes == Types /\ [Next]_vars => Types'
<1> SUFFICES ASSUME Types, [Next]_vars PROVE Types'
  OBVIOUS
<1>1. CASE UNCHANGED vars
  BY <1>1 DEF Types, TypeOK, OneRetry, vars, daemon, shim
<1> QED
  BY <1>1, ShimTypes, ProcessTypes, RequestTypes DEF Next

\* Every process, hook and request keeps its shape, and a hook tries twice
\* at most.
THEOREM TypeCorrect == Spec => []TypeOK
<1>1. Types => TypeOK
  BY DEF Types
<1> QED
  BY <1>1, InitTypes, NextTypes, PTL DEF Spec

----------------------------------------------------------------------------
(* The lock and the socket.                                                *)

\* A step that leaves phase, lock and sock alone, but for a process that is
\* started, moves no holder.
LEMMA StartedHoldsNothing ==
    ASSUME Types, Exclusive, StartProcess \/ UNCHANGED phase, UNCHANGED <<lock, sock>>
    PROVE  Exclusive'
BY DEF Types, TypeOK, Exclusive, Holders, StartProcess

\* The shim touches neither lock nor socket.
LEMMA ShimExclusive ==
    ASSUME NEW h \in Hook, Types, Exclusive, ShimStep(h)
    PROVE  Exclusive'
<1>1. (StartProcess \/ UNCHANGED phase) /\ UNCHANGED <<lock, sock>>
  BY DEF ShimStep, Send, Unconnected, ConnectionLost, ReceiveReply, StartDaemon, StartFails,
         CameUp, Timeout, daemon
<1> QED
  BY <1>1, StartedHoldsNothing

\* A process takes a free lock only, and binds under the lock only.
LEMMA ProcessExclusive ==
    ASSUME NEW d \in Proc, Types, Exclusive,
           \/ RunDetached(d) \/ Load(d) \/ AcquireLock(d) \/ Bind(d)
           \/ CloseSockets(d) \/ ReleaseLock(d) \/ Exit(d) \/ Crash(d)
    PROVE  Exclusive'
<1> USE NoneAssumption DEF Types, TypeOK, Exclusive, Holders
<1>1. CASE RunDetached(d) \/ Load(d) \/ Exit(d)
  BY <1>1 DEF RunDetached, Load, Exit
<1>2. CASE AcquireLock(d)
  BY <1>2 DEF AcquireLock
<1>3. CASE Bind(d)
  BY <1>3 DEF Bind
<1>4. CASE CloseSockets(d)
  BY <1>4 DEF CloseSockets
<1>5. CASE ReleaseLock(d)
  BY <1>5 DEF ReleaseLock
<1>6. CASE Crash(d)
  BY <1>6 DEF Crash
<1> QED
  BY <1>1, <1>2, <1>3, <1>4, <1>5, <1>6

\* The lock and the socket are inductive.
LEMMA NextExclusive == Types /\ Exclusive /\ [Next]_vars => Exclusive'
<1> SUFFICES ASSUME Types, Exclusive, [Next]_vars PROVE Exclusive'
  OBVIOUS
<1>1. ASSUME NEW h \in Hook, Accept(h) \/ Admit(h) \/ Refuse(h)
      PROVE  Exclusive'
  BY <1>1 DEF Accept, Admit, Refuse, daemon, Exclusive
<1>2. CASE UNCHANGED vars
  BY <1>2 DEF Exclusive, vars, daemon
<1> QED
  BY <1>1, <1>2, ShimExclusive, ProcessExclusive DEF Next

\* Two daemons never serve one state directory: whoever serves has the lock
\* and the socket file, in any race of starts, stops and crashes.
THEOREM ServesAlone == Spec => []OneServes
<1>1. Init => Exclusive
  BY DEF Init, Exclusive, Holders
<1>2. Types /\ Exclusive => OneServes
  BY DEF Exclusive, Holders, OneServes
<1> QED
  BY <1>1, <1>2, InitTypes, NextTypes, NextExclusive, PTL DEF Spec

----------------------------------------------------------------------------
(* The log.                                                                *)

\* Every step keeps the log or appends to it.
LEMMA LogGrows ==
    ASSUME Types, [Next]_vars
    PROVE  \/ UNCHANGED log
           \/ \E h \in Hook : log' = Append(log, h)
BY DEF Next, vars, ShimStep, Send, Unconnected, ConnectionLost, ReceiveReply, StartDaemon,
       StartFails, CameUp, Timeout, Accept, Admit, Refuse, RunDetached, Load, AcquireLock,
       Bind, CloseSockets, ReleaseLock, Exit, Crash, daemon, shim

\* What is in the log stays there.
LEMMA LoggedStays ==
    ASSUME Types, [Next]_vars, NEW h \in Hook, Logged(h)
    PROVE  Logged(h)'
<1>1. PICK i \in DOMAIN log : log[i] = h
  BY DEF Logged
<1>2. log \in Seq(Hook)
  BY DEF Types, TypeOK
<1>3. i \in DOMAIN log' /\ log'[i] = h
  BY <1>1, <1>2, LogGrows
<1> QED
  BY <1>3 DEF Logged

\* Admitting a call writes it.
LEMMA AdmittedIsLogged ==
    ASSUME Types, NEW h \in Hook, Admit(h)
    PROVE  Logged(h)'
<1>1. log \in Seq(Hook)
  BY DEF Types, TypeOK
<1>2. Len(log) + 1 \in DOMAIN log' /\ log'[Len(log) + 1] = h
  BY <1>1 DEF Admit
<1> QED
  BY <1>2 DEF Logged

\* A step admits a call or allows one that was admitted, and that is all it
\* adds to what must be on record.
LEMMA OnlyAdmitted ==
    ASSUME Types, [Next]_vars, NEW h \in Hook,
           (request[h].state = "admitted" \/ verdict[h] = "allow")'
    PROVE  request[h].state = "admitted" \/ verdict[h] = "allow" \/ Admit(h)
<1> USE DEF Types, TypeOK, daemon, shim, NoRequest
<1>1. CASE UNCHANGED vars
  BY <1>1 DEF vars
<1>2. ASSUME NEW d \in Proc,
             \/ RunDetached(d) \/ Load(d) \/ AcquireLock(d) \/ Bind(d)
             \/ CloseSockets(d) \/ ReleaseLock(d) \/ Exit(d) \/ Crash(d)
      PROVE  UNCHANGED <<request, verdict>>
  BY <1>2 DEF RunDetached, Load, AcquireLock, Bind, CloseSockets, ReleaseLock, Exit, Crash
<1>3. ASSUME NEW k \in Hook, Accept(k) \/ Refuse(k)
      PROVE  request[h].state = "admitted" \/ verdict[h] = "allow"
  BY <1>3 DEF Accept, Refuse
<1>4. ASSUME NEW k \in Hook, Admit(k), k # h
      PROVE  request[h].state = "admitted" \/ verdict[h] = "allow"
  BY <1>4 DEF Admit
<1>5. ASSUME NEW k \in Hook, ShimStep(k)
      PROVE  request[h].state = "admitted" \/ verdict[h] = "allow"
  <2>1. CASE Send(k)
    BY <2>1 DEF Send
  <2>2. CASE Unconnected(k) \/ ConnectionLost(k)
    BY <2>2 DEF Unconnected, ConnectionLost, NoAnswer, Answered
  <2>3. CASE ReceiveReply(k)
    BY <2>3 DEF ReceiveReply, Answered
  <2>4. CASE StartFails(k) \/ Timeout(k)
    BY <2>4 DEF StartFails, Timeout, Answered
  <2>5. CASE StartDaemon(k) \/ CameUp(k)
    BY <2>5 DEF StartDaemon, CameUp
  <2> QED
    BY <1>5, <2>1, <2>2, <2>3, <2>4, <2>5 DEF ShimStep
<1> QED
  BY <1>1, <1>2, <1>3, <1>4, <1>5 DEF Next

\* Whatever the host was allowed to run was written to the log first, and
\* no crash, restart, lost reply or late answer takes it out.
THEOREM AllowedIsRecorded == Spec => []RunsAreRecorded
<1>1. Init => Recorded
  BY DEF Init, Recorded, NoRequest
<1>2. Types /\ Recorded /\ [Next]_vars => Recorded'
  BY OnlyAdmitted, AdmittedIsLogged, LoggedStays DEF Recorded
<1>3. Recorded => RunsAreRecorded
  BY DEF Recorded, Logged, RunsAreRecorded
<1> QED
  BY <1>1, <1>2, <1>3, InitTypes, NextTypes, PTL DEF Spec

----------------------------------------------------------------------------
(* Memory and log.                                                         *)

\* MemoryIsLogged, for one memory: it is what is left of the log when some
\* of its entries are taken out.
Within(m, l) ==
    \E f \in [DOMAIN m -> DOMAIN l] :
        /\ \A i \in DOMAIN m : l[f[i]] = m[i]
        /\ \A i, j \in DOMAIN m : i < j => f[i] < f[j]

\* A daemon that replays the log has all of it.
LEMMA WithinItself ==
    ASSUME NEW l \in Seq(Hook)
    PROVE  Within(l, l)
<1> DEFINE f == [i \in DOMAIN l |-> i]
<1>1. f \in [DOMAIN l -> DOMAIN l]
  OBVIOUS
<1>2. /\ \A i \in DOMAIN l : l[f[i]] = l[i]
      /\ \A i, j \in DOMAIN l : i < j => f[i] < f[j]
  OBVIOUS
<1> QED
  BY <1>1, <1>2 DEF Within

\* A call another daemon admitted, and
LEMMA WithinLonger ==
    ASSUME NEW m \in Seq(Hook), NEW l \in Seq(Hook), NEW h \in Hook, Within(m, l)
    PROVE  Within(m, Append(l, h))
<1>1. PICK f \in [DOMAIN m -> DOMAIN l] :
        /\ \A i \in DOMAIN m : l[f[i]] = m[i]
        /\ \A i, j \in DOMAIN m : i < j => f[i] < f[j]
  BY DEF Within
<1>2. /\ DOMAIN l \subseteq DOMAIN Append(l, h)
      /\ \A i \in DOMAIN l : Append(l, h)[i] = l[i]
  OBVIOUS
<1>3. f \in [DOMAIN m -> DOMAIN Append(l, h)]
  BY <1>2
<1>4. \A i \in DOMAIN m : Append(l, h)[f[i]] = m[i]
  BY <1>1, <1>2
<1> QED
  BY <1>1, <1>3, <1>4 DEF Within

\* one that this daemon admitted.
LEMMA WithinBoth ==
    ASSUME NEW m \in Seq(Hook), NEW l \in Seq(Hook), NEW h \in Hook, Within(m, l)
    PROVE  Within(Append(m, h), Append(l, h))
<1>1. PICK f \in [DOMAIN m -> DOMAIN l] :
        /\ \A i \in DOMAIN m : l[f[i]] = m[i]
        /\ \A i, j \in DOMAIN m : i < j => f[i] < f[j]
  BY DEF Within
<1> DEFINE n == Append(m, h)
           k == Append(l, h)
           g == [i \in DOMAIN n |-> IF i \in DOMAIN m THEN f[i] ELSE Len(l) + 1]
<1>2. /\ DOMAIN m = 1 .. Len(m) /\ DOMAIN n = 1 .. (Len(m) + 1)
      /\ DOMAIN l = 1 .. Len(l) /\ DOMAIN k = 1 .. (Len(l) + 1)
      /\ Len(m) \in Nat /\ Len(l) \in Nat
  OBVIOUS
<1>3. /\ \A i \in DOMAIN m : n[i] = m[i]
      /\ n[Len(m) + 1] = h
      /\ \A i \in DOMAIN l : k[i] = l[i]
      /\ k[Len(l) + 1] = h
  OBVIOUS
<1>4. \A i \in DOMAIN n : \/ i \in DOMAIN m /\ g[i] = f[i] /\ f[i] \in DOMAIN l
                          \/ i = Len(m) + 1 /\ i \notin DOMAIN m /\ g[i] = Len(l) + 1
  BY <1>2
<1> HIDE DEF n, k
<1>5. g \in [DOMAIN n -> DOMAIN k]
  BY <1>2, <1>4
<1>6. \A i \in DOMAIN n : k[g[i]] = n[i]
  BY <1>1, <1>3, <1>4
<1> HIDE DEF g
<1>7. ASSUME NEW i \in DOMAIN n, NEW j \in DOMAIN n, i < j
      PROVE  g[i] < g[j]
  <2>1. i \in DOMAIN m
    BY <1>2, <1>7
  <2>2. g[i] = f[i] /\ f[i] \in 1 .. Len(l)
    BY <1>2, <1>4, <2>1
  <2> QED
    BY <1>1, <1>2, <1>4, <1>7, <2>1, <2>2
<1>8. Within(n, k)
  BY <1>5, <1>6, <1>7 DEF Within
<1> QED
  BY <1>8 DEF n, k

\* Within is the property.
LEMMA MemoryIsWithin == MemoryIsLogged <=> \A d \in Proc : Within(mem[d], log)
BY DEF MemoryIsLogged, Within

\* Only Admit and Load change a memory or the log.
LEMMA NextMemory ==
    ASSUME Types, [Next]_vars, \A d \in Proc : Within(mem[d], log)
    PROVE  \A d \in Proc : Within(mem[d], log)'
<1> USE DEF Types, TypeOK
<1>1. ASSUME NEW h \in Hook, Admit(h)
      PROVE  \A d \in Proc : Within(mem[d], log)'
  <2> SUFFICES ASSUME NEW d \in Proc PROVE Within(mem'[d], log')
    OBVIOUS
  <2>1. mem'[d] = mem[d] \/ mem'[d] = Append(mem[d], h)
    BY <1>1 DEF Admit
  <2>2. log' = Append(log, h)
    BY <1>1 DEF Admit
  <2>3. Within(mem[d], log) /\ mem[d] \in Seq(Hook) /\ log \in Seq(Hook)
    OBVIOUS
  <2>4. Within(mem[d], Append(log, h))
    BY <2>3, WithinLonger
  <2>5. Within(Append(mem[d], h), Append(log, h))
    BY <2>3, WithinBoth
  <2> QED
    BY <2>1, <2>2, <2>4, <2>5
<1>2. ASSUME NEW p \in Proc, Load(p)
      PROVE  \A d \in Proc : Within(mem[d], log)'
  <2> SUFFICES ASSUME NEW d \in Proc PROVE Within(mem'[d], log')
    OBVIOUS
  <2>1. log' = log /\ mem'[d] \in {mem[d], log}
    BY <1>2 DEF Load
  <2> QED
    BY <2>1, WithinItself
<1>3. CASE UNCHANGED <<log, mem>>
  BY <1>3
<1>4. \/ \E h \in Hook : Admit(h)
      \/ \E p \in Proc : Load(p)
      \/ UNCHANGED <<log, mem>>
  BY DEF Next, vars, ShimStep, Send, Unconnected, ConnectionLost, ReceiveReply, StartDaemon,
         StartFails, CameUp, Timeout, Accept, Refuse, RunDetached, AcquireLock, Bind,
         CloseSockets, ReleaseLock, Exit, Crash, daemon, shim
<1> QED
  BY <1>1, <1>2, <1>3, <1>4

\* Every daemon decides on calls the log has, in the log's order, even one
\* that was told to stop and is still deciding while the next one serves.
THEOREM DecidedOnLogged == Spec => []MemoryIsLogged
<1>1. Init => MemoryIsLogged
  <2> SUFFICES ASSUME Init PROVE MemoryIsLogged
    OBVIOUS
  <2>1. log \in Seq(Hook) /\ \A d \in Proc : mem[d] = log
    BY DEF Init
  <2> QED
    BY <2>1, WithinItself, MemoryIsWithin
<1>2. Types /\ MemoryIsLogged /\ [Next]_vars => MemoryIsLogged'
  <2> SUFFICES ASSUME Types, MemoryIsLogged, [Next]_vars PROVE MemoryIsLogged'
    OBVIOUS
  <2>1. \A d \in Proc : Within(mem[d], log)'
    BY NextMemory, MemoryIsWithin
  <2> QED
    BY <2>1 DEF MemoryIsLogged, Within
<1> QED
  BY <1>1, <1>2, InitTypes, NextTypes, PTL DEF Spec
=============================================================================
