--------------------------- MODULE GatewayProofs ----------------------------
(* The MCP gateway, for any callers, sessions and bounds: its types, that  *)
(* an answer is to the caller's own request, that a call in the history    *)
(* was handed to a process, and that a call is decided against every       *)
(* earlier call of its session that ran or still will.                     *)
EXTENDS Gateway, TLAPS

Procs == 1 .. Len(server)
Outcome == {"none", "answered", "notRun", "unanswered", "raised"}

Asking(t) == t.pc \in {"send", "flush", "wait"}
Using(t) == Asking(t) \/ t.pc \in {"ensure", "kill"}
Starting(t) == t.pc = "kill" \/ (Asking(t) /\ t.kind = "init")

\* What a thread refers to is there, and who starts a process or
\* writes to one has the lock.
CallerUse(c) ==
    /\ Using(thread[c]) => thread[c].up \in Up
    /\ thread[c].to \in 0 .. Len(server)
    /\ thread[c].pc = "flush" => /\ thread[c].to # 0
                                 /\ server[thread[c].to].of = thread[c].up
                                 /\ object[thread[c].up].writer = c
    /\ Starting(thread[c]) => object[thread[c].up].starter = c

ObjectUse(u) ==
    /\ object[u].proc # None => object[u].proc \in Procs /\ server[object[u].proc].of = u
    /\ object[u].starter # None => object[u].proc # None

UseInv == (\A c \in Caller : CallerUse(c)) /\ (\A u \in Up : ObjectUse(u))

\* Requests, replies and who asked: an id is not used twice for an object,
\* a request that is not answered is its caller's, and what travels under
\* the id of a request under way is that request or its reply.
Mail(p) == server[p].buffer \cup server[p].inbox \cup server[p].out

SameRequest(t, r) == Asking(t) /\ Asking(r) /\ t.up = r.up /\ t.id = r.id

RequestOwn(c) ==
    IF Asking(thread[c]) THEN thread[c].id \in 1 .. object[thread[c].up].nextId
                         ELSE thread[c].answer = None

PendingOwn(u, q) ==
    LET t == thread[q.by]
    IN  Asking(t) /\ t.up = u /\ t.id = q.id /\ t.answer = None

MailOwn(u, m) ==
    /\ m.id <= object[u].nextId
    /\ \A c \in Caller :
          Asking(thread[c]) /\ thread[c].up = u /\ thread[c].id = m.id => m.by = c

OwnInv ==
    /\ \A c \in Caller : RequestOwn(c)
    /\ \A c, d \in Caller : SameRequest(thread[c], thread[d]) => c = d
    /\ \A u \in Up : \A q \in object[u].pending : PendingOwn(u, q)
    /\ \A p \in Procs : \A m \in Mail(p) : MailOwn(server[p].of, m)
    /\ AnswerIsOwn

BaseInv == TypeOK /\ UseInv /\ OwnInv

----------------------------------------------------------------------------
(* The states of a thread.                                                 *)

LEMMA ThreadIs ==
    ASSUME NEW t \in Thread
    PROVE  /\ t.up \in Up \cup {None} /\ t.goal \in {"list", "call"} /\ t.kind \in Kind
           /\ t.id \in Nat /\ t.to \in Nat /\ t.answer \in Reply \cup {None, Gone}
           /\ t.outcome \in Outcome
           /\ t.pc \in {"inventory", "ensure", "send", "flush", "wait", "kill",
                        "decide", "lookup", "settle", "over"}
  BY DEF Thread, Outcome

LEMMA OverIs ==
    ASSUME NEW t \in Thread, NEW outcome \in Outcome
    PROVE  LET r == Over(t, outcome)
           IN  /\ r \in Thread
               /\ r.pc = "over" /\ r.goal = t.goal /\ r.kind = "list" /\ r.up = None
               /\ r.answer = None /\ r.outcome = outcome
               /\ r.to = IF outcome = "notRun" THEN t.to ELSE 0
<1> DEFINE to == IF outcome = "notRun" THEN t.to ELSE 0
           goal == t.goal
           r == Over(t, outcome)
<1>1. to \in Nat /\ goal \in {"list", "call"}
  BY ThreadIs
<1>2. r = [NewThread EXCEPT !.pc = "over", !.goal = goal, !.outcome = outcome, !.to = to]
  BY DEF Over
<1> HIDE DEF to, goal, r
<1>3. /\ r.pc = "over" /\ r.goal = goal /\ r.kind = "list" /\ r.up = None
      /\ r.answer = None /\ r.outcome = outcome /\ r.to = to
  BY <1>2 DEF NewThread
<1>4. r \in Thread
  BY <1>1, <1>2 DEF NewThread, Thread, Kind, Outcome
<1> QED
  BY <1>3, <1>4 DEF to, goal, r

LEMMA FailedIs ==
    ASSUME NEW t \in Thread
    PROVE  LET r == Failed(t)
           IN  /\ r \in Thread /\ r.goal = t.goal
               /\ t.goal = "list" => /\ r.pc = "over" /\ r.outcome = "none" /\ r.to = 0
                                     /\ r.answer = None
               /\ t.goal = "call" => /\ r.pc = "settle" /\ r.outcome = "notRun" /\ r.to = t.to
                                     /\ r.answer = t.answer
<1>1. CASE t.goal = "list"
  <2>1. Failed(t) = Over(t, "none")
    BY <1>1 DEF Failed
  <2> QED
    BY <1>1, <2>1, OverIs DEF Outcome
<1>2. CASE t.goal = "call"
  <2>1. Failed(t) = [t EXCEPT !.pc = "settle", !.outcome = "notRun"]
    BY <1>2 DEF Failed
  <2> QED
    BY <1>2, <2>1 DEF Thread
<1> QED
  BY <1>1, <1>2, ThreadIs

LEMMA UsedIs ==
    ASSUME NEW t \in Thread
    PROVE  LET r == Used(t)
           IN  /\ r \in Thread
               /\ r.pc = t.pc /\ r.goal = t.goal /\ r.kind = t.kind /\ r.up = t.up
               /\ r.answer = None /\ r.outcome = t.outcome
               /\ r.to = IF t.kind = "call" THEN t.to ELSE 0
  BY DEF Used, Thread

LEMMA UnsuccessfulIs ==
    ASSUME NEW t \in Thread, NEW outcome \in Outcome
    PROVE  LET r == Unsuccessful(t, outcome)
           IN  /\ r \in Thread /\ r.goal = t.goal /\ r.answer = None
               /\ t.kind = "init" => /\ r.pc = "kill" /\ r.up = t.up /\ r.outcome = t.outcome
                                     /\ r.to = 0
               /\ t.kind = "list" /\ t.goal = "list" =>
                                     r.pc = "over" /\ r.outcome = "none" /\ r.to = 0
               /\ t.kind = "list" /\ t.goal = "call" =>
                                     r.pc = "settle" /\ r.outcome = "notRun" /\ r.to = 0
               /\ t.kind = "call" => /\ r.pc = "settle" /\ r.outcome = outcome /\ r.to = t.to
<1> DEFINE u == Used(t)
<1>1. /\ u \in Thread /\ u.pc = t.pc /\ u.goal = t.goal /\ u.kind = t.kind /\ u.up = t.up
      /\ u.answer = None /\ u.outcome = t.outcome
      /\ u.to = IF t.kind = "call" THEN t.to ELSE 0
  BY UsedIs
<1>2. /\ t.kind = "init" => Unsuccessful(t, outcome) = [u EXCEPT !.pc = "kill"]
      /\ t.kind = "list" => Unsuccessful(t, outcome) = Failed(u)
      /\ t.kind = "call" =>
            Unsuccessful(t, outcome) = [u EXCEPT !.pc = "settle", !.outcome = outcome]
  BY DEF Unsuccessful
<1> HIDE DEF u
<1>3. CASE t.kind = "init"
  BY <1>1, <1>2, <1>3 DEF Thread
<1>4. CASE t.kind = "list"
  <2>1. Unsuccessful(t, outcome) = Failed(u)
    BY <1>2, <1>4
  <2> QED
    BY <1>1, <1>4, <2>1, FailedIs, ThreadIs
<1>5. CASE t.kind = "call"
  BY <1>1, <1>2, <1>5 DEF Thread, Outcome
<1> QED
  BY <1>3, <1>4, <1>5, ThreadIs DEF Kind

LEMMA ObjectIs ==
    ASSUME NEW o \in Object
    PROVE  /\ o.proc \in Nat \cup {None} /\ o.nextId \in Nat /\ o.pending \in SUBSET Request
           /\ o.starter \in Caller \cup {None} /\ o.writer \in Caller \cup {None}
           /\ o.listed \in BOOLEAN
  BY DEF Object

LEMMA RequestingIs ==
    ASSUME NEW t \in Thread, t.up \in Up, object \in [Up -> Object], NEW kind \in Kind
    PROVE  LET r == Requesting(t, kind)
           IN  /\ r \in Thread
               /\ r.pc = "send" /\ r.up = t.up /\ r.goal = t.goal /\ r.kind = kind
               /\ r.id = object[t.up].nextId + 1 /\ r.to = t.to /\ r.answer = None
               /\ r.outcome = t.outcome
<1> DEFINE n == object[t.up].nextId + 1
<1>1. n \in Nat
  BY ObjectIs
<1>2. Requesting(t, kind) = [t EXCEPT !.pc = "send", !.kind = kind, !.id = n, !.answer = None]
  BY DEF Requesting, NewId
<1> HIDE DEF n
<1>3. LET r == Requesting(t, kind)
      IN  /\ r \in Thread
          /\ r.pc = "send" /\ r.up = t.up /\ r.goal = t.goal /\ r.kind = kind
          /\ r.id = n /\ r.to = t.to /\ r.answer = None /\ r.outcome = t.outcome
  BY <1>1, <1>2 DEF Thread
<1> QED
  BY <1>3 DEF n

LEMMA RegisteredIs ==
    ASSUME NEW o \in Object, NEW c \in Caller
    PROVE  LET r == Registered(o, c)
           IN  /\ r \in Object
               /\ r.proc = o.proc /\ r.nextId = o.nextId + 1 /\ r.starter = o.starter
               /\ r.writer = o.writer /\ r.listed = o.listed
               /\ r.pending = o.pending \cup {[id |-> o.nextId + 1, by |-> c]}
<1> DEFINE n == o.nextId + 1
           s == o.pending \cup {[id |-> n, by |-> c]}
<1>1. n \in Nat /\ o.pending \in SUBSET Request
  BY ObjectIs
<1>2. s \in SUBSET Request
  BY <1>1 DEF Request
<1>3. Registered(o, c) = [o EXCEPT !.nextId = n, !.pending = s]
  BY DEF Registered, NewId
<1> HIDE DEF n, s
<1>4. LET r == Registered(o, c)
      IN  /\ r \in Object
          /\ r.proc = o.proc /\ r.nextId = n /\ r.starter = o.starter
          /\ r.writer = o.writer /\ r.listed = o.listed /\ r.pending = s
  BY <1>1, <1>2, <1>3 DEF Object
<1> QED
  BY <1>4 DEF n, s

LEMMA UnregisteredIs ==
    ASSUME object \in [Up -> Object], NEW c \in Caller, thread[c].up \in Up
    PROVE  LET r == Unregistered(c)
               o == object[thread[c].up]
           IN  /\ r \in Object
               /\ r.proc = o.proc /\ r.nextId = o.nextId /\ r.starter = o.starter
               /\ r.writer = o.writer /\ r.listed = o.listed
               /\ r.pending = {q \in o.pending : q.id # thread[c].id}
<1> DEFINE o == object[thread[c].up]
           s == {q \in o.pending : q.id # thread[c].id}
<1>1. o \in Object /\ Unregistered(c) = [o EXCEPT !.pending = s]
  BY DEF Obj, Unregistered
<1>2. s \in SUBSET Request
  BY <1>1, ObjectIs
<1> HIDE DEF s, o
<1>3. LET r == Unregistered(c)
      IN  /\ r \in Object
          /\ r.proc = o.proc /\ r.nextId = o.nextId /\ r.starter = o.starter
          /\ r.writer = o.writer /\ r.listed = o.listed /\ r.pending = s
  BY <1>1, <1>2 DEF Object
<1> QED
  BY <1>3 DEF s, o

----------------------------------------------------------------------------
(* What the steps of a caller do to its own state and to its object.       *)

OthersStay(c) ==
    /\ thread' \in [Caller -> Thread]
    /\ \A d \in Caller : d # c => thread'[d] = thread[d]

\* A step of c after which it has no request under way.
Leaves(c) ==
    /\ OthersStay(c)
    /\ ~Asking(thread'[c]) /\ thread'[c].answer = None
    /\ object' \in [Up -> Object]
    /\ \A u \in Up :
          LET old == object[u]
              new == object'[u]
          IN  /\ new.proc = old.proc /\ new.nextId = old.nextId
              /\ new.pending \subseteq {q \in old.pending : q.by # c}
              /\ new.starter = old.starter \/ (old.starter = c /\ new.starter = None)
              /\ new.writer = old.writer \/ (old.writer = c /\ new.writer = None)

\* A step of c that registers a request on its object.
Asks(c) ==
    LET t == thread'[c]
        u == thread[c].up
        old == object[u]
        new == object'[u]
    IN  /\ OthersStay(c)
        /\ u \in Up
        /\ t.pc = "send" /\ t.up = u /\ t.goal = thread[c].goal /\ t.outcome = thread[c].outcome
        /\ t.id = old.nextId + 1 /\ t.answer = None
        /\ object' \in [Up -> Object]
        /\ \A v \in Up : v # u => object'[v] = object[v]
        /\ new.nextId = old.nextId + 1
        /\ new.pending = old.pending \cup {[id |-> t.id, by |-> c]}
        /\ new.writer = old.writer
        /\ \A q \in old.pending : q.by # c

LEMMA StateIs ==
    ASSUME TypeOK
    PROVE  /\ object \in [Up -> Object] /\ thread \in [Caller -> Thread]
           /\ \A c \in Caller : thread[c] \in Thread
           /\ \A u \in Up : object[u] \in Object
           /\ server \in Seq(Process) /\ Len(server) \in Nat
           /\ \A p \in Procs : server[p] \in Process
  BY DEF TypeOK, Procs

LEMMA Becomes ==
    ASSUME TypeOK, NEW c \in Caller, NEW t \in Thread, Become(c, t)
    PROVE  OthersStay(c) /\ thread'[c] = t
  BY StateIs DEF Become, OthersStay

LEMMA NoPending ==
    ASSUME BaseInv, NEW c \in Caller, ~Asking(thread[c]) \/ thread[c].answer # None
    PROVE  \A u \in Up : \A q \in object[u].pending : q.by # c
  BY DEF BaseInv, OwnInv, PendingOwn

\* The object is left alone.
LEMMA LeavesObject ==
    ASSUME BaseInv, NEW c \in Caller, NEW t \in Thread, Become(c, t),
           ~Asking(t), t.answer = None, object' = object,
           ~Asking(thread[c]) \/ thread[c].answer # None
    PROVE  Leaves(c) /\ thread'[c] = t
<1>1. OthersStay(c) /\ thread'[c] = t
  BY Becomes DEF BaseInv
<1>2. \A u \in Up : \A q \in object[u].pending : q.by # c
  BY NoPending
<1> QED
  BY <1>1, <1>2, StateIs DEF Leaves, BaseInv

\* Its request is taken off the object.
LEMMA LeavesRequest ==
    ASSUME BaseInv, NEW c \in Caller, NEW t \in Thread, Become(c, t),
           ~Asking(t), t.answer = None, Asking(thread[c]),
           \/ object' = [object EXCEPT ![thread[c].up] = Unregistered(c)]
           \/ /\ object' = [object EXCEPT ![thread[c].up] = [Unregistered(c) EXCEPT !.writer = None]]
              /\ object[thread[c].up].writer = c
    PROVE  Leaves(c) /\ thread'[c] = t
<1> DEFINE u == thread[c].up
           o == Unregistered(c)
           w == [o EXCEPT !.writer = None]
<1>1. OthersStay(c) /\ thread'[c] = t
  BY Becomes DEF BaseInv
<1>2. u \in Up /\ object \in [Up -> Object]
  BY StateIs DEF BaseInv, UseInv, CallerUse, Using
<1>3. /\ o \in Object
      /\ o.proc = object[u].proc /\ o.nextId = object[u].nextId
      /\ o.starter = object[u].starter /\ o.writer = object[u].writer
      /\ o.pending = {q \in object[u].pending : q.id # thread[c].id}
  BY <1>2, UnregisteredIs
<1>4. \A v \in Up : \A q \in object[v].pending : q.by = c => v = u /\ q.id = thread[c].id
  BY DEF BaseInv, OwnInv, PendingOwn
<1>5. \/ object' = [object EXCEPT ![u] = o]
      \/ object' = [object EXCEPT ![u] = w] /\ object[u].writer = c
  OBVIOUS
<1> HIDE DEF o, w
<1>6. /\ w \in Object
      /\ w.proc = o.proc /\ w.nextId = o.nextId /\ w.starter = o.starter /\ w.writer = None
      /\ w.pending = o.pending
  BY <1>3 DEF Object, w
<1> HIDE DEF u
<1>7. \A v \in Up : \A q \in object[v].pending : v # u => q.by # c
  BY <1>4
<1>8. o.pending \subseteq {q \in object[u].pending : q.by # c}
  BY <1>2, <1>3, <1>4
<1>9. object' \in [Up -> Object] /\ \A v \in Up : v # u => object'[v] = object[v]
  BY <1>2, <1>3, <1>5, <1>6
<1>10. object'[u] = o \/ (object'[u] = w /\ object[u].writer = c)
  BY <1>2, <1>5
<1>11. ASSUME NEW v \in Up
       PROVE  LET old == object[v]
                  new == object'[v]
              IN  /\ new.proc = old.proc /\ new.nextId = old.nextId
                  /\ new.pending \subseteq {q \in old.pending : q.by # c}
                  /\ new.starter = old.starter \/ (old.starter = c /\ new.starter = None)
                  /\ new.writer = old.writer \/ (old.writer = c /\ new.writer = None)
  <2>1. CASE v = u
    BY <1>3, <1>6, <1>8, <1>10, <2>1
  <2>2. CASE v # u
    BY <1>7, <1>9, <2>2
  <2> QED
    BY <2>1, <2>2
<1> QED
  BY <1>1, <1>9, <1>11 DEF Leaves

----------------------------------------------------------------------------
(* The steps of a caller, one by one.                                      *)

\* What a step of c that leaves the servers alone does to what it refers to.
LEMMA InventoryIs ==
    ASSUME BaseInv, NEW c \in Caller, Inventory(c)
    PROVE  /\ Leaves(c) /\ server' = server /\ UNCHANGED <<history, ran, sent>>
           /\ thread[c].pc = "inventory"
           /\ thread'[c].goal = thread[c].goal
           /\ \/ /\ thread'[c].pc = "ensure" /\ thread'[c].up \in Up
                 /\ thread'[c].to = thread[c].to /\ thread'[c].outcome = thread[c].outcome
              \/ thread'[c].pc = "over" /\ thread'[c].to = 0 /\ thread'[c].outcome = "none"
<1> DEFINE t == thread[c]
           over == Over(t, "none")
           next == [t EXCEPT !.up = up, !.pc = "ensure"]
<1>1. t \in Thread /\ up \in Up \cup {None}
  BY DEF BaseInv, TypeOK
<1>2. /\ t.pc = "inventory" /\ Become(c, IF up = None THEN over ELSE next)
      /\ object' = object /\ server' = server /\ UNCHANGED <<history, ran, sent>>
  BY DEF Inventory, gateway, ghosts
<1>3. t.answer = None /\ ~Asking(t)
  BY <1>2 DEF BaseInv, OwnInv, RequestOwn, Asking
<1>4. /\ over \in Thread /\ over.pc = "over" /\ over.answer = None /\ over.goal = t.goal
      /\ over.to = 0 /\ over.outcome = "none"
  BY <1>1, OverIs DEF Outcome
<1>5. ASSUME up # None
      PROVE  /\ next \in Thread /\ next.pc = "ensure" /\ next.answer = None /\ next.up \in Up
             /\ next.goal = t.goal /\ next.to = t.to /\ next.outcome = t.outcome
  BY <1>1, <1>3, <1>5 DEF Thread
<1> HIDE DEF over, next
<1>6. CASE up = None
  <2>1. Become(c, over) /\ ~Asking(over)
    BY <1>2, <1>4, <1>6 DEF Asking
  <2>2. Leaves(c) /\ thread'[c] = over
    BY <1>2, <1>3, <1>4, <2>1, LeavesObject
  <2> QED
    BY <1>2, <1>4, <2>2
<1>7. CASE up # None
  <2>1. Become(c, next) /\ ~Asking(next)
    BY <1>2, <1>5, <1>7 DEF Asking
  <2>2. Leaves(c) /\ thread'[c] = next
    BY <1>2, <1>3, <1>5, <1>7, <2>1, LeavesObject
  <2> QED
    BY <1>2, <1>5, <1>7, <2>2
<1> QED
  BY <1>6, <1>7

LEMMA LookupIs ==
    ASSUME BaseInv, NEW c \in Caller, Lookup(c)
    PROVE  /\ Leaves(c) /\ server' = server /\ UNCHANGED <<history, ran, sent>>
           /\ thread[c].pc = "lookup"
           /\ thread'[c].goal = thread[c].goal
           /\ \/ /\ thread'[c].pc = "ensure" /\ thread'[c].up \in Up
                 /\ thread'[c].to = thread[c].to /\ thread'[c].outcome = thread[c].outcome
              \/ /\ thread'[c] = Failed(thread[c])
<1> DEFINE t == thread[c]
           failed == Failed(t)
           next == [t EXCEPT !.up = up, !.pc = "ensure"]
<1>1. t \in Thread /\ up \in Up \cup {None}
  BY DEF BaseInv, TypeOK
<1>2. /\ t.pc = "lookup" /\ Become(c, IF up = None THEN failed ELSE next)
      /\ object' = object /\ server' = server /\ UNCHANGED <<history, ran, sent>>
  BY DEF Lookup, gateway, ghosts
<1>3. t.answer = None /\ ~Asking(t)
  BY <1>2 DEF BaseInv, OwnInv, RequestOwn, Asking
<1>4. /\ failed \in Thread /\ failed.pc \in {"over", "settle"} /\ failed.answer = None
      /\ failed.goal = t.goal
  BY <1>1, <1>3, FailedIs, ThreadIs
<1>5. ASSUME up # None
      PROVE  /\ next \in Thread /\ next.pc = "ensure" /\ next.answer = None /\ next.up \in Up
             /\ next.goal = t.goal /\ next.to = t.to /\ next.outcome = t.outcome
  BY <1>1, <1>3, <1>5 DEF Thread
<1> HIDE DEF failed, next
<1>6. CASE up = None
  <2>1. Become(c, failed) /\ ~Asking(failed)
    BY <1>2, <1>4, <1>6 DEF Asking
  <2>2. Leaves(c) /\ thread'[c] = failed
    BY <1>2, <1>3, <1>4, <2>1, LeavesObject
  <2> QED
    BY <1>2, <1>4, <2>2 DEF failed
<1>7. CASE up # None
  <2>1. Become(c, next) /\ ~Asking(next)
    BY <1>2, <1>5, <1>7 DEF Asking
  <2>2. Leaves(c) /\ thread'[c] = next
    BY <1>2, <1>3, <1>5, <1>7, <2>1, LeavesObject
  <2> QED
    BY <1>2, <1>5, <1>7, <2>2
<1> QED
  BY <1>6, <1>7

LEMMA AdmitIs ==
    ASSUME BaseInv, NEW c \in Caller, Admit(c)
    PROVE  /\ Leaves(c) /\ server' = server /\ UNCHANGED <<counted, ran, sent>>
           /\ thread[c].pc = "decide"
           /\ thread'[c].pc = "lookup" /\ thread'[c].goal = "call"
           /\ thread'[c].to = thread[c].to /\ thread'[c].outcome = thread[c].outcome
           /\ session[SessionOf[c]] = None
           /\ session' = [session EXCEPT ![SessionOf[c]] = c]
           /\ missed' = [missed EXCEPT ![c] = {d \in CallsOf(SessionOf[c]) :
                                                  thread[d].goal = "call"} \ counted]
<1> DEFINE t == thread[c]
           next == [t EXCEPT !.pc = "lookup", !.goal = "call"]
<1>1. t \in Thread
  BY StateIs DEF BaseInv
<1>2. /\ t.pc = "decide" /\ Become(c, next)
      /\ object' = object /\ server' = server /\ UNCHANGED <<counted, ran, sent>>
      /\ session[SessionOf[c]] = None
      /\ session' = [session EXCEPT ![SessionOf[c]] = c]
      /\ missed' = [missed EXCEPT ![c] = {d \in CallsOf(SessionOf[c]) :
                                             thread[d].goal = "call"} \ counted]
  BY DEF Admit, Decided, ghosts
<1>3. t.answer = None /\ ~Asking(t)
  BY <1>2 DEF BaseInv, OwnInv, RequestOwn, Asking
<1>4. /\ next \in Thread /\ next.pc = "lookup" /\ next.answer = None /\ next.goal = "call"
      /\ next.to = t.to /\ next.outcome = t.outcome
  BY <1>1, <1>3 DEF Thread
<1> HIDE DEF next
<1>5. Leaves(c) /\ thread'[c] = next
  BY <1>2, <1>3, <1>4, LeavesObject DEF Asking
<1> QED
  BY <1>2, <1>4, <1>5

\* The call returns: refused, or settled.
LEMMA ReturnIs ==
    ASSUME BaseInv, NEW c \in Caller, NEW outcome \in Outcome,
           Become(c, Over(thread[c], outcome)), object' = object, ~Asking(thread[c])
    PROVE  /\ Leaves(c)
           /\ thread'[c].pc = "over" /\ thread'[c].goal = thread[c].goal
           /\ thread'[c].outcome = outcome
           /\ thread'[c].to = IF outcome = "notRun" THEN thread[c].to ELSE 0
<1> DEFINE over == Over(thread[c], outcome)
<1>1. /\ over \in Thread /\ over.pc = "over" /\ over.answer = None /\ over.goal = thread[c].goal
      /\ over.outcome = outcome /\ over.to = IF outcome = "notRun" THEN thread[c].to ELSE 0
  BY OverIs, StateIs DEF BaseInv
<1>2. Become(c, over)
  OBVIOUS
<1> HIDE DEF over
<1>3. Leaves(c) /\ thread'[c] = over
  BY <1>1, <1>2, LeavesObject DEF Asking
<1> QED
  BY <1>1, <1>3

\* A start that failed, or one that is given up.
LEMMA StartFailsIs ==
    ASSUME BaseInv, NEW c \in Caller, StartFails(c) \/ KillStarted(c)
    PROVE  /\ Leaves(c) /\ thread'[c] = Failed(thread[c])
           /\ thread[c].pc \in {"ensure", "kill"} /\ thread[c].up \in Up
           /\ UNCHANGED <<history, sent>>
           /\ StartFails(c) => UNCHANGED <<server, ran>>
           /\ KillStarted(c) => object[thread[c].up].proc \in Procs
<1> DEFINE t == thread[c]
           u == t.up
           failed == Failed(t)
<1>1. t \in Thread /\ object \in [Up -> Object] /\ object[u] \in Object /\ u \in Up
  BY StateIs DEF BaseInv, UseInv, CallerUse, Using, StartFails, KillStarted, Ensuring
<1>2. /\ t.pc \in {"ensure", "kill"} /\ Become(c, failed) /\ UNCHANGED <<history, sent>>
      /\ StartFails(c) => UNCHANGED <<server, ran>>
  BY DEF StartFails, KillStarted, Ensuring, gateway, ghosts
<1>3. t.answer = None /\ ~Asking(t)
  BY <1>2 DEF BaseInv, OwnInv, RequestOwn, Asking
<1>4. failed \in Thread /\ ~Asking(failed) /\ failed.answer = None
  BY <1>1, <1>3, FailedIs, ThreadIs DEF Asking
<1>5. \A v \in Up : \A q \in object[v].pending : q.by # c
  BY <1>3, NoPending
<1> HIDE DEF failed
<1>6. OthersStay(c) /\ thread'[c] = failed
  BY <1>2, <1>4, Becomes DEF BaseInv
<1>7. KillStarted(c) => object[u].starter = c /\ object[u].proc \in Procs
  <2>1. KillStarted(c) => t.pc = "kill"
    BY DEF KillStarted
  <2> QED
    BY <1>1, <2>1, NoneAssumption DEF BaseInv, UseInv, CallerUse, ObjectUse, Starting
<1>8. \/ object' = [object EXCEPT ![u].listed = FALSE]
      \/ object' = [object EXCEPT ![u].starter = None] /\ object[u].starter = c
  BY <1>7 DEF StartFails, KillStarted, Unstarted
<1> HIDE DEF u
<1>9. /\ object' \in [Up -> Object]
      /\ \A v \in Up : /\ object'[v].proc = object[v].proc /\ object'[v].nextId = object[v].nextId
                       /\ object'[v].pending = object[v].pending
                       /\ object'[v].writer = object[v].writer
                       /\ \/ object'[v].starter = object[v].starter
                          \/ object[v].starter = c /\ object'[v].starter = None
  <2>1. CASE object' = [object EXCEPT ![u].listed = FALSE]
    BY <1>1, <2>1 DEF Object
  <2>2. CASE object' = [object EXCEPT ![u].starter = None] /\ object[u].starter = c
    BY <1>1, <2>2 DEF Object
  <2> QED
    BY <1>8, <2>1, <2>2
<1>10. Leaves(c)
  BY <1>4, <1>5, <1>6, <1>9 DEF Leaves
<1> QED
  BY <1>1, <1>2, <1>6, <1>7, <1>10 DEF failed, u

\* A request that was not sent, was not answered, or failed.
LEMMA RequestFailsIs ==
    ASSUME BaseInv, NEW c \in Caller, NEW outcome \in Outcome, Asking(thread[c]),
           Become(c, Unsuccessful(thread[c], outcome)),
           \/ object' = [object EXCEPT ![thread[c].up] = Unregistered(c)]
           \/ /\ object' = [object EXCEPT ![thread[c].up] = [Unregistered(c) EXCEPT !.writer = None]]
              /\ object[thread[c].up].writer = c
           \/ object' = object /\ thread[c].answer # None
    PROVE  Leaves(c) /\ thread'[c] = Unsuccessful(thread[c], outcome)
<1> DEFINE t == thread[c]
           end == Unsuccessful(t, outcome)
<1>1. end \in Thread /\ end.answer = None /\ end.pc \in {"kill", "settle", "over"}
  BY UnsuccessfulIs, StateIs, ThreadIs DEF BaseInv, Kind
<1>2. Become(c, end) /\ ~Asking(end)
  BY <1>1 DEF Asking
<1> HIDE DEF end
<1>3. CASE object' = object /\ t.answer # None
  <2>1. Leaves(c) /\ thread'[c] = end
    BY <1>1, <1>2, <1>3, LeavesObject
  <2> QED
    BY <2>1 DEF end
<1>4. CASE ~(object' = object /\ t.answer # None)
  <2>1. Leaves(c) /\ thread'[c] = end
    BY <1>1, <1>2, <1>4, LeavesRequest
  <2> QED
    BY <2>1 DEF end
<1> QED
  BY <1>3, <1>4

LEMMA CallAnsweredIs ==
    ASSUME BaseInv, NEW c \in Caller, CallAnswered(c)
    PROVE  /\ Leaves(c) /\ server' = server /\ UNCHANGED <<history, ran, sent>>
           /\ thread[c].pc = "wait" /\ thread[c].kind = "call"
           /\ thread'[c].pc = "settle" /\ thread'[c].goal = thread[c].goal
           /\ thread'[c].outcome = "answered" /\ thread'[c].to = thread[c].to
<1> DEFINE t == thread[c]
           used == Used(t)
           end == [used EXCEPT !.pc = "settle", !.outcome = "answered"]
<1>1. /\ t.pc = "wait" /\ t.kind = "call" /\ t.answer # None /\ Become(c, end)
      /\ object' = object /\ server' = server /\ UNCHANGED <<history, ran, sent>>
  BY DEF CallAnswered, Answered, gateway, ghosts
<1>2. t \in Thread
  BY StateIs DEF BaseInv
<1>3. used \in Thread /\ used.answer = None /\ used.goal = t.goal /\ used.to = t.to
  BY <1>1, <1>2, UsedIs
<1> HIDE DEF used
<1>4. /\ end \in Thread /\ end.pc = "settle" /\ end.answer = None /\ end.goal = t.goal
      /\ end.to = t.to /\ end.outcome = "answered"
  BY <1>3 DEF Thread
<1> HIDE DEF end
<1>5. Leaves(c) /\ thread'[c] = end
  BY <1>1, <1>4, LeavesObject DEF Asking
<1> QED
  BY <1>1, <1>4, <1>5

\* The tool list is known: asked for now, or before.
LEMMA DecidesIs ==
    ASSUME BaseInv, NEW c \in Caller, NEW t \in Thread, NEW o \in Object, NEW u \in Up,
           u = thread[c].up, t.answer = None,
           ~Asking(thread[c]) \/ thread[c].answer # None,
           Become(c, [t EXCEPT !.pc = "decide"]),
           object' = [object EXCEPT ![u] = o],
           o.proc = object[u].proc, o.nextId = object[u].nextId,
           o.pending = object[u].pending, o.writer = object[u].writer,
           o.starter = object[u].starter \/ (object[u].starter = c /\ o.starter = None)
    PROVE  /\ Leaves(c)
           /\ thread'[c].pc = "decide" /\ thread'[c].goal = t.goal
           /\ thread'[c].to = t.to /\ thread'[c].outcome = t.outcome
<1> DEFINE next == [t EXCEPT !.pc = "decide"]
<1>1. /\ next \in Thread /\ next.pc = "decide" /\ next.answer = None /\ next.goal = t.goal
      /\ next.to = t.to /\ next.outcome = t.outcome
  BY DEF Thread
<1> HIDE DEF next
<1>2. OthersStay(c) /\ thread'[c] = next
  BY <1>1, Becomes DEF BaseInv, next
<1>3. \A v \in Up : \A q \in object[v].pending : q.by # c
  BY NoPending
<1>4. object \in [Up -> Object]
  BY StateIs DEF BaseInv
<1>5. object' \in [Up -> Object] /\ object'[u] = o /\ \A v \in Up : v # u => object'[v] = object[v]
  BY <1>4
<1>6. Leaves(c)
  BY <1>1, <1>2, <1>3, <1>5 DEF Leaves, Asking
<1> QED
  BY <1>1, <1>2, <1>6

LEMMA ListedIs ==
    ASSUME BaseInv, NEW c \in Caller, Listed(c)
    PROVE  /\ Leaves(c) /\ server' = server /\ UNCHANGED <<history, ran, sent>>
           /\ thread[c].pc = "wait" /\ thread[c].kind = "list"
           /\ thread'[c].pc = "decide" /\ thread'[c].goal = thread[c].goal
           /\ thread'[c].to = 0 /\ thread'[c].outcome = thread[c].outcome
<1> DEFINE t == thread[c]
           u == t.up
           used == Used(t)
           o == [object[u] EXCEPT !.listed = TRUE]
<1>1. /\ t.pc = "wait" /\ t.kind = "list" /\ t.answer # None
      /\ Become(c, [used EXCEPT !.pc = "decide"])
      /\ object' = [object EXCEPT ![u] = o] /\ server' = server
      /\ UNCHANGED <<history, ran, sent>>
  BY DEF Listed, Answered, gateway, ghosts
<1>2. t \in Thread /\ u \in Up /\ object[u] \in Object
  BY <1>1, StateIs DEF BaseInv, UseInv, CallerUse, Using, Asking
<1>3. /\ used \in Thread /\ used.answer = None /\ used.goal = t.goal /\ used.to = 0
      /\ used.outcome = t.outcome
  BY <1>1, <1>2, UsedIs
<1>4. /\ o \in Object /\ o.proc = object[u].proc /\ o.nextId = object[u].nextId
      /\ o.pending = object[u].pending /\ o.writer = object[u].writer
      /\ o.starter = object[u].starter
  BY <1>2 DEF Object
<1> HIDE DEF used, o
<1>5. /\ Leaves(c) /\ thread'[c].pc = "decide" /\ thread'[c].goal = used.goal
      /\ thread'[c].to = used.to /\ thread'[c].outcome = used.outcome
  BY <1>1, <1>2, <1>3, <1>4, DecidesIs
<1> QED
  BY <1>1, <1>3, <1>5

\* A new request: t is c's state, and o its object with the request.
Requests(c, u, t, o, kind) ==
    /\ u = thread[c].up /\ t.up = u
    /\ t.goal = thread[c].goal /\ t.outcome = thread[c].outcome
    /\ ~Asking(thread[c]) \/ thread[c].answer # None
    /\ Become(c, Requesting(t, kind))
    /\ object' = [object EXCEPT ![u] = o]
    /\ o.nextId = object[u].nextId + 1 /\ o.writer = object[u].writer
    /\ o.pending = object[u].pending \cup {[id |-> object[u].nextId + 1, by |-> c]}

LEMMA AsksIs ==
    ASSUME BaseInv, NEW c \in Caller, NEW t \in Thread, NEW o \in Object, NEW u \in Up,
           NEW kind \in Kind, Requests(c, u, t, o, kind)
    PROVE  Asks(c) /\ thread'[c].kind = kind /\ thread'[c].to = t.to /\ object'[u] = o
<1> USE DEF Requests
<1> DEFINE next == Requesting(t, kind)
<1>1. object \in [Up -> Object]
  BY StateIs DEF BaseInv
<1>2. /\ next \in Thread
      /\ next.pc = "send" /\ next.up = u /\ next.goal = t.goal /\ next.kind = kind
      /\ next.id = object[u].nextId + 1 /\ next.to = t.to /\ next.answer = None
      /\ next.outcome = t.outcome
  BY <1>1, RequestingIs
<1>3. Become(c, next)
  OBVIOUS
<1> HIDE DEF next
<1>4. OthersStay(c) /\ thread'[c] = next
  BY <1>2, <1>3, Becomes DEF BaseInv
<1>5. \A q \in object[u].pending : q.by # c
  BY NoPending
<1>6. object' \in [Up -> Object] /\ object'[u] = o /\ \A v \in Up : v # u => object'[v] = object[v]
  BY <1>1
<1>7. Asks(c)
  BY <1>2, <1>4, <1>5, <1>6 DEF Asks
<1> QED
  BY <1>2, <1>4, <1>6, <1>7

\* tools() or call() goes on: o and t are what _ensure left.
LEMMA ProceedIs ==
    ASSUME BaseInv, NEW c \in Caller, NEW t \in Thread, NEW o \in Object, NEW u \in Up,
           u = thread[c].up, t.up = u, t.answer = None,
           t.goal = thread[c].goal, t.outcome = thread[c].outcome,
           ~Asking(thread[c]) \/ thread[c].answer # None,
           Proceed(c, o, t),
           o.proc = object[u].proc, o.nextId = object[u].nextId,
           o.pending = object[u].pending, o.writer = object[u].writer,
           o.starter = object[u].starter \/ (object[u].starter = c /\ o.starter = None)
    PROVE  \/ /\ Leaves(c) /\ t.goal = "list"
              /\ thread'[c].pc = "decide" /\ thread'[c].goal = t.goal
              /\ thread'[c].to = t.to /\ thread'[c].outcome = t.outcome
           \/ /\ Asks(c) /\ thread'[c].kind = t.goal /\ thread'[c].to = t.to
              /\ object'[u].proc = o.proc /\ object'[u].starter = o.starter
<1>1. CASE t.goal = "list" /\ o.listed
  <2>1. Become(c, [t EXCEPT !.pc = "decide"]) /\ object' = [object EXCEPT ![u] = o]
    BY <1>1 DEF Proceed
  <2> QED
    BY <1>1, <2>1, DecidesIs
<1>2. CASE ~(t.goal = "list" /\ o.listed)
  <2> DEFINE r == Registered(o, c)
  <2>1. Become(c, Requesting(t, t.goal)) /\ object' = [object EXCEPT ![u] = r]
    BY <1>2 DEF Proceed
  <2>2. /\ r \in Object /\ r.proc = o.proc /\ r.nextId = o.nextId + 1 /\ r.starter = o.starter
        /\ r.writer = o.writer
        /\ r.pending = o.pending \cup {[id |-> o.nextId + 1, by |-> c]}
    BY RegisteredIs
  <2>3. t.goal \in Kind
    BY ThreadIs DEF Kind
  <2> HIDE DEF r
  <2>4. /\ r.nextId = object[u].nextId + 1 /\ r.writer = object[u].writer
        /\ r.pending = object[u].pending \cup {[id |-> object[u].nextId + 1, by |-> c]}
    BY <2>2
  <2> DEFINE kind == t.goal
  <2>5. kind \in Kind /\ Become(c, Requesting(t, kind))
    BY <2>1, <2>3
  <2> HIDE DEF kind
  <2>6. r \in Object /\ object' = [object EXCEPT ![u] = r]
    BY <2>1, <2>2
  <2>7. Requests(c, u, t, r, kind)
    BY <2>4, <2>5, <2>6 DEF Requests
  <2>8. Asks(c) /\ thread'[c].kind = kind /\ thread'[c].to = t.to /\ object'[u] = r
    BY <2>5, <2>6, <2>7, AsksIs
  <2> QED
    BY <2>2, <2>8 DEF kind
<1> QED
  BY <1>1, <1>2

LEMMA EnsureAliveIs ==
    ASSUME BaseInv, NEW c \in Caller, EnsureAlive(c)
    PROVE  /\ server' = server /\ UNCHANGED <<history, ran, sent>>
           /\ thread[c].pc = "ensure"
           /\ \/ /\ Leaves(c) /\ thread[c].goal = "list"
                 /\ thread'[c].pc = "decide" /\ thread'[c].goal = thread[c].goal
                 /\ thread'[c].to = thread[c].to /\ thread'[c].outcome = thread[c].outcome
              \/ /\ Asks(c) /\ thread'[c].kind = thread[c].goal /\ thread'[c].to = thread[c].to
                 /\ object'[thread[c].up].proc = object[thread[c].up].proc
                 /\ object'[thread[c].up].starter = object[thread[c].up].starter
<1> DEFINE t == thread[c]
           u == t.up
           o == object[u]
<1>1. t.pc = "ensure" /\ Proceed(c, o, t) /\ server' = server /\ UNCHANGED <<history, ran, sent>>
  BY DEF EnsureAlive, Ensuring, Obj, gateway, ghosts
<1>2. t \in Thread /\ u \in Up /\ o \in Object
  BY <1>1, StateIs DEF BaseInv, UseInv, CallerUse, Using
<1>3. t.answer = None /\ ~Asking(t)
  BY <1>1 DEF BaseInv, OwnInv, RequestOwn, Asking
<1>4. \/ /\ Leaves(c) /\ t.goal = "list"
         /\ thread'[c].pc = "decide" /\ thread'[c].goal = t.goal
         /\ thread'[c].to = t.to /\ thread'[c].outcome = t.outcome
      \/ /\ Asks(c) /\ thread'[c].kind = t.goal /\ thread'[c].to = t.to
         /\ object'[u].proc = o.proc /\ object'[u].starter = o.starter
  BY <1>1, <1>2, <1>3, ProceedIs
<1> QED
  BY <1>1, <1>4

LEMMA InitializedIs ==
    ASSUME BaseInv, NEW c \in Caller, Initialized(c)
    PROVE  /\ server' = server /\ UNCHANGED <<history, ran, sent>>
           /\ thread[c].pc = "wait" /\ thread[c].kind = "init"
           /\ \/ /\ Leaves(c) /\ thread[c].goal = "list"
                 /\ thread'[c].pc = "decide" /\ thread'[c].goal = thread[c].goal
                 /\ thread'[c].to = 0 /\ thread'[c].outcome = thread[c].outcome
              \/ /\ Asks(c) /\ thread'[c].kind = thread[c].goal /\ thread'[c].to = 0
                 /\ object'[thread[c].up].proc = object[thread[c].up].proc
                 /\ object'[thread[c].up].starter = None
           /\ object[thread[c].up].starter = c
<1> DEFINE t == thread[c]
           u == t.up
           o == [object[u] EXCEPT !.starter = None]
           used == Used(t)
<1>1. /\ t.pc = "wait" /\ t.kind = "init" /\ t.answer # None /\ Proceed(c, o, used)
      /\ server' = server /\ UNCHANGED <<history, ran, sent>>
  BY DEF Initialized, Answered, Obj, gateway, ghosts
<1>2. t \in Thread /\ u \in Up /\ object[u] \in Object /\ object[u].starter = c
  BY <1>1, StateIs DEF BaseInv, UseInv, CallerUse, Using, Starting, Asking
<1>3. /\ used \in Thread /\ used.answer = None /\ used.goal = t.goal /\ used.to = 0
      /\ used.outcome = t.outcome /\ used.up = u
  BY <1>1, <1>2, UsedIs
<1>4. /\ o \in Object /\ o.proc = object[u].proc /\ o.nextId = object[u].nextId
      /\ o.pending = object[u].pending /\ o.writer = object[u].writer /\ o.starter = None
  BY <1>2 DEF Object
<1> HIDE DEF used, o
<1>5. \/ /\ Leaves(c) /\ used.goal = "list"
         /\ thread'[c].pc = "decide" /\ thread'[c].goal = used.goal
         /\ thread'[c].to = used.to /\ thread'[c].outcome = used.outcome
      \/ /\ Asks(c) /\ thread'[c].kind = used.goal /\ thread'[c].to = used.to
         /\ object'[u].proc = o.proc /\ object'[u].starter = o.starter
  BY <1>1, <1>2, <1>3, <1>4, ProceedIs
<1> QED
  BY <1>1, <1>2, <1>3, <1>4, <1>5

NewProcess(u) == [of |-> u, alive |-> TRUE, closed |-> FALSE, reading |-> TRUE,
                  buffer |-> {}, inbox |-> {}, out |-> {}]

LEMMA StartIs ==
    ASSUME BaseInv, NEW c \in Caller, Start(c)
    PROVE  /\ thread[c].up \in Up
           /\ server' = Append(server, NewProcess(thread[c].up))
           /\ UNCHANGED <<history, ran, sent>>
           /\ thread[c].pc = "ensure"
           /\ Asks(c) /\ thread'[c].kind = "init" /\ thread'[c].to = thread[c].to
           /\ object'[thread[c].up].proc = Len(server')
           /\ object'[thread[c].up].starter = c
           /\ object[thread[c].up].starter = None
<1> DEFINE t == thread[c]
           u == t.up
           n == Len(server')
           r == Registered(object[u], c)
           o == [r EXCEPT !.proc = n, !.listed = FALSE, !.starter = c]
<1>1. /\ t.pc = "ensure" /\ object[u].starter = None /\ server' = Append(server, NewProcess(u))
      /\ UNCHANGED <<history, ran, sent>>
      /\ Become(c, Requesting(t, "init")) /\ object' = [object EXCEPT ![u] = o]
  BY DEF Start, Ensuring, Obj, NewProcess, gateway, ghosts
<1>2. t \in Thread /\ u \in Up /\ object[u] \in Object
  BY <1>1, StateIs DEF BaseInv, UseInv, CallerUse, Using
<1>3. t.answer = None /\ ~Asking(t)
  BY <1>1 DEF BaseInv, OwnInv, RequestOwn, Asking
<1>4. n \in Nat
  BY <1>1, StateIs DEF BaseInv
<1>5. /\ r \in Object /\ r.nextId = object[u].nextId + 1 /\ r.writer = object[u].writer
      /\ r.pending = object[u].pending \cup {[id |-> object[u].nextId + 1, by |-> c]}
  BY <1>2, RegisteredIs
<1> HIDE DEF n, r
<1>6. /\ o \in Object /\ o.nextId = r.nextId /\ o.pending = r.pending /\ o.writer = r.writer
      /\ o.proc = n /\ o.starter = c
  BY <1>4, <1>5 DEF Object
<1> HIDE DEF o
<1>7. /\ o.nextId = object[u].nextId + 1 /\ o.writer = object[u].writer
      /\ o.pending = object[u].pending \cup {[id |-> object[u].nextId + 1, by |-> c]}
  BY <1>5, <1>6
<1>8. "init" \in Kind
  BY DEF Kind
<1>9. Requests(c, u, t, o, "init")
  BY <1>1, <1>3, <1>7 DEF Requests
<1>10. Asks(c) /\ thread'[c].kind = "init" /\ thread'[c].to = t.to /\ object'[u] = o
  BY <1>2, <1>6, <1>8, <1>9, AsksIs
<1> QED
  BY <1>1, <1>2, <1>6, <1>10 DEF n

----------------------------------------------------------------------------
(* Answers are to the caller's own request.                                *)

\* All that travels travelled before: as it is, or as the request a reply is to.
MailFrom ==
    \A p \in Procs' : \A m \in Mail(p)' :
        /\ p \in Procs /\ server'[p].of = server[p].of
        /\ \E n \in Mail(p) : n.id = m.id /\ n.by = m.by

LEMMA UpOf ==
    ASSUME TypeOK
    PROVE  /\ \A p \in Procs : server[p].of \in Up
           /\ \A p \in Procs : \A m \in Mail(p) : m.id \in Nat /\ m.by \in Caller
           /\ \A u \in Up : object[u].nextId \in Nat
           /\ \A u \in Up : \A q \in object[u].pending : q.id \in Nat /\ q.by \in Caller
<1>1. \A p \in Procs : server[p] \in Process
  BY StateIs
<1>2. \A p \in Procs : server[p].of \in Up
  BY <1>1 DEF Process
<1>3. \A p \in Procs : \A m \in Mail(p) : m.id \in Nat /\ m.by \in Caller
  BY <1>1 DEF Process, Mail, Message, Reply
<1>4. \A u \in Up : object[u] \in Object
  BY StateIs
<1>5. \A u \in Up : object[u].nextId \in Nat /\ object[u].pending \in SUBSET Request
  BY <1>4, ObjectIs
<1> QED
  BY <1>2, <1>3, <1>5 DEF Request

LEMMA LeavesOwn ==
    ASSUME BaseInv, NEW c \in Caller, Leaves(c), MailFrom
    PROVE  OwnInv'
<1>1. /\ ~Asking(thread'[c]) /\ thread'[c].answer = None
      /\ \A d \in Caller : d # c => thread'[d] = thread[d]
  BY DEF Leaves, OthersStay
<1>2. \A u \in Up : /\ object'[u].nextId = object[u].nextId
                    /\ \A q \in object'[u].pending : q \in object[u].pending /\ q.by # c
  BY DEF Leaves
<1>3. \A d \in Caller : Asking(thread[d]) => thread[d].up \in Up
  BY DEF BaseInv, UseInv, CallerUse, Using
<1>4. \A d \in Caller : RequestOwn(d)'
  BY <1>1, <1>2, <1>3 DEF BaseInv, OwnInv, RequestOwn
<1>5. \A d, e \in Caller : SameRequest(thread'[d], thread'[e]) => d = e
  BY <1>1 DEF BaseInv, OwnInv, SameRequest
<1>6. \A u \in Up : \A q \in object'[u].pending : PendingOwn(u, q)'
  BY <1>1, <1>2, UpOf DEF BaseInv, OwnInv, PendingOwn
<1>7. ASSUME NEW p \in Procs', NEW m \in Mail(p)'
      PROVE  MailOwn(server[p].of, m)'
  <2>1. /\ p \in Procs /\ server'[p].of = server[p].of /\ server[p].of \in Up
        /\ \E n \in Mail(p) : n.id = m.id /\ n.by = m.by
    BY <1>7, UpOf DEF MailFrom, BaseInv
  <2>2. PICK n \in Mail(p) : n.id = m.id /\ n.by = m.by
    BY <2>1
  <2>3. MailOwn(server[p].of, n)
    BY <2>1 DEF BaseInv, OwnInv
  <2> QED
    BY <1>1, <1>2, <2>1, <2>2, <2>3 DEF MailOwn
<1>8. AnswerIsOwn'
  BY <1>1 DEF BaseInv, OwnInv, AnswerIsOwn
<1> QED
  BY <1>4, <1>5, <1>6, <1>7, <1>8 DEF OwnInv

LEMMA AsksOwn ==
    ASSUME BaseInv, NEW c \in Caller, Asks(c), MailFrom
    PROVE  OwnInv'
<1> DEFINE u == thread[c].up
           n == object[u].nextId
<1>1. /\ Asking(thread'[c]) /\ thread'[c].answer = None /\ thread'[c].up = u
      /\ thread'[c].id = n + 1 /\ u \in Up
      /\ \A d \in Caller : d # c => thread'[d] = thread[d]
  BY DEF Asks, OthersStay, Asking
<1>2. /\ object'[u].nextId = n + 1
      /\ \A q \in object'[u].pending : q \in object[u].pending \/ (q.id = n + 1 /\ q.by = c)
      /\ \A q \in object[u].pending : q.by # c
      /\ \A v \in Up : v # u => object'[v] = object[v]
  BY <1>1 DEF Asks
<1>3. n \in Nat
  BY <1>1, UpOf DEF BaseInv
<1> HIDE DEF u, n
<1>4. \A d \in Caller : Asking(thread[d]) => thread[d].up \in Up
  BY DEF BaseInv, UseInv, CallerUse, Using
<1>5. \A v \in Up : object'[v].nextId \in Nat /\ object[v].nextId \in Nat
                    /\ object[v].nextId <= object'[v].nextId
  <2>1. object[u].nextId = n
    BY DEF n
  <2> QED
    BY <1>1, <1>2, <1>3, <2>1, UpOf DEF BaseInv
<1>6. \A d \in Caller : Asking(thread[d]) =>
          thread[d].id \in Nat /\ (thread[d].up = u => thread[d].id <= n)
                               /\ thread[d].id \in 1 .. object[thread[d].up].nextId
  BY <1>3 DEF BaseInv, OwnInv, RequestOwn, n
<1>7. ASSUME NEW d \in Caller
      PROVE  RequestOwn(d)'
  <2>1. CASE d = c
    BY <1>1, <1>2, <1>3, <2>1 DEF RequestOwn
  <2>2. CASE d # c /\ Asking(thread[d])
    <3>1. thread'[d] = thread[d] /\ thread[d].up \in Up
      BY <1>1, <1>4, <2>2
    <3>2. thread[d].id \in 1 .. object'[thread[d].up].nextId
      BY <1>5, <1>6, <2>2, <3>1
    <3> QED
      BY <2>2, <3>1, <3>2 DEF RequestOwn
  <2>3. CASE d # c /\ ~Asking(thread[d])
    BY <1>1, <2>3 DEF BaseInv, OwnInv, RequestOwn
  <2> QED
    BY <2>1, <2>2, <2>3
<1>8. ASSUME NEW d \in Caller, NEW e \in Caller, SameRequest(thread'[d], thread'[e])
      PROVE  d = e
  <2>1. CASE d # c /\ e # c
    BY <1>1, <1>8, <2>1 DEF BaseInv, OwnInv
  <2>2. CASE d = c /\ e # c
    BY <1>1, <1>3, <1>6, <1>8, <2>2 DEF SameRequest
  <2>3. CASE d # c /\ e = c
    BY <1>1, <1>3, <1>6, <1>8, <2>3 DEF SameRequest
  <2> QED
    BY <2>1, <2>2, <2>3
<1>9. ASSUME NEW v \in Up, NEW q \in object'[v].pending
      PROVE  PendingOwn(v, q)'
  <2>1. CASE q \in object[v].pending
    <3>1. q.by # c \/ v # u
      BY <1>2, <2>1
    <3>2. PendingOwn(v, q) /\ q.by \in Caller
      BY <2>1, UpOf DEF BaseInv, OwnInv
    <3>3. q.by # c
      BY <3>1, <3>2 DEF PendingOwn, u
    <3> QED
      BY <1>1, <3>2, <3>3 DEF PendingOwn
  <2>2. CASE q \notin object[v].pending
    BY <1>1, <1>2, <2>2 DEF PendingOwn
  <2> QED
    BY <2>1, <2>2
<1>10. ASSUME NEW p \in Procs', NEW m \in Mail(p)'
       PROVE  MailOwn(server[p].of, m)'
  <2>1. /\ p \in Procs /\ server'[p].of = server[p].of /\ server[p].of \in Up
        /\ \E l \in Mail(p) : l.id = m.id /\ l.by = m.by
    BY <1>10, UpOf DEF MailFrom, BaseInv
  <2>2. PICK l \in Mail(p) : l.id = m.id /\ l.by = m.by
    BY <2>1
  <2>3. MailOwn(server[p].of, l) /\ l.id \in Nat
    BY <2>1, UpOf DEF BaseInv, OwnInv
  <2>4. m.id <= object'[server[p].of].nextId
    BY <1>5, <2>1, <2>2, <2>3 DEF MailOwn
  <2>5. server[p].of = u => m.id # n + 1
    BY <1>3, <2>2, <2>3 DEF MailOwn, n
  <2>6. \A d \in Caller : Asking(thread'[d]) /\ thread'[d].up = server[p].of /\ thread'[d].id = m.id
                          => m.by = d
    BY <1>1, <2>2, <2>3, <2>5 DEF MailOwn
  <2> QED
    BY <2>1, <2>4, <2>6 DEF MailOwn
<1>11. AnswerIsOwn'
  BY <1>1 DEF BaseInv, OwnInv, AnswerIsOwn
<1> QED
  BY <1>7, <1>8, <1>9, <1>10, <1>11 DEF OwnInv

\* A caller with a request under way goes on with it, and may send it.
GoesOn(c) ==
    /\ OthersStay(c)
    /\ Asking(thread[c]) /\ Asking(thread'[c])
    /\ thread'[c].up = thread[c].up /\ thread'[c].id = thread[c].id
    /\ thread'[c].answer = thread[c].answer
    /\ object' \in [Up -> Object]
    /\ \A u \in Up : /\ object'[u].nextId = object[u].nextId
                     /\ object'[u].pending = object[u].pending

SentBy(c) ==
    \A p \in Procs' : \A m \in Mail(p)' :
        /\ p \in Procs /\ server'[p].of = server[p].of
        /\ \/ \E n \in Mail(p) : n.id = m.id /\ n.by = m.by
           \/ server[p].of = thread[c].up /\ m.id = thread[c].id /\ m.by = c

LEMMA GoesOnOwn ==
    ASSUME BaseInv, NEW c \in Caller, GoesOn(c), SentBy(c)
    PROVE  OwnInv'
<1>1. \A d \in Caller : /\ Asking(thread'[d]) <=> Asking(thread[d])
                        /\ thread'[d].up = thread[d].up /\ thread'[d].id = thread[d].id
                        /\ thread'[d].answer = thread[d].answer
  BY DEF GoesOn, OthersStay
<1>2. \A u \in Up : object'[u].nextId = object[u].nextId /\ object'[u].pending = object[u].pending
  BY DEF GoesOn
<1>3. \A d \in Caller : Asking(thread[d]) => thread[d].up \in Up
  BY DEF BaseInv, UseInv, CallerUse, Using
<1>4. \A d \in Caller : RequestOwn(d)'
  BY <1>1, <1>2, <1>3 DEF BaseInv, OwnInv, RequestOwn
<1>5. \A d, e \in Caller : SameRequest(thread'[d], thread'[e]) => d = e
  BY <1>1 DEF BaseInv, OwnInv, SameRequest
<1>6. \A u \in Up : \A q \in object'[u].pending : PendingOwn(u, q)'
  BY <1>1, <1>2, UpOf DEF BaseInv, OwnInv, PendingOwn
<1>7. ASSUME NEW p \in Procs', NEW m \in Mail(p)'
      PROVE  MailOwn(server[p].of, m)'
  <2>1. /\ p \in Procs /\ server'[p].of = server[p].of /\ server[p].of \in Up
        /\ \/ \E n \in Mail(p) : n.id = m.id /\ n.by = m.by
           \/ server[p].of = thread[c].up /\ m.id = thread[c].id /\ m.by = c
    BY <1>7, UpOf DEF SentBy, BaseInv
  <2>2. CASE \E n \in Mail(p) : n.id = m.id /\ n.by = m.by
    <3>1. PICK n \in Mail(p) : n.id = m.id /\ n.by = m.by
      BY <2>2
    <3>2. MailOwn(server[p].of, n)
      BY <2>1 DEF BaseInv, OwnInv
    <3> QED
      BY <1>1, <1>2, <2>1, <3>1, <3>2 DEF MailOwn
  <2>3. CASE server[p].of = thread[c].up /\ m.id = thread[c].id /\ m.by = c
    <3>1. m.id <= object[server[p].of].nextId
      BY <2>3, UpOf DEF BaseInv, OwnInv, RequestOwn, GoesOn
    <3>2. \A d \in Caller : Asking(thread[d]) /\ thread[d].up = server[p].of /\ thread[d].id = m.id
                            => m.by = d
      BY <2>3 DEF BaseInv, OwnInv, SameRequest, GoesOn
    <3> QED
      BY <1>1, <1>2, <2>1, <3>1, <3>2 DEF MailOwn
  <2> QED
    BY <2>1, <2>2, <2>3
<1>8. AnswerIsOwn'
  BY <1>1 DEF BaseInv, OwnInv, AnswerIsOwn
<1> QED
  BY <1>4, <1>5, <1>6, <1>7, <1>8 DEF OwnInv

\* No caller moves.
LEMMA StaysOwn ==
    ASSUME BaseInv, thread' = thread, MailFrom,
           \A u \in Up : /\ object'[u].nextId = object[u].nextId
                         /\ object'[u].pending = object[u].pending
    PROVE  OwnInv'
<1>1. \A d \in Caller : Asking(thread[d]) => thread[d].up \in Up
  BY DEF BaseInv, UseInv, CallerUse, Using
<1>2. \A d \in Caller : RequestOwn(d)'
  BY <1>1 DEF BaseInv, OwnInv, RequestOwn
<1>3. \A u \in Up : \A q \in object'[u].pending : PendingOwn(u, q)'
  BY DEF BaseInv, OwnInv, PendingOwn
<1>4. ASSUME NEW p \in Procs', NEW m \in Mail(p)'
      PROVE  MailOwn(server[p].of, m)'
  <2>1. /\ p \in Procs /\ server'[p].of = server[p].of /\ server[p].of \in Up
        /\ \E n \in Mail(p) : n.id = m.id /\ n.by = m.by
    BY <1>4, UpOf DEF MailFrom, BaseInv
  <2>2. PICK n \in Mail(p) : n.id = m.id /\ n.by = m.by
    BY <2>1
  <2>3. MailOwn(server[p].of, n)
    BY <2>1 DEF BaseInv, OwnInv
  <2> QED
    BY <2>1, <2>2, <2>3 DEF MailOwn
<1> QED
  BY <1>2, <1>3, <1>4 DEF BaseInv, OwnInv, AnswerIsOwn

\* A reader hands out an answer: a reply of its process, or that it ended.
LEMMA AnswersOwn ==
    ASSUME BaseInv, NEW u \in Up, NEW requests \in SUBSET object[u].pending, NEW answer,
           Answer(u, requests, answer), MailFrom,
           \/ answer = Gone
           \/ \E p \in Procs : server[p].of = u /\ answer \in Mail(p)
                               /\ \A q \in requests : q.id = answer.id
    PROVE  OwnInv'
<1>1. object \in [Up -> Object]
  BY StateIs DEF BaseInv
<1>2. /\ \A v \in Up : object'[v].nextId = object[v].nextId
      /\ \A v \in Up : v # u => object'[v] = object[v]
      /\ object'[u].pending = object[u].pending \ requests
  BY <1>1 DEF Answer, Object
<1>3. \A d \in Caller : /\ Asking(thread'[d]) <=> Asking(thread[d])
                        /\ thread'[d].up = thread[d].up /\ thread'[d].id = thread[d].id
                        /\ \/ thread'[d].answer = thread[d].answer
                           \/ thread'[d].answer = answer /\ \E q \in requests : q.by = d
                        /\ (\A q \in requests : q.by # d) => thread'[d] = thread[d]
  <2>1. ASSUME NEW d \in Caller
        PROVE  /\ Asking(thread'[d]) <=> Asking(thread[d])
               /\ thread'[d].up = thread[d].up /\ thread'[d].id = thread[d].id
               /\ \/ thread'[d].answer = thread[d].answer
                  \/ thread'[d].answer = answer /\ \E q \in requests : q.by = d
               /\ (\A q \in requests : q.by # d) => thread'[d] = thread[d]
    <3>1. thread[d] \in Thread
      BY StateIs DEF BaseInv
    <3>2. thread'[d] = IF \E q \in requests : q.by = d
                       THEN [thread[d] EXCEPT !.answer = answer] ELSE thread[d]
      BY DEF Answer
    <3>3. CASE \E q \in requests : q.by = d
      <4>1. thread'[d] = [thread[d] EXCEPT !.answer = answer]
        BY <3>2, <3>3
      <4> QED
        BY <3>1, <3>3, <4>1 DEF Thread, Asking
    <3>4. CASE ~\E q \in requests : q.by = d
      BY <3>2, <3>4
    <3> QED
      BY <3>3, <3>4
  <2> QED
    BY <2>1
<1>4. \A q \in requests : q \in object[u].pending /\ PendingOwn(u, q)
  BY DEF BaseInv, OwnInv
<1>5. \A d \in Caller : RequestOwn(d)'
  <2>1. \A d \in Caller : Asking(thread[d]) => thread[d].up \in Up
    BY DEF BaseInv, UseInv, CallerUse, Using
  <2>2. \A d \in Caller : RequestOwn(d)
    BY DEF BaseInv, OwnInv
  <2>3. \A d \in Caller : ~Asking(thread[d]) => thread'[d].answer = thread[d].answer
    BY <1>3, <1>4 DEF PendingOwn
  <2> QED
    BY <1>2, <1>3, <2>1, <2>2, <2>3 DEF RequestOwn
<1>6. \A d, e \in Caller : SameRequest(thread'[d], thread'[e]) => d = e
  BY <1>3 DEF BaseInv, OwnInv, SameRequest
<1>7. ASSUME NEW v \in Up, NEW q \in object'[v].pending
      PROVE  PendingOwn(v, q)'
  <2>1. q \notin requests \/ v # u
    BY <1>2
  <2>2. q \in object[v].pending
    BY <1>2
  <2>3. PendingOwn(v, q) /\ q.by \in Caller
    BY <2>2, UpOf DEF BaseInv, OwnInv
  <2>4. ASSUME NEW r \in requests, r.by = q.by
        PROVE  FALSE
    <3>1. PendingOwn(u, r) /\ r \in Request /\ q \in Request
      BY <1>1, <1>4, <2>2 DEF Object
    <3>2. v = u /\ r.id = q.id
      BY <2>3, <2>4, <3>1 DEF PendingOwn
    <3>3. r = q
      BY <2>4, <3>1, <3>2 DEF Request
    <3> QED
      BY <2>1, <3>2, <3>3
  <2>5. thread'[q.by] = thread[q.by]
    BY <1>3, <2>3, <2>4
  <2> QED
    BY <2>3, <2>5 DEF PendingOwn
<1>8. ASSUME NEW p \in Procs', NEW m \in Mail(p)'
      PROVE  MailOwn(server[p].of, m)'
  <2>1. /\ p \in Procs /\ server'[p].of = server[p].of /\ server[p].of \in Up
        /\ \E n \in Mail(p) : n.id = m.id /\ n.by = m.by
    BY <1>8, UpOf DEF MailFrom, BaseInv
  <2>2. PICK n \in Mail(p) : n.id = m.id /\ n.by = m.by
    BY <2>1
  <2>3. MailOwn(server[p].of, n)
    BY <2>1 DEF BaseInv, OwnInv
  <2> QED
    BY <1>2, <1>3, <2>1, <2>2, <2>3 DEF MailOwn
<1>9. AnswerIsOwn'
  <2>1. ASSUME NEW d \in Caller, thread'[d].answer \notin {None, Gone}
        PROVE  thread'[d].answer.id = thread'[d].id /\ thread'[d].answer.by = d
    <3>1. CASE thread'[d].answer = thread[d].answer
      BY <1>3, <2>1, <3>1 DEF BaseInv, OwnInv, AnswerIsOwn
    <3>2. CASE thread'[d].answer # thread[d].answer
      <4>1. PICK q \in requests : q.by = d
        BY <1>3, <3>2
      <4>2. thread'[d].answer = answer
        BY <1>3, <3>2
      <4>3. PICK p \in Procs : server[p].of = u /\ answer \in Mail(p) /\ q.id = answer.id
        BY <2>1, <4>2
      <4>4. MailOwn(u, answer)
        BY <4>3 DEF BaseInv, OwnInv
      <4>5. Asking(thread[d]) /\ thread[d].up = u /\ thread[d].id = answer.id
        BY <1>4, <4>1, <4>3 DEF PendingOwn
      <4> QED
        BY <1>3, <4>2, <4>4, <4>5 DEF MailOwn
    <3> QED
      BY <3>1, <3>2
  <2> QED
    BY <2>1 DEF AnswerIsOwn
<1> QED
  BY <1>5, <1>6, <1>7, <1>8, <1>9 DEF OwnInv

----------------------------------------------------------------------------
(* What the steps do to the processes.                                     *)

ServersStay ==
    /\ server' \in Seq(Process) /\ Len(server') = Len(server)
    /\ \A p \in Procs : server'[p].of = server[p].of

\* Process p becomes s, and the others stay.
ServerIs(p, s) == server'[p] = s /\ \A q \in Procs : q # p => server'[q] = server[q]

LEMMA ProcessSet ==
    ASSUME TypeOK, NEW p \in Procs, NEW s \in Process, s.of = server[p].of,
           server' = [server EXCEPT ![p] = s]
    PROVE  ServersStay /\ Procs' = Procs /\ ServerIs(p, s)
<1>1. server \in Seq(Process)
  BY StateIs
<1>2. server' \in Seq(Process) /\ Len(server') = Len(server)
  BY <1>1 DEF Procs
<1>3. ServerIs(p, s)
  BY <1>1 DEF Procs, ServerIs
<1>4. \A q \in Procs : server'[q].of = server[q].of
  BY <1>3 DEF ServerIs
<1>5. Procs' = Procs
  BY <1>2 DEF Procs
<1> QED
  BY <1>2, <1>3, <1>4, <1>5 DEF ServersStay

\* Nothing is added to what travels.
LEMMA MailStays ==
    ASSUME ServersStay, Procs' = Procs, NEW p \in Procs, NEW s, ServerIs(p, s),
           \A m \in s.buffer \cup s.inbox \cup s.out : \E n \in Mail(p) : n.id = m.id /\ n.by = m.by
    PROVE  MailFrom
<1>1. \A q \in Procs : server'[q].of = server[q].of
  BY DEF ServersStay
<1>2. ASSUME NEW q \in Procs
      PROVE  \A m \in Mail(q)' : \E n \in Mail(q) : n.id = m.id /\ n.by = m.by
  <2>1. CASE q = p
    <3>1. Mail(q)' = s.buffer \cup s.inbox \cup s.out
      BY <2>1 DEF Mail, ServerIs
    <3> QED
      BY <2>1, <3>1
  <2>2. CASE q # p
    <3>1. server'[q] = server[q]
      BY <2>2 DEF ServerIs
    <3>2. Mail(q)' = Mail(q)
      BY <3>1 DEF Mail
    <3> QED
      BY <3>2
  <2> QED
    BY <2>1, <2>2
<1> QED
  BY <1>1, <1>2 DEF MailFrom

LEMMA SameServers ==
    ASSUME TypeOK, server' = server
    PROVE  ServersStay /\ MailFrom /\ Procs' = Procs
<1>1. ServersStay
  BY StateIs DEF ServersStay
<1>2. Procs' = Procs /\ \A p : Mail(p)' = Mail(p)
  BY DEF Procs, Mail
<1>3. MailFrom
  BY <1>2 DEF MailFrom
<1> QED
  BY <1>1, <1>2, <1>3

LEMMA CallsInType ==
    ASSUME NEW s, s \subseteq Message
    PROVE  CallsIn(s) \subseteq Caller
  BY DEF CallsIn, Message

LEMMA EndsIs ==
    ASSUME TypeOK, NEW p \in Procs, Ends(p)
    PROVE  /\ ServersStay /\ MailFrom /\ Procs' = Procs
           /\ \A q \in Procs : q # p => server'[q] = server[q]
           /\ server'[p].closed = server[p].closed /\ server'[p].buffer = server[p].buffer
           /\ server'[p].inbox = {} /\ server'[p].out = server[p].out
           /\ ran' \subseteq ran \cup CallsIn(server[p].inbox) /\ ran' \subseteq Caller
<1> DEFINE s == [server[p] EXCEPT !.alive = FALSE, !.inbox = {}]
<1>1. server[p] \in Process
  BY StateIs
<1>2. /\ s \in Process /\ s.of = server[p].of /\ s.closed = server[p].closed
      /\ s.buffer = server[p].buffer /\ s.inbox = {} /\ s.out = server[p].out
  BY <1>1 DEF Process
<1>3. server' = [server EXCEPT ![p] = s]
  BY DEF Ends
<1> HIDE DEF s
<1>4. ServersStay /\ Procs' = Procs /\ ServerIs(p, s)
  BY <1>2, <1>3, ProcessSet
<1>5. MailFrom
  BY <1>2, <1>4, MailStays DEF Mail
<1>6. ran' \subseteq ran \cup CallsIn(server[p].inbox)
  BY DEF Ends
<1>7. ran \subseteq Caller /\ CallsIn(server[p].inbox) \subseteq Caller
  <2>1. server[p].inbox \subseteq Message
    BY <1>1 DEF Process
  <2> QED
    BY <2>1, CallsInType DEF TypeOK
<1> QED
  BY <1>2, <1>4, <1>5, <1>6, <1>7 DEF ServerIs

\* A request is written.
LEMMA WriteIs ==
    ASSUME BaseInv, NEW c \in Caller, Write(c)
    PROVE  LET t == thread[c]
               u == t.up
               p == thread'[c].to
               m == [id |-> t.id, by |-> c, kind |-> t.kind]
           IN  /\ GoesOn(c) /\ SentBy(c) /\ ServersStay /\ Procs' = Procs
               /\ UNCHANGED <<gateway, ghosts>>
               /\ t.pc = "send" /\ thread'[c].pc = "flush"
               /\ thread'[c].kind = t.kind /\ thread'[c].goal = t.goal
               /\ thread'[c].outcome = t.outcome
               /\ u \in Up /\ p \in Procs /\ server[p].of = u
               /\ \A q \in Procs : q # p => server'[q] = server[q]
               /\ ~server[p].closed
               /\ server'[p].closed = server[p].closed
               /\ server'[p].buffer = server[p].buffer \cup {m}
               /\ server'[p].inbox = server[p].inbox /\ server'[p].out = server[p].out
               /\ object[u].writer = None /\ object'[u].writer = c
               /\ \A v \in Up : /\ v # u => object'[v].writer = object[v].writer
                                /\ object'[v].proc = object[v].proc
                                /\ object'[v].starter = object[v].starter
<1> DEFINE t == thread[c]
           u == t.up
           p == object[u].proc
           m == [id |-> t.id, by |-> c, kind |-> t.kind]
           next == [t EXCEPT !.pc = "flush", !.to = p]
           s == [server[p] EXCEPT !.buffer = @ \cup {m}]
           o == [object[u] EXCEPT !.writer = c]
<1>1. /\ t.pc = "send" /\ p # None /\ object[u].writer = None /\ ~server[p].closed
      /\ server' = [server EXCEPT ![p] = s]
      /\ object' = [object EXCEPT ![u] = o]
      /\ Become(c, next) /\ UNCHANGED <<gateway, ghosts>>
  BY DEF Write, Proc, Obj
<1>2. t \in Thread /\ u \in Up /\ object[u] \in Object /\ object \in [Up -> Object]
  BY <1>1, StateIs DEF BaseInv, UseInv, CallerUse, Using, Asking
<1>3. p \in Procs /\ server[p].of = u /\ server[p] \in Process
  BY <1>1, <1>2, StateIs DEF BaseInv, UseInv, ObjectUse
<1>4. p \in Nat
  BY <1>3 DEF Procs
<1>5. /\ next \in Thread /\ next.pc = "flush" /\ next.to = p
      /\ next.kind = t.kind /\ next.goal = t.goal /\ next.outcome = t.outcome
      /\ next.up = u /\ next.id = t.id /\ next.answer = t.answer
  BY <1>2, <1>4 DEF Thread
<1>6. m \in Message /\ m.id = t.id /\ m.by = c
  BY <1>2, ThreadIs DEF Message
<1> HIDE DEF m
<1>7. /\ s \in Process /\ s.of = server[p].of /\ s.closed = server[p].closed
      /\ s.buffer = server[p].buffer \cup {m} /\ s.inbox = server[p].inbox /\ s.out = server[p].out
  BY <1>3, <1>6 DEF Process
<1>8. /\ o \in Object /\ o.writer = c /\ o.proc = object[u].proc /\ o.starter = object[u].starter
      /\ o.nextId = object[u].nextId /\ o.pending = object[u].pending
  BY <1>2 DEF Object
<1> HIDE DEF next, s, o
<1>9. ServersStay /\ Procs' = Procs /\ ServerIs(p, s)
  BY <1>1, <1>3, <1>7, ProcessSet DEF BaseInv
<1>10. OthersStay(c) /\ thread'[c] = next
  BY <1>1, <1>5, Becomes DEF BaseInv
<1> HIDE DEF p, u
<1>11. object' \in [Up -> Object] /\ object'[u] = o /\ \A v \in Up : v # u => object'[v] = object[v]
  BY <1>1, <1>2, <1>8
<1>12. GoesOn(c)
  <2>1. Asking(t) /\ Asking(next)
    BY <1>1, <1>5 DEF Asking
  <2>2. \A v \in Up : /\ object'[v].nextId = object[v].nextId
                      /\ object'[v].pending = object[v].pending
    BY <1>8, <1>11
  <2> QED
    BY <1>5, <1>10, <1>11, <2>1, <2>2 DEF GoesOn, u
<1>13. SentBy(c)
  <2>1. ASSUME NEW q \in Procs, NEW n \in Mail(q)'
        PROVE  n \in Mail(q) \/ (q = p /\ n = m)
    <3>1. CASE q = p
      BY <1>7, <1>9, <2>1, <3>1 DEF ServerIs, Mail
    <3>2. CASE q # p
      BY <1>9, <2>1, <3>2 DEF ServerIs, Mail
    <3> QED
      BY <3>1, <3>2
  <2>2. server[p].of = thread[c].up
    BY <1>3 DEF u
  <2> QED
    BY <1>6, <1>9, <2>1, <2>2 DEF SentBy, ServersStay
<1> QED
  BY <1>1, <1>2, <1>3, <1>5, <1>7, <1>8, <1>9, <1>10, <1>11, <1>12, <1>13 DEF ServerIs, u, m

\* What was written reaches the process.
LEMMA FlushIs ==
    ASSUME BaseInv, NEW c \in Caller, Flush(c)
    PROVE  LET t == thread[c]
               u == t.up
               p == t.to
           IN  /\ GoesOn(c) /\ SentBy(c) /\ ServersStay /\ Procs' = Procs
               /\ UNCHANGED <<gateway, ran>>
               /\ sent' = sent \cup CallsIn(server[p].buffer) /\ sent' \subseteq Caller
               /\ t.pc = "flush" /\ thread'[c].pc = "wait"
               /\ thread'[c].kind = t.kind /\ thread'[c].goal = t.goal /\ thread'[c].to = t.to
               /\ thread'[c].outcome = t.outcome
               /\ u \in Up /\ p \in Procs
               /\ \A q \in Procs : q # p => server'[q] = server[q]
               /\ ~server[p].closed
               /\ server'[p].closed = server[p].closed
               /\ server'[p].buffer = {}
               /\ server'[p].inbox = server[p].inbox \cup server[p].buffer
               /\ server'[p].out = server[p].out
               /\ \A v \in Up : /\ v # u => object'[v].writer = object[v].writer
                                /\ object'[v].proc = object[v].proc
                                /\ object'[v].starter = object[v].starter
<1> DEFINE t == thread[c]
           u == t.up
           p == t.to
           next == [t EXCEPT !.pc = "wait"]
           s == [server[p] EXCEPT !.inbox = @ \cup server[p].buffer, !.buffer = {}]
           o == [object[u] EXCEPT !.writer = None]
<1>1. /\ t.pc = "flush" /\ ~server[p].closed
      /\ server' = [server EXCEPT ![p] = s]
      /\ sent' = sent \cup CallsIn(server[p].buffer)
      /\ object' = [object EXCEPT ![u] = o]
      /\ Become(c, next) /\ UNCHANGED <<gateway, ran>>
  BY DEF Flush
<1>2. t \in Thread /\ u \in Up /\ object[u] \in Object /\ object \in [Up -> Object]
  BY <1>1, StateIs DEF BaseInv, UseInv, CallerUse, Using, Asking
<1>3. p \in Procs /\ server[p] \in Process
  <2>1. p \in 0 .. Len(server) /\ p # 0 /\ Len(server) \in Nat
    BY <1>1, StateIs DEF BaseInv, UseInv, CallerUse
  <2> QED
    BY <2>1, StateIs DEF Procs, BaseInv
<1>4. /\ next \in Thread /\ next.pc = "wait" /\ next.to = t.to
      /\ next.kind = t.kind /\ next.goal = t.goal /\ next.outcome = t.outcome
      /\ next.up = u /\ next.id = t.id /\ next.answer = t.answer
  BY <1>2 DEF Thread
<1>5. /\ s \in Process /\ s.of = server[p].of /\ s.closed = server[p].closed
      /\ s.buffer = {} /\ s.inbox = server[p].inbox \cup server[p].buffer /\ s.out = server[p].out
  BY <1>3 DEF Process
<1>6. /\ o \in Object /\ o.writer = None /\ o.proc = object[u].proc
      /\ o.starter = object[u].starter
      /\ o.nextId = object[u].nextId /\ o.pending = object[u].pending
  BY <1>2 DEF Object
<1>7. sent' \subseteq Caller
  <2>1. server[p].buffer \subseteq Message
    BY <1>3 DEF Process
  <2> QED
    BY <1>1, <2>1, CallsInType DEF BaseInv, TypeOK
<1> HIDE DEF next, s, o
<1>8. ServersStay /\ Procs' = Procs /\ ServerIs(p, s)
  BY <1>1, <1>3, <1>5, ProcessSet DEF BaseInv
<1>9. OthersStay(c) /\ thread'[c] = next
  BY <1>1, <1>4, Becomes DEF BaseInv
<1> HIDE DEF p, u
<1>10. object' \in [Up -> Object] /\ object'[u] = o /\ \A v \in Up : v # u => object'[v] = object[v]
  BY <1>1, <1>2, <1>6
<1>11. GoesOn(c)
  <2>1. Asking(t) /\ Asking(next)
    BY <1>1, <1>4 DEF Asking
  <2>2. \A v \in Up : /\ object'[v].nextId = object[v].nextId
                      /\ object'[v].pending = object[v].pending
    BY <1>6, <1>10
  <2> QED
    BY <1>4, <1>9, <1>10, <2>1, <2>2 DEF GoesOn, u
<1>12. SentBy(c)
  <2>1. MailFrom
    BY <1>3, <1>5, <1>8, MailStays DEF Mail
  <2> QED
    BY <2>1 DEF SentBy, MailFrom
<1> QED
  BY <1>1, <1>2, <1>3, <1>4, <1>5, <1>6, <1>7, <1>8, <1>9, <1>10, <1>11, <1>12
     DEF ServerIs, u, p

LEMMA FlushFailsIs ==
    ASSUME BaseInv, NEW c \in Caller, FlushFails(c)
    PROVE  LET t == thread[c]
               p == t.to
           IN  /\ Leaves(c) /\ thread'[c] = NotSent(c)
               /\ ServersStay /\ MailFrom /\ Procs' = Procs
               /\ UNCHANGED <<gateway, ghosts>>
               /\ t.pc = "flush" /\ p \in Procs
               /\ \A q \in Procs : q # p => server'[q] = server[q]
               /\ server'[p].closed = server[p].closed
               /\ server'[p].buffer = {}
               /\ server'[p].inbox = server[p].inbox /\ server'[p].out = server[p].out
<1> DEFINE t == thread[c]
           p == t.to
           s == [server[p] EXCEPT !.buffer = {}]
<1>1. /\ t.pc = "flush" /\ server' = [server EXCEPT ![p] = s]
      /\ object' = [object EXCEPT ![t.up] = [Unregistered(c) EXCEPT !.writer = None]]
      /\ Become(c, NotSent(c)) /\ UNCHANGED <<gateway, ghosts>>
  BY DEF FlushFails
<1>2. p \in Procs /\ server[p] \in Process
  <2>1. p \in 0 .. Len(server) /\ p # 0 /\ Len(server) \in Nat
    BY <1>1, StateIs DEF BaseInv, UseInv, CallerUse
  <2> QED
    BY <2>1, StateIs DEF Procs, BaseInv
<1>3. /\ s \in Process /\ s.of = server[p].of /\ s.closed = server[p].closed
      /\ s.buffer = {} /\ s.inbox = server[p].inbox /\ s.out = server[p].out
  BY <1>2 DEF Process
<1> HIDE DEF s
<1>4. ServersStay /\ Procs' = Procs /\ ServerIs(p, s)
  BY <1>1, <1>2, <1>3, ProcessSet DEF BaseInv
<1>5. MailFrom
  BY <1>2, <1>3, <1>4, MailStays DEF Mail
<1>6. object[t.up].writer = c
  BY <1>1 DEF BaseInv, UseInv, CallerUse
<1>7. Leaves(c) /\ thread'[c] = NotSent(c)
  BY <1>1, <1>6, RequestFailsIs DEF NotSent, Asking, Outcome
<1> QED
  BY <1>1, <1>2, <1>3, <1>4, <1>5, <1>7 DEF ServerIs

\* A request that was not written, or not answered, or rejected.
LEMMA GivesUpIs ==
    ASSUME BaseInv, NEW c \in Caller,
           WriteFails(c) \/ Unanswered(c) \/ CallRejected(c) \/ NotifyFails(c)
    PROVE  /\ Leaves(c) /\ server' = server /\ UNCHANGED <<gateway, ghosts>>
           /\ \/ WriteFails(c) /\ thread[c].pc = "send" /\ thread'[c] = NotSent(c)
              \/ /\ Unanswered(c) /\ thread[c].pc = "wait"
                 /\ thread'[c] = Unsuccessful(thread[c], "unanswered")
              \/ /\ CallRejected(c) /\ thread[c].pc = "wait" /\ thread[c].kind = "call"
                 /\ thread'[c] = Unsuccessful(thread[c], "notRun")
              \/ /\ NotifyFails(c) /\ thread[c].pc = "wait" /\ thread[c].kind = "init"
                 /\ thread'[c] = Unsuccessful(thread[c], "unanswered")
<1>1. server' = server /\ UNCHANGED <<gateway, ghosts>>
  BY DEF WriteFails, Unanswered, CallRejected, NotifyFails
<1>2. CASE WriteFails(c)
  <2>1. /\ thread[c].pc = "send" /\ Become(c, Unsuccessful(thread[c], "notRun"))
        /\ object' = [object EXCEPT ![thread[c].up] = Unregistered(c)]
    BY <1>2 DEF WriteFails, NotSent
  <2> QED
    BY <1>1, <1>2, <2>1, RequestFailsIs DEF Asking, NotSent, Outcome
<1>3. CASE Unanswered(c)
  <2>1. /\ thread[c].pc = "wait" /\ Become(c, Unsuccessful(thread[c], "unanswered"))
        /\ object' = [object EXCEPT ![thread[c].up] = Unregistered(c)]
    BY <1>3 DEF Unanswered
  <2> QED
    BY <1>1, <1>3, <2>1, RequestFailsIs DEF Asking, Outcome
<1>4. CASE CallRejected(c)
  <2>1. /\ thread[c].pc = "wait" /\ thread[c].kind = "call" /\ thread[c].answer # None
        /\ Become(c, Unsuccessful(thread[c], "notRun")) /\ object' = object
    BY <1>4 DEF CallRejected, Answered
  <2> QED
    BY <1>1, <1>4, <2>1, RequestFailsIs DEF Asking, Outcome
<1>5. CASE NotifyFails(c)
  <2>1. /\ thread[c].pc = "wait" /\ thread[c].kind = "init" /\ thread[c].answer # None
        /\ Become(c, Unsuccessful(thread[c], "unanswered")) /\ object' = object
    BY <1>5 DEF NotifyFails, Answered
  <2> QED
    BY <1>1, <1>5, <2>1, RequestFailsIs DEF Asking, Outcome
<1> QED
  BY <1>2, <1>3, <1>4, <1>5

\* A server answers.
LEMMA ServerAnswersIs ==
    ASSUME BaseInv, NEW p \in Procs, ServerAnswers(p)
    PROVE  /\ ServersStay /\ MailFrom /\ Procs' = Procs
           /\ UNCHANGED <<gateway, object, thread, sent>>
           /\ \A q \in Procs : q # p => server'[q] = server[q]
           /\ server'[p].closed = server[p].closed /\ server'[p].buffer = server[p].buffer
           /\ \E m \in server[p].inbox, ok \in BOOLEAN :
                 /\ ~ok => m.kind = "call"
                 /\ server'[p].inbox = server[p].inbox \ {m}
                 /\ server'[p].out = server[p].out \cup {[id |-> m.id, by |-> m.by, ok |-> ok]}
                 /\ ran' = IF ok THEN ran \cup CallsIn({m}) ELSE ran
                 /\ ran' \subseteq Caller
<1>1. PICK m \in server[p].inbox, ok \in BOOLEAN :
          /\ ~ok => m.kind = "call"
          /\ ran' = IF ok THEN ran \cup CallsIn({m}) ELSE ran
          /\ server' = [server EXCEPT ![p].inbox = @ \ {m},
                                      ![p].out = @ \cup {[id |-> m.id, by |-> m.by, ok |-> ok]}]
          /\ UNCHANGED <<gateway, object, thread, sent>>
  BY DEF ServerAnswers
<1> DEFINE r == [id |-> m.id, by |-> m.by, ok |-> ok]
           s == [server[p] EXCEPT !.inbox = @ \ {m}, !.out = @ \cup {r}]
<1>2. server[p] \in Process /\ server \in Seq(Process)
  BY StateIs DEF BaseInv
<1>3. m \in Message /\ r \in Reply /\ r.id = m.id /\ r.by = m.by
  BY <1>2 DEF Process, Message, Reply
<1> HIDE DEF r
<1>4. /\ s \in Process /\ s.of = server[p].of /\ s.closed = server[p].closed
      /\ s.buffer = server[p].buffer /\ s.inbox = server[p].inbox \ {m}
      /\ s.out = server[p].out \cup {r}
  BY <1>2, <1>3 DEF Process
<1>5. server' = [server EXCEPT ![p] = s]
  BY <1>1, <1>2 DEF Procs, r
<1> HIDE DEF s
<1>6. ServersStay /\ Procs' = Procs /\ ServerIs(p, s)
  BY <1>4, <1>5, ProcessSet DEF BaseInv
<1>7. MailFrom
  BY <1>3, <1>4, <1>6, MailStays DEF Mail
<1>8. ran' \subseteq Caller
  <2>1. CallsIn({m}) \subseteq Caller
    BY <1>3, CallsInType
  <2> QED
    BY <1>1, <2>1 DEF BaseInv, TypeOK
<1> QED
  BY <1>1, <1>4, <1>6, <1>7, <1>8 DEF ServerIs, r

\* A reader takes a reply, or the end, and hands it to who waits for it.
LEMMA ReadIs ==
    ASSUME BaseInv, NEW p \in Procs, ReadReply(p) \/ ReadEnd(p)
    PROVE  /\ ServersStay /\ MailFrom /\ Procs' = Procs
           /\ UNCHANGED <<gateway, ghosts>>
           /\ \A q \in Procs : /\ server'[q].closed = server[q].closed
                               /\ server'[q].buffer = server[q].buffer
                               /\ server'[q].inbox = server[q].inbox
                               /\ server'[q].out \subseteq server[q].out
           /\ \E requests \in SUBSET object[server[p].of].pending,
                 answer \in Reply \cup {Gone} :
                 /\ Answer(server[p].of, requests, answer)
                 /\ \/ answer = Gone
                    \/ answer \in server[p].out /\ \A q \in requests : q.id = answer.id
<1>1. server[p] \in Process /\ server \in Seq(Process)
  BY StateIs DEF BaseInv
<1>2. ASSUME NEW s \in Process, s.of = server[p].of, s.closed = server[p].closed,
             s.buffer = server[p].buffer, s.inbox = server[p].inbox, s.out \subseteq server[p].out,
             server' = [server EXCEPT ![p] = s]
      PROVE  /\ ServersStay /\ MailFrom /\ Procs' = Procs
             /\ \A q \in Procs : /\ server'[q].closed = server[q].closed
                                 /\ server'[q].buffer = server[q].buffer
                                 /\ server'[q].inbox = server[q].inbox
                                 /\ server'[q].out \subseteq server[q].out
  <2>1. ServersStay /\ Procs' = Procs /\ ServerIs(p, s)
    BY <1>2, ProcessSet DEF BaseInv
  <2>2. MailFrom
    BY <1>2, <2>1, MailStays DEF Mail
  <2> QED
    BY <1>2, <2>1, <2>2 DEF ServerIs
<1>3. CASE ReadReply(p)
  <2>1. PICK r \in server[p].out :
          /\ server' = [server EXCEPT ![p].out = @ \ {r}]
          /\ Answer(server[p].of, {q \in object[server[p].of].pending : q.id = r.id}, r)
    BY <1>3 DEF ReadReply
  <2> DEFINE s == [server[p] EXCEPT !.out = @ \ {r}]
             requests == {q \in object[server[p].of].pending : q.id = r.id}
  <2>2. /\ s \in Process /\ s.of = server[p].of /\ s.closed = server[p].closed
        /\ s.buffer = server[p].buffer /\ s.inbox = server[p].inbox
        /\ s.out \subseteq server[p].out
    BY <1>1 DEF Process
  <2>3. server' = [server EXCEPT ![p] = s] /\ UNCHANGED <<gateway, ghosts>>
    BY <1>3, <2>1 DEF ReadReply
  <2>4. r \in Reply
    BY <1>1 DEF Process
  <2>5. /\ requests \in SUBSET object[server[p].of].pending
        /\ Answer(server[p].of, requests, r)
        /\ \A q \in requests : q.id = r.id
    BY <2>1
  <2> HIDE DEF s, requests
  <2> QED
    BY <1>2, <2>2, <2>3, <2>4, <2>5
<1>4. CASE ReadEnd(p)
  <2> DEFINE s == [server[p] EXCEPT !.reading = FALSE]
             requests == object[server[p].of].pending
  <2>1. /\ s \in Process /\ s.of = server[p].of /\ s.closed = server[p].closed
        /\ s.buffer = server[p].buffer /\ s.inbox = server[p].inbox
        /\ s.out \subseteq server[p].out
    BY <1>1 DEF Process
  <2>2. server' = [server EXCEPT ![p] = s] /\ UNCHANGED <<gateway, ghosts>>
    BY <1>4 DEF ReadEnd
  <2>3. Answer(server[p].of, requests, Gone) /\ requests \in SUBSET object[server[p].of].pending
    BY <1>4 DEF ReadEnd
  <2> HIDE DEF s, requests
  <2> QED
    BY <1>2, <2>1, <2>2, <2>3
<1> QED
  BY <1>3, <1>4

\* close() takes the process of its object, and closes its input.
LEMMA CloseIs ==
    ASSUME BaseInv, NEW u \in Up, Close(u)
    PROVE  LET p == object[u].proc
           IN  /\ ServersStay /\ MailFrom /\ Procs' = Procs
               /\ UNCHANGED <<up, made, history, thread, ran>>
               /\ closing' \in [objects : SUBSET Up, kills : SUBSET Procs]
               /\ object[u].starter = None /\ object' \in [Up -> Object]
               /\ \A v \in Up : /\ object'[v].proc = IF v = u THEN None ELSE object[v].proc
                                /\ object'[v].nextId = object[v].nextId
                                /\ object'[v].pending = object[v].pending
                                /\ object'[v].starter = object[v].starter
                                /\ object'[v].writer = object[v].writer
               /\ \/ p = None /\ server' = server /\ sent' = sent
                  \/ /\ p \in Procs
                     /\ \A q \in Procs : q # p => server'[q] = server[q]
                     /\ server'[p].closed /\ server'[p].buffer = {}
                     /\ server'[p].inbox \subseteq server[p].inbox \cup server[p].buffer
                     /\ server[p].inbox \subseteq server'[p].inbox
                     /\ server'[p].out = server[p].out
                     /\ sent \subseteq sent' /\ sent' \subseteq Caller
<1> DEFINE p == object[u].proc
           o == [object[u] EXCEPT !.proc = None]
<1>1. /\ object[u].starter = None /\ object' = [object EXCEPT ![u] = o]
      /\ UNCHANGED <<up, made, history, thread, ran>>
  BY DEF Close
<1>2. object[u] \in Object /\ object \in [Up -> Object]
  BY StateIs DEF BaseInv
<1>3. /\ o \in Object /\ o.proc = None /\ o.nextId = object[u].nextId
      /\ o.pending = object[u].pending /\ o.starter = object[u].starter
      /\ o.writer = object[u].writer
  BY <1>2 DEF Object
<1> HIDE DEF o
<1>4. object' \in [Up -> Object] /\ object'[u] = o /\ \A v \in Up : v # u => object'[v] = object[v]
  BY <1>1, <1>2, <1>3
<1>5. closing \in [objects : SUBSET Up, kills : SUBSET Procs]
  BY DEF BaseInv, TypeOK, Procs
<1>6. CASE p = None
  <2>1. closing' = [closing EXCEPT !.objects = @ \ {u}] /\ UNCHANGED <<server, sent>>
    BY <1>6 DEF Close
  <2>2. closing' \in [objects : SUBSET Up, kills : SUBSET Procs]
    BY <1>5, <2>1
  <2>3. ServersStay /\ MailFrom /\ Procs' = Procs
    BY <2>1, SameServers DEF BaseInv
  <2> QED
    BY <1>1, <1>3, <1>4, <1>6, <2>1, <2>2, <2>3
<1>7. CASE p # None
  <2> DEFINE out == IF server[p].alive THEN server[p].buffer ELSE {}
             s == [server[p] EXCEPT !.closed = TRUE, !.buffer = {}, !.inbox = @ \cup out]
  <2>1. /\ closing' = [closing EXCEPT !.objects = @ \ {u}, !.kills = @ \cup {p}]
        /\ server' = [server EXCEPT ![p].closed = TRUE, ![p].buffer = {}, ![p].inbox = @ \cup out]
        /\ sent' = sent \cup CallsIn(out)
    BY <1>7 DEF Close
  <2>2. p \in Procs /\ server[p] \in Process /\ server \in Seq(Process)
    BY <1>7, StateIs DEF BaseInv, UseInv, ObjectUse
  <2>3. closing' \in [objects : SUBSET Up, kills : SUBSET Procs]
    BY <1>5, <2>1, <2>2
  <2>4. out \subseteq server[p].buffer /\ server[p].buffer \subseteq Message
    BY <2>2 DEF Process
  <2>5. server' = [server EXCEPT ![p] = s]
    BY <2>1, <2>2 DEF Procs
  <2> HIDE DEF out
  <2>6. /\ s \in Process /\ s.of = server[p].of /\ s.closed /\ s.buffer = {}
        /\ s.inbox = server[p].inbox \cup out /\ s.out = server[p].out
    BY <2>2, <2>4 DEF Process
  <2> HIDE DEF s
  <2>7. ServersStay /\ Procs' = Procs /\ ServerIs(p, s)
    BY <2>2, <2>5, <2>6, ProcessSet DEF BaseInv
  <2>8. MailFrom
    BY <2>2, <2>4, <2>6, <2>7, MailStays DEF Mail
  <2>9. sent \subseteq sent' /\ sent' \subseteq Caller
    <3>1. out \subseteq Message
      BY <2>4
    <3> QED
      BY <2>1, <3>1, CallsInType DEF BaseInv, TypeOK
  <2> QED
    BY <1>1, <1>3, <1>4, <2>2, <2>3, <2>4, <2>6, <2>7, <2>8, <2>9 DEF ServerIs
<1> QED
  BY <1>6, <1>7

----------------------------------------------------------------------------
(* What a thread refers to stays there.                                    *)

\* A process may be started: those there are keep their numbers.
ServersGrow ==
    /\ server' \in Seq(Process) /\ Len(server') \in Nat /\ Len(server) <= Len(server')
    /\ \A p \in Procs : p \in Procs' /\ server'[p].of = server[p].of

LEMMA StayGrow ==
    ASSUME TypeOK, ServersStay
    PROVE  ServersGrow
  BY StateIs DEF ServersStay, ServersGrow, Procs

\* A caller that does not move keeps what it has while its locks are its own.
LEMMA OtherUse ==
    ASSUME BaseInv, ServersGrow, NEW d \in Caller, thread'[d] = thread[d],
           \A u \in Up : /\ object[u].starter = d => object'[u].starter = d
                         /\ object[u].writer = d => object'[u].writer = d
    PROVE  CallerUse(d)'
<1> DEFINE t == thread[d]
<1>1. /\ Using(t) => t.up \in Up
      /\ t.to \in 0 .. Len(server)
      /\ t.pc = "flush" => t.to # 0 /\ server[t.to].of = t.up /\ object[t.up].writer = d
      /\ Starting(t) => object[t.up].starter = d
  BY DEF BaseInv, UseInv, CallerUse
<1>2. t.pc = "flush" => t.to \in Procs /\ t.up \in Up
  BY <1>1, StateIs DEF Procs, Using, Asking, BaseInv
<1>3. Starting(t) => t.up \in Up
  BY <1>1 DEF Starting, Using
<1>4. t.to \in 0 .. Len(server')
  BY <1>1, StateIs DEF ServersGrow, BaseInv
<1>5. t.pc = "flush" => server'[t.to].of = t.up /\ object'[t.up].writer = d
  BY <1>1, <1>2 DEF ServersGrow
<1>6. thread'[d] = t
  OBVIOUS
<1> HIDE DEF t
<1>7. /\ Using(t) => t.up \in Up
      /\ t.pc = "flush" => t.to # 0 /\ server'[t.to].of = t.up /\ object'[t.up].writer = d
      /\ Starting(t) => object'[t.up].starter = d
  BY <1>1, <1>3, <1>5
<1> QED
  BY <1>4, <1>6, <1>7 DEF CallerUse, Using, Starting, Asking

LEMMA SameObjectUse ==
    ASSUME BaseInv, ServersGrow, NEW u \in Up,
           object'[u].proc = object[u].proc,
           object'[u].starter # None => object[u].starter # None
    PROVE  ObjectUse(u)'
  BY DEF BaseInv, UseInv, ObjectUse, ServersGrow

LEMMA LeavesUse ==
    ASSUME BaseInv, NEW c \in Caller, Leaves(c), ServersStay,
           Using(thread'[c]) => thread'[c].up \in Up,
           thread'[c].to \in 0 .. Len(server),
           Starting(thread'[c]) => object'[thread'[c].up].starter = c
    PROVE  UseInv'
<1>1. ServersGrow
  BY StayGrow DEF BaseInv
<1>2. ASSUME NEW d \in Caller, d # c
      PROVE  CallerUse(d)'
  <2>1. /\ thread'[d] = thread[d]
        /\ \A u \in Up : /\ object[u].starter = d => object'[u].starter = d
                         /\ object[u].writer = d => object'[u].writer = d
    BY <1>2 DEF Leaves, OthersStay
  <2> QED
    BY <1>1, <2>1, OtherUse
<1>3. CallerUse(c)'
  BY <1>1 DEF CallerUse, Leaves, Asking, Using, Starting, ServersStay
<1>4. ASSUME NEW u \in Up
      PROVE  ObjectUse(u)'
  BY <1>1, NoneAssumption, SameObjectUse DEF Leaves
<1> QED
  BY <1>2, <1>3, <1>4 DEF UseInv

LEMMA AsksUse ==
    ASSUME BaseInv, NEW c \in Caller, Asks(c), ServersGrow,
           thread'[c].to \in 0 .. Len(server),
           thread'[c].kind = "init" => object'[thread[c].up].starter = c,
           \/ object'[thread[c].up].starter = object[thread[c].up].starter
           \/ object[thread[c].up].starter \in {c, None},
           ObjectUse(thread[c].up)'
    PROVE  UseInv'
<1> DEFINE u == thread[c].up
<1>1. u \in Up /\ \A v \in Up : v # u => object'[v] = object[v]
  BY DEF Asks
<1>2. ASSUME NEW d \in Caller, d # c
      PROVE  CallerUse(d)'
  <2>1. /\ thread'[d] = thread[d]
        /\ \A v \in Up : /\ object[v].starter = d => object'[v].starter = d
                         /\ object[v].writer = d => object'[v].writer = d
    BY <1>1, <1>2, NoneAssumption DEF Asks, OthersStay
  <2> QED
    BY <2>1, OtherUse
<1>3. CallerUse(c)'
  <2>1. thread'[c].pc = "send" /\ thread'[c].up = u
    BY DEF Asks
  <2>2. thread'[c].to \in 0 .. Len(server')
    BY StateIs DEF ServersGrow, BaseInv
  <2> QED
    BY <1>1, <2>1, <2>2 DEF CallerUse, Asking, Using, Starting
<1>4. ASSUME NEW v \in Up
      PROVE  ObjectUse(v)'
  <2>1. CASE v = u
    BY <2>1 DEF ObjectUse, Asks
  <2>2. CASE v # u
    BY <1>1, <2>2, SameObjectUse
  <2> QED
    BY <2>1, <2>2
<1> QED
  BY <1>2, <1>3, <1>4 DEF UseInv

LEMMA GoesOnUse ==
    ASSUME BaseInv, NEW c \in Caller, GoesOn(c), ServersStay,
           thread'[c].kind = thread[c].kind,
           thread'[c].to \in 0 .. Len(server),
           thread'[c].pc = "flush" => /\ thread'[c].to # 0
                                      /\ server[thread'[c].to].of = thread[c].up
                                      /\ object'[thread[c].up].writer = c,
           \A v \in Up : /\ object'[v].proc = object[v].proc
                         /\ object'[v].starter = object[v].starter
                         /\ \/ object'[v].writer = object[v].writer
                            \/ object[v].writer \in {c, None}
    PROVE  UseInv'
<1>1. ServersGrow
  BY StayGrow DEF BaseInv
<1>2. ASSUME NEW d \in Caller, d # c
      PROVE  CallerUse(d)'
  <2>1. /\ thread'[d] = thread[d]
        /\ \A v \in Up : /\ object[v].starter = d => object'[v].starter = d
                         /\ object[v].writer = d => object'[v].writer = d
    BY <1>2, NoneAssumption DEF GoesOn, OthersStay
  <2> QED
    BY <1>1, <2>1, OtherUse
<1>3. CallerUse(c)'
  <2> DEFINE t == thread[c]
             r == thread'[c]
  <2>1. Asking(t) /\ Asking(r) /\ r.up = t.up /\ r.kind = t.kind
    BY DEF GoesOn
  <2>2. t.up \in Up /\ (Starting(t) => object[t.up].starter = c)
    BY <2>1 DEF BaseInv, UseInv, CallerUse, Using
  <2>3. Starting(r) => object'[r.up].starter = c
    BY <2>1, <2>2 DEF Starting, Asking
  <2>4. r.pc = "flush" => r.to # 0 /\ server'[r.to].of = r.up /\ object'[r.up].writer = c
    BY <2>1, StateIs DEF ServersStay, Procs, BaseInv
  <2>5. r.to \in 0 .. Len(server')
    BY DEF ServersStay
  <2> HIDE DEF t
  <2> QED
    BY <2>1, <2>2, <2>3, <2>4, <2>5 DEF CallerUse, Asking, Using, Starting
<1>4. ASSUME NEW v \in Up
      PROVE  ObjectUse(v)'
  BY <1>1, SameObjectUse
<1> QED
  BY <1>2, <1>3, <1>4 DEF UseInv

LEMMA StaysUse ==
    ASSUME BaseInv, thread' = thread, ServersStay,
           \A v \in Up : /\ \/ object'[v].proc = object[v].proc
                            \/ object'[v].proc = None /\ object[v].starter = None
                         /\ object'[v].starter = object[v].starter
                         /\ object'[v].writer = object[v].writer
    PROVE  UseInv'
<1>1. ServersGrow
  BY StayGrow DEF BaseInv
<1>2. ASSUME NEW d \in Caller
      PROVE  CallerUse(d)'
  BY <1>1, OtherUse
<1>3. ASSUME NEW v \in Up
      PROVE  ObjectUse(v)'
  <2>1. CASE object'[v].proc = object[v].proc
    BY <1>1, <2>1, SameObjectUse
  <2>2. CASE object'[v].proc = None /\ object[v].starter = None
    BY <2>2 DEF ObjectUse
  <2> QED
    BY <2>1, <2>2
<1> QED
  BY <1>2, <1>3 DEF UseInv

\* What an answer handed out changes: the answers, and what is pending.
LEMMA AnswerIs ==
    ASSUME TypeOK, NEW u \in Up, NEW requests, NEW answer \in Reply \cup {Gone},
           Answer(u, requests, answer)
    PROVE  /\ thread' \in [Caller -> Thread] /\ object' \in [Up -> Object]
           /\ \A v \in Up : /\ object'[v].proc = object[v].proc
                            /\ object'[v].nextId = object[v].nextId
                            /\ object'[v].starter = object[v].starter
                            /\ object'[v].writer = object[v].writer
           /\ \A c \in Caller :
                 LET t == thread[c]
                     r == thread'[c]
                 IN  /\ r.pc = t.pc /\ r.up = t.up /\ r.goal = t.goal /\ r.kind = t.kind
                     /\ r.id = t.id /\ r.to = t.to /\ r.outcome = t.outcome
                     /\ \/ r.answer = t.answer
                        \/ r.answer = answer /\ \E q \in requests : q.by = c
<1> DEFINE o == [object[u] EXCEPT !.pending = @ \ requests]
<1>1. object' = [object EXCEPT ![u] = o] /\ object[u] \in Object /\ object \in [Up -> Object]
  BY StateIs DEF Answer
<1>2. /\ o \in Object /\ o.proc = object[u].proc /\ o.nextId = object[u].nextId
      /\ o.starter = object[u].starter /\ o.writer = object[u].writer
  BY <1>1 DEF Object
<1> HIDE DEF o
<1>3. /\ object' \in [Up -> Object]
      /\ \A v \in Up : /\ object'[v].proc = object[v].proc
                       /\ object'[v].nextId = object[v].nextId
                       /\ object'[v].starter = object[v].starter
                       /\ object'[v].writer = object[v].writer
  BY <1>1, <1>2
<1>4. ASSUME NEW c \in Caller
      PROVE  LET t == thread[c]
                 r == thread'[c]
             IN  /\ r \in Thread
                 /\ r.pc = t.pc /\ r.up = t.up /\ r.goal = t.goal /\ r.kind = t.kind
                 /\ r.id = t.id /\ r.to = t.to /\ r.outcome = t.outcome
                 /\ \/ r.answer = t.answer
                    \/ r.answer = answer /\ \E q \in requests : q.by = c
  <2> DEFINE r == [thread[c] EXCEPT !.answer = answer]
  <2>1. thread[c] \in Thread
    BY StateIs
  <2>2. thread'[c] = IF \E q \in requests : q.by = c THEN r ELSE thread[c]
    BY DEF Answer
  <2>3. /\ r \in Thread /\ r.pc = thread[c].pc /\ r.up = thread[c].up /\ r.goal = thread[c].goal
        /\ r.kind = thread[c].kind /\ r.id = thread[c].id /\ r.to = thread[c].to
        /\ r.outcome = thread[c].outcome /\ r.answer = answer
    BY <2>1 DEF Thread
  <2> HIDE DEF r
  <2> QED
    BY <2>1, <2>2, <2>3
<1>5. thread' \in [Caller -> Thread]
  <2>1. thread' = [c \in Caller |-> IF \E q \in requests : q.by = c
                                   THEN [thread[c] EXCEPT !.answer = answer] ELSE thread[c]]
    BY DEF Answer
  <2>2. thread' = [c \in Caller |-> thread'[c]]
    BY <2>1
  <2> QED
    BY <1>4, <2>2
<1> QED
  BY <1>3, <1>4, <1>5

LEMMA AnswersUse ==
    ASSUME BaseInv, NEW u \in Up, NEW requests, NEW answer \in Reply \cup {Gone},
           Answer(u, requests, answer), ServersStay
    PROVE  UseInv'
<1>1. ServersGrow
  BY StayGrow DEF BaseInv
<1>2. /\ \A v \in Up : /\ object'[v].proc = object[v].proc
                       /\ object'[v].starter = object[v].starter
                       /\ object'[v].writer = object[v].writer
      /\ \A c \in Caller : /\ thread'[c].pc = thread[c].pc /\ thread'[c].up = thread[c].up
                           /\ thread'[c].to = thread[c].to /\ thread'[c].kind = thread[c].kind
  BY AnswerIs DEF BaseInv
<1>3. ASSUME NEW c \in Caller
      PROVE  CallerUse(c)'
  <2> DEFINE t == thread[c]
             r == thread'[c]
  <2>1. r.pc = t.pc /\ r.up = t.up /\ r.to = t.to /\ r.kind = t.kind
    BY <1>2
  <2>2. /\ Using(t) => t.up \in Up
        /\ t.to \in 0 .. Len(server)
        /\ t.pc = "flush" => t.to # 0 /\ server[t.to].of = t.up /\ object[t.up].writer = c
        /\ Starting(t) => object[t.up].starter = c
    BY DEF BaseInv, UseInv, CallerUse
  <2>3. t.pc = "flush" => t.to \in Procs /\ t.up \in Up
    BY <2>2, StateIs DEF Procs, Using, Asking, BaseInv
  <2>4. Starting(t) => t.up \in Up
    BY <2>2 DEF Starting, Using
  <2>5. t.pc = "flush" => server'[t.to].of = t.up /\ object'[t.up].writer = c
    BY <1>2, <2>2, <2>3 DEF ServersStay
  <2>6. Starting(t) => object'[t.up].starter = c
    BY <1>2, <2>2, <2>4
  <2>7. t.to \in 0 .. Len(server')
    BY <2>2 DEF ServersStay
  <2> HIDE DEF t
  <2> QED
    BY <2>1, <2>2, <2>5, <2>6, <2>7 DEF CallerUse, Using, Starting, Asking
<1>4. ASSUME NEW v \in Up
      PROVE  ObjectUse(v)'
  BY <1>1, <1>2, SameObjectUse
<1> QED
  BY <1>3, <1>4 DEF UseInv

----------------------------------------------------------------------------
(* Every step keeps BaseInv.                                               *)

\* Only Settle and Admit change the history, and no caller the configuration.
LEMMA CallerHistory ==
    ASSUME TypeOK, NEW c \in Caller, CallerStep(c)
    PROVE  /\ UNCHANGED <<up, made, closing>>
           /\ session' \in [Session -> Caller \cup {None}]
           /\ counted' \subseteq Caller /\ missed' \in [Caller -> SUBSET Caller]
<1>1. /\ session \in [Session -> Caller \cup {None}]
      /\ counted \subseteq Caller /\ missed \in [Caller -> SUBSET Caller]
  BY DEF TypeOK
<1>2. CASE Admit(c)
  <2>1. /\ UNCHANGED <<up, made, closing, counted>>
        /\ session' = [session EXCEPT ![SessionOf[c]] = c]
        /\ missed' = [missed EXCEPT ![c] = {d \in CallsOf(SessionOf[c]) :
                                               thread[d].goal = "call"} \ counted]
    BY <1>2 DEF Admit, Decided
  <2>2. CallsOf(SessionOf[c]) \subseteq Caller
    BY DEF CallsOf
  <2> QED
    BY <1>1, <2>1, <2>2
<1>3. CASE Settle(c)
  <2>1. /\ UNCHANGED <<up, made, closing, missed>>
        /\ session' = [s \in Session |-> IF session[s] = c THEN None ELSE session[s]]
        /\ counted' = counted \/ counted' = counted \cup {c}
    BY <1>3 DEF Settle
  <2>2. session' \in [Session -> Caller \cup {None}]
    BY <1>1, <2>1
  <2> QED
    BY <1>1, <2>1, <2>2
<1>4. CASE ~Admit(c) /\ ~Settle(c)
  <2>1. UNCHANGED gateway
    BY <1>4 DEF CallerStep, Inventory, Refuse, Lookup, EnsureAlive, Start, StartFails,
         Initialized, NotifyFails, KillStarted, Write, WriteFails, Flush, FlushFails,
         Unanswered, CallRejected, CallAnswered, Listed
  <2> QED
    BY <1>1, <2>1 DEF gateway, history
<1> QED
  BY <1>2, <1>3, <1>4

LEMMA CallerType ==
    ASSUME TypeOK, NEW c \in Caller, CallerStep(c), ServersGrow,
           object' \in [Up -> Object], thread' \in [Caller -> Thread],
           ran' \subseteq Caller, sent' \subseteq Caller
    PROVE  TypeOK'
<1>1. /\ UNCHANGED <<up, made, closing>>
      /\ session' \in [Session -> Caller \cup {None}]
      /\ counted' \subseteq Caller /\ missed' \in [Caller -> SUBSET Caller]
  BY CallerHistory
<1>2. closing' \in [objects : SUBSET Up, kills : SUBSET (1 .. Len(server'))]
  <2>1. 1 .. Len(server) \subseteq 1 .. Len(server')
    BY StateIs DEF ServersGrow
  <2>2. closing \in [objects : SUBSET Up, kills : SUBSET (1 .. Len(server))]
    BY DEF TypeOK
  <2> QED
    BY <1>1, <2>1, <2>2
<1> QED
  BY <1>1, <1>2 DEF TypeOK, ServersGrow

\* A request that is given up leaves its object's start lock alone.
LEMMA StarterStays ==
    ASSUME BaseInv, NEW c \in Caller,
           \/ WriteFails(c) \/ FlushFails(c) \/ Unanswered(c)
           \/ CallRejected(c) \/ NotifyFails(c)
    PROVE  \A u \in Up : object'[u].starter = object[u].starter
<1> DEFINE u == thread[c].up
           o == Unregistered(c)
           w == [o EXCEPT !.writer = None]
<1>1. CASE object' = object
  BY <1>1
<1>2. CASE Asking(thread[c]) /\ object' \in {[object EXCEPT ![u] = o], [object EXCEPT ![u] = w]}
  <2>1. u \in Up /\ object \in [Up -> Object]
    BY <1>2, StateIs DEF BaseInv, UseInv, CallerUse, Using
  <2>2. o \in Object /\ o.starter = object[u].starter
    BY <2>1, UnregisteredIs
  <2> HIDE DEF o
  <2>3. w.starter = object[u].starter
    BY <2>2 DEF Object
  <2> HIDE DEF w, u
  <2> QED
    BY <1>2, <2>1, <2>2, <2>3
<1>3. \/ object' = object
      \/ Asking(thread[c]) /\ object' \in {[object EXCEPT ![u] = o], [object EXCEPT ![u] = w]}
  BY DEF WriteFails, FlushFails, Unanswered, CallRejected, NotifyFails, Asking
<1> QED
  BY <1>1, <1>2, <1>3

LEMMA FailedUse ==
    ASSUME BaseInv, NEW c \in Caller, Leaves(c), ServersStay, thread'[c] = Failed(thread[c])
    PROVE  UseInv'
<1> DEFINE t == thread[c]
           r == thread'[c]
<1>1. t.to \in 0 .. Len(server) /\ Len(server) \in Nat /\ t \in Thread
  BY StateIs DEF BaseInv, UseInv, CallerUse
<1>2. r.pc \in {"over", "settle"} /\ r.to \in {0, t.to}
  BY <1>1, FailedIs, ThreadIs
<1>3. ~Using(r) /\ ~Starting(r) /\ r.to \in 0 .. Len(server)
  BY <1>1, <1>2 DEF Using, Starting, Asking
<1> QED
  BY <1>3, LeavesUse

LEMMA UnsuccessfulUse ==
    ASSUME BaseInv, NEW c \in Caller, Leaves(c), ServersStay, Asking(thread[c]),
           NEW outcome \in Outcome, thread'[c] = Unsuccessful(thread[c], outcome),
           \A u \in Up : object'[u].starter = object[u].starter
    PROVE  UseInv'
<1> DEFINE t == thread[c]
           r == thread'[c]
<1>1. /\ t.to \in 0 .. Len(server) /\ Len(server) \in Nat /\ t \in Thread /\ t.up \in Up
      /\ t.kind = "init" => object[t.up].starter = c
  BY StateIs DEF BaseInv, UseInv, CallerUse, Using, Starting
<1>2. /\ t.kind = "init" => r.pc = "kill" /\ r.up = t.up /\ r.to = 0
      /\ t.kind # "init" => r.pc \in {"over", "settle"} /\ r.to \in {0, t.to}
  BY <1>1, UnsuccessfulIs, ThreadIs DEF Kind
<1>3. /\ Using(r) => r.up \in Up
      /\ Starting(r) => object'[r.up].starter = c
      /\ r.to \in 0 .. Len(server)
  BY <1>1, <1>2 DEF Using, Starting, Asking
<1> QED
  BY <1>3, LeavesUse

\* A step that leaves no request under way, and the thread apart.
LEMMA ReturnsUse ==
    ASSUME BaseInv, NEW c \in Caller, Leaves(c), ServersStay,
           thread'[c].pc \in {"over", "settle", "lookup", "decide"},
           thread'[c].to \in {0, thread[c].to}
    PROVE  UseInv'
<1>1. thread[c].to \in 0 .. Len(server) /\ Len(server) \in Nat
  BY StateIs DEF BaseInv, UseInv, CallerUse
<1>2. /\ ~Using(thread'[c]) /\ ~Starting(thread'[c])
      /\ thread'[c].to \in 0 .. Len(server)
  BY <1>1 DEF Using, Starting, Asking
<1> QED
  BY <1>2, LeavesUse

\* What each step of a caller keeps.
Kept ==
    /\ ServersGrow
    /\ object' \in [Up -> Object] /\ thread' \in [Caller -> Thread]
    /\ UseInv' /\ OwnInv'
    /\ ran' \subseteq Caller /\ sent' \subseteq Caller

LEMMA LeavesKept ==
    ASSUME BaseInv, NEW c \in Caller, Leaves(c), ServersStay, MailFrom, UseInv',
           ran' \subseteq Caller, sent' \subseteq Caller
    PROVE  Kept
<1>1. OwnInv' /\ ServersGrow
  BY LeavesOwn, StayGrow DEF BaseInv
<1> QED
  BY <1>1 DEF Kept, Leaves, OthersStay

LEMMA Ghosts ==
    ASSUME TypeOK
    PROVE  ran \subseteq Caller /\ sent \subseteq Caller
  BY DEF TypeOK

\* Steps that leave the processes alone, and after which no request is under way.
LEMMA InventoryKept ==
    ASSUME BaseInv, NEW c \in Caller, Inventory(c) \/ Lookup(c)
    PROVE  Kept
<1>1. /\ Leaves(c) /\ server' = server /\ UNCHANGED <<history, ran, sent>>
      /\ \/ thread'[c].pc = "ensure" /\ thread'[c].up \in Up /\ thread'[c].to = thread[c].to
         \/ thread'[c].pc = "over" /\ thread'[c].to = 0
         \/ thread'[c] = Failed(thread[c])
  BY InventoryIs, LookupIs
<1>2. ServersStay /\ MailFrom /\ ran' \subseteq Caller /\ sent' \subseteq Caller
  BY <1>1, SameServers, Ghosts DEF BaseInv
<1>3. CASE thread'[c] = Failed(thread[c])
  <2>1. UseInv'
    BY <1>1, <1>2, <1>3, FailedUse
  <2> QED
    BY <1>1, <1>2, <2>1, LeavesKept
<1>4. CASE thread'[c].pc = "ensure" /\ thread'[c].up \in Up /\ thread'[c].to = thread[c].to
  <2>1. ~Starting(thread'[c]) /\ thread'[c].to \in 0 .. Len(server)
    BY <1>4 DEF Starting, Asking, BaseInv, UseInv, CallerUse
  <2>2. UseInv'
    BY <1>1, <1>2, <1>4, <2>1, LeavesUse
  <2> QED
    BY <1>1, <1>2, <2>2, LeavesKept
<1>5. CASE thread'[c].pc = "over" /\ thread'[c].to = 0
  <2>1. UseInv'
    BY <1>1, <1>2, <1>5, ReturnsUse
  <2> QED
    BY <1>1, <1>2, <2>1, LeavesKept
<1> QED
  BY <1>1, <1>3, <1>4, <1>5

\* The request is over, or the call: it is decided, settled or returns.
LEMMA ReturnsKept ==
    ASSUME BaseInv, NEW c \in Caller, Leaves(c), server' = server, UNCHANGED <<ran, sent>>,
           thread'[c].pc \in {"over", "settle", "lookup", "decide"},
           thread'[c].to \in {0, thread[c].to}
    PROVE  Kept
<1>1. ServersStay /\ MailFrom /\ ran' \subseteq Caller /\ sent' \subseteq Caller
  BY SameServers, Ghosts DEF BaseInv
<1>2. UseInv'
  BY <1>1, ReturnsUse
<1> QED
  BY <1>1, <1>2, LeavesKept

LEMMA DecidedKept ==
    ASSUME BaseInv, NEW c \in Caller,
           Admit(c) \/ Refuse(c) \/ Settle(c) \/ CallAnswered(c) \/ Listed(c)
    PROVE  Kept
<1>1. CASE Admit(c)
  BY <1>1, AdmitIs, ReturnsKept
<1>2. CASE Refuse(c)
  <2>1. /\ Become(c, Over(thread[c], "none")) /\ object' = object /\ server' = server
        /\ UNCHANGED <<ran, sent>> /\ ~Asking(thread[c])
    BY <1>2 DEF Refuse, Asking, ghosts
  <2> QED
    BY <2>1, ReturnIs, ReturnsKept DEF Outcome
<1>3. CASE Settle(c)
  <2>1. /\ object' = object /\ server' = server /\ UNCHANGED <<ran, sent>> /\ ~Asking(thread[c])
        /\ \E outcome \in Outcome : Become(c, Over(thread[c], outcome))
    BY <1>3 DEF Settle, Asking, ghosts, Outcome
  <2>2. PICK outcome \in Outcome : Become(c, Over(thread[c], outcome))
    BY <2>1
  <2>3. /\ Leaves(c) /\ thread'[c].pc = "over"
        /\ thread'[c].to = IF outcome = "notRun" THEN thread[c].to ELSE 0
    BY <2>1, <2>2, ReturnIs
  <2> QED
    BY <2>1, <2>3, ReturnsKept
<1>4. CASE CallAnswered(c)
  BY <1>4, CallAnsweredIs, ReturnsKept
<1>5. CASE Listed(c)
  BY <1>5, ListedIs, ReturnsKept
<1> QED
  BY <1>1, <1>2, <1>3, <1>4, <1>5

LEMMA StartFailsKept ==
    ASSUME BaseInv, NEW c \in Caller, StartFails(c) \/ KillStarted(c)
    PROVE  Kept
<1>1. /\ Leaves(c) /\ thread'[c] = Failed(thread[c]) /\ sent' = sent
      /\ StartFails(c) => UNCHANGED <<server, ran>>
      /\ KillStarted(c) => object[thread[c].up].proc \in Procs
  BY StartFailsIs
<1>2. ServersStay /\ MailFrom /\ ran' \subseteq Caller /\ sent' \subseteq Caller
  <2>1. CASE StartFails(c)
    BY <1>1, <2>1, SameServers, Ghosts DEF BaseInv
  <2>2. CASE KillStarted(c)
    <3>1. Ends(object[thread[c].up].proc)
      BY <2>2 DEF KillStarted, Proc, Obj
    <3> QED
      BY <1>1, <2>2, <3>1, EndsIs, Ghosts DEF BaseInv
  <2> QED
    BY <2>1, <2>2
<1>3. UseInv'
  BY <1>1, <1>2, FailedUse
<1> QED
  BY <1>1, <1>2, <1>3, LeavesKept

LEMMA GivesUpKept ==
    ASSUME BaseInv, NEW c \in Caller,
           \/ WriteFails(c) \/ FlushFails(c) \/ Unanswered(c)
           \/ CallRejected(c) \/ NotifyFails(c)
    PROVE  Kept
<1>1. /\ Leaves(c) /\ ServersStay /\ MailFrom /\ UNCHANGED ghosts /\ Asking(thread[c])
      /\ \/ thread'[c] = Unsuccessful(thread[c], "notRun")
         \/ thread'[c] = Unsuccessful(thread[c], "unanswered")
  <2>1. CASE FlushFails(c)
    BY <2>1, FlushFailsIs DEF NotSent, Asking
  <2>2. CASE ~FlushFails(c)
    BY <2>2, GivesUpIs, SameServers DEF NotSent, Asking, BaseInv
  <2> QED
    BY <2>1, <2>2
<1>2. \A u \in Up : object'[u].starter = object[u].starter
  BY StarterStays
<1>3. UseInv'
  BY <1>1, <1>2, UnsuccessfulUse DEF Outcome
<1>4. ran' \subseteq Caller /\ sent' \subseteq Caller
  BY <1>1, Ghosts DEF BaseInv, ghosts
<1> QED
  BY <1>1, <1>3, <1>4, LeavesKept

LEMMA AsksKept ==
    ASSUME BaseInv, NEW c \in Caller, Asks(c), ServersGrow, MailFrom, UseInv',
           ran' \subseteq Caller, sent' \subseteq Caller
    PROVE  Kept
<1>1. OwnInv'
  BY AsksOwn
<1> QED
  BY <1>1 DEF Kept, Asks, OthersStay

\* The list or the call is asked of the process that is there.
LEMMA AsksSameKept ==
    ASSUME BaseInv, NEW c \in Caller, Asks(c), server' = server, UNCHANGED <<ran, sent>>,
           thread'[c].kind = thread[c].goal, thread'[c].to \in {0, thread[c].to},
           object'[thread[c].up].proc = object[thread[c].up].proc,
           \/ object'[thread[c].up].starter = object[thread[c].up].starter
           \/ object'[thread[c].up].starter = None /\ object[thread[c].up].starter = c
    PROVE  Kept
<1>1. ServersStay /\ MailFrom /\ ServersGrow /\ ran' \subseteq Caller /\ sent' \subseteq Caller
  BY SameServers, StayGrow, Ghosts DEF BaseInv
<1>2. thread[c].up \in Up /\ thread[c].to \in 0 .. Len(server) /\ Len(server) \in Nat
  BY StateIs DEF Asks, BaseInv, UseInv, CallerUse
<1>3. thread'[c].kind # "init"
  BY StateIs, ThreadIs DEF BaseInv
<1>4. ObjectUse(thread[c].up)'
  <2>1. thread'[c].up = thread[c].up
    BY DEF Asks
  <2>2. ASSUME NEW u \in Up, u = thread[c].up
        PROVE  ObjectUse(u)'
    BY <1>1, <2>2, NoneAssumption, SameObjectUse
  <2> QED
    BY <1>2, <2>1, <2>2 DEF ObjectUse
<1>5. UseInv'
  BY <1>1, <1>2, <1>3, <1>4, AsksUse
<1> QED
  BY <1>1, <1>5, AsksKept

LEMMA StartKept ==
    ASSUME BaseInv, NEW c \in Caller, Start(c)
    PROVE  Kept
<1> DEFINE u == thread[c].up
           s == NewProcess(u)
<1>1. /\ u \in Up /\ server' = Append(server, s) /\ UNCHANGED <<ran, sent>>
      /\ Asks(c) /\ thread'[c].kind = "init" /\ thread'[c].to = thread[c].to
      /\ object'[u].proc = Len(server') /\ object'[u].starter = c /\ object[u].starter = None
  BY StartIs
<1>2. s \in Process /\ s.of = u /\ s.buffer = {} /\ s.inbox = {} /\ s.out = {}
  BY <1>1 DEF NewProcess, Process
<1> HIDE DEF s
<1>3. /\ server' \in Seq(Process) /\ Len(server) \in Nat /\ Len(server') = Len(server) + 1
      /\ \A p \in Procs : server'[p] = server[p]
      /\ server'[Len(server) + 1] = s
  BY <1>1, <1>2, StateIs DEF BaseInv, Procs
<1>4. ServersGrow
  BY <1>3 DEF ServersGrow, Procs
<1>5. MailFrom
  <2>1. \A p \in Procs' : p \in Procs \/ p = Len(server) + 1
    BY <1>3 DEF Procs
  <2>2. \A p \in Procs : Mail(p)' = Mail(p)
    BY <1>3 DEF Mail
  <2>3. ASSUME NEW p \in Procs', p = Len(server) + 1
        PROVE  Mail(p)' = {}
    BY <1>2, <1>3, <2>3 DEF Mail
  <2> QED
    BY <1>3, <2>1, <2>2, <2>3 DEF MailFrom
<1>6. ObjectUse(thread[c].up)'
  <2>1. thread'[c].up = u
    BY <1>1 DEF Asks
  <2>2. Len(server') \in Procs' /\ server'[Len(server')].of = u
    BY <1>2, <1>3 DEF Procs
  <2>3. ASSUME NEW v \in Up, v = u
        PROVE  ObjectUse(v)'
    BY <1>1, <1>3, <2>2, <2>3, NoneAssumption DEF ObjectUse
  <2> QED
    BY <1>1, <2>1, <2>3 DEF ObjectUse
<1>7. UseInv'
  <2>1. thread[c].to \in 0 .. Len(server)
    BY DEF BaseInv, UseInv, CallerUse
  <2> QED
    BY <1>1, <1>4, <1>6, <2>1, AsksUse
<1>8. ran' \subseteq Caller /\ sent' \subseteq Caller
  BY <1>1, Ghosts DEF BaseInv
<1> QED
  BY <1>1, <1>4, <1>5, <1>7, <1>8, AsksKept

LEMMA EnsureKept ==
    ASSUME BaseInv, NEW c \in Caller, EnsureAlive(c) \/ Initialized(c)
    PROVE  Kept
<1>1. CASE EnsureAlive(c)
  BY <1>1, EnsureAliveIs, ReturnsKept, AsksSameKept
<1>2. CASE Initialized(c)
  BY <1>2, InitializedIs, ReturnsKept, AsksSameKept
<1> QED
  BY <1>1, <1>2

LEMMA SendsKept ==
    ASSUME BaseInv, NEW c \in Caller, Write(c) \/ Flush(c)
    PROVE  Kept
<1> DEFINE t == thread[c]
           r == thread'[c]
<1>1. CASE Write(c)
  <2>1. /\ GoesOn(c) /\ SentBy(c) /\ ServersStay /\ r.kind = t.kind
        /\ UNCHANGED <<gateway, ghosts>>
        /\ r.to \in Procs /\ server[r.to].of = t.up /\ t.up \in Up
        /\ object[t.up].writer = None /\ object'[t.up].writer = c
        /\ \A v \in Up : /\ v # t.up => object'[v].writer = object[v].writer
                         /\ object'[v].proc = object[v].proc
                         /\ object'[v].starter = object[v].starter
    BY <1>1, WriteIs
  <2>2. r.to \in 0 .. Len(server) /\ r.to # 0
    BY <2>1, StateIs DEF Procs, BaseInv
  <2>3. UseInv'
    BY <2>1, <2>2, GoesOnUse
  <2>4. OwnInv' /\ ServersGrow /\ ran' \subseteq Caller /\ sent' \subseteq Caller
    BY <2>1, GoesOnOwn, StayGrow, Ghosts DEF BaseInv, ghosts
  <2> QED
    BY <2>1, <2>3, <2>4 DEF Kept, GoesOn, OthersStay
<1>2. CASE Flush(c)
  <2>1. /\ GoesOn(c) /\ SentBy(c) /\ ServersStay /\ r.kind = t.kind
        /\ ran' = ran /\ sent' \subseteq Caller
        /\ t.pc = "flush" /\ r.pc = "wait" /\ r.to = t.to /\ t.up \in Up
        /\ \A v \in Up : /\ v # t.up => object'[v].writer = object[v].writer
                         /\ object'[v].proc = object[v].proc
                         /\ object'[v].starter = object[v].starter
    BY <1>2, FlushIs
  <2>2. object[t.up].writer = c /\ t.to \in 0 .. Len(server)
    BY <2>1 DEF BaseInv, UseInv, CallerUse
  <2>3. UseInv'
    BY <2>1, <2>2, GoesOnUse
  <2>4. OwnInv' /\ ServersGrow /\ ran' \subseteq Caller
    BY <2>1, GoesOnOwn, StayGrow, Ghosts DEF BaseInv
  <2> QED
    BY <2>1, <2>3, <2>4 DEF Kept, GoesOn, OthersStay
<1> QED
  BY <1>1, <1>2

LEMMA CallerKept ==
    ASSUME BaseInv, NEW c \in Caller, CallerStep(c)
    PROVE  Kept
  BY InventoryKept, DecidedKept, StartFailsKept, GivesUpKept, StartKept, EnsureKept, SendsKept
     DEF CallerStep

LEMMA CallerBase ==
    ASSUME BaseInv, NEW c \in Caller, CallerStep(c)
    PROVE  BaseInv'
<1>1. Kept
  BY CallerKept
<1>2. TypeOK'
  BY <1>1, CallerType DEF Kept, BaseInv
<1> QED
  BY <1>1, <1>2 DEF Kept, BaseInv

LEMMA ProcessType ==
    ASSUME TypeOK, ServersStay, Procs' = Procs,
           object' \in [Up -> Object], thread' \in [Caller -> Thread],
           UNCHANGED <<up, made, history>>,
           closing' \in [objects : SUBSET Up, kills : SUBSET Procs],
           ran' \subseteq Caller, sent' \subseteq Caller
    PROVE  TypeOK'
<1>1. closing' \in [objects : SUBSET Up, kills : SUBSET (1 .. Len(server'))]
  BY DEF Procs
<1> QED
  BY <1>1 DEF TypeOK, ServersStay, history

\* The reader of a process, the server and the kill that close() ends with.
LEMMA ProcessBase ==
    ASSUME BaseInv, NEW p \in Procs, ProcessStep(p)
    PROVE  BaseInv'
<1>1. closing \in [objects : SUBSET Up, kills : SUBSET Procs] /\ server[p].of \in Up
  BY UpOf DEF BaseInv, TypeOK, Procs
<1>2. ran \subseteq Caller /\ sent \subseteq Caller
  BY Ghosts DEF BaseInv
<1>3. object \in [Up -> Object] /\ thread \in [Caller -> Thread]
  BY StateIs DEF BaseInv
<1>4. CASE ReadReply(p) \/ ReadEnd(p)
  <2>1. ServersStay /\ MailFrom /\ Procs' = Procs /\ UNCHANGED <<gateway, ghosts>>
    BY <1>4, ReadIs
  <2>2. PICK requests \in SUBSET object[server[p].of].pending, answer \in Reply \cup {Gone} :
             /\ Answer(server[p].of, requests, answer)
             /\ \/ answer = Gone
                \/ answer \in server[p].out /\ \A q \in requests : q.id = answer.id
    BY <1>4, ReadIs
  <2>3. OwnInv'
    BY <1>1, <2>1, <2>2, AnswersOwn DEF Mail
  <2>4. UseInv' /\ object' \in [Up -> Object] /\ thread' \in [Caller -> Thread]
    BY <1>1, <2>1, <2>2, AnswersUse, AnswerIs DEF BaseInv
  <2>5. TypeOK'
    BY <1>1, <1>2, <2>1, <2>4, ProcessType DEF BaseInv, gateway, ghosts
  <2> QED
    BY <2>3, <2>4, <2>5 DEF BaseInv
<1>5. ASSUME ServersStay, MailFrom, Procs' = Procs, thread' = thread,
             UNCHANGED <<up, made, history>>, ran' \subseteq Caller, sent' \subseteq Caller,
             closing' \in [objects : SUBSET Up, kills : SUBSET Procs],
             object' \in [Up -> Object],
             \A u \in Up : /\ object'[u].proc = object[u].proc
                           /\ object'[u].nextId = object[u].nextId
                           /\ object'[u].pending = object[u].pending
                           /\ object'[u].starter = object[u].starter
                           /\ object'[u].writer = object[u].writer
      PROVE  BaseInv'
  <2>1. UseInv' /\ OwnInv'
    BY <1>5, StaysUse, StaysOwn
  <2>2. TypeOK'
    BY <1>3, <1>5, ProcessType DEF BaseInv
  <2> QED
    BY <2>1, <2>2 DEF BaseInv
<1>6. CASE ListChanged(p)
  <2> DEFINE u == server[p].of
             o == [object[u] EXCEPT !.listed = FALSE]
  <2>1. object' = [object EXCEPT ![u] = o] /\ UNCHANGED <<gateway, server, thread, ghosts>>
    BY <1>6 DEF ListChanged
  <2>2. /\ o \in Object /\ o.proc = object[u].proc /\ o.nextId = object[u].nextId
        /\ o.pending = object[u].pending /\ o.starter = object[u].starter
        /\ o.writer = object[u].writer
    BY <1>1, <1>3 DEF Object
  <2> HIDE DEF o
  <2>3. object' \in [Up -> Object]
        /\ \A v \in Up : /\ object'[v].proc = object[v].proc
                         /\ object'[v].nextId = object[v].nextId
                         /\ object'[v].pending = object[v].pending
                         /\ object'[v].starter = object[v].starter
                         /\ object'[v].writer = object[v].writer
    BY <1>1, <1>3, <2>1, <2>2
  <2>4. ServersStay /\ MailFrom /\ Procs' = Procs
    BY <2>1, SameServers DEF BaseInv
  <2> QED
    BY <1>1, <1>2, <1>5, <2>1, <2>3, <2>4 DEF gateway, ghosts
<1>7. CASE ServerAnswers(p)
  BY <1>1, <1>2, <1>3, <1>5, <1>7, ServerAnswersIs DEF gateway
<1>8. CASE ServerExits(p)
  <2>1. Ends(p) /\ UNCHANGED <<gateway, object, thread, sent>>
    BY <1>8 DEF ServerExits
  <2> QED
    BY <1>1, <1>2, <1>3, <1>5, <2>1, EndsIs DEF gateway, BaseInv
<1>9. CASE CloseKill(p)
  <2>1. /\ Ends(p) /\ UNCHANGED <<up, made, history, object, thread, sent>>
        /\ closing' = [closing EXCEPT !.kills = @ \ {p}]
    BY <1>9 DEF CloseKill
  <2>2. closing' \in [objects : SUBSET Up, kills : SUBSET Procs]
    BY <1>1, <2>1
  <2> QED
    BY <1>2, <1>3, <1>5, <2>1, <2>2, EndsIs DEF BaseInv
<1> QED
  BY <1>4, <1>6, <1>7, <1>8, <1>9 DEF ProcessStep

\* gateway.yaml changes, and the server that was replaced is closed.
LEMMA ConfigBase ==
    ASSUME BaseInv, Reconfigure \/ \E u \in Up : Close(u)
    PROVE  BaseInv'
<1>1. closing \in [objects : SUBSET Up, kills : SUBSET Procs]
  BY DEF BaseInv, TypeOK, Procs
<1>2. object \in [Up -> Object] /\ thread \in [Caller -> Thread]
  BY StateIs DEF BaseInv
<1>3. ran \subseteq Caller /\ sent \subseteq Caller
  BY Ghosts DEF BaseInv
<1>4. CASE Reconfigure
  <2>1. /\ made < MaxUp /\ up # None /\ UNCHANGED <<history, object, server, thread, ghosts>>
        /\ up' \in {made + 1, None} /\ made' \in {made, made + 1}
        /\ closing' = [closing EXCEPT !.objects = @ \cup {up}]
    BY <1>4 DEF Reconfigure
  <2>2. up \in Up \cup {None} /\ made \in Up /\ made + 1 \in Up
    BY <2>1, BoundAssumption DEF BaseInv, TypeOK, Up
  <2>3. closing' \in [objects : SUBSET Up, kills : SUBSET (1 .. Len(server'))]
    BY <1>1, <2>1, <2>2 DEF Procs
  <2>4. TypeOK'
    BY <2>1, <2>2, <2>3 DEF BaseInv, TypeOK, history, ghosts
  <2>5. ServersStay /\ MailFrom
    BY <2>1, SameServers DEF BaseInv
  <2>6. UseInv' /\ OwnInv'
    BY <2>1, <2>5, StaysUse, StaysOwn
  <2> QED
    BY <2>4, <2>6 DEF BaseInv
<1>5. CASE \E u \in Up : Close(u)
  <2>1. PICK u \in Up : Close(u)
    BY <1>5
  <2>2. /\ ServersStay /\ MailFrom /\ Procs' = Procs
        /\ UNCHANGED <<up, made, history, thread, ran>>
        /\ closing' \in [objects : SUBSET Up, kills : SUBSET Procs]
        /\ object[u].starter = None /\ object' \in [Up -> Object]
        /\ \A v \in Up : /\ object'[v].proc = IF v = u THEN None ELSE object[v].proc
                         /\ object'[v].nextId = object[v].nextId
                         /\ object'[v].pending = object[v].pending
                         /\ object'[v].starter = object[v].starter
                         /\ object'[v].writer = object[v].writer
        /\ sent' \subseteq Caller
    BY <1>3, <2>1, CloseIs
  <2>3. UseInv' /\ OwnInv'
    BY <2>2, StaysUse, StaysOwn
  <2>4. TypeOK'
    BY <1>2, <1>3, <2>2, ProcessType DEF BaseInv
  <2> QED
    BY <2>3, <2>4 DEF BaseInv
<1> QED
  BY <1>4, <1>5

LEMMA StutterBase ==
    ASSUME BaseInv, UNCHANGED vars
    PROVE  BaseInv'
<1>1. /\ UNCHANGED <<up, made, closing, history, object, server, thread, ran, sent>>
      /\ UNCHANGED <<session, counted, missed>>
  BY DEF vars, gateway, ghosts, history
<1>2. ServersStay /\ MailFrom
  BY <1>1, SameServers DEF BaseInv
<1>3. UseInv' /\ OwnInv'
  BY <1>1, <1>2, StaysUse, StaysOwn
<1>4. TypeOK'
  BY <1>1 DEF BaseInv, TypeOK
<1> QED
  BY <1>3, <1>4 DEF BaseInv

LEMMA StepBase ==
    ASSUME BaseInv, [Next]_vars
    PROVE  BaseInv'
  BY CallerBase, ProcessBase, ConfigBase, StutterBase DEF Next, Procs

LEMMA InitBase ==
    ASSUME Init
    PROVE  BaseInv
<1> DEFINE o == [proc |-> None, nextId |-> 0, pending |-> {}, starter |-> None,
                 writer |-> None, listed |-> FALSE]
<1>1. o \in Object /\ NewThread \in Thread
  BY DEF Object, NewThread, Thread, Kind
<1>2. /\ object = [u \in Up |-> o] /\ server = <<>> /\ thread = [c \in Caller |-> NewThread]
      /\ up = 1 /\ made = 1 /\ closing = [objects |-> {}, kills |-> {}]
      /\ session = [s \in Session |-> None] /\ counted = {} /\ ran = {} /\ sent = {}
      /\ missed = [c \in Caller |-> {}]
  BY DEF Init
<1>3. 1 \in Up
  BY BoundAssumption DEF Up
<1>4. server \in Seq(Process) /\ Len(server) = 0
  BY <1>2
<1>5. TypeOK
  BY <1>1, <1>2, <1>3, <1>4 DEF TypeOK
<1>6. \A c \in Caller : /\ thread[c].pc = "inventory" /\ thread[c].to = 0
                        /\ thread[c].answer = None
  BY <1>2 DEF NewThread
<1>7. \A u \in Up : /\ object[u].proc = None /\ object[u].starter = None
                    /\ object[u].pending = {}
  BY <1>2
<1>8. UseInv
  BY <1>4, <1>6, <1>7 DEF UseInv, CallerUse, ObjectUse, Using, Starting, Asking
<1>9. OwnInv
  <2>1. Procs = {}
    BY <1>4 DEF Procs
  <2>2. \A c \in Caller : ~Asking(thread[c])
    BY <1>6 DEF Asking
  <2> QED
    BY <1>6, <1>7, <2>1, <2>2 DEF OwnInv, RequestOwn, SameRequest, AnswerIsOwn
<1> QED
  BY <1>5, <1>8, <1>9 DEF BaseInv

LEMMA BaseAlways == Spec => []BaseInv
<1>1. Init => BaseInv
  BY InitBase
<1>2. BaseInv /\ [Next]_vars => BaseInv'
  BY StepBase
<1> QED
  BY <1>1, <1>2, PTL DEF Spec

\* The state of the gateway is always well formed: objects, processes,
\* requests, callers and locks are what Upstream and call_tool may make them.
THEOREM GatewayTypes == Spec => []TypeOK
<1>1. BaseInv => TypeOK
  BY DEF BaseInv
<1> QED
  BY <1>1, BaseAlways, PTL

\* Whatever times out, is answered late or is sent to a process started
\* since, an answer _request returns is to the caller's own request: ids are
\* never reused on an object, and replies come from its own processes.
THEOREM AnswersAreTheCallersOwn == Spec => []AnswerIsOwn
<1>1. BaseInv => AnswerIsOwn
  BY DEF BaseInv, OwnInv
<1> QED
  BY <1>1, BaseAlways, PTL

----------------------------------------------------------------------------
(* A call in the history was handed to a process.                          *)

CallerSent(c) ==
    LET t == thread[c]
    IN  /\ t.pc = "flush" => \/ server[t.to].closed
                             \/ [id |-> t.id, by |-> c, kind |-> t.kind] \in server[t.to].buffer
        /\ t.pc = "wait" /\ t.kind = "call" => c \in sent
        /\ t.pc = "settle" /\ t.outcome # "notRun" => c \in sent

SentInv == (\A c \in Caller : CallerSent(c)) /\ counted \subseteq sent

\* What d wrote and is flushing stays in the buffer, or the input is closed.
BufferKept(d) ==
    LET p == thread[d].to
    IN  thread[d].pc = "flush" => /\ server[p].closed => server'[p].closed
                                  /\ server'[p].closed \/ server[p].buffer \subseteq server'[p].buffer

LEMMA OtherSent ==
    ASSUME SentInv, NEW d \in Caller, BufferKept(d), sent \subseteq sent',
           thread'[d].pc = thread[d].pc, thread'[d].id = thread[d].id,
           thread'[d].kind = thread[d].kind, thread'[d].to = thread[d].to,
           thread'[d].outcome = thread[d].outcome
    PROVE  CallerSent(d)'
  BY DEF SentInv, CallerSent, BufferKept

LEMMA FlushIn ==
    ASSUME BaseInv, NEW d \in Caller, thread[d].pc = "flush"
    PROVE  /\ thread[d].to \in Procs /\ thread[d].up \in Up
           /\ server[thread[d].to].of = thread[d].up /\ object[thread[d].up].writer = d
<1>1. /\ thread[d].to \in 0 .. Len(server) /\ thread[d].to # 0 /\ Len(server) \in Nat
      /\ server[thread[d].to].of = thread[d].up /\ object[thread[d].up].writer = d
      /\ thread[d].up \in Up
  BY StateIs DEF BaseInv, UseInv, CallerUse, Using, Asking
<1> QED
  BY <1>1 DEF Procs

LEMMA SameBuffers ==
    ASSUME BaseInv, NEW d \in Caller,
           \A p \in Procs : /\ server[p].closed => server'[p].closed
                            /\ server'[p].closed \/ server[p].buffer \subseteq server'[p].buffer
    PROVE  BufferKept(d)
  BY FlushIn DEF BufferKept

\* A step of c: the others' messages stay, and c settles a call that was sent.
LEMMA CallerSentStep ==
    ASSUME BaseInv, SentInv, NEW c \in Caller, OthersStay(c), sent \subseteq sent',
           \A d \in Caller : d # c => BufferKept(d),
           CallerSent(c)', counted' \subseteq sent'
    PROVE  SentInv'
<1>1. ASSUME NEW d \in Caller, d # c
      PROVE  CallerSent(d)'
  <2>1. thread'[d] = thread[d]
    BY <1>1 DEF OthersStay
  <2> QED
    BY <1>1, <2>1, OtherSent
<1> QED
  BY <1>1 DEF SentInv

LEMMA LeavesSent ==
    ASSUME BaseInv, SentInv, NEW c \in Caller, Leaves(c), sent' = sent, counted' = counted,
           \A d \in Caller : d # c => BufferKept(d),
           thread'[c].pc = "settle" => thread'[c].outcome = "notRun" \/ c \in sent
    PROVE  SentInv'
<1>1. OthersStay(c) /\ ~Asking(thread'[c])
  BY DEF Leaves
<1>2. CallerSent(c)'
  BY <1>1 DEF CallerSent, Asking
<1>3. counted' \subseteq sent'
  BY DEF SentInv
<1> QED
  BY <1>1, <1>2, <1>3, CallerSentStep

LEMMA AsksSent ==
    ASSUME BaseInv, SentInv, NEW c \in Caller, Asks(c), sent' = sent, counted' = counted,
           \A d \in Caller : d # c => BufferKept(d)
    PROVE  SentInv'
<1>1. OthersStay(c) /\ thread'[c].pc = "send"
  BY DEF Asks
<1>2. CallerSent(c)'
  BY <1>1 DEF CallerSent
<1>3. counted' \subseteq sent'
  BY DEF SentInv
<1> QED
  BY <1>1, <1>2, <1>3, CallerSentStep

\* How a request that failed is settled.
LEMMA SettlesAs ==
    ASSUME NEW t \in Thread, NEW outcome \in Outcome
    PROVE  /\ Unsuccessful(t, outcome).pc = "settle" =>
                 \/ Unsuccessful(t, outcome).outcome = "notRun"
                 \/ t.kind = "call" /\ Unsuccessful(t, outcome).outcome = outcome
           /\ Failed(t).pc = "settle" => Failed(t).outcome = "notRun"
<1>1. Failed(t).pc = "settle" => Failed(t).outcome = "notRun"
  BY FailedIs, ThreadIs
<1>2. t.kind \in {"init", "list", "call"} /\ t.goal \in {"list", "call"}
  BY ThreadIs DEF Kind
<1>3. \/ Unsuccessful(t, outcome).pc # "settle"
      \/ Unsuccessful(t, outcome).outcome = "notRun"
      \/ t.kind = "call" /\ Unsuccessful(t, outcome).outcome = outcome
  BY <1>2, UnsuccessfulIs
<1> QED
  BY <1>1, <1>3

LEMMA CallerKeepsSent ==
    ASSUME BaseInv, SentInv, NEW c \in Caller, CallerStep(c)
    PROVE  SentInv'
<1> DEFINE t == thread[c]
           r == thread'[c]
<1>0. t \in Thread /\ CallerSent(c)
  BY StateIs DEF BaseInv, SentInv
<1>1. server' = server => \A d \in Caller : BufferKept(d)
  BY SameBuffers
<1>2. CASE Inventory(c) \/ Lookup(c)
  <2>1. /\ Leaves(c) /\ server' = server /\ sent' = sent /\ counted' = counted
        /\ r.pc # "settle" \/ r = Failed(t)
    BY <1>2, InventoryIs, LookupIs DEF history
  <2> QED
    BY <1>0, <1>1, <2>1, SettlesAs, LeavesSent DEF Outcome
<1>3. CASE Admit(c) \/ Listed(c)
  <2>1. Leaves(c) /\ server' = server /\ sent' = sent /\ counted' = counted /\ r.pc # "settle"
    BY <1>3, AdmitIs, ListedIs DEF history
  <2> QED
    BY <1>1, <2>1, LeavesSent
<1>4. CASE Refuse(c)
  <2>1. /\ Become(c, Over(t, "none")) /\ object' = object /\ server' = server
        /\ sent' = sent /\ counted' = counted /\ ~Asking(t)
    BY <1>4 DEF Refuse, Asking, ghosts, gateway, history
  <2>2. Leaves(c) /\ r.pc = "over"
    BY <2>1, ReturnIs DEF Outcome
  <2> QED
    BY <1>1, <2>1, <2>2, LeavesSent
<1>5. CASE Settle(c)
  <2>1. /\ object' = object /\ server' = server /\ sent' = sent /\ t.pc = "settle"
        /\ \E outcome \in Outcome : Become(c, Over(t, outcome))
        /\ counted' = counted \/ (counted' = counted \cup {c} /\ t.outcome # "notRun")
    BY <1>5 DEF Settle, Asking, ghosts, Outcome
  <2>2. PICK outcome \in Outcome : Become(c, Over(t, outcome))
    BY <2>1
  <2>3. Leaves(c) /\ r.pc = "over"
    BY <2>1, <2>2, ReturnIs DEF Asking
  <2>4. counted' \subseteq sent'
    BY <1>0, <2>1 DEF CallerSent, SentInv
  <2>5. OthersStay(c) /\ CallerSent(c)'
    BY <2>3 DEF Leaves, CallerSent
  <2> QED
    BY <1>1, <2>1, <2>4, <2>5, CallerSentStep
<1>6. CASE EnsureAlive(c) \/ Initialized(c)
  <2>1. /\ server' = server /\ sent' = sent /\ counted' = counted
        /\ Asks(c) \/ (Leaves(c) /\ r.pc = "decide")
    BY <1>6, EnsureAliveIs, InitializedIs DEF history
  <2> QED
    BY <1>1, <2>1, AsksSent, LeavesSent
<1>7. CASE Start(c)
  <2>1. /\ Asks(c) /\ sent' = sent /\ counted' = counted
        /\ server' = Append(server, NewProcess(t.up))
    BY <1>7, StartIs DEF history
  <2>2. \A p \in Procs : server'[p] = server[p]
    BY <2>1, StateIs DEF BaseInv, Procs
  <2>3. \A d \in Caller : BufferKept(d)
    BY <2>2, SameBuffers
  <2> QED
    BY <2>1, <2>3, AsksSent
<1>8. CASE StartFails(c) \/ KillStarted(c)
  <2>1. /\ Leaves(c) /\ r = Failed(t) /\ sent' = sent /\ counted' = counted
        /\ StartFails(c) => server' = server
        /\ KillStarted(c) => object[t.up].proc \in Procs
    BY <1>8, StartFailsIs DEF history
  <2>2. \A d \in Caller : BufferKept(d)
    <3>1. CASE StartFails(c)
      BY <1>1, <2>1, <3>1
    <3>2. CASE KillStarted(c)
      <4>1. Ends(object[t.up].proc)
        BY <3>2 DEF KillStarted, Proc, Obj
      <4>2. \A p \in Procs : server'[p].closed = server[p].closed /\ server'[p].buffer = server[p].buffer
        BY <2>1, <3>2, <4>1, EndsIs DEF BaseInv
      <4> QED
        BY <4>2, SameBuffers
    <3> QED
      BY <1>8, <3>1, <3>2
  <2> QED
    BY <1>0, <2>1, <2>2, SettlesAs, LeavesSent DEF Outcome
<1>9. CASE WriteFails(c) \/ Unanswered(c) \/ CallRejected(c) \/ NotifyFails(c)
  <2>1. /\ Leaves(c) /\ server' = server /\ sent' = sent /\ counted' = counted
        /\ \/ r = Unsuccessful(t, "notRun")
           \/ r = Unsuccessful(t, "unanswered") /\ t.pc = "wait"
    BY <1>9, GivesUpIs DEF NotSent, ghosts, gateway, history
  <2>2. r.pc = "settle" => r.outcome = "notRun" \/ c \in sent
    BY <1>0, <2>1, SettlesAs DEF CallerSent, Outcome
  <2> QED
    BY <1>1, <2>1, <2>2, LeavesSent
<1>10. CASE FlushFails(c)
  <2>1. /\ Leaves(c) /\ r = Unsuccessful(t, "notRun") /\ sent' = sent /\ counted' = counted
        /\ t.pc = "flush"
        /\ \A q \in Procs : q # t.to => server'[q] = server[q]
    BY <1>10, FlushFailsIs DEF NotSent, ghosts, gateway, history
  <2>2. \A d \in Caller : d # c => BufferKept(d)
    BY <2>1, FlushIn DEF BufferKept
  <2> QED
    BY <1>0, <2>1, <2>2, SettlesAs, LeavesSent DEF Outcome
<1>11. CASE CallAnswered(c)
  <2>1. /\ Leaves(c) /\ server' = server /\ sent' = sent /\ counted' = counted
        /\ t.pc = "wait" /\ t.kind = "call"
    BY <1>11, CallAnsweredIs DEF history
  <2> QED
    BY <1>0, <1>1, <2>1, LeavesSent DEF CallerSent
<1>12. CASE Write(c)
  <2> DEFINE m == [id |-> t.id, by |-> c, kind |-> t.kind]
  <2>1. /\ GoesOn(c) /\ UNCHANGED <<gateway, ghosts>> /\ r.pc = "flush" /\ r.kind = t.kind
        /\ r.to \in Procs /\ server'[r.to].closed = server[r.to].closed
        /\ server'[r.to].buffer = server[r.to].buffer \cup {m}
        /\ \A q \in Procs : q # r.to => server'[q] = server[q]
    BY <1>12, WriteIs
  <2>2. \A d \in Caller : BufferKept(d)
    BY <2>1, SameBuffers
  <2>3. r.id = t.id /\ OthersStay(c)
    BY <2>1 DEF GoesOn
  <2>4. CallerSent(c)'
    BY <2>1, <2>3 DEF CallerSent
  <2>5. sent' = sent /\ counted' \subseteq sent'
    BY <2>1 DEF SentInv, gateway, history, ghosts
  <2> QED
    BY <2>2, <2>3, <2>4, <2>5, CallerSentStep
<1>13. CASE Flush(c)
  <2> DEFINE m == [id |-> t.id, by |-> c, kind |-> t.kind]
             p == t.to
  <2>1. /\ GoesOn(c) /\ UNCHANGED gateway /\ t.pc = "flush" /\ r.pc = "wait" /\ r.kind = t.kind
        /\ ~server[p].closed
        /\ \A q \in Procs : q # p => server'[q] = server[q]
        /\ sent' = sent \cup CallsIn(server[p].buffer)
    BY <1>13, FlushIs
  <2>2. \A d \in Caller : d # c => BufferKept(d)
    BY <2>1, FlushIn DEF BufferKept
  <2>3. m \in server[p].buffer
    BY <1>0, <2>1 DEF CallerSent
  <2>4. t.kind = "call" => c \in sent'
    BY <2>1, <2>3 DEF CallsIn
  <2>5. CallerSent(c)' /\ OthersStay(c)
    BY <2>1, <2>4 DEF CallerSent, GoesOn
  <2>6. counted' \subseteq sent' /\ sent \subseteq sent'
    BY <2>1 DEF SentInv, gateway, history
  <2> QED
    BY <2>2, <2>5, <2>6, CallerSentStep
<1> QED
  BY <1>2, <1>3, <1>4, <1>5, <1>6, <1>7, <1>8, <1>9, <1>10, <1>11, <1>12, <1>13 DEF CallerStep

\* No caller moves: no message is dropped but by a close.
LEMMA StaysSent ==
    ASSUME BaseInv, SentInv, counted' = counted, sent \subseteq sent',
           \A d \in Caller : /\ thread'[d].pc = thread[d].pc /\ thread'[d].id = thread[d].id
                             /\ thread'[d].kind = thread[d].kind /\ thread'[d].to = thread[d].to
                             /\ thread'[d].outcome = thread[d].outcome,
           \A p \in Procs : /\ server[p].closed => server'[p].closed
                            /\ server'[p].closed \/ server[p].buffer \subseteq server'[p].buffer
    PROVE  SentInv'
<1>1. \A d \in Caller : BufferKept(d)
  BY SameBuffers
<1>2. \A d \in Caller : CallerSent(d)'
  BY <1>1, OtherSent
<1> QED
  BY <1>2 DEF SentInv

LEMMA ProcessKeepsSent ==
    ASSUME BaseInv, SentInv, NEW p \in Procs, ProcessStep(p)
    PROVE  SentInv'
<1>1. CASE ReadReply(p) \/ ReadEnd(p)
  <2>1. /\ UNCHANGED <<gateway, ghosts>>
        /\ \A q \in Procs : server'[q].closed = server[q].closed /\ server'[q].buffer = server[q].buffer
    BY <1>1, ReadIs
  <2>2. PICK requests \in SUBSET object[server[p].of].pending, answer \in Reply \cup {Gone} :
             Answer(server[p].of, requests, answer)
    BY <1>1, ReadIs
  <2>3. \A d \in Caller : /\ thread'[d].pc = thread[d].pc /\ thread'[d].id = thread[d].id
                          /\ thread'[d].kind = thread[d].kind /\ thread'[d].to = thread[d].to
                          /\ thread'[d].outcome = thread[d].outcome
    BY <2>2, AnswerIs, UpOf DEF BaseInv
  <2> QED
    BY <2>1, <2>3, StaysSent DEF gateway, history, ghosts
<1>2. CASE ListChanged(p)
  BY <1>2, StaysSent DEF ListChanged, gateway, history, ghosts
<1>3. CASE ServerAnswers(p)
  <2>1. /\ UNCHANGED <<gateway, object, thread, sent>>
        /\ \A q \in Procs : server'[q].closed = server[q].closed /\ server'[q].buffer = server[q].buffer
    BY <1>3, ServerAnswersIs
  <2> QED
    BY <2>1, StaysSent DEF gateway, history
<1>4. CASE ServerExits(p) \/ CloseKill(p)
  <2>1. Ends(p) /\ UNCHANGED <<history, thread, sent>>
    BY <1>4 DEF ServerExits, CloseKill, gateway
  <2>2. \A q \in Procs : server'[q].closed = server[q].closed /\ server'[q].buffer = server[q].buffer
    BY <2>1, EndsIs DEF BaseInv
  <2> QED
    BY <2>1, <2>2, StaysSent DEF history
<1> QED
  BY <1>1, <1>2, <1>3, <1>4 DEF ProcessStep

LEMMA ConfigKeepsSent ==
    ASSUME BaseInv, SentInv, Reconfigure \/ (\E u \in Up : Close(u)) \/ UNCHANGED vars
    PROVE  SentInv'
<1>1. CASE Reconfigure
  BY <1>1, StaysSent DEF Reconfigure, history, ghosts
<1>2. CASE UNCHANGED vars
  BY <1>2, StaysSent DEF vars, gateway, history, ghosts
<1>3. CASE \E u \in Up : Close(u)
  <2>1. PICK u \in Up : Close(u)
    BY <1>3
  <2>2. /\ UNCHANGED <<up, made, history, thread, ran>>
        /\ \/ object[u].proc = None /\ server' = server /\ sent' = sent
           \/ /\ \A q \in Procs : q # object[u].proc => server'[q] = server[q]
              /\ server'[object[u].proc].closed /\ sent \subseteq sent'
    BY <2>1, CloseIs
  <2> QED
    BY <2>2, StaysSent DEF history
<1> QED
  BY <1>1, <1>2, <1>3

\* A call in the history was handed to a process, "and against none that did
\* not" run: commit is reached only by a call whose write was flushed, by its
\* own thread or by close(), and which was answered or not.
THEOREM CountedCallsWereSent == Spec => []CountedWasSent
<1>1. Init => SentInv
  BY DEF Init, NewThread, SentInv, CallerSent
<1>2. BaseInv /\ SentInv /\ [Next]_vars => SentInv'
  BY CallerKeepsSent, ProcessKeepsSent, ConfigKeepsSent DEF Next, Procs
<1>3. SentInv => CountedWasSent
  BY DEF SentInv, CountedWasSent
<1> QED
  BY <1>1, <1>2, <1>3, BaseAlways, PTL DEF Spec

----------------------------------------------------------------------------
(* What a call has done, and what the session's lock says of it.           *)

CallerGoal(c) ==
    LET t == thread[c]
    IN  /\ t.pc \in {"inventory", "decide"} => t.goal = "list"
        /\ t.pc \in {"lookup", "settle"} => t.goal = "call"
        /\ Asking(t) => t.kind \in {"init", t.goal}
        /\ t.goal = "list" \/ t.pc \notin {"settle", "over"} => t.outcome = "none"
        /\ t.goal = "call" => session[SessionOf[c]] = c \/ t.pc = "over"
        /\ t.goal = "call" /\ t.pc = "over" => c \in counted \/ t.outcome \in {"notRun", "raised"}
        /\ t.pc = "settle" => t.outcome # "none"

GoalInv == \A c \in Caller : CallerGoal(c)

\* A caller that does not move keeps its session's lock and its commit.
LEMMA OtherGoal ==
    ASSUME GoalInv, NEW d \in Caller,
           thread'[d].pc = thread[d].pc, thread'[d].goal = thread[d].goal,
           thread'[d].kind = thread[d].kind, thread'[d].outcome = thread[d].outcome,
           session[SessionOf[d]] = d => session'[SessionOf[d]] = d, d \in counted => d \in counted'
    PROVE  CallerGoal(d)'
  BY DEF GoalInv, CallerGoal, Asking

\* The session's lock and the history are left alone.
LEMMA CallerGoalStep ==
    ASSUME GoalInv, NEW c \in Caller, OthersStay(c), UNCHANGED history, CallerGoal(c)'
    PROVE  GoalInv'
<1>1. ASSUME NEW d \in Caller, d # c
      PROVE  CallerGoal(d)'
  <2>1. thread'[d] = thread[d] /\ session' = session /\ counted' = counted
    BY <1>1 DEF OthersStay, history
  <2> QED
    BY <2>1, OtherGoal
<1> QED
  BY <1>1 DEF GoalInv

\* Where a caller is that has no request under way, with the goal it had.
LEMMA RestsGoal ==
    ASSUME GoalInv, NEW c \in Caller, Leaves(c), UNCHANGED history,
           thread'[c].goal = thread[c].goal, thread[c].pc # "over",
           \/ thread'[c].pc \in {"ensure", "kill"} /\ thread'[c].outcome = "none"
           \/ thread'[c].pc = "decide" /\ thread[c].goal = "list" /\ thread'[c].outcome = "none"
           \/ thread'[c].pc = "over" /\ thread[c].goal = "list" /\ thread'[c].outcome = "none"
           \/ thread'[c].pc = "settle" /\ thread[c].goal = "call" /\ thread'[c].outcome # "none"
    PROVE  GoalInv'
<1>1. OthersStay(c) /\ ~Asking(thread'[c])
  BY DEF Leaves
<1>2. CallerGoal(c) /\ session' = session
  BY DEF GoalInv, history
<1>3. CallerGoal(c)'
  BY <1>1, <1>2 DEF CallerGoal
<1> QED
  BY <1>1, <1>3, CallerGoalStep

LEMMA AsksGoal ==
    ASSUME GoalInv, NEW c \in Caller, Asks(c), UNCHANGED history,
           thread[c].pc \notin {"settle", "over"}, thread'[c].kind \in {"init", thread[c].goal}
    PROVE  GoalInv'
<1>1. /\ OthersStay(c) /\ thread'[c].pc = "send"
      /\ thread'[c].goal = thread[c].goal /\ thread'[c].outcome = thread[c].outcome
  BY DEF Asks
<1>2. CallerGoal(c) /\ session' = session
  BY DEF GoalInv, history
<1>3. CallerGoal(c)'
  BY <1>1, <1>2 DEF CallerGoal, Asking
<1> QED
  BY <1>1, <1>3, CallerGoalStep

LEMMA GoesOnGoal ==
    ASSUME GoalInv, NEW c \in Caller, GoesOn(c), UNCHANGED history,
           thread'[c].kind = thread[c].kind, thread'[c].goal = thread[c].goal,
           thread'[c].outcome = thread[c].outcome
    PROVE  GoalInv'
<1>1. OthersStay(c) /\ Asking(thread[c]) /\ Asking(thread'[c])
  BY DEF GoesOn
<1>2. CallerGoal(c) /\ session' = session
  BY DEF GoalInv, history
<1>3. CallerGoal(c)'
  BY <1>1, <1>2 DEF CallerGoal, Asking
<1> QED
  BY <1>1, <1>3, CallerGoalStep

LEMMA FailedGoal ==
    ASSUME BaseInv, GoalInv, NEW c \in Caller, Leaves(c), UNCHANGED history,
           thread'[c] = Failed(thread[c]), thread[c].pc # "over"
    PROVE  GoalInv'
<1>1. thread[c] \in Thread
  BY StateIs DEF BaseInv
<1>2. /\ thread'[c].goal = thread[c].goal
      /\ \/ thread'[c].pc = "over" /\ thread[c].goal = "list" /\ thread'[c].outcome = "none"
         \/ thread'[c].pc = "settle" /\ thread[c].goal = "call" /\ thread'[c].outcome # "none"
  BY <1>1, FailedIs, ThreadIs
<1> QED
  BY <1>2, RestsGoal

LEMMA UnsuccessfulGoal ==
    ASSUME BaseInv, GoalInv, NEW c \in Caller, Leaves(c), UNCHANGED history,
           NEW outcome \in Outcome \ {"none"},
           thread'[c] = Unsuccessful(thread[c], outcome), Asking(thread[c])
    PROVE  GoalInv'
<1> DEFINE t == thread[c]
           r == thread'[c]
<1>1. t \in Thread /\ t.pc \notin {"settle", "over"} /\ outcome \in Outcome
  BY StateIs DEF BaseInv, Asking
<1>2. t.kind \in {"init", t.goal} /\ t.outcome = "none" /\ t.goal \in {"list", "call"}
  BY <1>1, ThreadIs DEF GoalInv, CallerGoal
<1>3. /\ r.goal = t.goal
      /\ \/ r.pc = "kill" /\ r.outcome = "none"
         \/ r.pc = "over" /\ t.goal = "list" /\ r.outcome = "none"
         \/ r.pc = "settle" /\ t.goal = "call" /\ r.outcome # "none"
  BY <1>1, <1>2, UnsuccessfulIs
<1> QED
  BY <1>1, <1>3, RestsGoal

LEMMA CallerKeepsGoal ==
    ASSUME BaseInv, GoalInv, NEW c \in Caller, CallerStep(c)
    PROVE  GoalInv'
<1> DEFINE t == thread[c]
           r == thread'[c]
<1>0. t \in Thread /\ CallerGoal(c) /\ t.goal \in {"list", "call"}
  BY StateIs, ThreadIs DEF BaseInv, GoalInv
<1>1. CASE Inventory(c)
  <2>1. /\ Leaves(c) /\ UNCHANGED history /\ r.goal = t.goal /\ t.pc = "inventory"
        /\ \/ r.pc = "ensure" /\ r.outcome = t.outcome
           \/ r.pc = "over" /\ r.outcome = "none"
    BY <1>1, InventoryIs
  <2> QED
    BY <1>0, <2>1, RestsGoal DEF CallerGoal
<1>2. CASE Lookup(c)
  <2>1. /\ Leaves(c) /\ UNCHANGED history /\ r.goal = t.goal /\ t.pc = "lookup"
        /\ \/ r.pc = "ensure" /\ r.outcome = t.outcome
           \/ r = Failed(t)
    BY <1>2, LookupIs
  <2> QED
    BY <1>0, <2>1, RestsGoal, FailedGoal DEF CallerGoal
<1>3. CASE Admit(c)
  <2>1. /\ Leaves(c) /\ t.pc = "decide" /\ r.pc = "lookup" /\ r.goal = "call"
        /\ r.outcome = t.outcome /\ counted' = counted
        /\ session[SessionOf[c]] = None
        /\ session' = [session EXCEPT ![SessionOf[c]] = c]
    BY <1>3, AdmitIs
  <2>2. session \in [Session -> Caller \cup {None}] /\ SessionOf[c] \in Session
    BY CallerAssumption DEF BaseInv, TypeOK
  <2>3. session'[SessionOf[c]] = c
    BY <2>1, <2>2
  <2>4. CallerGoal(c)'
    BY <1>0, <2>1, <2>3 DEF CallerGoal, Asking
  <2>5. ASSUME NEW d \in Caller, d # c
        PROVE  CallerGoal(d)'
    <3>1. thread'[d] = thread[d]
      BY <2>1, <2>5 DEF Leaves, OthersStay
    <3>2. session[SessionOf[d]] = d => session'[SessionOf[d]] = d
      <4>1. SessionOf[d] \in Session /\ d # None
        BY CallerAssumption, NoneAssumption
      <4> QED
        BY <2>1, <2>2, <4>1
    <3> QED
      BY <2>1, <3>1, <3>2, OtherGoal
  <2> QED
    BY <2>4, <2>5 DEF GoalInv
<1>4. CASE Refuse(c)
  <2>1. /\ Become(c, Over(t, "none")) /\ object' = object /\ UNCHANGED history
        /\ t.pc = "decide" /\ ~Asking(t)
    BY <1>4 DEF Refuse, Asking, gateway
  <2>2. Leaves(c) /\ r.pc = "over" /\ r.goal = t.goal /\ r.outcome = "none"
    BY <2>1, ReturnIs DEF Outcome
  <2> QED
    BY <1>0, <2>1, <2>2, RestsGoal DEF CallerGoal
<1>5. CASE Settle(c)
  <2>1. /\ t.pc = "settle" /\ object' = object /\ ~Asking(t)
        /\ session' = [s \in Session |-> IF session[s] = c THEN None ELSE session[s]]
        /\ \E outcome \in {"notRun", "answered", "unanswered", "raised"} :
              /\ Become(c, Over(t, outcome))
              /\ \/ outcome \in {"notRun", "raised"} /\ counted' = counted
                 \/ counted' = counted \cup {c}
    BY <1>5 DEF Settle, Asking
  <2>2. PICK outcome \in {"notRun", "answered", "unanswered", "raised"} :
              /\ Become(c, Over(t, outcome))
              /\ \/ outcome \in {"notRun", "raised"} /\ counted' = counted
                 \/ counted' = counted \cup {c}
    BY <2>1
  <2>3. Leaves(c) /\ r.pc = "over" /\ r.goal = t.goal /\ r.outcome = outcome
    BY <2>1, <2>2, ReturnIs DEF Outcome
  <2>4. CallerGoal(c)'
    BY <1>0, <2>1, <2>2, <2>3 DEF CallerGoal, Asking
  <2>5. ASSUME NEW d \in Caller, d # c
        PROVE  CallerGoal(d)'
    <3>1. thread'[d] = thread[d] /\ SessionOf[d] \in Session
      BY <2>3, <2>5, CallerAssumption DEF Leaves, OthersStay
    <3>2. session[SessionOf[d]] = d => session'[SessionOf[d]] = d
      BY <2>1, <2>5, <3>1
    <3> QED
      BY <2>2, <3>1, <3>2, OtherGoal
  <2> QED
    BY <2>4, <2>5 DEF GoalInv
<1>6. CASE EnsureAlive(c) \/ Initialized(c)
  <2>1. /\ UNCHANGED history /\ t.pc \in {"ensure", "wait"}
        /\ \/ Asks(c) /\ r.kind = t.goal
           \/ /\ Leaves(c) /\ t.goal = "list" /\ r.pc = "decide" /\ r.goal = t.goal
              /\ r.outcome = t.outcome
    BY <1>6, EnsureAliveIs, InitializedIs
  <2> QED
    BY <1>0, <2>1, AsksGoal, RestsGoal DEF CallerGoal
<1>7. CASE Start(c)
  <2>1. Asks(c) /\ UNCHANGED history /\ t.pc = "ensure" /\ r.kind = "init"
    BY <1>7, StartIs
  <2> QED
    BY <2>1, AsksGoal
<1>8. CASE StartFails(c) \/ KillStarted(c)
  <2>1. Leaves(c) /\ r = Failed(t) /\ UNCHANGED history /\ t.pc \in {"ensure", "kill"}
    BY <1>8, StartFailsIs
  <2> QED
    BY <2>1, FailedGoal
<1>9. CASE \/ WriteFails(c) \/ FlushFails(c) \/ Unanswered(c)
           \/ CallRejected(c) \/ NotifyFails(c)
  <2>1. /\ Leaves(c) /\ UNCHANGED history /\ Asking(t)
        /\ r = Unsuccessful(t, "notRun") \/ r = Unsuccessful(t, "unanswered")
    BY <1>9, GivesUpIs, FlushFailsIs DEF NotSent, Asking, gateway
  <2> QED
    BY <2>1, UnsuccessfulGoal DEF Outcome
<1>10. CASE CallAnswered(c)
  <2>1. /\ Leaves(c) /\ UNCHANGED history /\ t.pc = "wait" /\ t.kind = "call"
        /\ r.pc = "settle" /\ r.goal = t.goal /\ r.outcome = "answered"
    BY <1>10, CallAnsweredIs
  <2> QED
    BY <1>0, <2>1, RestsGoal DEF CallerGoal, Asking
<1>11. CASE Listed(c)
  <2>1. /\ Leaves(c) /\ UNCHANGED history /\ t.pc = "wait" /\ t.kind = "list"
        /\ r.pc = "decide" /\ r.goal = t.goal /\ r.outcome = t.outcome
    BY <1>11, ListedIs
  <2> QED
    BY <1>0, <2>1, RestsGoal DEF CallerGoal, Asking
<1>12. CASE Write(c) \/ Flush(c)
  <2>1. GoesOn(c) /\ UNCHANGED history /\ r.kind = t.kind /\ r.goal = t.goal /\ r.outcome = t.outcome
    BY <1>12, WriteIs, FlushIs DEF gateway
  <2> QED
    BY <2>1, GoesOnGoal
<1> QED
  BY <1>1, <1>2, <1>3, <1>4, <1>5, <1>6, <1>7, <1>8, <1>9, <1>10, <1>11, <1>12 DEF CallerStep

LEMMA StaysGoal ==
    ASSUME GoalInv, UNCHANGED history,
           \A d \in Caller : /\ thread'[d].pc = thread[d].pc /\ thread'[d].goal = thread[d].goal
                             /\ thread'[d].kind = thread[d].kind
                             /\ thread'[d].outcome = thread[d].outcome
    PROVE  GoalInv'
<1>1. \A d \in Caller : CallerGoal(d)'
  BY OtherGoal DEF history
<1> QED
  BY <1>1 DEF GoalInv

LEMMA OtherStepsKeepGoal ==
    ASSUME BaseInv, GoalInv,
           \/ \E p \in Procs : ProcessStep(p)
           \/ Reconfigure \/ (\E u \in Up : Close(u)) \/ UNCHANGED vars
    PROVE  GoalInv'
<1>1. CASE \E p \in Procs : ReadReply(p) \/ ReadEnd(p)
  <2>1. PICK p \in Procs : ReadReply(p) \/ ReadEnd(p)
    BY <1>1
  <2>2. PICK requests \in SUBSET object[server[p].of].pending, answer \in Reply \cup {Gone} :
             Answer(server[p].of, requests, answer)
    BY <2>1, ReadIs
  <2>3. \A d \in Caller : /\ thread'[d].pc = thread[d].pc /\ thread'[d].goal = thread[d].goal
                          /\ thread'[d].kind = thread[d].kind
                          /\ thread'[d].outcome = thread[d].outcome
    BY <2>2, AnswerIs, UpOf DEF BaseInv
  <2> QED
    BY <2>1, <2>3, ReadIs, StaysGoal DEF gateway
<1>2. CASE UNCHANGED <<history, thread>>
  BY <1>2, StaysGoal
<1>3. \/ \E p \in Procs : ReadReply(p) \/ ReadEnd(p)
      \/ UNCHANGED <<history, thread>>
  BY DEF ProcessStep, ListChanged, ServerAnswers, ServerExits, CloseKill, Reconfigure, Close,
     vars, gateway
<1> QED
  BY <1>1, <1>2, <1>3

----------------------------------------------------------------------------
(* Calls on their way, calls that ran and calls the server refused.        *)

Travels(p) == server[p].buffer \cup server[p].inbox

OnTheWay(c) == \E p \in Procs : \E m \in Travels(p) : m.kind = "call" /\ m.by = c

MayRun(c) == c \in ran \/ OnTheWay(c)

Rejects(answer) == answer \notin {None, Gone} /\ ~answer.ok

Refused(c) ==
    \/ \E p \in Procs : \E r \in server[p].out : r.by = c /\ ~r.ok
    \/ Rejects(thread[c].answer)

\* The call was not written to a process, or not yet.
Unwritten(t) == t.outcome = "none" /\ ~(t.pc \in {"flush", "wait"} /\ t.kind = "call")

\* A call is in one place: one buffer, one pipe, or run.
OnceInv ==
    /\ \A p, q \in Procs : \A m \in Travels(p), n \in Travels(q) :
          m.kind = "call" /\ n.kind = "call" /\ m.by = n.by => m = n /\ p = q
    /\ \A p \in Procs : \A m \in server[p].buffer \cap server[p].inbox : m.kind # "call"
    /\ \A p \in Procs : \A m \in Travels(p) : m.kind = "call" => m.by \notin ran

\* A call that its caller says was not run does not run, or is excused.
CallerRun(c) ==
    /\ Unwritten(thread[c]) => ~MayRun(c) /\ ~Refused(c)
    /\ Refused(c) => ~MayRun(c)
    /\ thread[c].outcome = "notRun" => Excused(c) \/ ~MayRun(c)

MissedRun(c) == \A d \in missed[c] : thread[d].pc = "over" /\ (Excused(d) \/ ~MayRun(d))

RunInv == \A c \in Caller : CallerRun(c) /\ MissedRun(c)

\* What a step that writes no call and gets no refusal does to them.
CallsDown ==
    /\ \A p \in Procs' : \A m \in Travels(p)' :
          m.kind = "call" => p \in Procs /\ m \in Travels(p) /\ (m.by \in ran' => m.by \in ran)
    /\ \A p \in Procs : \A m \in server'[p].buffer \cap server'[p].inbox :
          m.kind = "call" => m \in server[p].buffer \cap server[p].inbox
    /\ \A c \in ran' : MayRun(c)

ClosedStay == \A p \in Procs : p \in Procs' /\ (server[p].closed => server'[p].closed)

Quiet ==
    /\ CallsDown /\ ClosedStay
    /\ \A p \in Procs' : \A r \in server'[p].out : p \in Procs /\ r \in server[p].out

LEMMA OnceStep ==
    ASSUME OnceInv, CallsDown
    PROVE  OnceInv' /\ \A c \in Caller : MayRun(c)' => MayRun(c)
<1>1. \A c \in Caller : MayRun(c)' => MayRun(c)
  BY DEF CallsDown, MayRun, OnTheWay
<1>2. \A p, q \in Procs' : \A m \in Travels(p)', n \in Travels(q)' :
         m.kind = "call" /\ n.kind = "call" /\ m.by = n.by => m = n /\ p = q
  BY DEF OnceInv, CallsDown
<1>3. \A p \in Procs' : \A m \in server'[p].buffer \cap server'[p].inbox : m.kind # "call"
  <2>1. ASSUME NEW p \in Procs', NEW m \in server'[p].buffer \cap server'[p].inbox,
               m.kind = "call"
        PROVE  FALSE
    <3>1. m \in Travels(p)'
      BY DEF Travels
    <3>2. p \in Procs
      BY <2>1, <3>1 DEF CallsDown
    <3> QED
      BY <2>1, <3>2 DEF CallsDown, OnceInv
  <2> QED
    BY <2>1
<1>4. \A p \in Procs' : \A m \in Travels(p)' : m.kind = "call" => m.by \notin ran'
  BY DEF OnceInv, CallsDown
<1> QED
  BY <1>1, <1>2, <1>3, <1>4 DEF OnceInv

LEMMA SameQuiet ==
    ASSUME server' = server, ran' = ran
    PROVE  Quiet
  BY DEF Quiet, CallsDown, ClosedStay, Procs, Travels, MayRun

\* A process other than p is as it was; p's messages move on or go.
LEMMA ProcessDown ==
    ASSUME NEW p \in Procs, Procs' = Procs, \A q \in Procs : q # p => server'[q] = server[q],
           server[p].closed => server'[p].closed, Travels(p)' \subseteq Travels(p),
           \A m \in server'[p].buffer \cap server'[p].inbox :
               m.kind = "call" => m \in server[p].buffer \cap server[p].inbox,
           \A c \in ran' : MayRun(c),
           \A q \in Procs : \A m \in Travels(q)' : m.kind = "call" /\ m.by \in ran' => m.by \in ran
    PROVE  CallsDown /\ ClosedStay
<1>1. ClosedStay
  BY DEF ClosedStay
<1>2. ASSUME NEW q \in Procs', NEW m \in Travels(q)', m.kind = "call"
      PROVE  q \in Procs /\ m \in Travels(q) /\ (m.by \in ran' => m.by \in ran)
  <2>1. q \in Procs
    OBVIOUS
  <2>2. m \in Travels(q)
    BY <2>1 DEF Travels
  <2> QED
    BY <1>2, <2>1, <2>2
<1>3. ASSUME NEW q \in Procs, NEW m \in server'[q].buffer \cap server'[q].inbox, m.kind = "call"
      PROVE  m \in server[q].buffer \cap server[q].inbox
  BY <1>3
<1> QED
  BY <1>1, <1>2, <1>3 DEF CallsDown

LEMMA EndsQuiet ==
    ASSUME BaseInv, OnceInv, NEW p \in Procs, Ends(p)
    PROVE  Quiet
<1>1. /\ Procs' = Procs /\ \A q \in Procs : q # p => server'[q] = server[q]
      /\ server'[p].closed = server[p].closed /\ server'[p].buffer = server[p].buffer
      /\ server'[p].inbox = {} /\ server'[p].out = server[p].out
      /\ ran' \subseteq ran \cup CallsIn(server[p].inbox)
  BY EndsIs DEF BaseInv
<1>2. Travels(p)' \subseteq Travels(p)
  BY <1>1 DEF Travels
<1>3. \A d \in CallsIn(server[p].inbox) : \E n \in server[p].inbox : n.kind = "call" /\ n.by = d
  BY DEF CallsIn
<1>4. \A d \in ran' : MayRun(d)
  BY <1>1, <1>3 DEF MayRun, OnTheWay, Travels
<1>5. ASSUME NEW q \in Procs, NEW m \in Travels(q)', m.kind = "call", m.by \in ran',
             m.by \notin ran
      PROVE  FALSE
  <2>1. m.by \in CallsIn(server[p].inbox)
    BY <1>1, <1>5
  <2>2. PICK n \in server[p].inbox : n.kind = "call" /\ n.by = m.by
    BY <1>3, <2>1
  <2>3. m \in Travels(q)
    BY <1>1 DEF Travels
  <2>4. m = n /\ q = p
    BY <1>5, <2>2, <2>3 DEF OnceInv, Travels
  <2>5. m \in server[p].buffer \cap server[p].inbox
    BY <1>1, <2>2, <2>4 DEF Travels
  <2> QED
    BY <1>5, <2>5 DEF OnceInv
<1>6. CallsDown /\ ClosedStay
  BY <1>1, <1>2, <1>4, <1>5, ProcessDown
<1> QED
  BY <1>1, <1>6 DEF Quiet

LEMMA RanMayRun == \A c \in ran : MayRun(c)
  BY DEF MayRun

\* The buffer of p is flushed or dropped, and nothing runs.
LEMMA EmptiedQuiet ==
    ASSUME NEW p \in Procs, Procs' = Procs, ran' = ran,
           \A q \in Procs : q # p => server'[q] = server[q],
           server[p].closed => server'[p].closed, server'[p].out = server[p].out,
           server'[p].buffer = {},
           server'[p].inbox \subseteq server[p].inbox \cup server[p].buffer
    PROVE  Quiet
<1>1. Travels(p)' \subseteq Travels(p)
  BY DEF Travels
<1>2. CallsDown /\ ClosedStay
  BY <1>1, RanMayRun, ProcessDown
<1> QED
  BY <1>2 DEF Quiet

LEMMA CloseQuiet ==
    ASSUME BaseInv, NEW u \in Up, Close(u)
    PROVE  Quiet
<1>1. /\ Procs' = Procs /\ ran' = ran
      /\ \/ server' = server
         \/ \E p \in Procs :
               /\ \A q \in Procs : q # p => server'[q] = server[q]
               /\ server'[p].closed /\ server'[p].buffer = {}
               /\ server'[p].inbox \subseteq server[p].inbox \cup server[p].buffer
               /\ server'[p].out = server[p].out
  BY CloseIs
<1> QED
  BY <1>1, SameQuiet, EmptiedQuiet

LEMMA FlushQuiet ==
    ASSUME BaseInv, NEW c \in Caller, Flush(c) \/ FlushFails(c)
    PROVE  Quiet
<1>1. /\ Procs' = Procs /\ ran' = ran
      /\ \E p \in Procs :
            /\ \A q \in Procs : q # p => server'[q] = server[q]
            /\ server'[p].closed = server[p].closed /\ server'[p].buffer = {}
            /\ server'[p].inbox \subseteq server[p].inbox \cup server[p].buffer
            /\ server'[p].out = server[p].out
  BY FlushIs, FlushFailsIs DEF ghosts
<1> QED
  BY <1>1, EmptiedQuiet

LEMMA StartQuiet ==
    ASSUME BaseInv, NEW c \in Caller, Start(c)
    PROVE  Quiet
<1> DEFINE s == NewProcess(thread[c].up)
<1>1. thread[c].up \in Up /\ server' = Append(server, s) /\ ran' = ran
  BY StartIs
<1>2. s \in Process /\ s.buffer = {} /\ s.inbox = {} /\ s.out = {}
  BY <1>1 DEF NewProcess, Process
<1> HIDE DEF s
<1>3. /\ Len(server) \in Nat /\ Len(server') = Len(server) + 1
      /\ \A p \in Procs : server'[p] = server[p]
      /\ server'[Len(server) + 1] = s
  BY <1>1, <1>2, StateIs DEF BaseInv, Procs
<1>4. /\ \A p \in Procs : p \in Procs'
      /\ \A p \in Procs' : p \in Procs \/ server'[p] = s
  BY <1>3 DEF Procs
<1>5. \A p \in Procs' : server'[p] = s => Travels(p)' = {}
  BY <1>2 DEF Travels
<1>6. \A p \in Procs : Travels(p)' = Travels(p)
  BY <1>3 DEF Travels
<1>7. CallsDown
  BY <1>1, <1>3, <1>4, <1>5, <1>6, RanMayRun DEF CallsDown
<1>8. ClosedStay
  BY <1>3, <1>4 DEF ClosedStay
<1> QED
  BY <1>2, <1>3, <1>4, <1>7, <1>8 DEF Quiet

LEMMA ExcusedStays ==
    ASSUME BaseInv, ClosedStay, NEW d \in Caller, Excused(d),
           thread'[d].outcome = thread[d].outcome, thread'[d].to = thread[d].to
    PROVE  Excused(d)'
<1>1. thread[d].to \in 0 .. Len(server) /\ Len(server) \in Nat
  BY StateIs DEF BaseInv, UseInv, CallerUse
<1>2. thread[d].to # 0 => thread[d].to \in Procs
  BY <1>1 DEF Procs
<1> QED
  BY <1>2 DEF Excused, ClosedStay

LEMMA OtherRun ==
    ASSUME BaseInv, RunInv, ClosedStay, NEW d \in Caller,
           thread'[d].pc = thread[d].pc, thread'[d].kind = thread[d].kind,
           thread'[d].outcome = thread[d].outcome, thread'[d].to = thread[d].to,
           MayRun(d)' => MayRun(d), Refused(d)' => Refused(d)
    PROVE  CallerRun(d)'
<1>1. CallerRun(d)
  BY DEF RunInv
<1>2. Excused(d) => Excused(d)'
  BY ExcusedStays
<1> QED
  BY <1>1, <1>2 DEF CallerRun, Unwritten

LEMMA MissedStays ==
    ASSUME BaseInv, RunInv, ClosedStay, missed' = missed, NEW x \in Caller,
           \A d \in Caller : thread[d].pc = "over" =>
               /\ thread'[d].pc = thread[d].pc /\ thread'[d].outcome = thread[d].outcome
               /\ thread'[d].to = thread[d].to /\ (MayRun(d)' => MayRun(d))
    PROVE  MissedRun(x)'
<1>1. missed[x] \subseteq Caller
  BY DEF BaseInv, TypeOK
<1>2. ASSUME NEW d \in missed[x]
      PROVE  thread'[d].pc = "over" /\ (Excused(d)' \/ ~MayRun(d)')
  <2>1. d \in Caller /\ thread[d].pc = "over" /\ (Excused(d) \/ ~MayRun(d))
    BY <1>1 DEF RunInv, MissedRun
  <2>2. /\ thread'[d].pc = thread[d].pc /\ thread'[d].outcome = thread[d].outcome
        /\ thread'[d].to = thread[d].to /\ (MayRun(d)' => MayRun(d))
    BY <2>1
  <2>3. Excused(d) => Excused(d)'
    BY <2>1, <2>2, ExcusedStays
  <2> QED
    BY <2>1, <2>2, <2>3
<1> QED
  BY <1>2 DEF MissedRun

LEMMA RefusedDown ==
    ASSUME Quiet, \A d \in Caller : thread'[d].answer \in {None, thread[d].answer}
    PROVE  \A d \in Caller : Refused(d)' => Refused(d)
  BY DEF Quiet, Refused, Rejects

\* A step of c that writes no call.
LEMMA CallerRunStep ==
    ASSUME BaseInv, OnceInv, RunInv, Quiet, NEW c \in Caller, OthersStay(c),
           thread'[c].answer \in {None, thread[c].answer}, thread[c].pc # "over",
           missed' = missed,
           Unwritten(thread'[c]) => Unwritten(thread[c]),
           thread'[c].outcome = "notRun" => Excused(c)' \/ ~MayRun(c)'
    PROVE  OnceInv' /\ RunInv'
<1>1. OnceInv' /\ ClosedStay /\ \A d \in Caller : MayRun(d)' => MayRun(d)
  BY OnceStep DEF Quiet
<1>2. \A d \in Caller : Refused(d)' => Refused(d)
  BY RefusedDown DEF OthersStay
<1>3. ASSUME NEW d \in Caller, d # c
      PROVE  CallerRun(d)'
  <2>1. thread'[d] = thread[d]
    BY <1>3 DEF OthersStay
  <2> QED
    BY <1>1, <1>2, <2>1, OtherRun
<1>4. CallerRun(c)'
  BY <1>1, <1>2 DEF CallerRun, RunInv
<1>5. ASSUME NEW x \in Caller
      PROVE  MissedRun(x)'
  <2>1. \A d \in Caller : thread[d].pc = "over" => thread'[d] = thread[d]
    BY DEF OthersStay
  <2> QED
    BY <1>1, <2>1, MissedStays
<1> QED
  BY <1>1, <1>3, <1>4, <1>5 DEF RunInv

\* The call was not written: it does not run, however the step ends.
LEMMA UnwrittenRun ==
    ASSUME BaseInv, OnceInv, RunInv, Quiet, NEW c \in Caller, OthersStay(c),
           thread'[c].answer \in {None, thread[c].answer}, thread[c].pc # "over",
           missed' = missed, Unwritten(thread[c])
    PROVE  OnceInv' /\ RunInv'
<1>1. ~MayRun(c)'
  BY OnceStep DEF Quiet, RunInv, CallerRun
<1> QED
  BY <1>1, CallerRunStep

LEMMA LeavesIs ==
    ASSUME NEW c \in Caller, Leaves(c)
    PROVE  OthersStay(c) /\ thread'[c].answer \in {None, thread[c].answer}
  BY DEF Leaves

LEMMA AsksStays ==
    ASSUME NEW c \in Caller, Asks(c)
    PROVE  OthersStay(c) /\ thread'[c].answer \in {None, thread[c].answer}
  BY DEF Asks

LEMMA GoesOnStays ==
    ASSUME NEW c \in Caller, GoesOn(c)
    PROVE  OthersStay(c) /\ thread'[c].answer \in {None, thread[c].answer}
  BY DEF GoesOn

\* Steps of a caller whose call was not written, or not yet.
LEMMA EarlyStepsRun ==
    ASSUME BaseInv, GoalInv, OnceInv, RunInv, NEW c \in Caller,
           \/ Inventory(c) \/ Lookup(c) \/ Refuse(c) \/ EnsureAlive(c) \/ Start(c)
           \/ StartFails(c) \/ Initialized(c) \/ NotifyFails(c) \/ KillStarted(c)
           \/ WriteFails(c) \/ Listed(c)
    PROVE  OnceInv' /\ RunInv'
<1> DEFINE t == thread[c]
<1>1. t.pc \notin {"settle", "over"} => t.outcome = "none"
  BY DEF GoalInv, CallerGoal
<1>2. /\ t.pc \notin {"settle", "over", "flush", "wait"} => Unwritten(t) /\ t.pc # "over"
      /\ t.pc = "wait" /\ t.kind # "call" => Unwritten(t) /\ t.pc # "over"
  BY <1>1 DEF Unwritten
<1>3. CASE Inventory(c) \/ Lookup(c)
  <2>1. /\ Leaves(c) /\ server' = server /\ ran' = ran /\ missed' = missed
        /\ t.pc \in {"inventory", "lookup"}
    BY <1>3, InventoryIs, LookupIs DEF history
  <2> QED
    BY <1>2, <2>1, SameQuiet, LeavesIs, UnwrittenRun
<1>4. CASE Refuse(c)
  <2>1. /\ Become(c, Over(t, "none")) /\ object' = object /\ server' = server
        /\ ran' = ran /\ missed' = missed /\ t.pc = "decide" /\ ~Asking(t)
    BY <1>4 DEF Refuse, Asking, gateway, history, ghosts
  <2>2. Leaves(c)
    BY <2>1, ReturnIs DEF Outcome
  <2> QED
    BY <1>2, <2>1, <2>2, SameQuiet, LeavesIs, UnwrittenRun
<1>5. CASE EnsureAlive(c) \/ Initialized(c)
  <2>1. /\ server' = server /\ ran' = ran /\ missed' = missed
        /\ t.pc = "ensure" \/ (t.pc = "wait" /\ t.kind = "init")
        /\ Asks(c) \/ Leaves(c)
    BY <1>5, EnsureAliveIs, InitializedIs DEF history
  <2> QED
    BY <1>2, <2>1, SameQuiet, LeavesIs, AsksStays, UnwrittenRun
<1>6. CASE Start(c)
  <2>1. Asks(c) /\ t.pc = "ensure" /\ missed' = missed
    BY <1>6, StartIs DEF history
  <2> QED
    BY <1>2, <1>6, <2>1, StartQuiet, AsksStays, UnwrittenRun
<1>7. CASE StartFails(c) \/ KillStarted(c)
  <2>1. /\ Leaves(c) /\ missed' = missed /\ t.pc \in {"ensure", "kill"}
        /\ StartFails(c) => server' = server /\ ran' = ran
        /\ KillStarted(c) => object[t.up].proc \in Procs
    BY <1>7, StartFailsIs DEF history
  <2>2. Quiet
    <3>1. CASE StartFails(c)
      BY <2>1, <3>1, SameQuiet
    <3>2. CASE KillStarted(c)
      <4>1. Ends(object[t.up].proc)
        BY <3>2 DEF KillStarted, Proc, Obj
      <4> QED
        BY <2>1, <3>2, <4>1, EndsQuiet
    <3> QED
      BY <1>7, <3>1, <3>2
  <2> QED
    BY <1>2, <2>1, <2>2, LeavesIs, UnwrittenRun
<1>8. CASE NotifyFails(c) \/ WriteFails(c) \/ Listed(c)
  <2>1. /\ Leaves(c) /\ server' = server /\ ran' = ran /\ missed' = missed
    BY <1>8, GivesUpIs, ListedIs DEF gateway, history, ghosts
  <2>2. t.pc = "send" \/ (t.pc = "wait" /\ t.kind \in {"init", "list"})
    BY <1>8 DEF NotifyFails, WriteFails, Listed, Answered
  <2> QED
    BY <1>2, <2>1, <2>2, SameQuiet, LeavesIs, UnwrittenRun
<1> QED
  BY <1>3, <1>4, <1>5, <1>6, <1>7, <1>8

\* A request is written: if it is the call, it travels from here on.
LEMMA WriteRun ==
    ASSUME BaseInv, GoalInv, OnceInv, RunInv, NEW c \in Caller, Write(c)
    PROVE  OnceInv' /\ RunInv'
<1> DEFINE t == thread[c]
           r == thread'[c]
           m == [id |-> t.id, by |-> c, kind |-> t.kind]
<1>1. /\ GoesOn(c) /\ Procs' = Procs /\ UNCHANGED <<gateway, ghosts>>
      /\ t.pc = "send" /\ r.pc = "flush" /\ r.kind = t.kind /\ r.outcome = t.outcome
      /\ r.to \in Procs
      /\ \A q \in Procs : q # r.to => server'[q] = server[q]
      /\ server'[r.to].closed = server[r.to].closed
      /\ server'[r.to].buffer = server[r.to].buffer \cup {m}
      /\ server'[r.to].inbox = server[r.to].inbox /\ server'[r.to].out = server[r.to].out
  BY WriteIs
<1>2. PICK p \in Procs :
         /\ \A q \in Procs : q # p => server'[q] = server[q]
         /\ server'[p].closed = server[p].closed
         /\ server'[p].buffer = server[p].buffer \cup {m}
         /\ server'[p].inbox = server[p].inbox /\ server'[p].out = server[p].out
  BY <1>1
<1>3. m.by = c /\ m.kind = t.kind
  OBVIOUS
<1> HIDE DEF m
<1>4. /\ OthersStay(c) /\ r.answer \in {None, t.answer} /\ ran' = ran /\ missed' = missed
      /\ t.outcome = "none" /\ t.pc # "over"
  BY <1>1, GoesOnStays DEF GoalInv, CallerGoal, gateway, history, ghosts
<1>5. Unwritten(t) /\ ~MayRun(c) /\ ~Refused(c)
  BY <1>1, <1>4 DEF Unwritten, RunInv, CallerRun
<1>6. ClosedStay
  BY <1>1, <1>2 DEF ClosedStay
<1>7. \A q \in Procs : Travels(q)' = IF q = p THEN Travels(q) \cup {m} ELSE Travels(q)
  BY <1>2 DEF Travels
<1>8. \A q \in Procs : server'[q].out = server[q].out
  BY <1>2
<1>9. \A q \in Procs : \A n \in Travels(q) : n.kind = "call" => n.by # c
  BY <1>5 DEF MayRun, OnTheWay
<1>10. \A d \in Caller : d # c => (MayRun(d)' => MayRun(d))
  BY <1>1, <1>3, <1>4, <1>7 DEF MayRun, OnTheWay
<1>11. \A d \in Caller : Refused(d)' => Refused(d)
  BY <1>1, <1>4, <1>8 DEF Refused, Rejects, OthersStay
<1>12. OnceInv'
  <2>1. \A q, s \in Procs : \A n \in Travels(q)', o \in Travels(s)' :
           n.kind = "call" /\ o.kind = "call" /\ n.by = o.by => n = o /\ q = s
    BY <1>3, <1>7, <1>9 DEF OnceInv
  <2>2. ASSUME NEW q \in Procs, NEW n \in server'[q].buffer \cap server'[q].inbox, n.kind = "call"
        PROVE  FALSE
    <3>1. CASE q # p
      BY <1>2, <2>2, <3>1 DEF OnceInv
    <3>2. CASE q = p
      <4>1. n \in server[p].inbox /\ (n \in server[p].buffer \/ n = m)
        BY <1>2, <2>2, <3>2
      <4>2. n # m
        BY <1>3, <1>9, <2>2, <4>1 DEF Travels
      <4> QED
        BY <2>2, <4>1, <4>2 DEF OnceInv
    <3> QED
      BY <3>1, <3>2
  <2>3. \A q \in Procs : \A n \in Travels(q)' : n.kind = "call" => n.by \notin ran'
    BY <1>3, <1>4, <1>5, <1>7 DEF OnceInv, MayRun
  <2> QED
    BY <1>1, <2>1, <2>2, <2>3 DEF OnceInv
<1>13. CASE t.kind = "call"
  <2>1. ASSUME NEW d \in Caller, d # c
        PROVE  CallerRun(d)'
    <3>1. thread'[d] = thread[d]
      BY <1>4, <2>1 DEF OthersStay
    <3> QED
      BY <1>6, <1>10, <1>11, <2>1, <3>1, OtherRun
  <2>2. CallerRun(c)'
    BY <1>1, <1>4, <1>5, <1>11, <1>13 DEF CallerRun, Unwritten
  <2>3. ASSUME NEW x \in Caller
        PROVE  MissedRun(x)'
    <3>1. \A d \in Caller : thread[d].pc = "over" => d # c /\ thread'[d] = thread[d]
      BY <1>4 DEF OthersStay
    <3> QED
      BY <1>4, <1>6, <1>10, <3>1, MissedStays
  <2> QED
    BY <1>12, <2>1, <2>2, <2>3 DEF RunInv
<1>14. CASE t.kind # "call"
  <2>1. CallsDown
    <3>1. \A q \in Procs : \A n \in Travels(q)' : n.kind = "call" => n \in Travels(q)
      BY <1>3, <1>7, <1>14
    <3>2. ASSUME NEW q \in Procs, NEW n \in server'[q].buffer \cap server'[q].inbox,
                 n.kind = "call"
          PROVE  n \in server[q].buffer \cap server[q].inbox
      BY <1>2, <1>3, <1>14, <3>2
    <3> QED
      BY <1>1, <1>4, <3>1, <3>2, RanMayRun DEF CallsDown
  <2>2. Quiet
    BY <1>1, <1>6, <1>8, <2>1 DEF Quiet
  <2> QED
    BY <1>4, <1>5, <2>2, UnwrittenRun
<1> QED
  BY <1>13, <1>14

\* A write that fails drops the call, or close() has flushed it.
LEMMA FlushRun ==
    ASSUME BaseInv, SentInv, GoalInv, OnceInv, RunInv, NEW c \in Caller,
           Flush(c) \/ FlushFails(c)
    PROVE  OnceInv' /\ RunInv'
<1> DEFINE t == thread[c]
           r == thread'[c]
           p == t.to
           m == [id |-> t.id, by |-> c, kind |-> t.kind]
<1>1. Quiet
  BY FlushQuiet
<1>2. /\ OthersStay(c) /\ r.answer \in {None, t.answer} /\ missed' = missed
      /\ t.pc = "flush" /\ t.outcome = "none" /\ t \in Thread
  <2>1. /\ GoesOn(c) \/ Leaves(c)
        /\ missed' = missed /\ t.pc = "flush"
    BY FlushIs, FlushFailsIs DEF gateway, history
  <2> QED
    BY <2>1, LeavesIs, GoesOnStays, StateIs DEF GoalInv, CallerGoal, BaseInv
<1>3. CASE t.kind # "call"
  BY <1>1, <1>2, <1>3, UnwrittenRun DEF Unwritten
<1>4. CASE t.kind = "call" /\ Flush(c)
  <2>1. r.pc = "wait" /\ r.kind = t.kind /\ r.outcome = t.outcome
    BY <1>4, FlushIs
  <2> QED
    BY <1>1, <1>2, <1>4, <2>1, CallerRunStep DEF Unwritten
<1>5. CASE t.kind = "call" /\ FlushFails(c)
  <2>1. /\ r = Unsuccessful(t, "notRun") /\ p \in Procs /\ Procs' = Procs /\ ran' = ran
        /\ \A q \in Procs : q # p => server'[q] = server[q]
        /\ server'[p].closed = server[p].closed
        /\ server'[p].buffer = {}
        /\ server'[p].inbox = server[p].inbox
    BY <1>5, FlushFailsIs DEF NotSent, ghosts
  <2>2. r.outcome = "notRun" /\ r.to = p
    <3>1. "notRun" \in Outcome
      BY DEF Outcome
    <3>2. Unsuccessful(t, "notRun").outcome = "notRun" /\ Unsuccessful(t, "notRun").to = t.to
      BY <1>2, <1>5, <3>1, UnsuccessfulIs
    <3> QED
      BY <2>1, <3>2
  <2>3. CASE server[p].closed
    <3>1. server'[r.to].closed
      BY <2>1, <2>2, <2>3
    <3>2. p # 0
      BY <2>1 DEF Procs
    <3>3. Excused(c)'
      BY <2>2, <3>1, <3>2 DEF Excused
    <3> QED
      BY <1>1, <1>2, <2>2, <3>3, CallerRunStep DEF Unwritten
  <2>4. CASE ~server[p].closed
    <3>1. m \in server[p].buffer /\ m.kind = "call" /\ m.by = c
      BY <1>2, <1>5, <2>4 DEF SentInv, CallerSent
    <3> HIDE DEF m
    <3>2. c \notin ran
      BY <2>1, <3>1 DEF OnceInv, Travels
    <3>3. ASSUME NEW q \in Procs, NEW n \in Travels(q)', n.kind = "call", n.by = c
          PROVE  FALSE
      <4>1. n \in Travels(q)
        BY <2>1, <3>3 DEF Travels
      <4>2. n = m /\ q = p
        BY <2>1, <3>1, <3>3, <4>1 DEF OnceInv, Travels
      <4>3. n \in server[p].inbox
        BY <2>1, <4>2 DEF Travels
      <4> QED
        BY <2>1, <3>1, <4>2, <4>3 DEF OnceInv
    <3>4. ~MayRun(c)'
      BY <2>1, <3>2, <3>3 DEF MayRun, OnTheWay
    <3> QED
      BY <1>1, <1>2, <2>2, <3>4, CallerRunStep DEF Unwritten
  <2> QED
    BY <2>3, <2>4
<1> QED
  BY <1>3, <1>4, <1>5

\* The request of a call is over, and how.
LEMMA LateStepsRun ==
    ASSUME BaseInv, GoalInv, OnceInv, RunInv, NEW c \in Caller,
           Unanswered(c) \/ CallRejected(c) \/ CallAnswered(c)
    PROVE  OnceInv' /\ RunInv'
<1> DEFINE t == thread[c]
           r == thread'[c]
<1>1. /\ Leaves(c) /\ server' = server /\ ran' = ran /\ missed' = missed /\ t.pc = "wait"
      /\ t \in Thread
  BY GivesUpIs, CallAnsweredIs, StateIs DEF gateway, history, ghosts, Unanswered,
     CallRejected, CallAnswered, Answered, BaseInv
<1>2. /\ OthersStay(c) /\ r.answer \in {None, t.answer} /\ t.pc # "over" /\ Quiet
      /\ t.outcome = "none"
  BY <1>1, LeavesIs, SameQuiet DEF GoalInv, CallerGoal
<1>3. CASE t.kind # "call"
  BY <1>1, <1>2, <1>3, UnwrittenRun DEF Unwritten
<1>4. CASE t.kind = "call" /\ ~CallRejected(c)
  <2>1. r.outcome \in {"unanswered", "answered"}
    <3>1. CASE Unanswered(c)
      <4>1. "unanswered" \in Outcome
        BY DEF Outcome
      <4>2. r = Unsuccessful(t, "unanswered")
        BY <3>1 DEF Unanswered, Become, BaseInv, TypeOK
      <4> QED
        BY <1>1, <1>4, <4>1, <4>2, UnsuccessfulIs
    <3>2. CASE CallAnswered(c)
      BY <3>2, CallAnsweredIs
    <3> QED
      BY <1>4, <3>1, <3>2
  <2> QED
    BY <1>1, <1>2, <2>1, CallerRunStep DEF Unwritten
<1>5. CASE t.kind = "call" /\ CallRejected(c)
  <2>1. Rejects(t.answer)
    BY <1>5 DEF CallRejected, Answered, Rejects
  <2>2. ~MayRun(c)
    BY <2>1 DEF Refused, RunInv, CallerRun
  <2>3. ~MayRun(c)'
    BY <1>2, <2>2, OnceStep DEF Quiet
  <2>4. r.outcome = "notRun"
    <3>1. "notRun" \in Outcome
      BY DEF Outcome
    <3>2. r = Unsuccessful(t, "notRun")
      BY <1>5 DEF CallRejected, Become, BaseInv, TypeOK
    <3> QED
      BY <1>1, <1>5, <3>1, <3>2, UnsuccessfulIs
  <2> QED
    BY <1>1, <1>2, <2>3, <2>4, CallerRunStep DEF Unwritten
<1> QED
  BY <1>3, <1>4, <1>5

\* The call returns, and says what it said.
LEMMA SettleRun ==
    ASSUME BaseInv, GoalInv, OnceInv, RunInv, NEW c \in Caller, Settle(c)
    PROVE  OnceInv' /\ RunInv'
<1> DEFINE t == thread[c]
           r == thread'[c]
<1>1. /\ object' = object /\ server' = server /\ ran' = ran /\ missed' = missed
      /\ t.pc = "settle" /\ ~Asking(t)
      /\ \E outcome \in {"notRun", "answered", "unanswered", "raised"} :
            Become(c, Over(t, outcome)) /\ (outcome = "notRun" => t.outcome = "notRun")
  BY DEF Settle, Asking, ghosts
<1>2. PICK outcome \in {"notRun", "answered", "unanswered", "raised"} :
            Become(c, Over(t, outcome)) /\ (outcome = "notRun" => t.outcome = "notRun")
  BY <1>1
<1>3. /\ Leaves(c) /\ r.outcome = outcome
      /\ r.to = IF outcome = "notRun" THEN t.to ELSE 0
  BY <1>1, <1>2, ReturnIs DEF Outcome
<1>4. /\ OthersStay(c) /\ r.answer \in {None, t.answer} /\ t.pc # "over" /\ Quiet /\ ClosedStay
  BY <1>1, <1>3, LeavesIs, SameQuiet DEF Quiet
<1>5. ~Unwritten(r)
  BY <1>3 DEF Unwritten
<1>6. r.outcome = "notRun" => Excused(c)' \/ ~MayRun(c)'
  <2>1. ASSUME r.outcome = "notRun"
        PROVE  Excused(c)' \/ ~MayRun(c)'
    <3>1. t.outcome = r.outcome /\ t.to = r.to
      BY <1>2, <1>3, <2>1
    <3>2. Excused(c) \/ ~MayRun(c)
      BY <2>1, <3>1 DEF RunInv, CallerRun
    <3>3. MayRun(c)' => MayRun(c)
      BY <1>4, OnceStep DEF Quiet
    <3>4. Excused(c) => Excused(c)'
      BY <1>4, <3>1, ExcusedStays
    <3> QED
      BY <3>2, <3>3, <3>4
  <2> QED
    BY <2>1
<1> QED
  BY <1>1, <1>4, <1>5, <1>6, CallerRunStep

\* The call is decided: every call of its session that was decided is over.
LEMMA AdmitRun ==
    ASSUME BaseInv, GoalInv, OnceInv, RunInv, NEW c \in Caller, Admit(c)
    PROVE  OnceInv' /\ RunInv'
<1> DEFINE t == thread[c]
           r == thread'[c]
           past == {d \in CallsOf(SessionOf[c]) : thread[d].goal = "call"} \ counted
<1>1. /\ Leaves(c) /\ server' = server /\ ran' = ran /\ t.pc = "decide" /\ r.pc = "lookup"
      /\ r.outcome = t.outcome
      /\ session[SessionOf[c]] = None /\ missed' = [missed EXCEPT ![c] = past]
  BY AdmitIs
<1>2. /\ OthersStay(c) /\ r.answer \in {None, t.answer} /\ Quiet /\ ClosedStay
      /\ t.outcome = "none"
  BY <1>1, LeavesIs, SameQuiet DEF Quiet, GoalInv, CallerGoal
<1>3. OnceInv' /\ \A d \in Caller : MayRun(d)' => MayRun(d)
  BY <1>2, OnceStep DEF Quiet
<1>4. \A d \in Caller : Refused(d)' => Refused(d)
  BY <1>2, RefusedDown DEF OthersStay
<1>5. ASSUME NEW d \in Caller
      PROVE  CallerRun(d)'
  <2>1. CASE d # c
    BY <1>2, <1>3, <1>4, <2>1, OtherRun DEF OthersStay
  <2>2. CASE d = c
    BY <1>1, <1>2, <1>3, <1>4, <2>2 DEF CallerRun, RunInv, Unwritten
  <2> QED
    BY <2>1, <2>2
<1>6. ASSUME NEW d \in Caller, thread[d].pc = "over", Excused(d) \/ ~MayRun(d)
      PROVE  thread'[d].pc = "over" /\ (Excused(d)' \/ ~MayRun(d)')
  <2>1. thread'[d] = thread[d]
    BY <1>1, <1>2, <1>6 DEF OthersStay
  <2> QED
    BY <1>2, <1>3, <1>6, <2>1, ExcusedStays
<1>7. missed \in [Caller -> SUBSET Caller] /\ past \subseteq Caller
  BY DEF BaseInv, TypeOK, CallsOf
<1>8. ASSUME NEW d \in past
      PROVE  thread[d].pc = "over" /\ (Excused(d) \/ ~MayRun(d))
  <2>1. d \in Caller /\ SessionOf[d] = SessionOf[c] /\ thread[d].goal = "call" /\ d \notin counted
    BY DEF CallsOf
  <2>2. session[SessionOf[d]] # d
    BY <1>1, <2>1, NoneAssumption
  <2>3. thread[d].pc = "over" /\ thread[d].outcome \in {"notRun", "raised"}
    BY <2>1, <2>2 DEF GoalInv, CallerGoal
  <2> QED
    BY <2>1, <2>3 DEF Excused, RunInv, CallerRun
<1> HIDE DEF past
<1>9. ASSUME NEW x \in Caller
      PROVE  MissedRun(x)'
  <2>1. ASSUME NEW d \in missed'[x]
        PROVE  d \in Caller /\ thread[d].pc = "over" /\ (Excused(d) \/ ~MayRun(d))
    <3>1. d \in Caller /\ (d \in past \/ d \in missed[x])
      BY <1>1, <1>7
    <3> QED
      BY <1>8, <3>1 DEF RunInv, MissedRun
  <2> QED
    BY <1>6, <2>1 DEF MissedRun
<1> QED
  BY <1>3, <1>5, <1>9 DEF RunInv

LEMMA CallerKeepsRun ==
    ASSUME BaseInv, SentInv, GoalInv, OnceInv, RunInv, NEW c \in Caller, CallerStep(c)
    PROVE  OnceInv' /\ RunInv'
  BY EarlyStepsRun, LateStepsRun, SettleRun, AdmitRun, WriteRun, FlushRun DEF CallerStep

\* No caller moves, but for the answers, and the server refuses nothing.
LEMMA StaysRun ==
    ASSUME BaseInv, OnceInv, RunInv, CallsDown, ClosedStay, missed' = missed,
           \A d \in Caller : /\ thread'[d].pc = thread[d].pc
                             /\ thread'[d].kind = thread[d].kind
                             /\ thread'[d].outcome = thread[d].outcome
                             /\ thread'[d].to = thread[d].to
                             /\ Refused(d)' => Refused(d) \/ (MayRun(d) /\ ~MayRun(d)')
    PROVE  OnceInv' /\ RunInv'
<1>1. OnceInv' /\ \A d \in Caller : MayRun(d)' => MayRun(d)
  BY OnceStep
<1>2. ASSUME NEW d \in Caller
      PROVE  CallerRun(d)'
  <2>1. CASE Refused(d)' => Refused(d)
    BY <1>1, <2>1, OtherRun
  <2>2. CASE MayRun(d) /\ ~MayRun(d)'
    BY <2>2 DEF RunInv, CallerRun, Unwritten
  <2> QED
    BY <2>1, <2>2
<1>3. \A x \in Caller : MissedRun(x)'
  BY <1>1, MissedStays
<1> QED
  BY <1>1, <1>2, <1>3 DEF RunInv

\* A reader hands a refusal to the caller of the call, to no other.
LEMMA ReadRun ==
    ASSUME BaseInv, OnceInv, RunInv, NEW p \in Procs, ReadReply(p) \/ ReadEnd(p)
    PROVE  OnceInv' /\ RunInv'
<1>1. /\ Procs' = Procs /\ UNCHANGED <<gateway, ghosts>>
      /\ \A q \in Procs : /\ server'[q].closed = server[q].closed
                          /\ server'[q].buffer = server[q].buffer
                          /\ server'[q].inbox = server[q].inbox
                          /\ server'[q].out \subseteq server[q].out
  BY ReadIs
<1>2. PICK requests \in SUBSET object[server[p].of].pending, answer \in Reply \cup {Gone} :
         /\ Answer(server[p].of, requests, answer)
         /\ answer = Gone \/ answer \in server[p].out
  BY ReadIs
<1>3. \A d \in Caller : /\ thread'[d].pc = thread[d].pc /\ thread'[d].kind = thread[d].kind
                        /\ thread'[d].outcome = thread[d].outcome /\ thread'[d].to = thread[d].to
                        /\ thread'[d].answer \in {thread[d].answer, answer}
  BY <1>2, AnswerIs, UpOf DEF BaseInv
<1>4. AnswerIsOwn'
  BY ProcessBase DEF ProcessStep, BaseInv, OwnInv
<1>5. ran' = ran /\ missed' = missed
  BY <1>1 DEF gateway, history, ghosts
<1>6. CallsDown /\ ClosedStay
  <2>1. \A q \in Procs : Travels(q)' = Travels(q)
    BY <1>1 DEF Travels
  <2>2. CallsDown
    BY <1>1, <1>5, <2>1, RanMayRun DEF CallsDown
  <2> QED
    BY <1>1, <2>2 DEF ClosedStay
<1>7. ASSUME NEW d \in Caller, Refused(d)'
      PROVE  Refused(d)
  <2>1. CASE \E q \in Procs' : \E r \in server'[q].out : r.by = d /\ ~r.ok
    BY <1>1, <2>1 DEF Refused
  <2>2. CASE Rejects(thread'[d].answer) /\ thread'[d].answer = thread[d].answer
    BY <2>2 DEF Refused
  <2>3. CASE Rejects(thread'[d].answer) /\ thread'[d].answer = answer
    <3>1. answer \notin {None, Gone} /\ ~answer.ok
      BY <2>3 DEF Rejects
    <3>2. answer.by = d
      BY <1>4, <2>3, <3>1 DEF AnswerIsOwn
    <3> QED
      BY <1>2, <3>1, <3>2 DEF Refused
  <2> QED
    BY <1>3, <1>7, <2>1, <2>2, <2>3 DEF Refused
<1> QED
  BY <1>3, <1>5, <1>6, <1>7, StaysRun

\* The server runs the call it answers, or refuses it, and then it never runs.
LEMMA ServerAnswersRun ==
    ASSUME BaseInv, OnceInv, RunInv, NEW p \in Procs, ServerAnswers(p)
    PROVE  OnceInv' /\ RunInv'
<1>1. /\ Procs' = Procs /\ UNCHANGED <<gateway, object, thread, sent>>
      /\ \A q \in Procs : q # p => server'[q] = server[q]
      /\ server'[p].closed = server[p].closed /\ server'[p].buffer = server[p].buffer
  BY ServerAnswersIs
<1>2. PICK m \in server[p].inbox, ok \in BOOLEAN :
         /\ ~ok => m.kind = "call"
         /\ server'[p].inbox = server[p].inbox \ {m}
         /\ server'[p].out = server[p].out \cup {[id |-> m.id, by |-> m.by, ok |-> ok]}
         /\ ran' = IF ok THEN ran \cup CallsIn({m}) ELSE ran
  BY ServerAnswersIs
<1> DEFINE r == [id |-> m.id, by |-> m.by, ok |-> ok]
<1>3. r.by = m.by /\ (r.ok <=> ok)
  OBVIOUS
<1>4. server'[p].out = server[p].out \cup {r}
  BY <1>2
<1> HIDE DEF r
<1>5. \A d : d \in CallsIn({m}) <=> m.kind = "call" /\ d = m.by
  BY DEF CallsIn
<1>6. m.kind = "call" => MayRun(m.by) /\ m.by \notin ran
  BY DEF MayRun, OnTheWay, Travels, OnceInv
<1>7. Travels(p)' \subseteq Travels(p) /\ \A q \in Procs : q # p => Travels(q)' = Travels(q)
  BY <1>1, <1>2 DEF Travels
<1>8. ASSUME NEW q \in Procs, NEW n \in Travels(q)', n.kind = "call", m.kind = "call", n.by = m.by
      PROVE  FALSE
  <2>1. n \in Travels(q) /\ m \in Travels(p)
    BY <1>7 DEF Travels
  <2>2. n = m /\ q = p
    BY <1>8, <2>1 DEF OnceInv
  <2>3. m \in server[p].buffer
    BY <1>1, <1>2, <1>8, <2>2 DEF Travels
  <2> QED
    BY <1>8, <2>3 DEF OnceInv
<1>9. CallsDown /\ ClosedStay
  <2>1. \A d \in ran' : MayRun(d)
    BY <1>2, <1>5, <1>6, RanMayRun
  <2>2. \A q \in Procs : \A n \in Travels(q)' : n.kind = "call" /\ n.by \in ran' => n.by \in ran
    BY <1>2, <1>5, <1>8
  <2> QED
    BY <1>1, <1>2, <1>7, <2>1, <2>2, ProcessDown
<1>10. ASSUME NEW d \in Caller, Refused(d)', ~Refused(d)
       PROVE  MayRun(d) /\ ~MayRun(d)'
  <2>1. d = m.by /\ ~ok
    BY <1>1, <1>3, <1>4, <1>10 DEF Refused
  <2>2. MayRun(d) /\ d \notin ran'
    BY <1>2, <1>6, <2>1
  <2>3. ~MayRun(d)'
    BY <1>1, <1>2, <1>8, <2>1, <2>2 DEF MayRun, OnTheWay
  <2> QED
    BY <2>2, <2>3
<1>11. thread' = thread /\ missed' = missed
  BY <1>1 DEF gateway, history
<1> QED
  BY <1>9, <1>10, <1>11, StaysRun

LEMMA OtherStepsRun ==
    ASSUME BaseInv, OnceInv, RunInv,
           \/ \E p \in Procs : ProcessStep(p)
           \/ Reconfigure \/ (\E u \in Up : Close(u)) \/ UNCHANGED vars
    PROVE  OnceInv' /\ RunInv'
<1>1. CASE \E p \in Procs : ReadReply(p) \/ ReadEnd(p)
  BY <1>1, ReadRun
<1>2. CASE \E p \in Procs : ServerAnswers(p)
  BY <1>2, ServerAnswersRun
<1>3. CASE Quiet /\ thread' = thread /\ missed' = missed
  <2>1. \A d \in Caller : Refused(d)' => Refused(d)
    BY <1>3, RefusedDown
  <2> QED
    BY <1>3, <2>1, StaysRun DEF Quiet
<1>4. CASE \E p \in Procs : ListChanged(p)
  BY <1>3, <1>4, SameQuiet DEF ListChanged, gateway, history, ghosts
<1>5. CASE \E p \in Procs : ServerExits(p) \/ CloseKill(p)
  BY <1>3, <1>5, EndsQuiet DEF ServerExits, CloseKill, gateway, history
<1>6. CASE Reconfigure \/ UNCHANGED vars
  BY <1>3, <1>6, SameQuiet DEF Reconfigure, vars, gateway, history, ghosts
<1>7. CASE \E u \in Up : Close(u)
  BY <1>3, <1>7, CloseQuiet DEF Close, history
<1> QED
  BY <1>1, <1>2, <1>4, <1>5, <1>6, <1>7 DEF ProcessStep

\* A call is decided against every earlier call of its session that ran by
\* then or runs later, however that call ended for its caller: a call is
\* settled as not run only when it does not run, and the session's lock is
\* held until it is settled.  Excused are the calls the code does not record:
\* the log write raised, or close() flushed the call and failed its flush.
THEOREM CallsAreDecidedOnThePast == Spec => []DecidedOnPast
<1> DEFINE IInv == SentInv /\ GoalInv /\ OnceInv /\ RunInv
<1>1. Init => IInv
  <2>1. ASSUME Init
        PROVE  IInv
    <3>1. /\ server = <<>> /\ thread = [c \in Caller |-> NewThread] /\ ran = {}
          /\ missed = [c \in Caller |-> {}] /\ counted = {}
      BY <2>1 DEF Init
    <3>2. Procs = {}
      BY <3>1 DEF Procs
    <3>3. \A c \in Caller : /\ thread[c].pc = "inventory" /\ thread[c].goal = "list"
                            /\ thread[c].outcome = "none" /\ thread[c].answer = None
      BY <3>1 DEF NewThread
    <3>4. SentInv
      BY <3>1, <3>3 DEF SentInv, CallerSent
    <3>5. GoalInv
      BY <3>3 DEF GoalInv, CallerGoal, Asking
    <3>6. OnceInv /\ \A c \in Caller : ~MayRun(c)
      BY <3>1, <3>2 DEF OnceInv, MayRun, OnTheWay
    <3>7. RunInv
      BY <3>1, <3>2, <3>3, <3>6 DEF RunInv, CallerRun, MissedRun, Refused, Rejects
    <3> QED
      BY <3>4, <3>5, <3>6, <3>7
  <2> QED
    BY <2>1
<1>2. BaseInv /\ IInv /\ [Next]_vars => IInv'
  <2>1. ASSUME BaseInv, IInv, [Next]_vars
        PROVE  IInv'
    <3>1. CASE \E c \in Caller : CallerStep(c)
      BY <2>1, <3>1, CallerKeepsSent, CallerKeepsGoal, CallerKeepsRun
    <3>2. CASE \/ \E p \in Procs : ProcessStep(p)
               \/ Reconfigure \/ (\E u \in Up : Close(u)) \/ UNCHANGED vars
      BY <2>1, <3>2, ProcessKeepsSent, ConfigKeepsSent, OtherStepsKeepGoal, OtherStepsRun
    <3> QED
      BY <2>1, <3>1, <3>2 DEF Next, Procs
  <2> QED
    BY <2>1
<1>3. RunInv => DecidedOnPast
  BY DEF RunInv, MissedRun, DecidedOnPast, MayRun
<1> QED
  BY <1>1, <1>2, <1>3, BaseAlways, PTL DEF Spec
=============================================================================
