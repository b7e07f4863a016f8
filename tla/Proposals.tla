----------------------------- MODULE Proposals ------------------------------
(* Rule changes the agent proposes and a person approves:                  *)
(* sponsio/daemon/proposals.py, decided on the admin socket or, through    *)
(* proposal_sync.py, in the cloud console, and put on record in the audit  *)
(* log, which the command line appends to as well.                         *)
(*                                                                         *)
(* A decision applies the change, writes the proposal's file and then the  *)
(* record; the daemon may end, or a write fail, between any two of them.   *)
(* gap counts the changes that were applied and not written.               *)
(*                                                                         *)
(* External: what an applier changes (a rule file), the cloud and the      *)
(* person who decides in its console.  A decision names the hash of the    *)
(* parameters the person was shown, right or not those of the proposal.    *)
EXTENDS AuditLog, FiniteSets

CONSTANTS Proposal,
          Admin,    \* threads of the admin socket
          Sync,     \* the thread that syncs with the cloud
          Agent,    \* the thread that serves the agent
          Daemon,   \* the daemon's process
          MaxGap    \* bound on the decisions cut short for one proposal

ASSUME ProcessAssumption == Daemon \in Proc /\ MaxGap \in Nat
ASSUME ThreadAssumption == "nobody" \notin Admin \cup {Sync, Agent}

VARIABLES status,    \* of each proposal's file
          applied,   \* history: how often its change was made
          gap,
          holder,    \* the decision that holds the store's lock
          task,      \* what each thread does
          answer,    \* the cloud decisions of the round left to apply
          decided,   \* this round decided something
          refused,   \* the decisions refused since the daemon started
          told,      \* what the cloud was told
          decision   \* what a person decided in the cloud

pvars == <<status, applied, gap, holder, task, answer, decided, refused, told, decision>>

PENDING == "pending"
APPROVED == "approved"
REJECTED == "rejected"

Thread == Admin \cup {Sync, Agent}
Idle == [pc |-> "idle"]
Audit == [pc |-> "audit"]
NoOne == [by |-> "nobody"]
NoDecision == [approve |-> FALSE, right |-> FALSE, made |-> FALSE]

Init ==
    /\ AuditInit
    /\ status = [p \in Proposal |-> "none"]
    /\ applied = [p \in Proposal |-> 0]
    /\ gap = [p \in Proposal |-> 0]
    /\ holder = NoOne
    /\ task = [t \in Thread |-> Idle]
    /\ answer = {}
    /\ decided = FALSE
    /\ refused = {}
    /\ told = status
    /\ decision = [p \in Proposal |-> NoDecision]

Becomes(t, what) == task' = [task EXCEPT ![t] = what]

\* submit: the dry run passed; the file is written, then the record.
Submit(p) ==
    /\ task[Agent] = Idle
    /\ holder = NoOne
    /\ status[p] = "none"
    /\ status' = [status EXCEPT ![p] = PENDING]
    /\ Becomes(Agent, Audit)
    /\ UNCHANGED <<applied, gap, holder, answer, decided, refused, told, decision>>

\* Mutant for Take: the status is not asked for again under the lock.
TakeUnchecked(t, p, approve) ==
    /\ holder = NoOne
    /\ gap[p] < MaxGap
    /\ holder' = [by |-> t, id |-> p, approve |-> approve]
    /\ applied' = IF approve THEN [applied EXCEPT ![p] = @ + 1] ELSE applied
    /\ Becomes(t, [pc |-> "write"])

\* decide, under the lock: only a pending proposal, and its change first.
Take(t, p, approve) ==
    /\ holder = NoOne
    /\ status[p] = PENDING
    /\ gap[p] < MaxGap
    /\ holder' = [by |-> t, id |-> p, approve |-> approve]
    /\ applied' = IF approve THEN [applied EXCEPT ![p] = @ + 1] ELSE applied
    /\ Becomes(t, [pc |-> "write"])

Decide(t, p, approve) ==
    /\ task[t] = Idle
    /\ Take(t, p, approve)
    /\ UNCHANGED <<status, gap, answer, decided, refused, told, decision>>

\* The proposal's file is replaced and the lock let go.
Write(t) ==
    /\ holder.by = t
    /\ status' = [status EXCEPT ![holder.id] = IF holder.approve THEN APPROVED ELSE REJECTED]
    /\ Becomes(t, Audit)
    /\ holder' = NoOne
    /\ decided' = (decided \/ t = Sync)
    /\ UNCHANGED <<applied, gap, answer, refused, told, decision>>

\* A change whose proposal stays pending.
Lost == gap' = IF holder # NoOne /\ holder.approve
               THEN [gap EXCEPT ![holder.id] = @ + 1] ELSE gap

\* A refusal is put on record once in the life of the daemon.
Refuse(p) ==
    /\ refused' = refused \cup {p}
    /\ Becomes(Sync, IF p \in refused THEN [pc |-> "round"] ELSE Audit)

\* The write raised: an admin is told, the sync refuses the decision.
WriteFails(t) ==
    /\ holder.by = t
    /\ Lost
    /\ holder' = NoOne
    /\ IF t = Sync THEN Refuse(holder.id) ELSE Becomes(t, Idle) /\ UNCHANGED refused
    /\ UNCHANGED <<status, applied, answer, decided, told, decision>>

\* Where a thread goes on after its record.
Onward(t) == Becomes(t, IF t = Sync THEN [pc |-> "round"] ELSE Idle)

\* audit.append, outside the lock; what it raises it keeps to itself.
Audited(t) ==
    /\ task[t].pc = "audit"
    /\ AppendRecord(Daemon) \/ AppendFails(Daemon)
    /\ Onward(t)
    /\ UNCHANGED <<status, applied, gap, holder, answer, decided, refused, told, decision>>

\* sync_once: every proposal's status is uploaded; the answer is what was
\* decided and, as far as the cloud knows, not yet applied.  It may be lost.
Upload ==
    /\ task[Sync] = Idle
    /\ told' = status
    /\ \/ /\ answer' = {p \in Proposal : decision[p].made /\ status[p] = PENDING}
          /\ Becomes(Sync, [pc |-> "round"])
       \/ UNCHANGED <<answer, task>>
    /\ UNCHANGED <<status, applied, gap, holder, decided, refused, decision>>

\* One decision of the answer: skipped, refused, or about to be applied.
Look(p) ==
    /\ task[Sync].pc = "round"
    /\ p \in answer
    /\ answer' = answer \ {p}
    /\ IF status[p] # PENDING THEN UNCHANGED <<task, refused>>
       ELSE IF ~decision[p].right THEN Refuse(p)
       ELSE Becomes(Sync, [pc |-> "decide", id |-> p]) /\ UNCHANGED refused
    /\ UNCHANGED <<status, applied, gap, holder, decided, told, decision>>

\* The record was read before the lock was taken: an admin may have decided.
SyncDecide ==
    /\ task[Sync].pc = "decide"
    /\ Take(Sync, task[Sync].id, decision[task[Sync].id].approve)
    /\ UNCHANGED <<status, gap, answer, decided, refused, told, decision>>

\* ... or the change cannot be applied.
SyncCannot ==
    /\ task[Sync].pc = "decide"
    /\ holder = NoOne
    /\ decision[task[Sync].id].approve \/ status[task[Sync].id] # PENDING
    /\ Refuse(task[Sync].id)
    /\ UNCHANGED <<status, applied, gap, holder, answer, decided, told, decision>>

\* The round is over; if there is an outcome its upload is tried at once.
EndRound ==
    /\ task[Sync].pc = "round"
    /\ answer = {}
    /\ told' \in IF decided THEN {status, told} ELSE {told}
    /\ decided' = FALSE
    /\ Becomes(Sync, Idle)
    /\ UNCHANGED <<status, applied, gap, holder, answer, refused, decision>>

\* A person decides what the console shows as waiting.
PersonDecides(p, approve, right) ==
    /\ told[p] = PENDING
    /\ ~decision[p].made
    /\ decision' = [decision EXCEPT ![p] = [approve |-> approve, right |-> right,
                                            made |-> TRUE]]
    /\ UNCHANGED <<status, applied, gap, holder, task, answer, decided, refused, told>>

\* The daemon ends, in the middle of a record or of anything else.
DaemonEnds ==
    /\ Lost
    /\ holder' = NoOne
    /\ task' = [t \in Thread |-> Idle]
    /\ answer' = {}
    /\ decided' = FALSE
    /\ refused' = {}
    /\ \/ Restart(Daemon)
       \/ \E t \in Thread : task[t].pc = "audit" /\ Crash(Daemon)
    /\ UNCHANGED <<status, applied, told, decision>>

StoreNext ==
    \/ \E p \in Proposal :
           \/ Submit(p)
           \/ Look(p)
           \/ \E approve \in BOOLEAN :
                  \/ \E t \in Admin : Decide(t, p, approve)
                  \/ \E right \in BOOLEAN : PersonDecides(p, approve, right)
    \/ \E t \in Thread : Write(t) \/ WriteFails(t)
    \/ Upload
    \/ SyncDecide
    \/ SyncCannot
    \/ EndRound

\* A process of the command line appends its record and ends; somebody takes
\* lines out of the file.
LogNext ==
    \/ \E p \in Proc \ {Daemon} : Crash(p)
    \/ \E from, to \in 1 .. MaxLines : Remove(from, to)

Next ==
    \/ StoreNext /\ UNCHANGED avars
    \/ LogNext /\ UNCHANGED pvars
    \/ \E t \in Thread : Audited(t)
    \/ DaemonEnds

Spec == Init /\ [][Next]_<<pvars, avars>>
-----------------------------------------------------------------------------
TypeOK ==
    /\ AuditTypeOK
    /\ status \in [Proposal -> {"none", PENDING, APPROVED, REJECTED}]
    /\ applied \in [Proposal -> Nat]
    /\ gap \in [Proposal -> 0 .. MaxGap]
    /\ answer \subseteq Proposal
    /\ refused \subseteq Proposal
    /\ holder # NoOne => holder.by \in Thread /\ task[holder.by].pc = "write"

\* A change is made once for each approval, on either way, and never for a
\* rejection: what was made more often was cut short between the change and
\* the proposal's file.
AppliedOnce ==
    \A p \in Proposal :
        applied[p] = gap[p] + (IF \/ status[p] = APPROVED
                                  \/ holder # NoOne /\ holder.id = p /\ holder.approve
                               THEN 1 ELSE 0)
=============================================================================
