# Sponsio in TLA+

Sponsio checks an AI agent's tool calls against contracts before they run. A host
(Claude Code, Cursor, OpenClaw, an MCP client) starts a small hook process for each
call; the hook asks a daemon, which keeps the history of every conversation, the
rules of every bucket, and a guard that decides. These modules model the daemon's
state and what happens to it: concurrent calls, edits of the rules, failing writes,
crashes, restarts, lost replies; and the guard itself, the rule language it evaluates
and the library of rules it is given. TLC checks them on small instances and TLAPS proves
the results listed below for every value of the constants.

`PROJECT.json` maps each definition to the lines it translates.

## The system

| Part | State | Operations | Hard behaviour | Model |
|---|---|---|---|---|
| `MemoryTraceStore` (`daemon/guard_service.py`) | per conversation: events with `seq`, attached outputs, counter, TTL clock; one log file | `append`, `attach_output`, reads that drop an expired conversation, `forget`, `load` | writes that fail or tear, a log cut by others, a crash between file and memory, legacy lines | `Conversation`, `TraceStore`, `TraceStoreRestart`, `History` |
| `LiveGuards` (`daemon/guard_service.py`) with `evaluate` (`guard_stdin.py`) | per bucket and conversation: a guard, the store revision it was synced to, positions of events | `checkout`/`_sync`, decide, `append`, `checkin`/`_advance`/`_fresh`, `discard`, `clear` | other buckets' calls and outputs in between, expiry between two steps, failed writes, `commit` after the lock was released | `LiveGuards` |
| `SnapshotStore` (`daemon/guard_service.py`), `RulePolicy`, `ApprovedRulesets` (`daemon/integrity.py`), signing | cache entry per bucket, approved ids on disk, held change | `resolve`, `reload`, `rules_reload` | edits during a load, restarts onto weaker files, a reload racing a call, deleted or unsigned files, key changes | `RulePolicy` |
| shim (`shim/sponsio_shim.py`), `DaemonServer` (`daemon/server.py`), `daemon run` | lock file, socket file, processes, workers, log and memory of admitted calls | connect, send, wait, retry, start; load, lock, bind, serve, stop | several hooks starting daemons, a crash before the reply, a worker that outlives `stop`, the deadline | `HookDelivery` |
| `Gateway`, `Upstream` (`daemon/gateway.py`) | upstream processes, pending requests by id, tool list, session locks | `tools`, `call_tool`, restart, config change | reader threads of old processes, "not run" against "may have run", replaced servers, a crash between run and commit | `Gateway` |
| audit log (`daemon/audit.py`) | hash-chained file, head remembered per process | `append`, `verify` | several processes, writes that tear, lines taken out | `AuditLog` |
| proposals (`daemon/proposals.py`), cloud decisions (`proposal_sync.py`) | one file per proposal, a cloud's decisions, refusals of this process | `submit`, `decide`, `sync_once` | a crash between change and file, decisions on two ways at once, lost answers | `Proposals` |
| formulas, evaluators (`formulas/`) | none | recursive evaluation; progression by a valuation | the last position, what is still owed | `Formulas`, `Progression`, `Evaluators` |
| grounding (`tracer/grounding.py`) | counters, runs, flows, context, since when | one event to a valuation | aliases, resets, resuming in the middle | `Grounding` |
| patterns (`patterns/library.py`) | none | a rule's name to a formula | windows, the order of two calls | `Patterns`, `PatternMeanings` |
| `TraceVerifier` (`runtime/verifier.py`) | valuations, progressions, scans for activations | `sync`, `check_contract`, `rollback_last` | caches that lag, rollback, whose fault a broken rule is | `Verifier` |
| `RuntimeMonitor`, `BaseGuard` (`runtime/monitor.py`, `integrations/base.py`) | trace, mode, session window | `guard_before`, `filter_tools`, observing, `finish_session`, `rotate_session`, `reset` | two locks, rollback of the last event, obligations at the end | `Guard`, `GuardProperties` |
| `IntegrityWatcher` (`daemon/integrity.py`) | stat and hash per file | `poll`, `start`, `stop` | saves between stat and hash, a record that could not be written | `Drift` |
| `OtlpHttpExporter` (`tracer/exporters.py`), the audit log's export (`daemon/audit_export.py`) | bounded queue, batch, counter of drops | `export`, the worker, `close` | several threads dropping the oldest, retries, shutdown with exports under way | `Exporter`, `Drift` |
| egress proxy, console bridge, protocol, config, integrations, installers, CLI, discovery, generation, rendering, TypeScript SDK | | | | not modelled (see the end) |

How they interact. A hook sends `guard.check` over the socket (`HookDelivery`). A
worker takes the conversation's lock, resolves the bucket's rules (`RulePolicy`),
takes or builds the bucket's guard from the history (`LiveGuards`), decides, appends
an admitted call to the history (`TraceStore`), and gives the guard back. The rules
watcher, `sponsio rules reload`, eviction and the TTL do not take that lock. Each
module keeps what it shares with the others in the form the next one reads:
`LiveGuards` uses `Conversation`, the same in-memory conversation `TraceStore`
writes to the log, and `HookDelivery` keeps only the order of the admitted calls.
A host may also embed the guard in its own process (`Guard`); `LiveGuards` uses that same
guard by its effect on the trace. `Proposals` extends `AuditLog`: its decisions append to
the log that the command line, another process, appends to as well. `Drift` extends
`Exporter`: the watcher's records go into the log, and from there, after its lock was let
go, into the exporter's queue beside those of other threads.

What makes them correct:

- **history**: no admitted call is lost, renumbered or doubled by a failure or a
  restart; an output is on its own call;
- **guards**: a kept guard decides by exactly the trace a rebuilt one would;
- **rules**: no rule stops being enforced unless an administrator said so, nothing
  unsigned decides, what is enforced is on record, what is not applied is shown;
- **gateway**: a call is decided on every earlier one that ran, an answer is its own
  request's, a replaced server is stopped;
- **delivery**: one daemon serves; a call the host runs is recorded; every hook answers;
- **verdicts**: whatever was cached, a formula is answered as the recursive evaluator
  answers it on the whole trace; a refused call leaves nothing behind; a call is refused
  for what it did; a rule asks of the history what its formula is to ask, and what the
  pattern reference says of it, but where the two are named as different;
- **record**: a rule change is made once for each approval; the audit log's chain is whole
  until lines are taken out, and that is then seen; a change of a watched file gets on
  record, and what is exported is sent, given up or counted as dropped.

## Modules

**`Conversation`** — `_Conversation`: events (bucket, tool, `seq`, output), attached
outputs, counter; `WithEvent` (append) and `ApplyAttach` (`_apply_attach`: the latest
call of that bucket and tool without output). Type and arguments of an event are left
out: nothing in the store depends on them beyond the tool.

**`TraceStore`** — one conversation in memory and its file. `Admit`, `Attach`,
`DropExpired`, `Forget`, `GoIdle` are the store's operations (each atomic under its
lock); `CrashInAppend`, `CrashInAttach` and `Crash` end the process inside or between
them; `Start`, `ReplayLine`, `FinishLoad` are `load`; `Cut` is what someone else does to
the file. A file is its lines, whether the last has no newline (`torn`) and whether
it is shorter than the store counts (`short`). `Fault` chooses what may go wrong.
`_rewrite` is written whole, and deleting a file succeeds.

**`History`** — the abstract specification: calls at the end, an output on the latest
open call, forgetting is complete. **`TraceStoreRestart`** defines what a restart
would read from the file (`Restored`) and refines `History` with it: a restart is
then a stuttering step.

**`LiveGuards`** — one conversation, one kept guard per bucket. The call under way goes
`Checkout` → (`Build`) → `DecideAllowed` / `DecideDenied` / `DecideDiscarding` →
`AppendCall` → `ReturnContext` / `ReturnGone` / `ReturnReused` / `ReturnNew`, `Adopt`.
A guard is its trace and the prefix its verifier has grounded. What the rules say is
left out: a call may go either way. `Reads` names the buckets whose library reads
outputs. `Commit` is the gateway's, after its call ran.

**`RulePolicy`** — one bucket. `Ask` is what a call does before the store's lock: it reads the
signing requirement (`asked`). `Resolve` is the rest of `resolve`, which decides the call:
`ResolveMissing`, `ResolveCached` or `ResolveLoad`, where the check of the signature reads
the requirement again (`Refused`) and `LoadFails` is a record that cannot be written.
`ReloadTake`, `ReloadPut` or `ReloadFails`, and `ReloadInvalidate` are the steps of a reload;
`Save`, `Delete`, `ChangeKey`, `Restart` the environment. A file is the ids of its rules, a
variant of its text, whether it loads and who signed it. `stale` says whether a stat would
differ from the entry's. Ghosts: `chain`, the rules calls were decided by, less what reloads gave
up, started again by a denied call; `crossed`, that the requirement changed between the two
reads of a load; `lost`, that a held change was dropped for a record that could then not be
written. `MCRulePolicyRestart` adds `floor`, which no denial starts again.

**`HookDelivery`** — hooks (`Send`, `Unconnected`, `ConnectionLost`, `ReceiveReply`,
`StartDaemon`, `StartFails`, `CameUp`, `Timeout`) and daemon processes (`RunDetached`,
`Load`, `AcquireLock`, `Bind`, `CloseSockets`, `ReleaseLock`, `Exit`, `Crash`, and the
workers' `Accept`, `Admit`, `Refuse`). The agent's and the admin's socket are bound and
removed together and are one; `--no-start`, platforms without `flock` and observe
events are not modelled; no log write fails here (that is `TraceStore`'s subject).

**`Gateway`** — callers (threads of `gateway.call_tool`), `Upstream` objects (`object`) and
the processes they started (`server`). A caller lists the tools (`Inventory`, `Listed`),
is decided under its session's lock (`Admit`, `Refuse`), looks the server up again
(`Lookup`), calls it and ends (`Settle`). Each request goes `Write`, `Flush`, then
`CallAnswered`, `CallRejected`, `Listed`, `Initialized`, or `Unanswered`; `WriteFails` and
`FlushFails` are "not run". `EnsureAlive`, `Start`, `StartFails`, `NotifyFails`, `KillStarted`
are `_ensure` and `_start`. `ReadReply`, `ReadEnd`, `ListChanged` are a process's reader
thread, which outlives it. `Reconfigure`, `Close`, `CloseKill` replace or remove the server.
`ran`, `sent` and `missed` are ghosts. One server, one page of tools. A write to a server that
stopped reading is a `Flush` (or `Initialized`) that is never taken (see Fairness); the reader's answer
to a server's ping, which can block in the same way, is left out. The output's `PostToolUse` is `TraceStore`'s.

**`Formulas`** — the formula constructors and `Evaluate`, the recursive evaluator
(`evaluator.py`), which is the reference everything else is judged by. **`Progression`** —
`dfa_evaluator.py`: `Simplify`, `Progress`, `Finalize`. An n-ary `And` or `Or` is a set
of parts, which stands for the flattening, sorting and deduplication of `_simplify_assoc`.
The six functions that walk a formula (`Evaluate`, `Temporal`, `AggregatesOf`, `Simplify`,
`Progress`, `Finalize`) are constant operators, each with the body of one call beside it
(`EvaluateBy(Eval, ...)` and so on, where `Eval` is what the body calls for the parts).
**`Evaluators`** ties the knot with `RECURSIVE` operators for TLC; a proof takes that each
constant is its own body (`Recursion`) and needs no recursive declaration.

**`Grounding`** — `ground_event`: the accumulators (`Accumulated`) and the valuation of an
event (`ValuationAt`); `GroundFrom` continues from a stored state as `sync` does. What a
regular expression matches in arguments, outputs and responses is decided by the environment: an
event carries the content keys that are true of it. A pattern over a context value is a name
that is searched for anywhere in the value, as `re.search` does: the constant `Finds` says which
names a value has inside it, and `Found` adds the value itself. The time of an event is its
position, as in the runtime.
`Carries` says what an event of each kind may carry (facts only a context update, the match of
a call's arguments only that call), and `Derived` names the predicates only grounding makes.

**`Verifier`** — the valuations, the grounding state before the last event, a progression
for each formula and position (brought up to date only when a contract consults it) and the
scans for activations; `Checked` is what `check_contract` leaves in them, `FreshlyBroken`
what it reports, `RolledBack` is `rollback_last`. **`Patterns`** — one operator for each
constructor of the library; **`PatternMeanings`** says of the history, without formulas, what
each formula asks (`Asked`) and what the pattern reference promises (`Meant`). The two are not
the same for every rule: a formula may ask more than the words (`Stricter`), less (`Looser`) or
something else (`Unlike`); "Where code and docs differ" goes through them.

**`Guard`** — `Check` (the call up to the monitor's verdict) and `Settle` (the rollback) are
`guard_before`; `Observe`, `ObserveOutput`, `Finish`, `Rotate` and `Wipe`, `Reset` the rest of
the host's interface. A book is a deployment: contracts, what the agent may try, what is
observed, an imported trace, the modes and the threads. A probe is `filter_tools` trying one
tool; the lock is let go between its tools here, which is more than the code does. `finish_session` and
the wipe are atomic. `admitted` and `overlapped` are ghosts. **`GuardProperties`** states what
the guard owes its host with `Evaluate` over the whole trace and uses nothing the verifier keeps;
its last part is what two theorems assume of the deployments (`OfPatterns`, `LimitsStandAlone`).

**`AuditLog`** — the file as lines, the last perhaps `torn`; what each process remembers
(`head`). `Wrote` says how far an append came: `AppendRecord` all the way, `AppendFails` up
to a write that raised, `Crash` up to the end of the process. The lock makes an append
atomic otherwise. A hash is a number of its own. **`Proposals`** — `Submit`; `Decide`, `Write`,
`WriteFails`, `Audited` are `decide` in its steps; `Upload`, `Look`, `SyncDecide`, `SyncCannot`,
`EndRound` are `sync_once`; `DaemonEnds` is a crash or a stop. `applied` counts how often a
change was made, `gap` how often the daemon was cut short after making one.

**`Exporter`** — `Export`, `Put`, `DropOldest`, `PutAgain` are `export` in its steps, by any
thread; `Take`, `TimesOut`, `Flush`, `Leave`, `Drain`, `Post` the worker's loop; `Stop`,
`PutSentinel`, `Exit` are `close` and the end of the process. A record is a number, the
sentinel is 0. Time is left out: a batch that is not empty may be due at any time, and is when
the queue stayed empty for a whole wait. `given`, `late`, `posted` and `discarded` are ghosts.
**`Drift`** — `PollStat`, `PollHash`, `PollRecord` are `poll` for one file; `Save` is whoever
writes it, each time with another stat; `Record` another thread's audit record; `StopWatch`,
`Detach`, `Close` the end of `daemon run`. The hash chain is `AuditLog`'s subject.

`MC*` modules give the constants their values and state the sentences of the docs that
the violation runs refute. `MCGuard` has TLC check on its deployments what the theorems assume of
theirs.

## Runs

| Run | Shows | Bounds |
|---|---|---|
| `TraceStoreCrash` | With failing call writes and crashes at any point: a restart restores every call with its number and every output on its call, numbers are gap-free, and the log implements `History` | 2 buckets, 1 tool, 2 outputs, 3 calls, 5 lines, 3 legacy logs |
| `TraceStoreDamaged` | With all faults: numbers stay the order of admission, each attached output names its own call, and no operation leaves a log that has lost a call, unless it continues a torn line of an earlier process | as above, 4 lines |
| `LiveGuards` | A kept guard decides as a rebuilt one; it is dropped only with its conversation; it is a past state of the store | 2 buckets (1 reading outputs), 1 tool, 1 output, 3 calls, 2 lives of the conversation, 3 starting logs, one with a gap |
| `RulePolicySigned` | No rule disappears silently, nothing unsigned decides, what is enforced is on record, what is held is shown, each with the exception its comment names | 1 call in flight, 2 rules, 1 text, 1 key or none, every kind of change |
| `RulePolicyRestart` (violation) | After a restart onto weaker rules, an edit that changes no rule applies them without a reload | 2 rules, 2 texts |
| `HookDelivery` | One daemon serves, a call that runs is in the log, memory is a part of the log in its order, every hook answers | 2 hooks, 3 processes |
| `Gateway` | A call is decided on every earlier call of its session that ran, a call in the history was sent, an answer is the caller's own, every call returns unless a write blocks for ever | 2 calls of one session, 2 objects, 2 processes |
| `GatewayReplaced` (violation) | A call that had the replaced server's object starts it again, and nothing stops it | as above |
| `Guard` | Every cache answers as the recursive evaluator; the trace is the history; the accumulated numbers are the history's; every pattern asks what `Asked` says, and means what its reference says where the two agree; a call let through keeps the rules, a refused one has a cause; the end reports what is unmet | 54 deployments: one for each of the 47 patterns and seven of other shapes; 3 events, 4 where a rule needs them to be met and broken again; 2 or 3 calls each; 2 threads where outputs are observed |
| `GuardSourceGate` (violation) | The source gate used as its docstring says never activates when the session starts with another call | 4 events |
| `Proposals` | A change is made once for each approval; the chain is whole until lines are taken out; a removed record is noticed by the process that wrote it, and no cut is reported while that record is there | 1 proposal, 1 admin thread, the sync, the agent, 2 processes, 3 lines, 3 records, any number of removals, 1 decision cut short |
| `Drift` | What a file became is put on record; each exported record is in one place and counted if dropped; it leaves the exporter; a worker that ended left nothing queued before `close` | 3 threads, a queue of 1, batches of 2, 1 retry, 2 saves after the baseline, 3 records |

Why the bounds suffice. Three calls give a first, a last and one between, and two
buckets a call that is somebody else's; two outputs and one tool make two calls
compete for an output, and a wrong one visible. Five lines hold three calls and two
outputs; a rewrite, a torn line and a legacy line all fit. Two lives of a conversation
are enough for a revision of the first to meet the second. Two rules allow weaker,
stronger and incomparable files. One call is in flight at a time in `RulePolicy`: between its
two reads the requirement can change any number of times, the file be saved and a reload take
its steps, and what other calls do under the lock is what this one does; the theorems have any
number of calls. Two hooks and three processes let two daemons start
while a third still has a worker running. Two calls through two processes let the
reader of one meet the requests of the next; two objects, a call hold the replaced one.
Three events let a rule be met, be broken and be looked at again by an unrelated call, and
three rollbacks, outputs or probes fall before each; the deployments in `Longer` need a fourth.
Each deployment has the calls its rules name and, where the rule has an order, one they do
not. Three lines hold a first record, a torn one and a record after it, or a cut record
between two others; a chain is wrong between two neighbours. One proposal is enough for the two
ways of deciding it to meet: proposals share only the lock and the log.
A queue of one makes every second export find it full, and two threads meet at its door; a
batch of two is one record short when the queue is empty. Two saves after the baseline
(`MaxSaves` counts the file there was) are a change and one more while it is being read or put on
record: the file is deleted and written again, or touched, with one content, since a file that
is not there is another.

The violation runs are the places where the code differs from a sentence of its docs;
`findings` in `PROJECT.json` quotes each.

## Fairness

`HookDelivery`: `EveryHookAnswers` assumes weak fairness
of each hook's own steps and nothing of the daemons. The host waits for its hook
process, whose every wait has a deadline: `Timeout` stands for the socket timeout set
by `call` and the loop of `wait_for_socket`. The system may really stop once every hook
has answered and no daemon runs, so that run does not check deadlock.

`Gateway`: `EveryCallReturns` assumes that some thread of the daemon that can go on does,
and nothing of the server, its reader or the file. The waits for an answer and for a process to
end have deadlines (`pending.done.wait(timeout_s)`, `_kill`); a write to a server's pipe has none
(`gateway.py:305`). So fairness is asked of `Prompt` only: the steps of a thread that is neither
in a write nor waits for the write lock of one that is, and the failure of a write, which a process that
ended makes certain. The property excepts the runs in which a thread stays in its write for ever.
Calls are finite, so this is no less than fairness of each thread. It may stop once every call
has returned.

`Drift`: the poll comes around, the exporter's worker goes on and a thread that is inside
`export` leaves it: `start`'s loop catches what a poll raises, every wait of the worker and of a
post has a deadline, `export` never waits. Nothing is asked of those who save, record or stop.
`EveryRecordLeaves` names what ends it: the worker is gone or the process ends.
`DriftRecorded` excepts a record whose write failed: `poll` has remembered the new hash by then.

`DecidedOnPast` names its two exceptions: a `commit` whose log write raises, and a call
that `close()` flushed while its own thread's flush then failed, which counts as not run.

## Proofs

`TraceStoreProofs`. Through every fault: `TypeCorrect`; `NumbersAreAdmissionOrder` (numbers increase
and lie below the counter, inductive with the types); `OutputsNameTheirCalls`; `HistoryOnlyGrows`.
The lemmas on `WithEvent`, `ApplyAttach` and `Replayed` say what each does
to a memory; every operation, fault and restart is one of them or starts the conversation
again. Nothing is assumed of the legacy logs but their type: `Replayed` renumbers.

What a whole log replays to is a fold over its lines. `Steps(f, lines, n)` states it without recursion:
`f` is a sequence of memories, each `Replayed` from the one before and the next line. That a log has
such a sequence (`StepsExist`) and only one end of it (`OneReplay`) are inductions on a set of
numbers (`AllNumbers`, from the well-foundedness of the order). So replaying one more line is one
more `Replayed`, and three theorems follow, each with what it excludes as its assumption:

- `LogImplementsHistory` (a write may raise, for calls and outputs; no line is torn, nobody else
  writes the file): every step is a step of `History` on what the log replays to, or a stutter.
- `RestartRestoresMemory` (only a call's write may raise): `RestartInv` says that the replayed log
  and memory are `Alike` while the daemon serves. An output is put in memory before it is
  written, so an output's write that raises makes them differ, and that is why it is excluded.
- `NumbersHaveNoGap` (the logs found first are from before calls were numbered; cuts, repairs and
  raising writes allowed): a numbered legacy log may begin with any number. `GapFree` itself
  excepts torn lines.

`LiveGuardsProofs`: every property of the run, for any buckets, tools, outputs and starting logs
as `load` leaves them (`Loadable`; `TraceStoreProofs` shows all of it of every load but that the
counter is one past the last number, which each line of `Replayed` gives). `ReusedAsRebuilt` is about the moment a guard
decides; what makes it inductive is what a guard holds between its calls. `CacheInv` says of
each kept guard that it is what the store was at its revision (`Kept`: its calls are the
first ones, its outputs those attached by then, its positions where they are, grounded accordingly), so that
syncing it gives the records of now (`KeptSynced`). `CallInv` follows the guard under way:
its trace is the store's records at the decision, and one call longer while that call is
appended. `BusyInv` describes a reused guard on its way back: the call was stored and is in the
trace, where its number may still be another than the store's (`_advance` corrects it); it is in the trace only, since
its write failed, and the guard does not fit and is dropped; or in neither, since it was refused.

`RulePolicyProofs`: every property of the run, for any rules, texts, keys and calls in flight,
with and without `--watch`, and any set of changes. `SignedDecides`, `EnforcedOnRecord` and
`WeakeningIsNeverSilent` come from one inductive invariant, `Policy`. It is needed
because the rules owed to the calls to come (`chain`) must survive the loss of either
copy: the cache entry goes with a restart, a deleted file or a key change, and then the
approved ids are what the next load is compared with. So `OwedIsKept` says they are
within the rules the entry serves and within the approved ids, and `ServedIsOnRecord`
ties the two copies together, with the exception a reload makes between its record and
its cache drop. `SignedDecides` excepts rules that were loaded while the requirement changed
(`crossed`), which the snapshot carries on to the calls that are served it. `DenyStep`, `KeepStep` and `RecordStep` are the three things a call can
do: nothing served, the old rules served, new rules served and recorded; `ChangedStep`
shows that the three outcomes of `OnChange` are among them. `HeldShown` is inductive
with the types. Assumed: `None` is no file, snapshot, entry or record.

`ProposalsProofs`, on the audit log: `AuditTypeCorrect` and `AuditChainUnbroken`, for any number of processes,
lines and records. While nothing was removed, `Whole` is inductive: the chain is unbroken,
no record tells of a cut, numbers grow along the file (`Growing`), and the file holds what
each process remembers (`HeadsHeld`). The last is what makes `Cut` empty: without it an
append could report a cut that never was. `Growing` is needed because `_holds` reads back
only as far as a lower number. That a file with a chained record has a last one is the
existence of a greatest position (`GreatestPosition`), by well-founded minimality.

The second part is about a file from which lines were taken out. `Descends(f, k, h, M)` says
that the process whose last record is `h` and which appended the records `M` would see each of them gone:
any set of records that is closed under "the record before" (`Closed`) and has `h` has all of
`M`. An unbroken chain that ends after `h` is such a set. It is stated about sets, so no induction along the file is needed,
and each way a file changes keeps it: a record appended by that process, by one
that remembers nothing, a torn line, an append after a cut, a removal.

`ProposalsProofs`, on proposals: `ImplementsAuditLog` shows that every step of the composition is a step
of `AuditLog` or leaves it alone, which carries the two results over (`SharedChainUnbroken`).
`ChangesAppliedOnce` adds to `AppliedOnce` the facts that make it inductive (`PInv`): who
holds the store's lock is a thread about to write (`Shapes`), and the proposal it holds is
still pending (`Held`), so no second way of deciding it can begin. `ProposalsTypeCorrect`
follows. `CutsAreSeen` and `ReportsAreTrue` have the invariant `DaemonRemembers`: the daemon's head
`Descends`, and every other process remembers nothing, as a command line process, which
appends once and ends. Any number of lines may be taken out, any number of times. Assumed: the daemon is one of the processes, nobody is not a thread, bounds are numbers.

`GatewayProofs`: every safety property of the run, for any callers, sessions, objects and processes.
`BaseInv` is the part all of them need: an id is not used twice by an object, what travels
under an id is the request that was registered with it or that request's reply, and whoever starts a server
or writes to it has its object's lock. `AnswersAreTheCallersOwn` follows. `SentInv` follows a
call through buffer and pipe for `CountedCallsWereSent`. `DecidedOnPast` speaks of calls that run
after their callers returned; it needs that a session's lock is held from the decision to the
return (`GoalInv`), that a call is in one place only, a buffer, a pipe, or ran
(`OnceInv`), and that one which counts as not run is in none of them (`RunInv`). A reader
thread of a replaced process, a reused id or a request flushed by `close` would each break one
of these. Assumed: `None` is neither a number nor a caller, a caller has one session.

`DriftProofs`: `DriftTypeCorrect`, `CloseDrains` and `NoRecordLost`, for any threads and bounds.
`DrainedOnClose` is not inductive: the last batch may still be under way. `CloseInv` adds that
only `close` puts the sentinel (`SentinelMeansStop`, which needs that no thread holds one,
`RecordsInHand`), that a worker drains only when told to stop, and that from its last batch
on the queue holds only what came later (`QueuedLate`). `StepsOfExporter` shows that the
rest of the daemon only exports, stops the exporter or leaves it alone. `RecordsAccounted` needs
that the places are disjoint (`Apart`): the hands of two threads hold two records (`HandsApart`),
queue and batch have no record twice, and a record that is handed over is new.

`HookDeliveryProofs`: every safety property of the run, for any number of hooks and
processes. `ServesAlone` needs `Exclusive`: a process past `_acquire_lock` holds the lock
until `stop` releases it, even while its socket is not bound yet, or is removed already;
so two binds never race. `AllowedIsRecorded` needs `Recorded`: the log has a call as soon
as it is admitted, which is before its reply exists. `DecidedOnLogged` carries the
embedding of each memory in the log through `Admit` (both grow, or only the log does) and
`Load`. Assumed: `First` is a process and `None` is not.

`GuardProofs`: every property of the run `Guard`, for any contracts, events, aliases, permissions
and threads and any length of the trace. The formula language is recursive over data, and
nothing here is an induction over formulas. `Formula(f)` says that there is a finite
construction that ends in `f`, a sequence each of whose formulas is built from earlier ones;
`Residue(f)` the same of what progression leaves, where an obligation may be owed. A
fact about every formula is then an induction on the length of a construction, over a set of
numbers (`AllNumbers`). Assumed of the constants: `Recursion` (each evaluator is its
own body on every formula, which holds of the operators of `Evaluators` by their
definition) and `BooksOfFormulas` (rules and assumptions are formulas).

Four invariants carry it, each inductive beside the ones before it:

- `HistoryInv`: `TraceIsTheHistory`. The trace is what was admitted or, while a refused call waits for
  its rollback, one event longer. It excepts an observation that landed in between (`overlapped`).
- `VerifierInv`: what the verifier keeps, entry by entry. A progression is the formula progressed
  through the valuations up to where it was read, and so is the residual kept for a rollback; a
  scan knows the first activation up to where it looked; the grounding state before the last event is the trace's.
  `CachesAgree` is not inductive: it asks what a progression answers now, and two residuals that answer alike
  now can answer differently after the next event or a rollback. That a residual answers for the formula is `ProgressionCorrect`: for every
  formula and trace, progressing it through the valuations and finalizing what is
  left (`dfa_evaluator.py`) says what the recursive evaluator says. `CachesAgreeWithTheTrace`,
  `SessionsEndReported` and `AdmittedCallsKeepRules` follow.
- `TypeInv`: `GuardTypeCorrect`, with `VerifierInv` for the part of `TypeOK` that no progression has
  read an event that is not there any more.
- `EventsInv`: each event carries what its kind does, also after an output was attached.

`GroundedOnHistory` follows each accumulator along the trace: the state after the i-th event has
the count, run, depth, total, context value and writers of the first i events. A run
counted under a name says how often the tool was called in a row only if the calls that
share a name with it have that name (`Uniform`, see below).

`RefusedCallsHaveCause` assumes `LimitsStandAlone`: a blocking invariant that limits a number that only grows
(calls, tokens, depth) limits such numbers and nothing else, as `rate_limit` and `token_budget`
do. The guard puts a broken invariant down to the last event whenever a number in it moved
(`IsFresh`). Once such a limit is passed it stays passed, so a call that moves the number breaks the rule at its own
position. Without the assumption the property is false: an invariant "at most so many, or another
condition", broken earlier by an observed event, refuses a later call that moves the number
and meets the condition.

`PatternsMeanWhatTheySay` is `PatternMeaning` for every rule of the library with any arguments, any names
inside others, and every trace the guard can have. `At(f, t)` is the set of positions where a formula holds; one lemma
for each operator says how that set is made, and one for each rule shows that the
formula the rule compiles to (`Compiled`) and `Asked` pick the same events. `AskedIsMeant` compares
`Asked` with the words of the reference (`Meant`), one rule after another, and has the direction in
which each implies the other. `OfPatterns` says that a
deployment made of a named rule has that rule alone, compiled, and that the arguments are
such as the words take for granted (`Sensible`): the two calls of an order are two tools
(`Distinct`: if one alias is both, a call precedes itself), a tool whose runs are limited shares no name with another that
does not answer to it (`Alone`), a cooldown is not zero, an age is less than the sentinel for never. `arg_value_range` is
taken with minimum 0, as an event without the number counts as 0 (see below);
no name is found inside the empty value (`FindsAssumption`). The two gates
apply from the call that opened them, and are evaluated from there. The ages that `time_since` and
`approval_active` read are kept because the deployment's rules ask for them. For the three
rules of `Unrenewed` only one direction is proved of `Asked`: the formula is stricter.

Only model-checked: `DamageLosesNoCall`; `EveryHookAnswers`, `EveryCallReturns`, `DriftRecorded` and `EveryRecordLeaves`,
the four liveness properties. That the operators of `Evaluators` are their own bodies is how TLA+ defines a recursive
operator, and the one step between these proofs and TLC's runs that no tool checks. The types of `HookDelivery`, `LiveGuards`, `RulePolicy`,
`Proposals` and `Drift` are proved and are no longer part of the runs.

Not true, and so not stated: `CutIsSeen` and `HeldIsFound` of `AuditLog` alone, where two processes
may remember a record each (a daemon that stops, and the one that took over). With two processes,
three lines and four records TLC refutes `HeldIsFound` under `AuditSpec` in five steps; with six lines and seven
records it refutes `CutIsSeen` in nine: a report that the second process made by mistake is taken out
as well, and leaves an unbroken chain around a missing record.

## Where code and docs differ

The violation runs, with the sentence each refutes, are `findings` in `PROJECT.json`. Met while modelling,
and described here only:

- *Trace store.* An output that arrives after the log was cut is put in memory first, is written
  by the rewrite of the log and then once more; a restart puts the second on an earlier call
  (`TraceStore` with `Fault = {"cut"}` violates `RestartKeepsHistory`; `guard_service.py:675`, `:711`;
  threat-model.md:65 says a cut log is restored from memory). After a torn last line, `_write` continues it, so the next admitted call is lost by the next
  restart (`TraceStore` with `Fault` shows it; `guard_service.py:18`, `:451`).
- *Restart.* `daemon run` replays the log before it has the lock; what another daemon admits in
  between is missing from its memory (`cli/groups/daemon.py:103`). `MemoryIsLogged` is what remains.
- *Mixed modes.* In a guard that observes, a contract with `mode: enforce` still blocks, but the
  refused call is not rolled back (`Undone`; docs observe-vs-enforce.md and faq.md).
- *Blame.* A counter that falls (`consecutive_count`, `time_since`) counts as moved: after an imported
  or observed violation of `loop_detection` every call is refused. `BlockedHasCause` excepts these;
  for a limit joined with another condition see `LimitsStandAlone` under Proofs.
- *Reactive freshness.* A reactive rule under G is asked from position 0 whether it was broken
  before. `AdmittedKeepsRules` excepts such rules (`Judged`).
- *Rollback.* An observation between a call's check and its rollback is rolled back in its place
  (`overlapped`); `observe_tool_output` resets the verifier without the lock. `finish_session` and
  `sync` read the trace without the monitor's lock; the model takes them as atomic.
- *Rotation.* Obligations triggered between the two steps of `rotate_session`, or after
  `finish_session`, are wiped unreported, although its docstring says they are flushed first.
- *Signing.* `resolve` reads the signing requirement before the store's lock and the signature
  check reads it again (`guard_service.py:199`, `:1044`). Rules loaded while the operator turns
  signing on or off or changes the key are checked under the new requirement and cached under the
  old one. With signing off in between they are not checked at all, and go on deciding
  when the old requirement is back (`crossed`). `guard_service.py:115` and daemon.md:154
  have nothing kept that was checked under another requirement. `UnsignedNeverDecides` excepts them.
- *Deleted rules.* A call that finds no rule file for a bucket that needs no signature is
  answered "unconfigured" and allowed (`guard_service.py:213`, `guard_stdin.py:1283`); the
  threat model (`threat-model.md:63`) and daemon.md:138 have removed contracts enforced until a
  reload. `NoSilentWeakening` excepts such a call.
- *Held changes.* `reload` and `_apply` drop the held change before they write the record
  (`integrity.py:334`, `:387`). A write that raises leaves the old rules served and nothing in
  `rules status` (threat-model.md, Reporting), until the file is saved again. `HeldIsShown`
  excepts it (`lost`).
- *Blocked writes.* A server that stops reading blocks a write, and every call behind its locks,
  for ever (`gateway.py:305`).
- *Patterns, stricter than their words* (docs/reference/patterns.md). A second occurrence inside a
  window does not extend it (`approval_freshness`, `time_since`); `destructive_action_gate` asks for an
  approver's call, the reference for a gate step; `segregation_of_duty` is `mutual_exclusion`, whoever
  calls; `bounded_retry` counts the first call as a retry; `loop_detection` counts calls with any
  arguments (`:120` says similar ones); `delegation_depth_limit` counts messages, not how deep
  they nest.
- *Patterns, looser.* `no_data_leak` forbids the flow only while the source's field is contained in
  something written (`:98` forbids it); `untrusted_source_gate` and `confirm_after_source` are
  content with one confirmation after the first source, where the reference has data pass a gate
  each time.
- *Patterns, something else.* `required_steps_completion` has the steps follow the gate, and the
  reference has them completed before it (`:109`). `data_intact` limits a command to allowed paths;
  the reference has a field immutable once written (`:143`). `approval_active` asks that the last
  role and the last decision said contain the names anywhere (`library.py:2242`: "disallow" counts as
  "allow", a longer role as the role), whichever action they were said for, and that the role was said
  within the window; the reference has that role approve the action (`:166`), and its docstring
  (`library.py:2217`) has the age renewed while the approval stays, which grounding does not do.
- *Ranges.* `arg_value_range` with a positive minimum refuses calls of other tools.
- *Aliases.* A run counted under a name the next call does not have is left standing (`Uniform`).
- *Escalation.* A reactive contract whose assumption was never met reports `escalated` for each
  call, where the docs call it vacuous.
- *Retry.* The shim asks `guard.check` again when the reply was lost, and the daemon may have recorded
  the call: it is then two events (`sponsio_shim.py:366`; `:242` calls a retry safe only for a
  request without effect, and `sponsio_mcp.py:82` does not retry). `HookDelivery` has this behaviour.
- *Drift.* A record that could not be written is not tried again: the new hash is known by then.
- *Export.* `_post_with_retry` catches `URLError` and `OSError`; an answer that is no HTTP raises
  `BadStatusLine`, which ends the worker for good, and the queue then only drops (`died`). A sentinel
  that a full queue drops is counted as a dropped span. `close` waits five seconds: a slow
  collector loses what is left with the process.
- *Audit log.* A report of a cut takes the number after the record its process remembers, so two records may have
  one number, and `_holds` answers from the first it meets (`audit.py:137`). A daemon stops after it gave
  its lock back and may report a real cut then; the daemon that took over finds the number of its own
  `daemon_start` on that report, and reports a cut although its record is in the log (`audit.py:18`, `:55`
  and daemon.md:246 say it no longer is). `verify` calls a torn line "not
  JSON": `ChainUnbroken` is about the chained records. A cut record whose own append then fails is
  not exported.

## Plan

Done, in this order: `TraceStore`, `RulePolicy`, `LiveGuards`, `HookDelivery`, `Gateway`;
`Formulas` to `Guard`; `AuditLog`, `Proposals`, `Exporter`, `Drift`, with their proofs.

Every safety property that a run checks is proved but `DamageLosesNoCall`. What is left: the stochastic half of
contracts and the session log, in `Guard`.

## Not modelled

Framing, parameter checks and configuration parsing (`protocol`, `handlers`, `config`,
`client`, `peercred`): sequential conversions. The egress proxy relays bytes; its
decision is a `decide` like a hook's. The console bridge sends full states, so a lost
one is replaced by the next. The adapters to frameworks, installers, plugin edits, the
CLI, onboarding, discovery and generation are sequential code run by a person or calls
to external services. Rendering and reporting only read. The TypeScript SDK is a second
implementation beside the Python one. Of the runtime, the stochastic evaluators
(calls to a model), the recursive and dfa backends of the verifier, the text of rules
(parser, first-order extension), standing rules, the session log and the remote guard are
not modelled; nor are the file and fan-out exporters and the conversion of records to spans.
