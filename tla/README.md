# AIRA OS: a TLA+ verification project

AIRA OS (`src/AIRA_ECOSYSTEM`) is a multi-agent operations assistant for MikroTik networks: a
FastAPI backend (`api/`), a core of long-lived singletons with background threads and asyncio tasks
(`core/`), agents that talk to routers over SSH and to language models (`agents/`), and a React
front end (`app/`). This directory holds TLA+ models of the parts of the backend whose correctness
depends on the order of steps of several actors, the TLC runs that check them, and TLAPS proofs
about them. The other top-level directories (`_legacy_backup_…`, `graphify-out`, `deploy`,
`scratch`, `docs`) hold copies, generated graphs, deployment files and texts.

`PROJECT.json` lists components, runs, mutants, the map from definitions to source lines, findings,
hazards and theorems. Paths below are relative to `src/AIRA_ECOSYSTEM`.

## 1. Inventory

### 1.1 Parts that keep state several actors change

| Part | State | Operations | Hard because | Correct when |
|---|---|---|---|---|
| Connection engine, `agents/akane/connection_manager.py`, `session_state.py` | session table, host index, pending hosts, backoff, stored passwords, locks on three levels | open, close, execute, execute_command, credential probe, idle monitor, shutdown | request threads, batch workers and the monitor interleave; a lookup is stale when used; lock order | the pool is bounded, reservations never leak, the index is fresh, a session runs one command at a time and is not closed under it, calls return |
| Edge gateway, `core/edge_gateway` | durable queue with a sequence counter and a capacity; request in flight; hub cursor; gateway and tenant status | enqueue, clear, peek, acknowledge, ingest, revoke | lost requests and answers, early timeouts, overflow while a batch is under way, rejected samples | bounded, in order, at most once, nothing lost without a trace, the queue drains |
| Action and approval engines, `core/network_intelligence/action_engine.py`, `core/operations/approval_engine.py` | action records, shared approval queue, policy row, audit log | propose, resolve (two engines), update policy, execute and verify | one request spans several transactions; two engines write one queue; crashes | nothing runs without approval or waiver; queue and records agree; executions end |
| Monitoring engine, `core/nms_engine.py`, `core/nms_models.py` | device profiles, incidents, polls in flight, cycle flag, scheduler state and task | poll, test, cycle, poll-now, start, stop, acknowledge, update profile, delete | coroutines and worker threads share it; a decision taken on a row read before; cancellation | one open incident per device, none missing while DOWN, cycles end, outages are reported |
| Chat turns, `api/routers/ws.py`, `api/ws_bridge.py`, `api/state.py`, `core/chat_sessions.py` | cached context, stored transcript and context, entry of the run of a session, event queue | send, edit, regenerate, stop, deliver events, store, delete | the model call is in a worker thread, its events and its end are callbacks, a stop comes at any moment, an answer takes up to four transactions | a stop discards the turn, context and transcript stay alike, no event follows the end, every message is answered |
| Automation engine, `core/scheduler.py` | job rows, execution rows, set of running jobs | run job, timer loop, event triggers, toggle, delete | stale due rows, database failure in the middle of a run, approvals nobody resumes | no double run, every execution gets a final status |
| Edge enrollment, `core/edge_gateway/enrollment.py`, `manager.py` | tokens, gateways, quota | issue, enroll, approve, revoke | single use under races; a quota that always reads zero | a token enrols one gateway |
| Hardened NMS scheduler, `core/nms/scheduler.py` | loop state, locks per device, circuit breakers | start, stop, register, unregister, dispatch | tasks outlive the loop that started them; locks are dropped while held | no overlapping polls, clean stop |
| Topology database, `core/topology_db.py` | write lock, savepoints, retry counters | transaction, nested transaction, retry | nesting and `SQLITE_BUSY` | a transaction is all or nothing |
| Token quota, `core/tenant/token_quota_service.py` | used tokens per period, usage rows | check, consume, reset, sweep | check and consumption are separate | bounded overspend, one reset per period |
| Operational scheduler, `core/operations/scheduler.py` | jobs with next due time, failures, history | execute now, run due jobs, skip missed runs | manual and scheduled runs of one job read the same row | no lost update |
| Event bus and socket registry, `core/events.py`, `api/ws_manager.py` | subscriptions, loop handle, connections | publish, subscribe, unsubscribe, send | publishers are worker threads, subscribers live on the loop | no delivery after close |
| Configuration engine, `agents/akane/config_engine.py` | plan, snapshot, outcome | plan, apply, verify, roll back | a session may die between apply and roll back | a device is left configured or restored |

### 1.2 How they interact

- Routes in `api/routers` call the singletons of `core/` and `agents/` from worker threads
  (synchronous routes) or on the server's event loop (asynchronous ones). Most races below are
  between a worker thread and the loop, or between two worker threads.
- All tables are in one SQLite file behind `topology_transaction` or the `_lock` of an engine: one
  transaction is one atomic step, two transactions of one request are not.
- The connection engine is used by the REST routes, the tools of the Akane agent, batch command
  execution, discovery and the RouterOS polls of the monitoring engine.
- The action engine writes the queue of the approval engine; playbooks and automations write it
  too. `delete_node` and `clear_topology` of the topology engine delete rows of the monitoring
  engine.
- Edge gateways post batches to `EdgeGatewayManager.ingest_telemetry`; tenants and gateways are
  suspended and revoked by other routes at any time.
- Every socket of a chat session has a receive loop; they share one entry for the turn under way.
  Events a worker thread publishes reach the sockets through a callback and the bridge's queue.

### 1.3 Other parts

Reasoning and orchestration (`core/brain.py`, `core/orchestrator.py`, `core/ai`), analysis
(`core/network_intelligence` without the action engine, most of `core/operations`, `core/routing`),
tenants and billing, topology discovery and parsing, files and attachments, memory and chat,
persona and plugins, model and provider selection, voice and notification agents, tool drivers, the
front end. They depend on what a language model or a device answers, compute a result in one call,
or change one row per request. `PROJECT.json` lists each with its reason; section 7 sums them up.

## 2. Modules

| Module | What it is |
|---|---|
| `SessionPool` | abstract: a bounded pool of sessions, one command at a time, closed for good |
| `ConnectionManager` | the connection engine; implements `SessionPool` |
| `OrderedDelivery` | abstract: samples arrive at most once, in order until the sender resets its queue; some may be lost |
| `EdgeGateway` | queue, drain loop, link and ingestion hub of one gateway; implements `OrderedDelivery` |
| `ActionEngine` | action records, the approval queue and the policy |
| `NmsEngine` | polls, device availability, incidents, cycles and the scheduler |
| `AutomationLog` | abstract: a job has one open run at a time, a run closes once and for good, and as APPROVAL_PENDING just when it asked |
| `AutomationEngine` | automations: timer loop, manual runs, running set, log, approval queue; implements `AutomationLog` |
| `ChatTurns` | the turns of one chat session: receive loops, tasks, worker threads, bridge, store |
| `MC…` | one for each detailed module: what its `.cfg` files instantiate |
| `…_proofs` | theorems and proofs; `ConnectionTables_proofs` continues `ConnectionManager_proofs`, `ChatContext_proofs` continues `ChatTurns_proofs` |

In every module an operator whose name begins with `Mut` is a fault model: what a plausible bug
would make of the definition after it. Nothing refers to it; with it in place of that definition
one of the properties fails, which shows that the property depends on the code.

### 2.1 ConnectionManager

Threads are request threads (`Callers`) and the monitor. `pc`, `op`, `tgt`, `sid`, `retried`,
`queue` are a thread's place and locals; `status`, `hostOf`, `hostIndex`, `pending`, `backoff`,
`secrets` are the dictionaries of `ConnectionManager`. A `with self._lock:` block that waits for
nothing is one step guarded by `LockFree`. The locks of hosts and sessions are held over many steps
(dialling, running a command) and are variables. The credential probe keeps `_lock` while it waits
in `execute`, so `lock` is a variable too. Clocks are abstracted to the flags `idle`, `expired`,
`backoff` that the passing of time raises; a session may die, a dial or a command may fail at any
moment. Session ids are never used twice, as `uuid4` promises.

### 2.2 EdgeGateway

A sample is a number in the order of its making; `seqOf` is the sequence number the queue gave it
(they differ after `clear()`). `Enqueue`, `Clear`, `Acknowledge` are the transactions of
`EdgeBufferQueue`; `Send`, `Refused`, `Timeout`, `GiveUp` are the drain loop, which the repository
has in its gateway benchmark and documents in its protocol description; `Authenticate`, `Abort`,
`Ingest` are the two steps of the hub. `Ingest` models the whole loop over the sorted batch by the
set of samples past the cursor. `Lose` drops a request or an answer; `GiveUp` leaves the hub at work
on a request nobody waits for. A "poison" sample passes every check and makes `float()` raise.
`dropped`, `reported` and `copies` are history variables. `Enqueue` is one step although the code
reads the sequence counter before `sqlite3` begins the transaction of the update: a second producer
could read the same number, but the drain loop has one.

### 2.3 ActionEngine

One step per SQLite transaction. A request that spans two or three transactions keeps what it read
in `phase`, `plan`, `target`. `Resolve` and `ResolveInQueue` are the two functions named
`resolve_approval`. `Policy` is the row a `SELECT` returns first. The verification after an
execution is simulated in the code and always passes. `granted` mirrors the audit log; `started`
and `asked` are history variables.

### 2.4 NmsEngine

A poll goes through `Ping`, `Read` (queries and first transaction) and `Store` (second
transaction); it awaits between the first two and not between the last two, so worker threads may
come in there but no other coroutine (`LoopFree`). `Assessed` is `determine_device_availability`.
`BeginCycle`/`EndCycle`/`AbortCycle` are `poll_all_devices_cycle`; `Loop…` is `_scheduler_loop`,
including a task that is cancelled before it began, which runs no `finally`. `Start`, `CreateTask`,
`Stop`, `Stopped` are the blocks of `start_monitoring` and `stop_monitoring` in worker threads. A
worker thread has no event loop: the task it creates goes to a new loop that never runs
(`task = "dead"`). The counters of the code have no limit; in the model (`Bump`) they stop at their
thresholds, since they are only compared with `>=`. `SetProfile` gives a device one of the settings
in the constant `Profiles`. `deleted`
and `streak` are history variables: the devices that were deleted at least once, and how many stored
polls of a device in a row missed it or met it.

### 2.5 AutomationEngine

A thread is a call of `execute_job`: `called` with the row it was given, `claimed` once its job is in
`_running_jobs`, `started` once the RUNNING row is written, `closing` in the `finally` block,
`closed` before the job leaves `_running_jobs`. Each of these is one transaction or one look at the
set under the engine's lock. `Fire` is one row of a cycle of the timer loop and `RunNow` the route;
what either read may be out of date when the thread begins, because `CreateJob`, `ToggleJob` and
`DeleteJob` come in between. A CATEGORY_B action (`Gated`) adds a row to the queue of the approval
engine and ends (`Ask`), a CATEGORY_A action runs (`Perform`), whatever the flags of the job say.
`StoreFails` is an exception in one of the two transactions that have no handler, `AskFails` one in
the third. `latest` and `lost` are history variables. `KeepsLog` maps the execution rows to the
entries of `AutomationLog`, and the runs whose thread was lost to the abandoned ones.

### 2.6 ChatTurns

The module models the turns of one session. Everything but the model call and a deletion runs on one
event loop, so a step is the code between two awaits. `Accept`, `Refuse`, `Wait`, `Resume` and `Stop`
are the receive loops of `chat_ws`; `CancelEarly`, `Reject`, `Prepare` and `SubmissionFails` are
`_process_turn` up to the model call, `Work` and `Return` the worker thread, `Enqueue` and `Wake` the
callbacks it hands to the loop (`ready`), `Deliver` the consumer of the bridge's queue, `Flushed` the
wait for that queue to empty. Then a turn fails (`Fail`), is dropped (`Discard`, `Orphan`) or goes on
to its writes (`Proceed`), each a committed transaction of its own: `Truncate` takes the rows of the
turns it replaces, `Persist` stores the context, `AddUser` and `AddAnswer` add its two rows; `Respond`
sends the answer. Between two of them (`Storing`) the event loop does nothing else (`LoopFree`), but a
thread may delete the session, a transaction may fail (`StoreFails`), and the process may be killed:
`Restart` is possible in every state and keeps the database only. `Cleanup` is the callback of a
finished task. `active` is the entry of `_ACTIVE_RUNS`, `memory` the cached context and `raw` the
stored one; a turn counts as one entry of the transcript, that of its message, and one of the
context. `saved` and `replied` (whose message and whose answer was ever stored), `torn` (whose writes
were begun and never ended), `late`, `piled` and `failed` are history variables.

## 3. Runs

A run whose outcome is "violated" checks a statement of a document, comment or message of the
repository against what the code does; `PROJECT.json` ("findings") quotes it.

| Run | Properties | Outcome |
|---|---|---|
| `connection_pool` | TypeOK, PoolBound, ReservationsExact, SecretsSound, IndexFresh, ChainNeedsProbe, ImplementsPool, OnlyDeadUnindexed | hold: two threads and the monitor, one slot, two hosts; commands by host and by session, probes, shutdown, expiry, failures and reaping |
| `connection_liveness` | CallsReturn, PoolDrains | hold without probes: calls return, and idle sessions, failed ones included, are reaped |
| `connection_deadlock` | NoLockCycle | violated: a probe holds the table lock and waits for a session lock |
| `edge_delivery` | TypeOK, BufferBound, NoSilentLoss, ImplementsDelivery, CleanQueueDrains | hold: loss, timeouts, overflow, `clear()`, bad samples, revocation, suspension |
| `edge_poison` | QueueDrains | violated: one sample with a value that is no number blocks the queue |
| `action_safety` | TypeOK, NoBypass, QueueNotBehind, ExecutionEnds | hold: two requests, two actions, three risks, a policy change, one crash |
| `action_race` | ExecutesApproved | violated: rejected or executed between check and mark |
| `nms_safety` | TypeOK, OneOpen, DownTracked, OutageDebounced | hold: every interleaving of polls and tests with acknowledgements, profile changes, deletions and restarts |
| `nms_liveness` | SchedulerTrue, CyclesEnd, OutageReported | hold: through tests, poll-now cycles, starts, stops and restarts |
| `automation_runs` | TypeOK, MarksHeld, LastIsLatest, KeepsLog, RunsClose, DueRuns | hold: timer and manual runs of two jobs, stale rows, pauses, deletions, failed transactions, restarts |
| `chat_turns` | TypeOK, NoStray, ContextMatches, AnswersTrue, ReplacedOnceStored, StopReaches, StopDiscards, Answered | hold: new turns, edits, stops, errors, deletions, late flushes, failed transactions and restarts, between two writes of a turn as well |
| `nms_recovery` | RecoveryResolves | violated: recovery by way of MONITORING_UNAVAILABLE |

### 3.1 Bounds, and why they are enough

- *Connection engine.* Two request threads and the monitor: every lock of the engine is between two
  parties, and each property relates at most two threads. Two calls each let a thread come back to
  a session that expired, failed or was closed since. Two hosts with one slot make reservations
  compete; with two session ids a closed session is replaced while the old one is still referred
  to, which is all index and lock properties need. `connection_pool` opens sessions by commands and
  closes them by shutdown and by the monitor; the bare open and close calls, which take the same
  steps, are in `connection_liveness`.
- *Edge.* Three samples, a queue of two and batches of two: a batch can overflow while it is under
  way, and one `clear()` can come between any two steps. Two requests at a time are an abandoned
  one and its repetition; two faults are a lost answer and an early timeout together.
- *Actions.* Two actions, two requests, a risk each for the two waivers and one without, one change
  of policy (later ones have no effect, see section 5) and one fault: two requests can meet on one
  action or propose both, under a policy that changes in between.
- *Monitoring.* A poll concerns one device, and devices meet only in cycles, which wait for all of
  them; the runs have one device, the theorems any number. FailureThreshold 3 has a SUSPECTED_DOWN
  state in which another failure does not yet mean DOWN; RecoveryThreshold 2 has a success that is
  not yet a recovery. Tests of a device take the steps of a poll outside a cycle; both runs have
  them. A cycle asked for by a route takes the steps of the scheduler's and is in `nms_liveness` only,
  and so are start and stop. The profiles of `nms_safety` are "in use", "not managed", "paused" and
  "in maintenance" (`SomeProfiles`): a device that is not in use is suspended whether or not it is
  managed. The liveness run uses thresholds 2 and 1, which keeps the first of the states above. Two incident ids are enough to open a second incident; when all
  are in use, a resolved one is forgotten (`Free`).
- *Automations.* Two threads are what a race for a job needs. One job has an interval and needs
  approval, the other is run by hand and needs none. Two execution ids let a run begin after
  another of the same job closed, which is what LastIsLatest is about; one fault is a failed
  transaction or a restart.
- *Chat.* Three messages: one turn that is stopped and two receive loops that wait for it, or a
  turn, one that replaces it and one that finds it gone. Deletion, failed transaction, flush that
  gives up and restart share a budget of one, so each of them meets every state of a fault-free
  session, those between two writes of a turn included. The theorems have no such bound.
- Deadlock is checked in the action and monitoring runs. The others say `CHECK_DEADLOCK FALSE`:
  there the number of calls, samples, runs or messages is bounded, and the system stops when it is
  used up.

### 3.2 Fairness, and why the code justifies it

- *Connection engine.* WF of the steps of a call that has begun (threads run on, dials and commands
  have timeouts), of the monitor, which wakes every 30 seconds, and of time. No request has to
  come.
- *Edge.* WF of the drain loop as long as something is queued, and of the hub for a request it has.
  Faults are never fair; `CleanQueueDrains` assumes that gateway and tenant are admitted for good
  and that no poison sample stays queued.
- *Actions.* WF of the next transaction of a request. A request that dies is not fair, and its
  action may stay EXECUTING: ExecutionEnds says that nothing else has that effect.
- *Monitoring.* Coroutines run in turn: asyncio's ready queue is first in, first out, every query
  has a timeout, and the loop is blocked only between `Read` and `Store`, which no one waits for.
  So a coroutine that is ready again and again runs: SF for the start of a device of the cycle, for
  the steps of each poll, the end of a cycle and the scheduler's loop. WF for the worker threads
  inside start and stop. Operators, the network and restarts are not fair. OutageReported
  speaks of a scheduler that stays RUNNING from some point on; what stops, starts and restarts left
  behind before that point must not matter.
- *Automations.* WF of the steps of a thread that is inside `execute_job`, and SF of the timer loop
  for each job: it comes round every ten seconds and starts a thread for every due row, as the code
  has no pool of threads that could be used up. Administrators, failures and restarts are not fair.
  DueRuns exempts the state in which all execution ids of the model are used.
- *Chat.* WF of the event loop for its callbacks, for the bridge's consumer and for the next step of
  a task, and WF of the end of a model call: every provider has a timeout. Events, stops, deletions
  and faults are not fair; no flush has to give up, since the queue is emptied anyway.

## 4. Proofs

TLC checks the instances of section 3; the theorems hold for all values of the constants that meet
the assumptions of the modules (`ConfigAssumption`, `EdgeAssumption`, `ActionAssumption`,
`NmsAssumption`, `NullAssumption`, `AutomationAssumption`, `ChatAssumption`: bounds are natural
numbers, thresholds are positive, profiles are records of three flags, `NULL` is none of the values it stands beside). TLC evaluates
these assumptions on every run.

| Module | Theorem | States | Argument |
|---|---|---|---|
| `ConnectionManager_proofs` | TypeCorrect | TypeOK | each step keeps types; `LocalsSet` says where a thread's locals are set |
| | PoolBounded | PoolBound | `SafeInv`: a lock of a host or session has one owner, who is where it is held (`SessionLockInv`, `TargetLockInv`); what threads refer to exists (`KnownInv`, `OwnerInv`); reservations are the hosts being opened (`PendingInv`); so the count taken under `_lock` includes every dial under way |
| | ReservationsSound | ReservationsExact | from `PendingInv` and the host locks |
| | PoolRefined | ImplementsPool | each step maps to a step of `SessionPool` or to a stutter, with `SafeInv`: a closer and a runner both own the lock of the session |
| `ConnectionTables_proofs` | LockInProbe | | inductive with `ProbeInv`: only probes are where the table lock is taken for longer than a step, and every way out gives it back |
| | ChainsNeedProbe | ChainNeedsProbe | locks are taken in the order host, session, table: who owns a lock and waits, waits for the table lock, or is a probe (`ChainFollows`) |
| | OnlyDeadlock | | from the same: in every set of threads of which each waits for another one, however many, are a probe and the owner of the session it waits for, so `connection_deadlock` shows the only deadlock there is |
| | OwnersRunWithoutProbes | | with `OpsInv`: without probes nobody waits for a thread that waits |
| | IndexIsFresh | IndexFresh | with `SafeInv` and `ClosedInv`: a session dies under its lock, in the hands of the thread that evicts or closes it, and CLOSED is final |
| | OnlyDeadEvicted | OnlyDeadUnindexed | from the same invariants, step by step |
| | SecretsKept | SecretsSound | from the same invariants; an owner of the session lock never revives a closed session |
| `EdgeGateway_proofs` | TypeCorrect | TypeOK | |
| | BufferBounded | BufferBound | the `n` newest samples of a set are at most `n` (`NewestBounded`) |
| | LossAccounted | NoSilentLoss | `LossInv`, which holds until the queue is cleared: numbers are places in the order of making; every sample up to the cursor is settled, and so is every older sample than one in a batch that is not queued (`GapInv`) |
| | DeliveryRefined | ImplementsDelivery | `SeenInv`: what was accepted has a number up to the cursor and the cursor never falls, so nothing is accepted twice; with `LossInv` samples past the cursor are newer than all delivered ones |
| `ActionEngine_proofs` | TypeCorrect | TypeOK | with `CallInv` for what a request holds |
| | NeverBypassed | NoBypass | `GateInv`: a policy in force was asked for, and a record, plan or checked request that is APPROVED is allowed; waivers never go away |
| | QueueKeepsUp | QueueNotBehind | `QueueInv` with `RecordInv`: an open row belongs to a record nobody has been able to check |
| | ExecutionsWorked | | `StuckGrows`: only the death of a request leaves an action EXECUTING without one that will finish it, and one action for each death at most |
| `NmsEngine_proofs` | TypeCorrect | TypeOK | |
| | OneIncident | OneOpen | the invariant is inductive with the types |
| | DownHasIncident | DownTracked | `SeenInv`: until a device is deleted, only the poll of a device changes its status, so the status a poll has seen in its first transaction is the one it replaces in its second |
| | OutagesDebounced | OutageDebounced | `CountedInv`: the counters of a row agree with the history of polls (`streak`), through skipped polls, profile changes and restarts |
| | SchedulerIsTrue | SchedulerTrue | inductive with the types: the flag of a cycle goes with the cycle, on every way out of it |
| `AutomationEngine_proofs` | TypeCorrect | TypeOK | with `CallInv` for what a call has at hand |
| | NeverTwice | | OneRunAtATime, from `MarkInv`: the running set works as a lock for each job |
| | NoMarkLeft | MarksHeld | `MarkInv` again: a thread that holds a job has marked it |
| | LatestShown | LastIsLatest | `RunInv`: who holds a job owns its latest run until that run is closed |
| | LogMatchesQueue | | PendingIsQueued, from `QueueInv`: the outcome a run is about to store agrees with the queue |
| | LogRefined | KeepsLog | each step maps to a step of `AutomationLog` or to a stutter; `LogInv`: an open run has a thread that holds its job, or was lost, so `MarkInv` forbids a second one; `IdleInv`: a thread has no run before it began one |
| | OpenRunsWorked | | from `LogInv` |
| `ChatTurns_proofs` | TypeCorrect | TypeOK | a turn that may restore or write the context has it (`Writing`) |
| | StopReachesTurn | StopReaches | the cleanup removes only its own entry; a turn begins only after the entry's turn ended, or `piled` is set |
| | StoppedNotStored | StopDiscards | `SavingInv`: a turn about to write was not stopped, and until it has written no receive loop runs |
| | NoStrayEvent | NoStray | `QueueInv`: the event of a turn is a callback before the one that ends its call, so an empty queue is all that is left to wait for |
| | AnswersAreTrue | AnswersTrue | `SavedInv`: both rows of a turn are stored before it is answered, and none after it was dropped; `ContextInv`: contexts hold stored turns and the turn under way |
| | ReplacedByStored | ReplacedOnceStored | `AccountInv`: a stored message is in the transcript, or the turn that replaces it is stored, about to be (`Ahead`: it has cut and not yet added), or was cut short. Rows change by a cut, an addition or a deletion of the session (`RowsStep`); a cut takes only what its turn was to replace (`CutTakes`), because rows stand in the order in which they were stored (`OrderInv`); a turn that has cut stores its message next or is `torn` (`AheadStep`) |
| | NobodyForgotten | | `HandInv`: who waits for a turn, and the entry of the session, name a turn on its way to its end; `WokenInv`: the end of a model call that no task has seen is among the callbacks |
| `ChatContext_proofs` | ContextIsTranscript | ContextMatches | `MatchInv`: what the turn under way has made of the context at each of its places, those between two writes included; the context is cut by counting and the transcript by row ids, which agree (`CutsAgree`) because of `OrderInv`. What a turn that was cut short leaves in the context only covers the transcript, and goes on doing so when both are extended (`CoversAppended`) or cut (`CoversDropped`) |

All invariants, action properties and refinements of the runs whose outcome is "hold" are proved.
Theorems without a property in the table state more than any run checks, and most of them the safety
half of a liveness property.

Liveness (CallsReturn, PoolDrains, CleanQueueDrains, ExecutionEnds, OutageReported, CyclesEnd,
RunsClose, DueRuns, Answered) stays with TLC: tlapm does not reason about ENABLED and fairness. What
is proved instead, for all constants, is that these properties cannot fail for want of somebody to
act: OwnersRunWithoutProbes (a thread that waits for a lock waits for one that runs),
ExecutionsWorked, SchedulerIsTrue (no cycle outlives its loop), OpenRunsWorked and NobodyForgotten
(no lost wake-up, no wait for a turn that has gone). That the one who is to act does act is the
fairness of section 3.2. The four properties the "violated" runs refute are false and have no theorem;
OnlyDeadlock and NoBypass say how far the first and the third of them go.

## 5. Findings and observations

Findings, each shown by a run:

- A credential probe keeps the table lock while it waits for a session lock whose owner waits for
  the table lock (`connection_deadlock`).
- One sample with a value `float()` refuses blocks the queue of a gateway (`edge_poison`).
- The status an execution rests on is not in its UPDATE (`action_race`).
- Incidents are resolved by one path only; recovery by another leaves them open (`nms_recovery`).

Other behaviours of the code that the models contain as they are, and that the properties above
are careful not to deny:

- An expired session is neither closed nor reused when its host is opened again, so two sessions of
  one host may live side by side; shutdown does not stop threads that are opening.
- `clear()` restarts the sequence numbers and the hub keeps its cursor: the next samples are taken
  for duplicates and deleted, which is why NoSilentLoss ends with the first `clear()`. A revocation
  does not reach a request that is past authentication; overflow may drop, and count as dropped, a
  sample the NOC stores.
- `resolve_approval` decides an action in any status, also one that was executed; a decision in the
  administration console does not reach the action it is about; a second policy update is stored
  behind the first and never read; an execution that dies stays EXECUTING.
- A poll in flight stores an incident for a device deleted meanwhile, and may mark a device DOWN
  that was registered again: DownTracked and OutageReported leave out devices that were deleted. A
  scheduler started by a route after a stop stays STARTING, because its task is on an event loop
  that nobody runs; `is_running()` answers true all the while. SchedulerTrue speaks of RUNNING only.
- An automation that is approved is not run: nothing reads the decision, and each time it is due it
  asks again with another row. `approval_required` has no effect on CATEGORY_A actions, and
  `max_retries` and `retry_delay_sec` are never read. No one publishes the three events the engine
  subscribes to, so event triggers never fire. A thread that begins late may run a job a
  second time for one due time. A failed transaction at the start or end of a run leaves the job
  marked until the server restarts; a restart leaves RUNNING rows for good. MarksHeld, RunsClose and
  DueRuns name these exceptions (`lost`).
- Two receive loops of one session that wait for the same stopped turn both begin a turn, and the
  second takes over the entry, so that a stop misses the first (`piled`). A transaction of a turn that
  fails is answered with an error, but leaves the context as it is (`failed`). Both are exceptions of
  ContextMatches.
- The transcript is cut before the replacement is stored (`ws.py:269` and `274`), although `ws.py:15`
  and `chat_sessions.py:300` say that it is cut once the replacing turn has succeeded: that holds of
  the model call, not of the writes. If the process is killed in between, or a transaction fails, the
  replaced turns are gone and nothing stands in their place. Killed between 271 and 274, the stored
  context has a turn the transcript lacks; killed between the two rows, a message has no answer, and
  the context has it. Such a turn is `torn`: ReplacedOnceStored names it as the exception, and for
  ContextMatches it is why the contexts cover the transcript and need not be equal to it.
- A flush that takes more than five seconds gives up, and events arrive
  after the end of their turn (`late`). A deletion between the last check and the writes leaves
  rows of turns without a session.
- The REST route `/chat` uses the context of a session without an entry, so a turn of a socket may
  run at the same time; `/reset` during a turn is undone when the turn is stored. Neither is in
  the model.

## 6. Plan

Ordered by how much the system depends on the part and by how hard it is to test.

Modelled so far: the parts of section 2. Next:

1. `EdgeEnrollment`: tokens used once, approval and revocation, quota; composed with
   `EdgeGateway` through the gateway's status.
2. `TopologyDb`: write coordinator, nested transactions, retries; abstract specification "atomic
   transactions one after the other", which the other modules rely on when they take a transaction
   as a step.
3. The REST routes `/chat` and `/reset` as further actors of `ChatTurns`.
4. `TokenQuota` and `OperationalScheduler`: bounded overspend, one reset per period; lost updates
   between manual and scheduled runs.
5. `ConfigEngine` over a session of `ConnectionManager`, and the debounce trackers of
   `core/nms/alerts.py` in `NmsEngine`.
6. `NmsScheduler` (`core/nms/scheduler.py`), once something other than its tests uses it.
7. Proofs: type correctness and the main invariant of each new module.

## 7. Not modelled, and why

- *Not yet:* the parts of section 6; most of their hazards are listed in `PROJECT.json` with a note.
- *Chat:* the registry of sockets, start and stop of the bridge, voice messages that yield no text,
  the REST routes, titles, and trimming of long contexts.
- *Automations:* event triggers, which nothing fires, and the settings for retries, which nothing
  reads.
- *Data no guard reads:* metrics, command output, passwords, names, diffs and rollback plans,
  latency. Timestamps of outages are data as well.
- *Settings* are constants; changing thresholds while polls run is not modelled.
- *Language models, devices and external services* answer as they like: the parts that only
  translate between them and the user have no protocol to check.
- *Parsing and scoring* (topology discovery, routing, health, risk, SLA) are functions of collected
  data with ordinary unit tests.
- *Front end, voice, files:* input and output.
