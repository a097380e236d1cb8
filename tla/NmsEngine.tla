----------------------------- MODULE NmsEngine -----------------------------
(***************************************************************************)
(* The monitoring engine (core/nms_engine.py, core/nms_models.py): polls,  *)
(* device availability, incidents and the life of the scheduler.           *)
(*                                                                         *)
(* Polls and the scheduler are coroutines of the event loop of the server; *)
(* they run in turn and give way only where they await.  Most routes run   *)
(* in worker threads, which interleave with them at any point, so a poll   *)
(* that has read its row (phase "store") keeps the loop busy but not the   *)
(* threads.  Counters stop at their threshold, which is all they are       *)
(* compared with.  Metrics, names and events are left out, and             *)
(* monitoring_enabled and auto_monitoring_enabled stay on.                 *)
(***************************************************************************)
EXTENDS Naturals

CONSTANTS
  Devices,
  Incidents,          \* bound: rows of nms_incidents
  FailureThreshold,   \* settings: failure_threshold
  RecoveryThreshold,  \* settings: recovery_threshold
  Ops,                \* what operators and the host do
  Profiles,           \* bound: the settings that operators give a device
  NULL

AllOps == {"test", "now", "acknowledge", "profile", "delete", "start", "stop",
           "restart"}

ASSUME NmsAssumption ==
  /\ FailureThreshold \in Nat \ {0}
  /\ RecoveryThreshold \in Nat \ {0}
  /\ Ops \subseteq AllOps
  /\ Profiles \subseteq [paused : BOOLEAN, maintenance : BOOLEAN, managed : BOOLEAN]

Statuses == {"UP", "DEGRADED", "SUSPECTED_DOWN", "DOWN", "UNKNOWN",
             "MONITORING_UNAVAILABLE", "MAINTENANCE"}
SchedulerStates == {"STOPPED", "STARTING", "RUNNING", "STOPPING"}

\* nms_device_profiles; managed: management_mode = 'managed'.
Rows == [status : Statuses, fails : 0..FailureThreshold,
         succs : 0..RecoveryThreshold,
         paused : BOOLEAN, maintenance : BOOLEAN, managed : BOOLEAN]

\* nms_incidents: rows of type device_down.
IncidentRows == [device : Devices, status : {"open", "acknowledged", "resolved"}]

\* Polls in a row with one result, no further than the thresholds tell apart.
Streaks == [misses : 0..FailureThreshold, hits : 0..RecoveryThreshold]
NoStreak == [misses |-> 0, hits |-> 0]

\* A poll in flight; seen is the row it goes by.
Polls == [by : {"cycle", "test"}, phase : {"ping", "manage", "store"},
          seen : Rows, ping : BOOLEAN, mgmt : {"ok", "failed", "none"}]

ASSUME NullAssumption ==
  NULL \notin Rows \cup IncidentRows \cup Polls \cup {"loop", "now", "main", "dead"}

VARIABLES
  row,        \* device -> its profile, NULL if it is not registered
  incident,   \* incident id -> row, NULL if unused
  deleted,    \* history: devices that were deleted at least once
  streak,     \* history: device -> its last polls that missed it, and that met it
  reach,      \* environment: devices that answer a ping
  poll,       \* _device_in_flight: device -> poll in flight, NULL if none
  polling,    \* _is_polling: who runs a cycle
  queued,     \* device -> profile snapshot the cycle has still to poll
  sched,      \* _scheduler_state
  task,       \* _scheduler_task: on the server's loop, or on one that never runs
  loop,       \* where the _scheduler_loop of the server's loop is
  cancelled,  \* it has been cancelled
  threads     \* start_monitoring, stop_monitoring between their two blocks

data == <<row, incident, deleted, streak>>
cycle == <<polling, queued>>
scheduler == <<sched, task, loop, cancelled, threads>>
vars == <<data, reach, poll, cycle, scheduler>>

TypeOK ==
  /\ row \in [Devices -> Rows \cup {NULL}]
  /\ incident \in [Incidents -> IncidentRows \cup {NULL}]
  /\ deleted \subseteq Devices /\ reach \subseteq Devices
  /\ streak \in [Devices -> Streaks]
  /\ poll \in [Devices -> Polls \cup {NULL}]
  /\ polling \in {"loop", "now", NULL}
  /\ queued \in [Devices -> Rows \cup {NULL}]
  /\ sched \in SchedulerStates
  /\ task \in {"main", "dead", NULL}
  /\ loop \in {"none", "created", "ready", "cycle", "sleep"}
  /\ cancelled \in BOOLEAN
  /\ threads \subseteq {"start", "stop"}

Nothing == [d \in Devices |-> NULL]

\* The server starts: start_monitoring has created the task of the scheduler.
Boot ==
  /\ poll' = Nothing /\ polling' = NULL /\ queued' = Nothing
  /\ sched' = "STARTING" /\ task' = "main" /\ loop' = "created"
  /\ cancelled' = FALSE /\ threads' = {}

Init ==
  /\ row = Nothing
  /\ incident = [i \in Incidents |-> NULL]
  /\ deleted = {} /\ reach = Devices
  /\ streak = [d \in Devices |-> NoStreak]
  /\ poll = Nothing /\ polling = NULL /\ queued = Nothing
  /\ sched = "STARTING" /\ task = "main" /\ loop = "created"
  /\ cancelled = FALSE /\ threads = {}

-----------------------------------------------------------------------------
(* determine_device_availability *)

Outage == {"DOWN", "SUSPECTED_DOWN"}

\* The counters of the code have no limit, but nothing tells one that has reached
\* its threshold from a greater one: they are only compared with >=.
Bump(n, limit) == IF n < limit THEN n + 1 ELSE n

\* Fault: a suspected device is not counted on.
MutUnreachable(r) ==
  IF r.status = "SUSPECTED_DOWN" THEN r
  ELSE [r EXCEPT !.status = "SUSPECTED_DOWN", !.fails = 1, !.succs = 0]

Unreachable(r) ==
  LET n == Bump(r.fails, FailureThreshold)
  IN [r EXCEPT !.status = IF n < FailureThreshold THEN "SUSPECTED_DOWN" ELSE "DOWN",
               !.fails = n, !.succs = 0]

\* What management says of a device that answers.
Managed(r, mgmt) ==
  IF ~r.managed \/ mgmt = "ok" THEN "UP"
  ELSE IF mgmt = "failed" THEN "MONITORING_UNAVAILABLE" ELSE "DEGRADED"

Reachable(r, mgmt) ==
  LET n == Bump(r.succs, RecoveryThreshold)
  IN [r EXCEPT !.status = IF @ \in Outage /\ n < RecoveryThreshold
                          THEN @ ELSE Managed(r, mgmt),
               !.fails = 0, !.succs = n]

\* Fault: a device that is suspended keeps its failures.
MutSuspended(r) ==
  [r EXCEPT !.status = IF r.maintenance THEN "MAINTENANCE" ELSE "UNKNOWN", !.succs = 0]

Suspended(r) ==
  [r EXCEPT !.status = IF r.maintenance THEN "MAINTENANCE" ELSE "UNKNOWN",
            !.fails = 0, !.succs = 0]

Assessed(r, ping, mgmt) ==
  IF r.maintenance \/ r.paused THEN Suspended(r)
  ELSE IF ping THEN Reachable(r, mgmt) ELSE Unreachable(r)

-----------------------------------------------------------------------------
(* Polls.  LoopFree: no coroutine is between its two transactions. *)

LoopFree == \A d \in Devices : poll[d] # NULL => poll[d].phase # "store"

NewPoll(d, who, r) ==
  poll' = [poll EXCEPT ![d] = [by |-> who, phase |-> "ping", seen |-> r,
                               ping |-> FALSE, mgmt |-> "none"]]

\* A device of the cycle gets its turn; one that is in flight is skipped.
BeginPoll(d) ==
  /\ LoopFree /\ queued[d] # NULL
  /\ IF poll[d] = NULL THEN NewPoll(d, "cycle", queued[d]) ELSE UNCHANGED poll
  /\ queued' = [queued EXCEPT ![d] = NULL]
  /\ UNCHANGED <<data, reach, polling, scheduler>>

\* POST /devices/{id}/test
Test(d) ==
  /\ "test" \in Ops
  /\ LoopFree /\ row[d] # NULL /\ poll[d] = NULL
  /\ NewPoll(d, "test", row[d])
  /\ UNCHANGED <<data, reach, cycle, scheduler>>

Ping(d) ==
  /\ LoopFree /\ poll[d] # NULL /\ poll[d].phase = "ping"
  /\ poll' = [poll EXCEPT ![d].ping = d \in reach, ![d].phase = "manage"]
  /\ UNCHANGED <<data, reach, cycle, scheduler>>

\* What the RouterOS and SNMP queries give; without a ping they are not made.
Answers(p) == IF ~p.ping THEN {"none"}
              ELSE IF p.seen.managed THEN {"ok", "failed"} ELSE {"ok", "none"}

\* Fault: a poll whose device was deleted meanwhile goes by the row all the same.
MutRead(d) ==
  /\ LoopFree /\ poll[d] # NULL /\ poll[d].phase = "manage"
  /\ \E m \in Answers(poll[d]) :
       poll' = [poll EXCEPT ![d].phase = "store", ![d].mgmt = m, ![d].seen = row[d]]
  /\ UNCHANGED <<data, reach, cycle, scheduler>>

\* The queries end and the first transaction reads the row; the snapshot
\* decides on, whether the device is managed, and on all if there is no row.
Read(d) ==
  /\ LoopFree /\ poll[d] # NULL /\ poll[d].phase = "manage"
  /\ \E m \in Answers(poll[d]) :
       poll' = [poll EXCEPT ![d].phase = "store", ![d].mgmt = m,
                            ![d].seen = IF row[d] = NULL THEN @
                              ELSE [row[d] EXCEPT !.managed = poll[d].seen.managed]]
  /\ UNCHANGED <<data, reach, cycle, scheduler>>

Outcome(d) == Assessed(poll[d].seen, poll[d].ping, poll[d].mgmt)
IsOpen(i, d) == incident[i] # NULL /\ incident[i].device = d /\ incident[i].status = "open"
Unresolved(i, d) ==
  incident[i] # NULL /\ incident[i].device = d /\ incident[i].status # "resolved"

\* Bound: when all ids are in use, a resolved incident is forgotten.
Free(i) ==
  incident[i] # NULL =>
    incident[i].status = "resolved" /\ \A j \in Incidents : incident[j] # NULL

\* Fault: a new incident each time, whether or not one is open.
MutOpenIncident(d) ==
  \E i \in Incidents :
     /\ Free(i)
     /\ incident' = [incident EXCEPT ![i] = [device |-> d, status |-> "open"]]

\* _open_incident_if_not_exists
OpenIncident(d) ==
  IF \E i \in Incidents : IsOpen(i, d) THEN UNCHANGED incident
  ELSE \E i \in Incidents :
         /\ Free(i)
         /\ incident' = [incident EXCEPT ![i] = [device |-> d, status |-> "open"]]

\* _resolve_incident_if_open
ResolveIncidents(d) ==
  incident' = [i \in Incidents |->
                 IF Unresolved(i, d) THEN [incident[i] EXCEPT !.status = "resolved"]
                                     ELSE incident[i]]

\* Fault: only a device that was up gets an incident.
MutGoesDown(old, new) == new = "DOWN" /\ old = "UP"

GoesDown(old, new) == new = "DOWN" /\ old # "DOWN"
ComesUp(old, new) == new = "UP" /\ old \in Outage

\* History: what the polls of d gave since the last other result.
Count(d) ==
  LET suspended == poll[d].seen.maintenance \/ poll[d].seen.paused
      missed == ~suspended /\ ~poll[d].ping
      met == ~suspended /\ poll[d].ping
  IN streak' = [streak EXCEPT ![d] =
       [misses |-> IF missed THEN Bump(@.misses, FailureThreshold) ELSE 0,
        hits |-> IF met THEN Bump(@.hits, RecoveryThreshold) ELSE 0]]

\* The second transaction stores the outcome in the row, if there still is
\* one, and opens or resolves incidents; then the device is not in flight.
Store(d) ==
  /\ poll[d] # NULL /\ poll[d].phase = "store"
  /\ LET old == poll[d].seen.status  new == Outcome(d) IN
       /\ row' = [row EXCEPT ![d] =
                    IF @ = NULL THEN NULL
                    ELSE [@ EXCEPT !.status = new.status, !.fails = new.fails,
                                   !.succs = new.succs]]
       /\ \/ GoesDown(old, new.status) /\ OpenIncident(d)
          \/ ComesUp(old, new.status) /\ ResolveIncidents(d)
          \/ /\ ~GoesDown(old, new.status) /\ ~ComesUp(old, new.status)
             /\ UNCHANGED incident
  /\ IF d \in deleted THEN UNCHANGED streak ELSE Count(d)
  /\ poll' = [poll EXCEPT ![d] = NULL]
  /\ UNCHANGED <<deleted, reach, cycle, scheduler>>

-----------------------------------------------------------------------------
(* poll_all_devices_cycle, from the scheduler or from POST /scheduler/poll-now *)

BeginCycle(who) ==
  /\ polling' = who
  /\ queued' = [d \in Devices |->
                  IF row[d] = NULL THEN NULL
                  ELSE IF row[d].paused THEN NULL ELSE row[d]]

PollNow ==
  /\ "now" \in Ops /\ LoopFree /\ polling = NULL
  /\ BeginCycle("now")
  /\ UNCHANGED <<data, reach, poll, scheduler>>

ByCycle(d) == poll[d] # NULL /\ poll[d].by = "cycle"

EndCycle ==
  /\ LoopFree /\ polling # NULL /\ (polling = "loop" => loop = "cycle")
  /\ \A d \in Devices : queued[d] = NULL /\ ~ByCycle(d)
  /\ polling' = NULL
  /\ loop' = IF polling = "loop" THEN "sleep" ELSE loop
  /\ UNCHANGED <<data, reach, poll, queued, sched, task, cancelled, threads>>

-----------------------------------------------------------------------------
(* _scheduler_loop *)

LoopBegin ==
  /\ LoopFree /\ loop = "created" /\ ~cancelled
  /\ sched' = "RUNNING" /\ loop' = "ready"
  /\ UNCHANGED <<data, reach, poll, cycle, task, cancelled, threads>>

LoopCycle ==
  /\ LoopFree /\ loop = "ready" /\ ~cancelled
  /\ \/ polling = NULL /\ BeginCycle("loop") /\ loop' = "cycle"
     \/ polling # NULL /\ UNCHANGED cycle /\ loop' = "sleep"
  /\ UNCHANGED <<data, reach, poll, sched, task, cancelled, threads>>

LoopWake ==
  /\ LoopFree /\ loop = "sleep" /\ ~cancelled
  /\ loop' = "ready"
  /\ UNCHANGED <<data, reach, poll, cycle, sched, task, cancelled, threads>>

\* Fault: _is_polling is reset on success only, not in a finally block.
MutAbortCycle ==
  /\ poll' = [d \in Devices |-> IF ByCycle(d) THEN NULL ELSE poll[d]]
  /\ queued' = Nothing /\ UNCHANGED polling

\* The cycle and its polls are cancelled with the task that waits for them.
AbortCycle ==
  /\ poll' = [d \in Devices |-> IF ByCycle(d) THEN NULL ELSE poll[d]]
  /\ queued' = Nothing /\ polling' = NULL

\* CancelledError reaches the task.  One that has not begun does not even run
\* its finally block; stop_event is set as well and adds nothing.
LoopCancel ==
  /\ LoopFree /\ loop # "none" /\ cancelled
  /\ IF loop = "cycle" THEN AbortCycle ELSE UNCHANGED <<poll, cycle>>
  /\ IF loop = "created" THEN UNCHANGED <<sched, task>>
     ELSE sched' = "STOPPED" /\ task' = NULL
  /\ loop' = "none" /\ cancelled' = FALSE
  /\ UNCHANGED <<data, reach, threads>>

-----------------------------------------------------------------------------
(* start_monitoring and stop_monitoring, from worker threads *)

IsRunning == sched \in {"RUNNING", "STARTING"} /\ task # NULL

Start ==
  /\ "start" \in Ops \ threads
  /\ ~IsRunning /\ sched # "STARTING"
  /\ sched' = "STARTING" /\ threads' = threads \cup {"start"}
  /\ UNCHANGED <<data, reach, poll, cycle, task, loop, cancelled>>

\* Fault: RUNNING is shown as soon as the task is made, not when it begins.
MutCreateTask ==
  /\ "start" \in threads
  /\ task' = "dead" /\ sched' = "RUNNING" /\ threads' = threads \ {"start"}
  /\ UNCHANGED <<data, reach, poll, cycle, loop, cancelled>>

\* A worker thread has no event loop, so the task goes to a new one, which
\* nobody runs.
CreateTask ==
  /\ "start" \in threads
  /\ task' = "dead" /\ threads' = threads \ {"start"}
  /\ UNCHANGED <<data, reach, poll, cycle, sched, loop, cancelled>>

Stop ==
  /\ "stop" \in Ops \ threads
  /\ sched \notin {"STOPPED", "STOPPING"}
  /\ sched' = "STOPPING" /\ task' = NULL
  /\ cancelled' = (cancelled \/ (task = "main" /\ loop # "none"))
  /\ threads' = threads \cup {"stop"}
  /\ UNCHANGED <<data, reach, poll, cycle, loop>>

Stopped ==
  /\ "stop" \in threads
  /\ sched' = "STOPPED" /\ threads' = threads \ {"stop"}
  /\ UNCHANGED <<data, reach, poll, cycle, task, loop, cancelled>>

-----------------------------------------------------------------------------
(* Other routes, the network and the host *)

\* upsert_node with upsert_device_profile, or the sync of discovered nodes
Register(d) ==
  /\ row[d] = NULL
  /\ \E m \in BOOLEAN :
       row' = [row EXCEPT ![d] = [status |-> "UNKNOWN", fails |-> 0, succs |-> 0,
                 paused |-> FALSE, maintenance |-> FALSE, managed |-> m]]
  /\ UNCHANGED <<incident, deleted, streak, reach, poll, cycle, scheduler>>

\* delete_node for one device, clear_topology for all
Delete(D) ==
  /\ "delete" \in Ops
  /\ row' = [d \in Devices |-> IF d \in D THEN NULL ELSE row[d]]
  /\ incident' = [i \in Incidents |->
                    IF incident[i] # NULL /\ incident[i].device \in D
                    THEN NULL ELSE incident[i]]
  /\ deleted' = deleted \cup D
  /\ streak' = [d \in Devices |-> IF d \in D THEN NoStreak ELSE streak[d]]
  /\ UNCHANGED <<reach, poll, cycle, scheduler>>

\* update_device_profile
SetProfile(d) ==
  /\ "profile" \in Ops /\ row[d] # NULL
  /\ \E p \in Profiles :
       row' = [row EXCEPT ![d] = [@ EXCEPT !.paused = p.paused,
                                           !.maintenance = p.maintenance,
                                           !.managed = p.managed]]
  /\ UNCHANGED <<incident, deleted, streak, reach, poll, cycle, scheduler>>

\* acknowledge_incident does not look at the status.
Acknowledge(i) ==
  /\ "acknowledge" \in Ops /\ incident[i] # NULL
  /\ incident' = [incident EXCEPT ![i].status = "acknowledged"]
  /\ UNCHANGED <<row, deleted, streak, reach, poll, cycle, scheduler>>

Flip(d) ==
  /\ reach' = IF d \in reach THEN reach \ {d} ELSE reach \cup {d}
  /\ UNCHANGED <<data, poll, cycle, scheduler>>

Restart ==
  /\ "restart" \in Ops
  /\ Boot
  /\ UNCHANGED <<data, reach>>

-----------------------------------------------------------------------------
Poll(d) == Ping(d) \/ Read(d) \/ Store(d)
Loop == LoopBegin \/ LoopCycle \/ LoopWake \/ LoopCancel
Thread == CreateTask \/ Stopped

Next ==
  \/ \E d \in Devices : BeginPoll(d) \/ Poll(d) \/ Test(d)
  \/ \E d \in Devices : Register(d) \/ SetProfile(d) \/ Flip(d)
  \/ \E d \in Devices : Delete({d})
  \/ Delete(Devices)
  \/ \E i \in Incidents : Acknowledge(i)
  \/ PollNow \/ EndCycle \/ Loop \/ Start \/ Stop \/ Thread \/ Restart

Spec == Init /\ [][Next]_vars

\* asyncio runs what is ready in turn, every query has a timeout, and threads
\* that have begun run on.
FairSpec ==
  /\ Spec
  /\ \A d \in Devices : SF_vars(BeginPoll(d)) /\ SF_vars(Poll(d))
  /\ SF_vars(EndCycle) /\ SF_vars(Loop) /\ WF_vars(Thread)

-----------------------------------------------------------------------------
(* Properties *)

\* However polls, acknowledgements and profile changes interleave, a device
\* never has two open incidents (_open_incident_if_not_exists).
OneOpen ==
  \A d \in Devices, i, j \in Incidents : IsOpen(i, d) /\ IsOpen(j, d) => i = j

\* A device that was never deleted and is DOWN has an incident that is not
\* resolved: status and incidents change together, on what was read in an
\* earlier transaction (_poll_single_device_impl).
DownTracked ==
  \A d \in Devices \ deleted : row[d] # NULL /\ row[d].status = "DOWN"
                               => \E i \in Incidents : Unresolved(i, d)

\* A device that was never deleted goes DOWN only with the FailureThreshold-th
\* poll in a row that misses it, and leaves an outage as a reachable device only
\* with the RecoveryThreshold-th that meets it: cycles, tests, routes that change
\* the profile and restarts neither lose a poll from the counts nor count one
\* twice (determine_device_availability, _device_in_flight).
OutageDebounced ==
  [][\A d \in Devices \ deleted' : row[d] # NULL /\ row'[d] # NULL =>
       LET old == row[d].status  new == row'[d].status IN
       /\ GoesDown(old, new) => streak'[d].misses = FailureThreshold
       /\ old \in Outage /\ new \in {"UP", "DEGRADED", "MONITORING_UNAVAILABLE"}
            => streak'[d].hits = RecoveryThreshold]_vars

\* The scheduler shows RUNNING only while its loop is there, and _is_polling is
\* set only by a cycle that is still under way: no stop, cancellation or restart
\* leaves a state or a flag behind, and no poll of a cycle outlives it.
SchedulerTrue ==
  /\ sched = "RUNNING" => loop \in {"ready", "cycle", "sleep"}
  /\ polling = "loop" <=> loop = "cycle"
  /\ polling = NULL => \A d \in Devices : queued[d] = NULL /\ ~ByCycle(d)

\* However a cycle ends, the next one can begin (poll_all_devices_cycle).
CyclesEnd == polling # NULL ~> polling = NULL

\* While the scheduler runs, a device that is in use, neither paused nor in
\* maintenance, and stays unreachable gets an incident, whatever tests, requests
\* for cycles, stops and restarts came before or come in between.
Watched(d) == row[d] # NULL /\ ~row[d].paused /\ ~row[d].maintenance
OutageReported ==
  \A d \in Devices :
    <>[](Watched(d) /\ d \notin deleted \cup reach /\ sched = "RUNNING")
      => <>(\E i \in Incidents : Unresolved(i, d))

\* "Recovers to UP, incident automatically marked resolved!"
\* tests/test_nms.py:393.
RecoveryResolves ==
  \A d \in Devices, i \in Incidents :
    row[d] # NULL /\ row[d].status = "UP" => ~IsOpen(i, d)
=============================================================================
