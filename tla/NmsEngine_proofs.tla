-------------------------- MODULE NmsEngine_proofs --------------------------
(***************************************************************************)
(* For any number of devices and incidents, any thresholds and all         *)
(* interleavings of polls, cycles, routes and restarts: a device has at    *)
(* most one open incident, and, until it is deleted, one that is not       *)
(* resolved for as long as it is DOWN; it goes DOWN only with a run of     *)
(* polls that missed it as long as the threshold.  The scheduler's state   *)
(* and the flag of a cycle never outlive the loop and the cycle.           *)
(*                                                                         *)
(* A poll decides on the row it read in an earlier transaction.  SeenInv   *)
(* says why that is enough: only the poll of a device changes its status,  *)
(* so the status it has seen is the one it replaces.  A deletion in        *)
(* between breaks exactly that.  The same goes for the counters of a row,  *)
(* which therefore agree with the history of polls (streak).               *)
(***************************************************************************)
EXTENDS NmsEngine, TLAPS

-----------------------------------------------------------------------------
(* Types *)

DataType ==
  /\ row \in [Devices -> Rows \cup {NULL}]
  /\ incident \in [Incidents -> IncidentRows \cup {NULL}]
  /\ deleted \subseteq Devices
  /\ streak \in [Devices -> Streaks]
PollType ==
  /\ poll \in [Devices -> Polls \cup {NULL}]
  /\ queued \in [Devices -> Rows \cup {NULL}]
LoopType ==
  /\ reach \subseteq Devices
  /\ polling \in {"loop", "now", NULL}
  /\ sched \in SchedulerStates
  /\ task \in {"main", "dead", NULL}
  /\ loop \in {"none", "created", "ready", "cycle", "sleep"}
  /\ cancelled \in BOOLEAN
  /\ threads \subseteq {"start", "stop"}

LEMMA TypeParts == TypeOK <=> DataType /\ PollType /\ LoopType
BY DEF TypeOK, DataType, PollType, LoopType

\* Storing an availability in a row.
LEMMA RowUpdate ==
  ASSUME NEW r \in Rows, NEW s \in Statuses, NEW f \in 0..FailureThreshold,
         NEW c \in 0..RecoveryThreshold
  PROVE  [r EXCEPT !.status = s, !.fails = f, !.succs = c] \in Rows
BY DEF Rows

\* A new assessment of a row is a row.
LEMMA AssessedType ==
  ASSUME NEW r \in Rows, NEW p \in BOOLEAN, NEW m \in {"ok", "failed", "none"}
  PROVE  Assessed(r, p, m) \in Rows
<1> DEFINE f == Bump(r.fails, FailureThreshold)
           c == Bump(r.succs, RecoveryThreshold)
<1>1. 0 \in 0..FailureThreshold /\ 0 \in 0..RecoveryThreshold
  BY NmsAssumption DEF NmsAssumption
<1>2. r.status \in Statuses /\ r.fails \in 0..FailureThreshold
      /\ r.succs \in 0..RecoveryThreshold
  BY DEF Rows
<1>3. f \in 0..FailureThreshold /\ c \in 0..RecoveryThreshold
  BY <1>2, NmsAssumption DEF Bump, NmsAssumption
<1>4. Suspended(r) \in Rows
  <2>1. (IF r.maintenance THEN "MAINTENANCE" ELSE "UNKNOWN") \in Statuses
    BY DEF Statuses
  <2> QED BY <1>1, <2>1, RowUpdate DEF Suspended
<1>5. Unreachable(r) \in Rows
  <2>1. (IF f < FailureThreshold THEN "SUSPECTED_DOWN" ELSE "DOWN") \in Statuses
    BY DEF Statuses
  <2> HIDE DEF f
  <2>2. [r EXCEPT !.status = IF f < FailureThreshold THEN "SUSPECTED_DOWN" ELSE "DOWN",
                  !.fails = f, !.succs = 0] \in Rows
    BY <1>1, <1>3, <2>1, RowUpdate
  <2> QED BY <2>2 DEF Unreachable, f
<1>6. Managed(r, m) \in Statuses
  BY DEF Managed, Statuses
<1>7. Reachable(r, m) \in Rows
  <2> DEFINE s == IF r.status \in Outage /\ c < RecoveryThreshold
                  THEN r.status ELSE Managed(r, m)
  <2>1. s \in Statuses
    BY <1>2, <1>6
  <2> HIDE DEF s, c
  <2>2. [r EXCEPT !.status = s, !.fails = 0, !.succs = c] \in Rows
    BY <1>1, <1>3, <2>1, RowUpdate
  <2> QED BY <2>2 DEF Reachable, s, c
<1> QED BY <1>4, <1>5, <1>7 DEF Assessed

\* The parts of a poll in flight.
LEMMA PollParts ==
  ASSUME NEW p \in Polls
  PROVE  /\ p.seen \in Rows /\ p.ping \in BOOLEAN /\ p.mgmt \in {"ok", "failed", "none"}
         /\ p.by \in {"cycle", "test"} /\ p.phase \in {"ping", "manage", "store"}
BY DEF Polls

LEMMA OutcomeType ==
  ASSUME PollType, NEW d \in Devices, poll[d] # NULL
  PROVE  Outcome(d) \in Rows /\ poll[d] \in Polls
<1>1. poll[d] \in Polls
  BY DEF PollType
<1> QED BY <1>1, PollParts, AssessedType DEF Outcome

LEMMA NewPollType ==
  ASSUME PollType, NEW d \in Devices, NEW who \in {"cycle", "test"},
         NEW r \in Rows, NewPoll(d, who, r)
  PROVE  poll' \in [Devices -> Polls \cup {NULL}]
<1>1. [by |-> who, phase |-> "ping", seen |-> r, ping |-> FALSE, mgmt |-> "none"] \in Polls
  BY DEF Polls
<1> QED BY <1>1 DEF NewPoll, PollType

LEMMA NoStreakType == NoStreak \in Streaks
BY NmsAssumption DEF NoStreak, Streaks, NmsAssumption

LEMMA InitTypes == ASSUME Init PROVE TypeOK
BY NoStreakType DEF Init, TypeOK, Nothing, SchedulerStates

LEMMA CountType ==
  ASSUME NEW d \in Devices, streak \in [Devices -> Streaks], Count(d)
  PROVE  streak' \in [Devices -> Streaks]
<1>1. ASSUME NEW n \in 0..FailureThreshold
      PROVE  Bump(n, FailureThreshold) \in 0..FailureThreshold
  BY NmsAssumption DEF Bump, NmsAssumption
<1>2. ASSUME NEW n \in 0..RecoveryThreshold
      PROVE  Bump(n, RecoveryThreshold) \in 0..RecoveryThreshold
  BY NmsAssumption DEF Bump, NmsAssumption
<1>3. 0 \in 0..FailureThreshold /\ 0 \in 0..RecoveryThreshold
  BY NmsAssumption DEF NmsAssumption
<1> QED BY <1>1, <1>2, <1>3 DEF Count, Streaks

\* Every step keeps the tables of devices and incidents typed.
LEMMA DataStep ==
  ASSUME TypeOK, [Next]_vars
  PROVE  DataType'
<1>0. DataType /\ PollType
  BY TypeParts
<1> USE DEF DataType
<1>1. ASSUME NEW d \in Devices, Store(d) PROVE DataType'
  <2>1. Outcome(d) \in Rows
    BY <1>0, <1>1, OutcomeType DEF Store
  <2>2. row' \in [Devices -> Rows \cup {NULL}]
    BY <1>0, <1>1, <2>1 DEF Store, Rows
  <2>a. UNCHANGED deleted /\ streak' \in [Devices -> Streaks]
    BY <1>0, <1>1, CountType DEF Store
  <2>3. CASE OpenIncident(d)
    <3>1. incident' \in [Incidents -> IncidentRows \cup {NULL}]
      BY <1>0, <2>3 DEF OpenIncident, IncidentRows
    <3> QED BY <1>0, <2>2, <2>a, <3>1
  <2>4. CASE ResolveIncidents(d)
    <3>1. ASSUME NEW i \in Incidents, Unresolved(i, d)
          PROVE  [incident[i] EXCEPT !.status = "resolved"] \in IncidentRows
      BY <1>0, <3>1 DEF Unresolved, IncidentRows
    <3> QED BY <1>0, <2>2, <2>a, <2>4, <3>1 DEF ResolveIncidents
  <2>5. CASE UNCHANGED incident
    BY <1>0, <2>2, <2>a, <2>5
  <2> QED BY <1>1, <2>3, <2>4, <2>5 DEF Store
<1>2. ASSUME NEW d \in Devices, Register(d) PROVE DataType'
  <2>1. ASSUME NEW m \in BOOLEAN
        PROVE  [status |-> "UNKNOWN", fails |-> 0, succs |-> 0, paused |-> FALSE,
                maintenance |-> FALSE, managed |-> m] \in Rows
    BY NmsAssumption DEF Rows, Statuses, NmsAssumption
  <2> QED BY <1>0, <1>2, <2>1 DEF Register
<1>3. ASSUME NEW d \in Devices, SetProfile(d) PROVE DataType'
  <2>1. ASSUME NEW p \in Profiles
        PROVE  [row[d] EXCEPT !.paused = p.paused, !.maintenance = p.maintenance,
                              !.managed = p.managed] \in Rows
    BY <1>0, <1>3, <2>1, NmsAssumption DEF SetProfile, Rows, NmsAssumption
  <2>2. row' \in [Devices -> Rows \cup {NULL}]
    BY <1>0, <1>3, <2>1 DEF SetProfile
  <2> QED BY <1>0, <1>3, <2>2 DEF SetProfile
<1>4. ASSUME NEW D \in SUBSET Devices, Delete(D) PROVE DataType'
  BY <1>0, <1>4, NoStreakType DEF Delete
<1>5. ASSUME NEW i \in Incidents, Acknowledge(i) PROVE DataType'
  <2>1. [incident[i] EXCEPT !.status = "acknowledged"] \in IncidentRows
    BY <1>0, <1>5 DEF Acknowledge, IncidentRows
  <2> QED BY <1>0, <1>5, <2>1 DEF Acknowledge
<1>6. ASSUME UNCHANGED data PROVE DataType'
  BY <1>0, <1>6 DEF data
<1> QED
  BY <1>1, <1>2, <1>3, <1>4, <1>5, <1>6
  DEF Next, Poll, BeginPoll, Ping, Read, Test, Flip, PollNow, EndCycle, Loop, LoopBegin,
      LoopCycle, LoopWake, LoopCancel, Start, Stop, Thread, CreateTask, Stopped, Restart,
      vars

\* Every step keeps the polls in flight and the queue of a cycle typed.
LEMMA PollStep ==
  ASSUME TypeOK, [Next]_vars
  PROVE  PollType'
<1>0. DataType /\ PollType
  BY TypeParts
<1>a. PollType' <=> /\ poll' \in [Devices -> Polls \cup {NULL}]
                    /\ queued' \in [Devices -> Rows \cup {NULL}]
  BY DEF PollType
<1>b. NULL \notin Polls
  BY NullAssumption DEF NullAssumption
<1>1. ASSUME NEW d \in Devices, BeginPoll(d) PROVE PollType'
  <2>1. queued[d] \in Rows
    BY <1>0, <1>1 DEF BeginPoll, PollType
  <2>2. poll' \in [Devices -> Polls \cup {NULL}]
    BY <1>0, <1>1, <2>1, NewPollType DEF BeginPoll, PollType
  <2> QED BY <1>a, <1>0, <1>1, <2>2 DEF BeginPoll, PollType
<1>2. ASSUME NEW d \in Devices, Test(d) PROVE PollType'
  <2>1. row[d] \in Rows
    BY <1>0, <1>2 DEF Test, DataType
  <2>2. poll' \in [Devices -> Polls \cup {NULL}]
    BY <1>0, <1>2, <2>1, NewPollType DEF Test
  <2> QED BY <1>a, <1>0, <1>2, <2>2 DEF Test, PollType, cycle
<1>3. ASSUME NEW d \in Devices, Ping(d) PROVE PollType'
  <2>1. poll[d] \in Polls
    BY <1>0, <1>3 DEF Ping, PollType
  <2>2. ASSUME NEW b \in BOOLEAN
        PROVE  [poll[d] EXCEPT !.ping = b, !.phase = "manage"] \in Polls
    BY <2>1 DEF Polls
  <2> DEFINE b == d \in reach
  <2>3. b \in BOOLEAN
    OBVIOUS
  <2>4. poll' = [poll EXCEPT ![d] = [poll[d] EXCEPT !.ping = b, !.phase = "manage"]]
    BY <1>0, <1>3 DEF Ping, PollType
  <2>5. [poll[d] EXCEPT !.ping = b, !.phase = "manage"] \in Polls
    BY <2>2, <2>3
  <2> HIDE DEF b
  <2> QED BY <1>a, <1>0, <1>3, <2>4, <2>5 DEF Ping, PollType, cycle
<1>4. ASSUME NEW d \in Devices, Read(d) PROVE PollType'
  <2>1. poll[d] \in Polls
    BY <1>0, <1>4 DEF Read, PollType
  <2> DEFINE s == IF row[d] = NULL THEN poll[d].seen
                  ELSE [row[d] EXCEPT !.managed = poll[d].seen.managed]
  <2>2. s \in Rows
    <3>1. poll[d].seen \in Rows
      BY <2>1, PollParts
    <3>2. ASSUME row[d] # NULL
          PROVE  [row[d] EXCEPT !.managed = poll[d].seen.managed] \in Rows
      BY <1>0, <3>1, <3>2 DEF DataType, Rows
    <3> QED BY <3>1, <3>2
  <2>3. PICK m \in Answers(poll[d]) :
          poll' = [poll EXCEPT ![d].phase = "store", ![d].mgmt = m, ![d].seen = s]
    BY <1>4 DEF Read
  <2>4. m \in {"ok", "failed", "none"}
    BY <2>3 DEF Answers
  <2> HIDE DEF s
  <2>5. [poll[d] EXCEPT !.phase = "store", !.mgmt = m, !.seen = s] \in Polls
    BY <2>1, <2>2, <2>4 DEF Polls
  <2>6. poll' = [poll EXCEPT ![d] =
                   [poll[d] EXCEPT !.phase = "store", !.mgmt = m, !.seen = s]]
    BY <1>0, <2>3 DEF PollType
  <2> QED BY <1>a, <1>0, <1>4, <2>5, <2>6 DEF Read, PollType, cycle
<1>5. ASSUME NEW d \in Devices, Store(d) PROVE PollType'
  BY <1>a, <1>0, <1>5 DEF Store, PollType, cycle
<1>6. ASSUME NEW who, BeginCycle(who), UNCHANGED poll PROVE PollType'
  BY <1>a, <1>0, <1>6 DEF BeginCycle, DataType, PollType
<1>7. ASSUME AbortCycle PROVE PollType'
  BY <1>a, <1>0, <1>7 DEF AbortCycle, Nothing, PollType
<1>8. ASSUME UNCHANGED <<poll, queued>> PROVE PollType'
  BY <1>0, <1>8 DEF PollType
<1>9. ASSUME Restart PROVE PollType'
  BY <1>a, <1>9 DEF Restart, Boot, Nothing
<1>10. ASSUME LoopCancel PROVE PollType'
  BY <1>7, <1>8, <1>10 DEF LoopCancel, cycle
<1>11. ASSUME LoopCycle PROVE PollType'
  BY <1>6, <1>8, <1>11 DEF LoopCycle, cycle
<1>12. ASSUME PollNow PROVE PollType'
  BY <1>6, <1>12 DEF PollNow
<1>13. ASSUME EndCycle \/ LoopBegin \/ LoopWake \/ Start \/ Stop \/ Thread PROVE PollType'
  BY <1>8, <1>13 DEF EndCycle, LoopBegin, LoopWake, Start, Stop, Thread, CreateTask, Stopped, cycle
<1>14. ASSUME \/ \E d \in Devices : Register(d) \/ SetProfile(d) \/ Flip(d)
              \/ \E D \in SUBSET Devices : Delete(D)
              \/ \E i \in Incidents : Acknowledge(i)
       PROVE  PollType'
  BY <1>8, <1>14 DEF Register, SetProfile, Flip, Delete, Acknowledge, cycle
<1>15. CASE UNCHANGED vars
  BY <1>8, <1>15 DEF vars, cycle
<1> QED
  BY <1>1, <1>2, <1>3, <1>4, <1>5, <1>9, <1>10, <1>11, <1>12, <1>13, <1>14, <1>15
  DEF Next, Poll, Loop

\* Every step keeps the rest of the state typed.
LEMMA LoopStep ==
  ASSUME TypeOK, [Next]_vars
  PROVE  LoopType'
<1>0. LoopType
  BY TypeParts
<1> USE <1>0 DEF LoopType, SchedulerStates, cycle, scheduler
<1>1. ASSUME NEW d \in Devices, BeginPoll(d) \/ Poll(d) \/ Test(d) PROVE LoopType'
  BY <1>1 DEF BeginPoll, Poll, Ping, Read, Store, Test
<1>2. ASSUME NEW d \in Devices, Register(d) \/ SetProfile(d) \/ Flip(d) PROVE LoopType'
  BY <1>2 DEF Register, SetProfile, Flip
<1>3. ASSUME NEW D, Delete(D) PROVE LoopType'
  BY <1>3 DEF Delete
<1>4. ASSUME NEW i \in Incidents, Acknowledge(i) PROVE LoopType'
  BY <1>4 DEF Acknowledge
<1>5. ASSUME PollNow \/ EndCycle \/ LoopCycle PROVE LoopType'
  BY <1>5 DEF PollNow, EndCycle, LoopCycle, BeginCycle
<1>6. ASSUME LoopBegin \/ LoopWake PROVE LoopType'
  BY <1>6 DEF LoopBegin, LoopWake
<1>7. ASSUME LoopCancel PROVE LoopType'
  BY <1>7 DEF LoopCancel, AbortCycle
<1>8. ASSUME Start \/ Stop \/ Thread PROVE LoopType'
  BY <1>8 DEF Start, Stop, Thread, CreateTask, Stopped
<1>9. ASSUME Restart PROVE LoopType'
  BY <1>9 DEF Restart, Boot
<1>10. CASE UNCHANGED vars
  BY <1>10 DEF vars
<1> QED
  BY <1>1, <1>2, <1>3, <1>4, <1>5, <1>6, <1>7, <1>8, <1>9, <1>10 DEF Next, Loop

\* Rows, incidents, polls and the scheduler stay within their types in every
\* run (core/nms_models.py), for all thresholds.
THEOREM TypeCorrect == Spec => []TypeOK
<1>1. ASSUME TypeOK, [Next]_vars PROVE TypeOK'
  <2>1. DataType' /\ PollType' /\ LoopType'
    BY <1>1, DataStep, PollStep, LoopStep
  <2> QED BY <2>1 DEF TypeOK, DataType, PollType, LoopType
<1> QED BY InitTypes, <1>1, PTL DEF Spec

-----------------------------------------------------------------------------
(* At most one open incident *)

\* What Store does to incidents.
LEMMA StoreIncidents ==
  ASSUME NEW d \in Devices, Store(d)
  PROVE  OpenIncident(d) \/ ResolveIncidents(d) \/ UNCHANGED incident
BY DEF Store

\* What leaves incidents alone.
LEMMA IncidentFrame ==
  ASSUME [Next]_vars
  PROVE  \/ UNCHANGED incident
         \/ \E d \in Devices : Store(d)
         \/ \E D \in SUBSET Devices : Delete(D)
         \/ \E i \in Incidents : Acknowledge(i)
BY DEF Next, Poll, BeginPoll, Ping, Read, Test, Register, SetProfile, Flip, PollNow,
       EndCycle, Loop, LoopBegin, LoopCycle, LoopWake, LoopCancel, Start, Stop, Thread,
       CreateTask, Stopped, Restart, vars, data

LEMMA OneOpenStep ==
  ASSUME TypeOK, OneOpen, [Next]_vars
  PROVE  OneOpen'
<1>0. incident \in [Incidents -> IncidentRows \cup {NULL}]
  BY DEF TypeOK
<1>1. ASSUME NEW d \in Devices, Store(d) PROVE OneOpen'
  <2>1. CASE OpenIncident(d)
    <3>1. CASE UNCHANGED incident
      BY <3>1 DEF OneOpen, IsOpen
    <3>2. CASE ~UNCHANGED incident
      <4>1. \A i \in Incidents : ~IsOpen(i, d)
        BY <2>1, <3>2 DEF OpenIncident
      <4>2. PICK k \in Incidents :
              incident' = [incident EXCEPT ![k] = [device |-> d, status |-> "open"]]
        BY <2>1, <3>2 DEF OpenIncident
      <4>3. \A e \in Devices, i \in Incidents :
              IsOpen(i, e)' => (i = k /\ e = d) \/ (i # k /\ IsOpen(i, e))
        BY <1>0, <4>2 DEF IsOpen
      <4> QED BY <4>1, <4>3 DEF OneOpen
    <3> QED BY <3>1, <3>2
  <2>2. CASE ResolveIncidents(d)
    <3>1. \A e \in Devices, i \in Incidents : IsOpen(i, e)' => IsOpen(i, e)
      <4> SUFFICES ASSUME NEW e \in Devices, NEW i \in Incidents, IsOpen(i, e)'
                   PROVE  IsOpen(i, e)
        OBVIOUS
      <4>1. CASE Unresolved(i, d)
        <5>1. incident[i] \in IncidentRows
          BY <1>0, <4>1 DEF Unresolved
        <5>2. incident'[i] = [incident[i] EXCEPT !.status = "resolved"]
          BY <2>2, <4>1 DEF ResolveIncidents
        <5> QED BY <5>1, <5>2 DEF IsOpen, IncidentRows
      <4>2. CASE ~Unresolved(i, d)
        BY <2>2, <4>2 DEF ResolveIncidents, IsOpen
      <4> QED BY <4>1, <4>2
    <3> QED BY <3>1 DEF OneOpen
  <2>3. CASE UNCHANGED incident
    BY <2>3 DEF OneOpen, IsOpen
  <2> QED BY <1>1, <2>1, <2>2, <2>3, StoreIncidents
<1>2. ASSUME NEW D, Delete(D) PROVE OneOpen'
  BY <1>0, <1>2 DEF Delete, OneOpen, IsOpen
<1>3. ASSUME NEW i \in Incidents, Acknowledge(i) PROVE OneOpen'
  <2>1. \A e \in Devices, j \in Incidents : IsOpen(j, e)' => IsOpen(j, e)
    BY <1>0, <1>3, NullAssumption
    DEF Acknowledge, IsOpen, IncidentRows, NullAssumption
  <2> QED BY <2>1 DEF OneOpen
<1>4. CASE UNCHANGED incident
  BY <1>4 DEF OneOpen, IsOpen
<1> QED BY <1>1, <1>2, <1>3, <1>4, IncidentFrame

\* A device never has two open incidents, whatever polls, cycles, routes and
\* restarts do (_open_incident_if_not_exists).
THEOREM OneIncident == Spec => []OneOpen
<1>1. Init => OneOpen
  BY DEF Init, OneOpen, IsOpen
<1> QED BY <1>1, TypeCorrect, OneOpenStep, PTL DEF Spec

-----------------------------------------------------------------------------
(* A device that is DOWN has an incident *)

\* What a poll decides on: the status and the two counters.
Alike(r, x) == r.status = x.status /\ r.fails = x.fails /\ r.succs = x.succs

\* A poll, and a device of a cycle, has a row; a poll that is about to store
\* has seen the status and the counters it replaces.
Seen(d) ==
  /\ queued[d] # NULL => row[d] # NULL
  /\ poll[d] # NULL => row[d] # NULL
  /\ poll[d] # NULL /\ poll[d].phase = "store" => Alike(poll[d].seen, row[d])
SeenInv == \A d \in Devices \ deleted : Seen(d)

Tracked(d) == \E i \in Incidents : Unresolved(i, d)
Down(d) == row[d] # NULL /\ row[d].status = "DOWN"

\* No device is deleted and comes back.
LEMMA DeletedGrows == ASSUME [Next]_vars PROVE deleted \subseteq deleted'
BY DEF Next, Poll, BeginPoll, Ping, Read, Store, Test, Register, SetProfile, Flip, PollNow,
       EndCycle, Loop, LoopBegin, LoopCycle, LoopWake, LoopCancel, Start, Stop, Thread,
       CreateTask, Stopped, Restart, Delete, Acknowledge, vars, data

\* A new profile leaves the status and the counters alone.
LEMMA ProfileStep ==
  ASSUME TypeOK, NEW d \in Devices, SetProfile(d)
  PROVE  row'[d] # NULL /\ Alike(row'[d], row[d])
<1>1. row \in [Devices -> Rows \cup {NULL}] /\ row[d] \in Rows
  BY DEF TypeOK, SetProfile
<1>2. PICK p \in Profiles :
        row'[d] = [row[d] EXCEPT !.paused = p.paused, !.maintenance = p.maintenance,
                                 !.managed = p.managed]
  BY <1>1 DEF SetProfile
<1>3. row'[d] \in Rows /\ Alike(row'[d], row[d])
  BY <1>1, <1>2, NmsAssumption DEF Rows, Alike, NmsAssumption
<1> QED BY <1>3, NullAssumption DEF NullAssumption

\* What a poll of device d has seen stays right until d is deleted.
LEMMA SeenStep ==
  ASSUME TypeOK, NEW d \in Devices, d \notin deleted', Seen(d), [Next]_vars
  PROVE  Seen(d)'
<1>0. /\ row \in [Devices -> Rows \cup {NULL}]
      /\ poll \in [Devices -> Polls \cup {NULL}] /\ poll' \in [Devices -> Polls \cup {NULL}]
      /\ queued \in [Devices -> Rows \cup {NULL}]
      /\ NULL \notin Polls
  BY PollStep, NullAssumption DEF TypeOK, PollType, NullAssumption
<1>f. ASSUME row[d] # NULL => row'[d] # NULL /\ Alike(row'[d], row[d]),
             poll'[d] \in {poll[d], NULL}, queued'[d] \in {queued[d], NULL}
      PROVE  Seen(d)'
  BY <1>f DEF Seen, Alike
<1>e. Alike(row[d], row[d])
  BY DEF Alike
<1>1. ASSUME NEW e \in Devices, BeginPoll(e) \/ Test(e) PROVE Seen(d)'
  <2>1. UNCHANGED row /\ queued'[d] \in {queued[d], NULL}
    BY <1>0, <1>1 DEF BeginPoll, Test, data, cycle
  <2>2. UNCHANGED poll \/ \E who, x : NewPoll(e, who, x)
    BY <1>1 DEF BeginPoll, Test
  <2>3. CASE poll'[d] = poll[d]
    BY <1>e, <1>f, <2>1, <2>3
  <2>4. CASE poll'[d] # poll[d]
    <3>1. e = d /\ poll'[d].phase = "ping"
      BY <1>0, <2>2, <2>4 DEF NewPoll
    <3>2. row[d] # NULL
      BY <1>1, <3>1 DEF BeginPoll, Test, Seen
    <3> QED BY <2>1, <3>1, <3>2 DEF Seen
  <2> QED BY <2>3, <2>4
<1>2. ASSUME NEW e \in Devices, e # d, Ping(e) \/ Read(e) \/ Store(e) PROVE Seen(d)'
  BY <1>0, <1>2, <1>e, <1>f DEF Ping, Read, Store, data, cycle
<1>3. ASSUME Ping(d) PROVE Seen(d)'
  <2>1. UNCHANGED <<row, queued>> /\ poll[d] \in Polls
    BY <1>0, <1>3 DEF Ping, data, cycle
  <2>2. poll'[d].phase = "manage"
    BY <1>0, <1>3, <2>1 DEF Ping, Polls
  <2> QED BY <1>3, <2>1, <2>2 DEF Seen, Ping
<1>4. ASSUME Read(d) PROVE Seen(d)'
  <2>1. UNCHANGED <<row, queued>> /\ poll[d] # NULL
    BY <1>4 DEF Read, data, cycle
  <2>2. poll[d] \in Polls /\ row[d] \in Rows
    BY <1>0, <2>1 DEF Seen
  <2>3. PICK m :
          poll' = [poll EXCEPT ![d].phase = "store", ![d].mgmt = m,
                     ![d].seen = IF row[d] = NULL THEN @
                                 ELSE [row[d] EXCEPT !.managed = poll[d].seen.managed]]
    BY <1>4 DEF Read
  <2>4. poll'[d].seen = [row[d] EXCEPT !.managed = poll[d].seen.managed]
    BY <1>0, <2>1, <2>2, <2>3 DEF Polls, Seen
  <2>5. Alike(poll'[d].seen, row[d])
    BY <2>2, <2>4 DEF Rows, Alike
  <2> QED BY <2>1, <2>5 DEF Seen
<1>5. ASSUME Store(d) PROVE Seen(d)'
  <2>1. poll'[d] = NULL /\ UNCHANGED queued /\ row[d] # NULL
    BY <1>0, <1>5 DEF Store, cycle, Seen
  <2>2. row[d] \in Rows /\ Outcome(d) \in Rows
    BY <1>0, <1>5, <2>1, OutcomeType DEF PollType, Store, TypeOK
  <2>3. row'[d] \in Rows
    BY <1>0, <1>5, <2>2 DEF Store, Rows
  <2> QED BY <2>1, <2>3, NullAssumption DEF Seen, NullAssumption
<1>6. ASSUME NEW e \in Devices, Register(e) \/ SetProfile(e) PROVE Seen(d)'
  <2>1. UNCHANGED <<poll, queued>>
    BY <1>6 DEF Register, SetProfile, cycle
  <2>2. row[d] # NULL => row'[d] # NULL /\ Alike(row'[d], row[d])
    BY <1>0, <1>e, <1>6, ProfileStep DEF Register, SetProfile
  <2> QED BY <1>f, <2>1, <2>2
<1>7. ASSUME NEW D \in SUBSET Devices, Delete(D) PROVE Seen(d)'
  <2>1. d \notin D
    BY <1>7 DEF Delete
  <2> QED BY <1>e, <1>f, <1>7, <2>1 DEF Delete, cycle
<1>8. ASSUME NEW who, BeginCycle(who), UNCHANGED <<row, poll>> PROVE Seen(d)'
  <2>1. queued'[d] # NULL => row[d] # NULL
    BY <1>8 DEF BeginCycle
  <2> QED BY <1>8, <2>1 DEF Seen
<1>9. ASSUME AbortCycle, UNCHANGED row PROVE Seen(d)'
  BY <1>e, <1>f, <1>9 DEF AbortCycle, Nothing
<1>10. ASSUME Restart PROVE Seen(d)'
  BY <1>e, <1>f, <1>10 DEF Restart, Boot, Nothing, data
<1>11. ASSUME UNCHANGED <<row, poll, queued>> PROVE Seen(d)'
  BY <1>e, <1>f, <1>11
<1>12. ASSUME LoopCancel PROVE Seen(d)'
  BY <1>9, <1>11, <1>12 DEF LoopCancel, cycle, data
<1>13. ASSUME LoopCycle PROVE Seen(d)'
  BY <1>8, <1>11, <1>13 DEF LoopCycle, cycle, data
<1>14. ASSUME PollNow PROVE Seen(d)'
  BY <1>8, <1>14 DEF PollNow, data
<1>15. ASSUME EndCycle \/ LoopBegin \/ LoopWake \/ Start \/ Stop \/ Thread PROVE Seen(d)'
  BY <1>11, <1>15
  DEF EndCycle, LoopBegin, LoopWake, Start, Stop, Thread, CreateTask, Stopped, cycle, data
<1>16. ASSUME (\E e \in Devices : Flip(e)) \/ (\E i \in Incidents : Acknowledge(i))
       PROVE  Seen(d)'
  BY <1>11, <1>16 DEF Flip, Acknowledge, cycle, data
<1>17. CASE UNCHANGED vars
  BY <1>11, <1>17 DEF vars, cycle, data
<1>18. ASSUME NEW e \in Devices, Poll(e) PROVE Seen(d)'
  BY <1>2, <1>3, <1>4, <1>5, <1>18 DEF Poll
<1>19. ASSUME \/ \E e \in Devices : Delete({e})
              \/ Delete(Devices)
       PROVE  Seen(d)'
  BY <1>7, <1>19
<1> QED
  BY <1>1, <1>6, <1>10, <1>12, <1>13, <1>14, <1>15, <1>16, <1>17, <1>18, <1>19
  DEF Next, Loop

LEMMA SeenAlways == Spec => []SeenInv
<1>1. Init => SeenInv
  BY DEF Init, SeenInv, Seen, Nothing
<1>2. TypeOK /\ SeenInv /\ [Next]_vars => SeenInv'
  BY SeenStep, DeletedGrows DEF SeenInv
<1> QED BY <1>1, <1>2, TypeCorrect, PTL DEF Spec

\* Opening an incident gives the device one that is not resolved, and takes
\* none from another device.
LEMMA OpenTracks ==
  ASSUME TypeOK, NEW d \in Devices, OpenIncident(d)
  PROVE  Tracked(d)' /\ \A e \in Devices : Tracked(e) => Tracked(e)'
<1>0. incident \in [Incidents -> IncidentRows \cup {NULL}]
  BY DEF TypeOK
<1>1. CASE \E i \in Incidents : IsOpen(i, d)
  BY <1>1 DEF OpenIncident, IsOpen, Unresolved, Tracked
<1>2. CASE ~\E i \in Incidents : IsOpen(i, d)
  <2>1. PICK k \in Incidents :
          /\ Free(k)
          /\ incident' = [incident EXCEPT ![k] = [device |-> d, status |-> "open"]]
    BY <1>2 DEF OpenIncident
  <2>2. incident'[k] = [device |-> d, status |-> "open"]
    BY <1>0, <2>1
  <2>3. [device |-> d, status |-> "open"] # NULL
    <3>1. [device |-> d, status |-> "open"] \in IncidentRows
      BY DEF IncidentRows
    <3> QED BY <3>1, NullAssumption DEF NullAssumption
  <2>4. Unresolved(k, d)'
    BY <2>2, <2>3 DEF Unresolved
  <2>5. ASSUME NEW e \in Devices, NEW i \in Incidents, Unresolved(i, e)
        PROVE  Unresolved(i, e)'
    <3>1. i # k
      BY <2>1, <2>5 DEF Free, Unresolved
    <3> QED BY <1>0, <2>1, <2>5, <3>1 DEF Unresolved
  <2> QED BY <2>4, <2>5 DEF Tracked
<1> QED BY <1>1, <1>2

\* Resolving the incidents of a device leaves those of the others alone.
LEMMA ResolveTracks ==
  ASSUME TypeOK, NEW d \in Devices, ResolveIncidents(d), NEW e \in Devices, e # d, Tracked(e)
  PROVE  Tracked(e)'
<1>1. PICK i \in Incidents : Unresolved(i, e)
  BY DEF Tracked
<1>2. incident'[i] = incident[i]
  BY <1>1 DEF ResolveIncidents, Unresolved
<1> QED BY <1>1, <1>2 DEF Tracked, Unresolved

\* A device that is DOWN after a step has an unresolved incident after it.
LEMMA DownStep ==
  ASSUME TypeOK, NEW d \in Devices, d \notin deleted', Seen(d), Down(d) => Tracked(d),
         [Next]_vars, Down(d)'
  PROVE  Tracked(d)'
<1>0. /\ row \in [Devices -> Rows \cup {NULL}]
      /\ incident \in [Incidents -> IncidentRows \cup {NULL}]
  BY DEF TypeOK
<1>1. ASSUME Store(d) PROVE Tracked(d)'
  <2> DEFINE old == poll[d].seen.status
             new == Outcome(d).status
  <2>1. row[d] \in Rows /\ row[d].status = old
    BY <1>0, <1>1 DEF Store, Seen, Alike
  <2>2. row'[d].status = new
    <3>1. row'[d] = [row[d] EXCEPT !.status = Outcome(d).status, !.fails = Outcome(d).fails,
                                   !.succs = Outcome(d).succs]
      BY <1>0, <1>1, <2>1, NullAssumption DEF Store, NullAssumption
    <3> QED BY <2>1, <3>1 DEF Rows
  <2>3. \/ GoesDown(old, new) /\ OpenIncident(d)
        \/ ComesUp(old, new) /\ ResolveIncidents(d)
        \/ ~GoesDown(old, new) /\ UNCHANGED incident
    BY <1>1 DEF Store
  <2>4. new = "DOWN"
    BY <2>2 DEF Down
  <2> HIDE DEF old, new
  <2>5. CASE GoesDown(old, new) /\ OpenIncident(d)
    BY <2>5, OpenTracks
  <2>6. CASE ComesUp(old, new) /\ ResolveIncidents(d)
    BY <2>4, <2>6 DEF ComesUp
  <2>7. CASE ~GoesDown(old, new) /\ UNCHANGED incident
    <3>1. Down(d)
      BY <2>1, <2>4, <2>7, NullAssumption DEF GoesDown, Down, NullAssumption
    <3> QED BY <2>7, <3>1 DEF Tracked, Unresolved
  <2> QED BY <2>3, <2>5, <2>6, <2>7
<1>2. ASSUME NEW e \in Devices, e # d, Store(e) PROVE Tracked(d)'
  <2>1. Tracked(d)
    BY <1>0, <1>2 DEF Store, Down
  <2> QED BY <1>2, <2>1, StoreIncidents, OpenTracks, ResolveTracks DEF Tracked, Unresolved
<1>3. ASSUME NEW e \in Devices, Register(e) PROVE Tracked(d)'
  <2>1. e # d /\ Tracked(d)
    BY <1>0, <1>3 DEF Register, Down
  <2> QED BY <1>3, <2>1 DEF Register, Tracked, Unresolved
<1>4. ASSUME NEW e \in Devices, SetProfile(e) PROVE Tracked(d)'
  <2>1. Down(d)
    BY <1>0, <1>4, ProfileStep DEF SetProfile, Down, Alike
  <2> QED BY <1>4, <2>1 DEF SetProfile, Tracked, Unresolved
<1>5. ASSUME NEW k \in Incidents, Acknowledge(k) PROVE Tracked(d)'
  <2>1. incident[k] \in IncidentRows /\ UNCHANGED row
    BY <1>0, <1>5 DEF Acknowledge
  <2>2. incident'[k] = [incident[k] EXCEPT !.status = "acknowledged"]
        /\ \A i \in Incidents : i # k => incident'[i] = incident[i]
    BY <1>0, <1>5 DEF Acknowledge
  <2>3. incident'[k].device = incident[k].device /\ incident'[k].status # "resolved"
        /\ incident'[k] \in IncidentRows
    BY <2>1, <2>2 DEF IncidentRows
  <2>4. \A i \in Incidents : Unresolved(i, d) => Unresolved(i, d)'
    BY <2>2, <2>3, NullAssumption DEF Unresolved, NullAssumption
  <2> QED BY <2>1, <2>4 DEF Down, Tracked
<1>6. ASSUME NEW D \in SUBSET Devices, Delete(D) PROVE Tracked(d)'
  <2>1. d \notin D /\ row'[d] = row[d]
    BY <1>6 DEF Delete
  <2>2. PICK i \in Incidents : Unresolved(i, d)
    BY <2>1 DEF Down, Tracked
  <2>3. incident'[i] = incident[i]
    BY <1>6, <2>1, <2>2 DEF Delete, Unresolved
  <2> QED BY <2>2, <2>3 DEF Tracked, Unresolved
<1>7. CASE UNCHANGED data
  BY <1>7 DEF data, Down, Tracked, Unresolved
<1>8. ASSUME \/ \E e \in Devices : Delete({e})
             \/ Delete(Devices)
      PROVE  Tracked(d)'
  BY <1>6, <1>8
<1> QED
  BY <1>1, <1>2, <1>3, <1>4, <1>5, <1>7, <1>8
  DEF Next, Poll, BeginPoll, Ping, Read, Test, Flip, PollNow, EndCycle, Loop,
      LoopBegin, LoopCycle, LoopWake, LoopCancel, Start, Stop, Thread, CreateTask,
      Stopped, Restart, vars

\* Until it is deleted, a device that is DOWN has an incident that is not
\* resolved, although a poll decides on a row read before
\* (_poll_single_device_impl).
THEOREM DownHasIncident == Spec => []DownTracked
<1>0. DownTracked <=> \A d \in Devices \ deleted : Down(d) => Tracked(d)
  BY DEF DownTracked, Down, Tracked
<1>1. Init => DownTracked
  BY DEF Init, DownTracked, Nothing
<1>2. TypeOK /\ SeenInv /\ DownTracked /\ [Next]_vars => DownTracked'
  <2> SUFFICES ASSUME TypeOK, SeenInv, DownTracked, [Next]_vars,
                      NEW d \in Devices, d \notin deleted', Down(d)'
               PROVE  Tracked(d)'
    BY DEF DownTracked, Down, Tracked
  <2>1. d \notin deleted /\ Seen(d) /\ (Down(d) => Tracked(d))
    BY <1>0, DeletedGrows DEF SeenInv
  <2> QED BY <2>1, DownStep
<1> QED BY <1>1, <1>2, TypeCorrect, SeenAlways, PTL DEF Spec

-----------------------------------------------------------------------------
(* Outages begin and end by the thresholds *)

IsSuspended(r) == r.maintenance \/ r.paused

LEMMA BumpBounds ==
  ASSUME NEW limit \in Nat, NEW n \in 0..limit
  PROVE  /\ Bump(n, limit) \in 0..limit
         /\ ~(Bump(n, limit) < limit) => Bump(n, limit) = limit
BY DEF Bump

\* What an assessment makes of the counters of a row.
LEMMA AssessedCounts ==
  ASSUME NEW r \in Rows, NEW p \in BOOLEAN, NEW m \in {"ok", "failed", "none"}
  PROVE  /\ Assessed(r, p, m).fails =
              IF ~IsSuspended(r) /\ ~p THEN Bump(r.fails, FailureThreshold) ELSE 0
         /\ Assessed(r, p, m).succs =
              IF ~IsSuspended(r) /\ p THEN Bump(r.succs, RecoveryThreshold) ELSE 0
<1>1. CASE IsSuspended(r)
  BY <1>1 DEF IsSuspended, Assessed, Suspended, Rows
<1>2. CASE ~IsSuspended(r) /\ p
  BY <1>2 DEF IsSuspended, Assessed, Reachable, Rows
<1>3. CASE ~IsSuspended(r) /\ ~p
  BY <1>3 DEF IsSuspended, Assessed, Unreachable, Rows
<1> QED BY <1>1, <1>2, <1>3

\* Only the last missed poll makes a device DOWN, only the last met one ends it.
LEMMA AssessedStatus ==
  ASSUME NEW r \in Rows, NEW p \in BOOLEAN, NEW m \in {"ok", "failed", "none"}
  PROVE  /\ GoesDown(r.status, Assessed(r, p, m).status)
              => /\ ~IsSuspended(r) /\ ~p
                 /\ Bump(r.fails, FailureThreshold) = FailureThreshold
         /\ r.status \in Outage
            /\ Assessed(r, p, m).status \in {"UP", "DEGRADED", "MONITORING_UNAVAILABLE"}
              => /\ ~IsSuspended(r) /\ p
                 /\ Bump(r.succs, RecoveryThreshold) = RecoveryThreshold
<1> USE DEF GoesDown, Outage
<1>0. /\ ~(Bump(r.fails, FailureThreshold) < FailureThreshold)
           => Bump(r.fails, FailureThreshold) = FailureThreshold
      /\ ~(Bump(r.succs, RecoveryThreshold) < RecoveryThreshold)
           => Bump(r.succs, RecoveryThreshold) = RecoveryThreshold
  BY BumpBounds, NmsAssumption DEF Rows, NmsAssumption
<1>1. CASE IsSuspended(r)
  <2>1. Assessed(r, p, m).status \in {"MAINTENANCE", "UNKNOWN"}
    BY <1>1 DEF IsSuspended, Assessed, Suspended, Rows
  <2> QED BY <2>1
<1>2. CASE ~IsSuspended(r) /\ p
  <2>1. Assessed(r, p, m).status =
          IF r.status \in Outage /\ Bump(r.succs, RecoveryThreshold) < RecoveryThreshold
          THEN r.status ELSE Managed(r, m)
    BY <1>2 DEF IsSuspended, Assessed, Reachable, Rows
  <2>2. Managed(r, m) # "DOWN"
    BY DEF Managed
  <2> QED BY <1>0, <1>2, <2>1, <2>2
<1>3. CASE ~IsSuspended(r) /\ ~p
  <2>1. Assessed(r, p, m).status =
          IF Bump(r.fails, FailureThreshold) < FailureThreshold
          THEN "SUSPECTED_DOWN" ELSE "DOWN"
    BY <1>3 DEF IsSuspended, Assessed, Unreachable, Rows
  <2> QED BY <1>0, <1>3, <2>1
<1> QED BY <1>1, <1>2, <1>3

\* The counters in the row are the history of the polls.
Counted(d) ==
  IF row[d] = NULL THEN streak[d] = NoStreak
  ELSE row[d].fails = streak[d].misses /\ row[d].succs = streak[d].hits
CountedInv == \A d \in Devices \ deleted : Counted(d)

\* What the store of a poll does to a device that was never deleted.
LEMMA StoreRow ==
  ASSUME TypeOK, NEW d \in Devices, d \notin deleted, Seen(d), Counted(d), Store(d)
  PROVE  /\ row[d] \in Rows /\ poll[d].seen \in Rows
         /\ poll[d].ping \in BOOLEAN /\ poll[d].mgmt \in {"ok", "failed", "none"}
         /\ row'[d] \in Rows
         /\ Alike(poll[d].seen, row[d]) /\ Alike(row'[d], Outcome(d))
         /\ Count(d)
<1>0. row \in [Devices -> Rows \cup {NULL}] /\ poll \in [Devices -> Polls \cup {NULL}]
  BY DEF TypeOK
<1>1. poll[d] \in Polls /\ row[d] \in Rows /\ Alike(poll[d].seen, row[d])
  BY <1>0 DEF Store, Seen
<1>2. Outcome(d) \in Rows
  BY <1>0, OutcomeType DEF PollType, Store, TypeOK
<1>3. row'[d] = [row[d] EXCEPT !.status = Outcome(d).status, !.fails = Outcome(d).fails,
                               !.succs = Outcome(d).succs]
  BY <1>0, <1>1, NullAssumption DEF Store, NullAssumption
<1>4. row'[d] \in Rows /\ Alike(row'[d], Outcome(d))
  BY <1>1, <1>2, <1>3 DEF Rows, Alike
<1> QED BY <1>1, <1>4 DEF Store, Polls

LEMMA CountedStep ==
  ASSUME TypeOK, NEW d \in Devices, d \notin deleted', d \notin deleted,
         Seen(d), Counted(d), [Next]_vars
  PROVE  Counted(d)'
<1>0. /\ row \in [Devices -> Rows \cup {NULL}] /\ streak \in [Devices -> Streaks]
      /\ NULL \notin Rows
  BY NullAssumption DEF TypeOK, NullAssumption
<1>f. ASSUME streak'[d] = streak[d],
             \/ row'[d] = row[d]
             \/ row[d] # NULL /\ row'[d] # NULL /\ Alike(row'[d], row[d])
      PROVE  Counted(d)'
  BY <1>f DEF Counted, Alike
<1>1. ASSUME Store(d) PROVE Counted(d)'
  <2>1. /\ poll[d].seen \in Rows /\ row'[d] \in Rows
        /\ Alike(poll[d].seen, row[d]) /\ Alike(row'[d], Outcome(d)) /\ Count(d)
        /\ poll[d].ping \in BOOLEAN /\ poll[d].mgmt \in {"ok", "failed", "none"}
        /\ row[d] \in Rows
    BY <1>1, StoreRow
  <2>2. streak'[d] =
          [misses |-> IF ~IsSuspended(poll[d].seen) /\ ~poll[d].ping
                      THEN Bump(streak[d].misses, FailureThreshold) ELSE 0,
           hits |-> IF ~IsSuspended(poll[d].seen) /\ poll[d].ping
                    THEN Bump(streak[d].hits, RecoveryThreshold) ELSE 0]
    BY <1>0, <2>1 DEF Count, IsSuspended
  <2>3. poll[d].seen.fails = streak[d].misses /\ poll[d].seen.succs = streak[d].hits
    BY <1>0, <2>1 DEF Counted, Alike
  <2>4. Outcome(d).fails = streak'[d].misses /\ Outcome(d).succs = streak'[d].hits
    BY <2>1, <2>2, <2>3, AssessedCounts DEF Outcome
  <2> QED BY <1>0, <2>1, <2>4 DEF Counted, Alike
<1>2. ASSUME NEW e \in Devices, e # d, Store(e) PROVE Counted(d)'
  <2>1. row'[d] = row[d] /\ streak'[d] = streak[d]
    BY <1>0, <1>2 DEF Store, Count
  <2> QED BY <1>f, <2>1
<1>3. ASSUME NEW e \in Devices, Register(e) PROVE Counted(d)'
  <2>1. CASE e = d
    BY <1>0, <1>3, <2>1 DEF Register, Counted, NoStreak, Rows
  <2>2. CASE e # d
    BY <1>0, <1>3, <1>f, <2>2 DEF Register
  <2> QED BY <2>1, <2>2
<1>4. ASSUME NEW e \in Devices, SetProfile(e) PROVE Counted(d)'
  <2>1. CASE e = d
    BY <1>4, <1>f, <2>1, ProfileStep DEF SetProfile
  <2>2. CASE e # d
    BY <1>0, <1>4, <1>f, <2>2 DEF SetProfile
  <2> QED BY <2>1, <2>2
<1>5. ASSUME NEW D \in SUBSET Devices, Delete(D) PROVE Counted(d)'
  <2>1. d \notin D
    BY <1>5 DEF Delete
  <2> QED BY <1>f, <1>5, <2>1 DEF Delete
<1>6. ASSUME UNCHANGED <<row, streak>> PROVE Counted(d)'
  BY <1>f, <1>6
<1>7. ASSUME (\E e \in Devices : Delete({e})) \/ Delete(Devices) PROVE Counted(d)'
  BY <1>5, <1>7
<1> QED
  BY <1>1, <1>2, <1>3, <1>4, <1>6, <1>7
  DEF Next, Poll, BeginPoll, Ping, Read, Test, Flip, PollNow, EndCycle, Loop,
      LoopBegin, LoopCycle, LoopWake, LoopCancel, Start, Stop, Thread, CreateTask,
      Stopped, Restart, Acknowledge, vars, data

\* The step that takes a device into an outage, or out of it.
Debounced(d) ==
  row[d] # NULL /\ row'[d] # NULL =>
    LET old == row[d].status  new == row'[d].status IN
    /\ GoesDown(old, new) => streak'[d].misses = FailureThreshold
    /\ old \in Outage /\ new \in {"UP", "DEGRADED", "MONITORING_UNAVAILABLE"}
         => streak'[d].hits = RecoveryThreshold

LEMMA DebouncedStep ==
  ASSUME TypeOK, NEW d \in Devices, d \notin deleted', d \notin deleted,
         Seen(d), Counted(d), [Next]_vars
  PROVE  Debounced(d)
<1>0. /\ row \in [Devices -> Rows \cup {NULL}] /\ streak \in [Devices -> Streaks]
      /\ NULL \notin Rows
  BY NullAssumption DEF TypeOK, NullAssumption
<1>f. ASSUME row[d] # NULL /\ row'[d] # NULL => row'[d].status = row[d].status
      PROVE  Debounced(d)
  BY <1>f DEF Debounced, GoesDown, Outage
<1>1. ASSUME Store(d) PROVE Debounced(d)
  <2>1. /\ poll[d].seen \in Rows /\ row'[d] \in Rows
        /\ Alike(poll[d].seen, row[d]) /\ Alike(row'[d], Outcome(d))
        /\ poll[d].ping \in BOOLEAN /\ poll[d].mgmt \in {"ok", "failed", "none"}
    BY <1>1, StoreRow
  <2>2. row[d].status = poll[d].seen.status /\ row'[d].status = Outcome(d).status
    BY <2>1 DEF Alike
  <2>3. Counted(d)'
    BY CountedStep
  <2>4. row'[d].fails = streak'[d].misses /\ row'[d].succs = streak'[d].hits
    BY <1>0, <2>1, <2>3 DEF Counted
  <2>5. /\ streak'[d].misses = Assessed(poll[d].seen, poll[d].ping, poll[d].mgmt).fails
        /\ streak'[d].hits = Assessed(poll[d].seen, poll[d].ping, poll[d].mgmt).succs
    BY <2>1, <2>4 DEF Alike, Outcome
  <2> QED BY <2>1, <2>2, <2>5, AssessedCounts, AssessedStatus DEF Debounced, Outcome
<1>2. ASSUME NEW e \in Devices, e # d, Store(e) PROVE Debounced(d)
  BY <1>0, <1>2, <1>f DEF Store
<1>3. ASSUME NEW e \in Devices, Register(e) PROVE Debounced(d)
  BY <1>0, <1>3, <1>f DEF Register
<1>4. ASSUME NEW e \in Devices, SetProfile(e) PROVE Debounced(d)
  BY <1>0, <1>4, <1>f, ProfileStep DEF SetProfile, Alike
<1>5. ASSUME NEW D \in SUBSET Devices, Delete(D) PROVE Debounced(d)
  BY <1>5, <1>f DEF Delete
<1>6. ASSUME UNCHANGED row PROVE Debounced(d)
  BY <1>6, <1>f
<1>7. ASSUME (\E e \in Devices : Delete({e})) \/ Delete(Devices) PROVE Debounced(d)
  BY <1>5, <1>7
<1> QED
  BY <1>1, <1>2, <1>3, <1>4, <1>6, <1>7
  DEF Next, Poll, BeginPoll, Ping, Read, Test, Flip, PollNow, EndCycle, Loop,
      LoopBegin, LoopCycle, LoopWake, LoopCancel, Start, Stop, Thread, CreateTask,
      Stopped, Restart, Acknowledge, vars, data

\* A device goes DOWN only after FailureThreshold polls in a row that missed it,
\* and comes back only after RecoveryThreshold that met it, whatever is read
\* before and stored after (determine_device_availability).
THEOREM OutagesDebounced == Spec => OutageDebounced
<1>1. Init => CountedInv
  BY DEF Init, CountedInv, Counted, Nothing
<1>2. TypeOK /\ SeenInv /\ CountedInv /\ [Next]_vars => CountedInv'
  BY CountedStep, DeletedGrows DEF SeenInv, CountedInv
<1>3. TypeOK /\ SeenInv /\ CountedInv /\ [Next]_vars
        => \A d \in Devices \ deleted' : Debounced(d)
  BY DebouncedStep, DeletedGrows DEF SeenInv, CountedInv
<1>4. (\A d \in Devices \ deleted' : Debounced(d))
        => [\A d \in Devices \ deleted' : row[d] # NULL /\ row'[d] # NULL =>
              LET old == row[d].status  new == row'[d].status IN
              /\ GoesDown(old, new) => streak'[d].misses = FailureThreshold
              /\ old \in Outage /\ new \in {"UP", "DEGRADED", "MONITORING_UNAVAILABLE"}
                   => streak'[d].hits = RecoveryThreshold]_vars
  BY DEF Debounced
<1> QED BY <1>1, <1>2, <1>3, <1>4, TypeCorrect, SeenAlways, PTL DEF Spec, OutageDebounced

-----------------------------------------------------------------------------
(* The scheduler and its cycles *)

LEMMA SchedulerStep ==
  ASSUME TypeOK, SchedulerTrue, [Next]_vars
  PROVE  SchedulerTrue'
<1>0. poll \in [Devices -> Polls \cup {NULL}] /\ queued \in [Devices -> Rows \cup {NULL}]
  BY DEF TypeOK
<1>a. NULL \notin Polls /\ NULL \notin {"loop", "now"}
  BY NullAssumption DEF NullAssumption
<1> USE DEF SchedulerTrue, cycle, scheduler, ByCycle
<1>1. ASSUME NEW d \in Devices, BeginPoll(d) PROVE SchedulerTrue'
  BY <1>1 DEF BeginPoll
<1>2. ASSUME NEW d \in Devices, Test(d) PROVE SchedulerTrue'
  <2>1. \A e \in Devices : ByCycle(e)' => ByCycle(e)
    BY <1>0, <1>2 DEF Test, NewPoll
  <2> QED BY <1>2, <2>1 DEF Test
<1>3. ASSUME NEW d \in Devices, Poll(d) PROVE SchedulerTrue'
  <2>1. \A e \in Devices : ByCycle(e)' => ByCycle(e)
    <3>1. CASE Ping(d)
      BY <1>0, <3>1 DEF Ping, Polls
    <3>2. CASE Read(d)
      <4>1. PICK m :
              poll' = [poll EXCEPT ![d].phase = "store", ![d].mgmt = m,
                         ![d].seen = IF row[d] = NULL THEN @
                                     ELSE [row[d] EXCEPT !.managed = poll[d].seen.managed]]
        BY <3>2 DEF Read
      <4> QED BY <1>0, <3>2, <4>1 DEF Read, Polls
    <3>3. CASE Store(d)
      BY <1>0, <3>3 DEF Store
    <3> QED BY <1>3, <3>1, <3>2, <3>3 DEF Poll
  <2> QED BY <1>3, <2>1 DEF Poll, Ping, Read, Store
<1>4. ASSUME \/ \E d \in Devices : Register(d) \/ SetProfile(d) \/ Flip(d)
             \/ \E D \in SUBSET Devices : Delete(D)
             \/ \E i \in Incidents : Acknowledge(i)
      PROVE  SchedulerTrue'
  BY <1>4 DEF Register, SetProfile, Flip, Delete, Acknowledge
<1>5. ASSUME PollNow PROVE SchedulerTrue'
  BY <1>5, <1>a DEF PollNow, BeginCycle
<1>6. ASSUME EndCycle PROVE SchedulerTrue'
  BY <1>6, <1>a DEF EndCycle
<1>7. ASSUME LoopBegin \/ LoopWake PROVE SchedulerTrue'
  BY <1>7 DEF LoopBegin, LoopWake
<1>8. ASSUME LoopCycle PROVE SchedulerTrue'
  BY <1>8, <1>a DEF LoopCycle, BeginCycle
<1>9. ASSUME LoopCancel PROVE SchedulerTrue'
  <2>1. CASE loop = "cycle"
    <3>1. \A d \in Devices : queued'[d] = NULL /\ ~ByCycle(d)'
      BY <1>9, <2>1 DEF LoopCancel, AbortCycle, Nothing
    <3> QED BY <1>9, <1>a, <2>1, <3>1 DEF LoopCancel, AbortCycle
  <2>2. CASE loop # "cycle"
    BY <1>9, <2>2 DEF LoopCancel
  <2> QED BY <2>1, <2>2
<1>10. ASSUME Start \/ Stop \/ Thread PROVE SchedulerTrue'
  BY <1>10 DEF Start, Stop, Thread, CreateTask, Stopped
<1>11. ASSUME Restart PROVE SchedulerTrue'
  BY <1>11, <1>a DEF Restart, Boot, Nothing
<1>12. CASE UNCHANGED vars
  BY <1>12 DEF vars
<1> QED
  BY <1>1, <1>2, <1>3, <1>4, <1>5, <1>6, <1>7, <1>8, <1>9, <1>10, <1>11, <1>12
  DEF Next, Loop

\* What the scheduler shows is there, and no flag or poll outlives its cycle,
\* whoever starts, stops, cancels or restarts: the safety half of CyclesEnd.
THEOREM SchedulerIsTrue == Spec => []SchedulerTrue
<1>1. Init => SchedulerTrue
  BY NullAssumption DEF NullAssumption, Init, SchedulerTrue, Nothing, ByCycle
<1>2. TypeOK /\ SchedulerTrue /\ [Next]_vars => SchedulerTrue'
  BY SchedulerStep
<1> QED BY <1>1, <1>2, TypeCorrect, PTL DEF Spec
=============================================================================
