---------------------- MODULE AutomationEngine_proofs ----------------------
(***************************************************************************)
(* For any number of jobs, threads, runs and faults: one job never runs    *)
(* twice at a time, its mark is never left behind, its row shows the       *)
(* status of its latest run, and the log agrees with the approval queue;   *)
(* all in all the engine implements AutomationLog.                         *)
(*                                                                         *)
(* Only the set of running jobs is shared under a lock; rows of jobs and   *)
(* of runs are written outside it.  MarkInv says that the set works as a   *)
(* lock for each job, and RunInv that a thread which holds it is the only  *)
(* one to own the latest run of the job, until the run is closed.  LogInv  *)
(* turns this round: an open run has such a thread, or its thread was lost.*)
(***************************************************************************)
EXTENDS AutomationEngine, TLAPS

-----------------------------------------------------------------------------
(* Invariants *)

\* A call that goes on has what it needs for that.
CallInv ==
  \A t \in Threads :
    /\ pc[t] # "idle" => job[t] \in Jobs
    /\ pc[t] \in {"started", "closing", "closed"} => run[t] \in Runs
    /\ pc[t] \in {"closing", "closed"} => outcome[t] \in Final

BaseInv == TypeOK /\ CallInv

Holding(t) == pc[t] \notin {"idle", "called"}

\* The mark of a job is a lock: who holds the job has it marked, nobody else
\* holds it, and a mark without a holder was lost.
MarkInv ==
  /\ \A t \in Threads : Holding(t) => job[t] \in running
  /\ \A t, u \in Threads : Holding(t) /\ Holding(u) /\ job[t] = job[u] => t = u
  /\ \A j \in running :
       (\E t \in Threads : Holding(t) /\ job[t] = j) \/ j \in lost.jobs

\* A run that is recorded belongs to its job; the thread that works on a run
\* owns the latest one of its job.
RunInv ==
  /\ \A r \in Runs : status[r] = NULL => approval[r] = NULL
  /\ \A j \in Jobs :
       /\ row[j] = "none" => latest[j] = NULL
       /\ latest[j] # NULL => status[latest[j]] # NULL /\ owner[latest[j]] = j
  /\ \A t \in Threads :
       /\ pc[t] # "idle" => row[job[t]] # "none"
       /\ pc[t] \in {"started", "closing", "closed"} =>
            /\ latest[job[t]] = run[t]
            /\ status[run[t]] = IF pc[t] = "closed" THEN outcome[t] ELSE "RUNNING"

\* The queue has a row for a run just when its thread concluded so.
QueueInv ==
  /\ \A t \in Threads :
       /\ pc[t] = "started" => approval[run[t]] = NULL
       /\ pc[t] \in {"closing", "closed"} =>
            (outcome[t] = "APPROVAL_PENDING" <=> approval[run[t]] # NULL)
  /\ PendingIsQueued

Inv == BaseInv /\ MarkInv /\ RunInv /\ QueueInv /\ LastIsLatest

-----------------------------------------------------------------------------
(* Types *)

LEMMA InitBase == ASSUME AutomationAssumption, Init PROVE BaseInv
BY DEF AutomationAssumption, Init, BaseInv, TypeOK, CallInv

\* Leaving execute_job keeps the types of the calls.
LEMMA LeaveBase ==
  ASSUME BaseInv, NEW t \in Threads, Leave(t)
  PROVE  /\ pc' \in [Threads -> {"idle", "called", "claimed", "started", "closing", "closed"}]
         /\ job' \in [Threads -> Jobs \cup {NULL}]
         /\ run' \in [Threads -> Runs \cup {NULL}]
         /\ outcome' \in [Threads -> Final \cup {NULL}]
         /\ CallInv'
BY DEF BaseInv, TypeOK, CallInv, Leave

\* Every step keeps the types.
LEMMA NextBase == ASSUME AutomationAssumption, BaseInv, [Next]_vars PROVE BaseInv'
<1> USE DEF BaseInv, TypeOK, CallInv, jobRows, runRows, calls
<1>1. ASSUME NEW j \in Jobs, CreateJob(j) \/ DeleteJob(j) \/ BecomeDue(j) PROVE BaseInv'
  BY <1>1 DEF CreateJob, DeleteJob, BecomeDue, NextRun
<1>2. ASSUME NEW j \in Jobs, NEW state \in {"enabled", "paused"}, ToggleJob(j, state)
      PROVE BaseInv'
  BY <1>2 DEF ToggleJob
<1>3. ASSUME NEW t \in Threads, NEW j \in Jobs, Fire(t, j) \/ RunNow(t, j) PROVE BaseInv'
  BY <1>3 DEF Fire, RunNow, Call
<1>4. ASSUME NEW t \in Threads, Skip(t) PROVE BaseInv'
  BY <1>4, LeaveBase DEF Skip
<1>5. ASSUME NEW t \in Threads, Claim(t) PROVE BaseInv'
  BY <1>5 DEF Claim
<1>6. ASSUME NEW t \in Threads, NEW r \in Runs, Start(t, r) PROVE BaseInv'
  BY <1>6 DEF Start, Statuses
<1>7. ASSUME NEW t \in Threads, NEW result \in {"SUCCESS", "FAILED"}, Perform(t, result)
      PROVE BaseInv'
  BY <1>7 DEF Perform, Conclude, Final
<1>8. ASSUME NEW t \in Threads, Ask(t) PROVE BaseInv'
  BY <1>8 DEF Ask, Conclude, Final
<1>9. ASSUME NEW t \in Threads, AskFails(t) PROVE BaseInv'
  BY <1>9 DEF AskFails, Conclude, Final, AutomationAssumption
<1>10. ASSUME NEW t \in Threads, Close(t) PROVE BaseInv'
  BY <1>10 DEF Close, NextRun, Statuses
<1>11. ASSUME NEW t \in Threads, Release(t) PROVE BaseInv'
  BY <1>11, LeaveBase DEF Release
<1>12. ASSUME NEW t \in Threads, StoreFails(t) PROVE BaseInv'
  <2>1. lost' \in [jobs : SUBSET Jobs, runs : SUBSET Runs]
    BY <1>12 DEF StoreFails
  <2>2. faults' \in 0..MaxFaults
    BY <1>12 DEF StoreFails, AutomationAssumption
  <2> QED BY <1>12, <2>1, <2>2, LeaveBase DEF StoreFails
<1>13. ASSUME Restart PROVE BaseInv'
  BY <1>13 DEF Restart, AutomationAssumption
<1>14. ASSUME NEW r \in Runs, Decide(r) PROVE BaseInv'
  BY <1>14 DEF Decide
<1>15. CASE UNCHANGED vars
  BY <1>15 DEF vars
<1> QED
  BY <1>1, <1>2, <1>3, <1>4, <1>5, <1>6, <1>7, <1>8, <1>9, <1>10, <1>11,
     <1>12, <1>13, <1>14, <1>15 DEF Next, Proceed

\* Tables, calls and the running jobs keep their types, and a call holds what
\* its next step uses.
THEOREM TypeCorrect == ASSUME AutomationAssumption PROVE Spec => []TypeOK
<1>1. Init => BaseInv
  BY InitBase
<1>2. BaseInv /\ [Next]_vars => BaseInv'
  BY NextBase
<1>3. BaseInv => TypeOK
  BY DEF BaseInv
<1> QED BY <1>1, <1>2, <1>3, PTL DEF Spec

-----------------------------------------------------------------------------
(* The running jobs *)

LEMMA InitMark == ASSUME Init PROVE MarkInv
BY DEF Init, MarkInv, Holding

\* A step that leaves the calls and the marks alone keeps MarkInv.
LEMMA MarkFrame ==
  ASSUME MarkInv, UNCHANGED <<pc, job, running, lost>> PROVE MarkInv'
BY DEF MarkInv, Holding

\* A thread that goes on within its run keeps what it holds.
LEMMA MarkGoesOn ==
  ASSUME BaseInv, MarkInv, NEW t \in Threads,
         NEW s \in {"started", "closing", "closed"},
         Holding(t), pc' = [pc EXCEPT ![t] = s], UNCHANGED <<job, running, lost>>
  PROVE  MarkInv'
<1>1. \A u \in Threads : Holding(u)' = Holding(u)
  BY DEF BaseInv, TypeOK, Holding
<1> QED BY <1>1 DEF MarkInv

LEMMA NextMark ==
  ASSUME AutomationAssumption, BaseInv, MarkInv, [Next]_vars PROVE MarkInv'
<1> USE DEF jobRows, runRows, calls
<1>1. ASSUME NEW j \in Jobs, CreateJob(j) \/ DeleteJob(j) \/ BecomeDue(j) PROVE MarkInv'
  BY <1>1, MarkFrame DEF CreateJob, DeleteJob, BecomeDue
<1>2. ASSUME NEW j \in Jobs, NEW state \in {"enabled", "paused"}, ToggleJob(j, state)
      PROVE MarkInv'
  BY <1>2, MarkFrame DEF ToggleJob
<1>3. ASSUME NEW t \in Threads, NEW j \in Jobs, Fire(t, j) \/ RunNow(t, j) PROVE MarkInv'
  <2>1. Call(t, j) /\ UNCHANGED <<running, lost>>
    BY <1>3 DEF Fire, RunNow, Call
  <2>2. \A u \in Threads : Holding(u)' = Holding(u) /\ (Holding(u) => job'[u] = job[u])
    BY <2>1 DEF Call, BaseInv, TypeOK, Holding
  <2> QED BY <2>1, <2>2 DEF MarkInv
<1>4. ASSUME NEW t \in Threads, Skip(t) PROVE MarkInv'
  <2>1. \A u \in Threads : Holding(u)' = Holding(u) /\ (Holding(u) => job'[u] = job[u])
    BY <1>4 DEF Skip, Leave, BaseInv, TypeOK, Holding
  <2> QED BY <1>4, <2>1 DEF Skip, MarkInv
<1>5. ASSUME NEW t \in Threads, Claim(t) PROVE MarkInv'
  <2>1. \A u \in Threads : Holding(u)' <=> Holding(u) \/ u = t
    BY <1>5 DEF Claim, BaseInv, TypeOK, Holding
  <2>2. ~\E u \in Threads : Holding(u) /\ job[u] = job[t]
    BY <1>5 DEF Claim, MarkInv
  <2> QED BY <1>5, <2>1, <2>2 DEF Claim, MarkInv
<1>6. ASSUME NEW t \in Threads, NEW r \in Runs, Start(t, r) PROVE MarkInv'
  BY <1>6, MarkGoesOn DEF Start, Holding
<1>7. ASSUME NEW t \in Threads, NEW result \in {"SUCCESS", "FAILED"}, Perform(t, result)
      PROVE MarkInv'
  BY <1>7, MarkGoesOn DEF Perform, Conclude, Holding
<1>8. ASSUME NEW t \in Threads, Ask(t) \/ AskFails(t) PROVE MarkInv'
  BY <1>8, MarkGoesOn DEF Ask, AskFails, Conclude, Holding
<1>9. ASSUME NEW t \in Threads, Close(t) PROVE MarkInv'
  BY <1>9, MarkGoesOn DEF Close, Holding
<1>10. ASSUME NEW t \in Threads, Release(t) PROVE MarkInv'
  <2>1. \A u \in Threads : /\ Holding(u)' <=> Holding(u) /\ u # t
                           /\ u # t => job'[u] = job[u]
    BY <1>10 DEF Release, Leave, BaseInv, TypeOK, Holding
  <2>2. \A u \in Threads : Holding(u) /\ u # t => job[u] # job[t]
    BY <1>10 DEF Release, Holding, MarkInv
  <2>3. \A u \in Threads : Holding(u)' => job'[u] \in running'
    BY <1>10, <2>1, <2>2 DEF Release, MarkInv
  <2>4. \A u, v \in Threads : Holding(u)' /\ Holding(v)' /\ job'[u] = job'[v] => u = v
    BY <2>1 DEF MarkInv
  <2>5. ASSUME NEW j \in running'
        PROVE (\E u \in Threads : Holding(u)' /\ job'[u] = j) \/ j \in lost'.jobs
    <3>1. j \in running /\ j # job[t]
      BY <1>10, <2>5 DEF Release
    <3>2. CASE j \in lost.jobs
      BY <1>10, <3>2 DEF Release
    <3>3. CASE \E u \in Threads : Holding(u) /\ job[u] = j
      BY <2>1, <3>1, <3>3
    <3> QED BY <3>1, <3>2, <3>3 DEF MarkInv
  <2> QED BY <2>3, <2>4, <2>5 DEF MarkInv
<1>11. ASSUME NEW t \in Threads, StoreFails(t) PROVE MarkInv'
  <2>1. \A u \in Threads : /\ Holding(u)' <=> Holding(u) /\ u # t
                           /\ u # t => job'[u] = job[u]
    BY <1>11 DEF StoreFails, Leave, BaseInv, TypeOK, Holding
  <2>2. running' = running /\ lost'.jobs = lost.jobs \cup {job[t]}
    BY <1>11 DEF StoreFails
  <2>3. ASSUME NEW j \in running'
        PROVE (\E u \in Threads : Holding(u)' /\ job'[u] = j) \/ j \in lost'.jobs
    BY <2>1, <2>2, <2>3 DEF MarkInv
  <2> QED BY <2>1, <2>2, <2>3 DEF MarkInv
<1>12. ASSUME Restart PROVE MarkInv'
  BY <1>12 DEF Restart, MarkInv, Holding
<1>13. ASSUME NEW r \in Runs, Decide(r) PROVE MarkInv'
  BY <1>13, MarkFrame DEF Decide
<1>14. CASE UNCHANGED vars
  BY <1>14, MarkFrame DEF vars
<1> QED
  BY <1>1, <1>2, <1>3, <1>4, <1>5, <1>6, <1>7, <1>8, <1>9, <1>10, <1>11,
     <1>12, <1>13, <1>14 DEF Next, Proceed

LEMMA MarkInvariant == ASSUME AutomationAssumption PROVE Spec => [](BaseInv /\ MarkInv)
<1>1. Init => BaseInv /\ MarkInv
  BY InitBase, InitMark
<1>2. BaseInv /\ MarkInv /\ [Next]_vars => (BaseInv /\ MarkInv)'
  BY NextBase, NextMark
<1> QED BY <1>1, <1>2, PTL DEF Spec

\* Timer loop, requests and failing runs never make two threads run one job.
THEOREM NeverTwice == ASSUME AutomationAssumption PROVE Spec => []OneRunAtATime
<1>1. BaseInv /\ MarkInv => OneRunAtATime
  BY DEF MarkInv, OneRunAtATime, Holders, Holding
<1> QED BY <1>1, MarkInvariant, PTL

\* However a run ends, the mark of its job is held by a thread or was lost to a
\* failed transaction.
THEOREM NoMarkLeft == ASSUME AutomationAssumption PROVE Spec => []MarksHeld
<1>1. BaseInv /\ MarkInv => MarksHeld
  BY DEF MarkInv, MarksHeld, Holders, Holding
<1> QED BY <1>1, MarkInvariant, PTL

-----------------------------------------------------------------------------
(* Runs *)

LEMMA InitRun == ASSUME AutomationAssumption, Init PROVE RunInv /\ QueueInv /\ LastIsLatest
BY DEF AutomationAssumption, Init, RunInv, QueueInv, PendingIsQueued, LastIsLatest,
       Statuses, Final, Stored

\* No two threads work on one run: it belongs to one job, which one thread holds.
LEMMA OwnRun ==
  ASSUME AutomationAssumption, BaseInv, MarkInv, RunInv,
         NEW t \in Threads, NEW u \in Threads, t # u,
         pc[t] \in {"started", "closing", "closed"},
         pc[u] \in {"started", "closing", "closed"}
  PROVE  job[t] # job[u] /\ run[t] # run[u]
<1>1. job[t] # job[u]
  BY DEF MarkInv, Holding
<1>2. /\ job[t] \in Jobs /\ job[u] \in Jobs /\ run[t] \in Runs /\ run[u] \in Runs
      /\ run[t] = latest[job[t]] /\ run[u] = latest[job[u]]
  BY DEF BaseInv, CallInv, RunInv
<1>3. owner[run[t]] = job[t] /\ owner[run[u]] = job[u]
  BY <1>2 DEF RunInv, AutomationAssumption
<1> QED BY <1>1, <1>3

\* What the invariants of runs say survives a step that changes neither runs
\* nor calls and keeps the rows that exist.
LEMMA RunFrame ==
  ASSUME BaseInv, RunInv, QueueInv, LastIsLatest,
         UNCHANGED <<last, status, owner, approval, latest, pc, job, run, outcome>>,
         \A j \in Jobs : /\ row'[j] = "none" => row[j] = "none"
                         /\ row[j] = "none" => row'[j] \in {"none", "enabled"}
                         /\ row[j] # "none" /\ Stored(j)' => Stored(j)
  PROVE  (RunInv /\ QueueInv /\ LastIsLatest)'
<1>1. RunInv'
  BY DEF RunInv, BaseInv, TypeOK, CallInv
<1>2. QueueInv'
  BY DEF QueueInv, PendingIsQueued
<1>3. LastIsLatest'
  BY DEF LastIsLatest, RunInv, Stored
<1> QED BY <1>1, <1>2, <1>3

\* The same for a step in which threads leave execute_job, or enter it for a
\* job that has a row.
LEMMA CallFrame ==
  ASSUME BaseInv, RunInv, QueueInv, LastIsLatest,
         UNCHANGED <<row, last, status, owner, approval, latest>>,
         \A t \in Threads :
            \/ pc'[t] = "idle"
            \/ pc'[t] = "called" /\ row[job'[t]] # "none"
            \/ pc[t] = "called" /\ pc'[t] = "claimed" /\ job'[t] = job[t]
            \/ pc'[t] = pc[t] /\ job'[t] = job[t] /\ run'[t] = run[t] /\ outcome'[t] = outcome[t]
  PROVE  (RunInv /\ QueueInv /\ LastIsLatest)'
<1>1. RunInv'
  BY DEF RunInv
<1>2. QueueInv'
  BY DEF QueueInv, PendingIsQueued
<1>3. LastIsLatest'
  BY DEF LastIsLatest, Stored
<1> QED BY <1>1, <1>2, <1>3

\* A run begins: it is new, so no job had it as its latest run.
LEMMA StartRun ==
  ASSUME AutomationAssumption, BaseInv, MarkInv, RunInv, QueueInv, LastIsLatest,
         NEW t \in Threads, NEW r \in Runs, Start(t, r)
  PROVE  (RunInv /\ QueueInv /\ LastIsLatest)'
<1> USE DEF BaseInv, TypeOK, CallInv
<1>1. /\ job[t] \in Jobs /\ status[r] = NULL /\ approval[r] = NULL
      /\ status' = [status EXCEPT ![r] = "RUNNING"]
      /\ owner' = [owner EXCEPT ![r] = job[t]]
      /\ latest' = [latest EXCEPT ![job[t]] = r]
      /\ pc' = [pc EXCEPT ![t] = "started"] /\ run' = [run EXCEPT ![t] = r]
      /\ UNCHANGED <<approval, job, outcome, row, due, last>>
  BY DEF Start, jobRows, RunInv
<1>2. \A u \in Threads : pc[u] \in {"started", "closing", "closed"} =>
        run[u] # r /\ u # t /\ job[u] # job[t]
  <2>1. \A u \in Threads : pc[u] \in {"started", "closing", "closed"} => status[run[u]] # NULL
    BY DEF RunInv, AutomationAssumption, Statuses, Final
  <2>2. pc[t] = "claimed"
    BY DEF Start
  <2> QED BY <1>1, <2>1, <2>2 DEF MarkInv, Holding
<1>3. \A j \in Jobs : j # job[t] => latest'[j] = latest[j] /\ latest[j] # r
  BY <1>1 DEF RunInv, AutomationAssumption
<1>4. RunInv'
  <2>1. \A s \in Runs : status'[s] = NULL => approval'[s] = NULL
    BY <1>1 DEF RunInv
  <2>2. \A j \in Jobs : /\ row'[j] = "none" => latest'[j] = NULL
                        /\ latest'[j] # NULL => status'[latest'[j]] # NULL /\ owner'[latest'[j]] = j
    <3> TAKE j \in Jobs
    <3>1. CASE j = job[t]
      <4>1. row[j] # "none"
        BY <3>1 DEF RunInv, Start
      <4>2. latest'[j] = r /\ status'[r] = "RUNNING" /\ owner'[r] = j
        BY <1>1, <3>1
      <4> QED BY <1>1, <4>1, <4>2 DEF AutomationAssumption, Statuses
    <3>2. CASE j # job[t]
      BY <1>1, <1>3, <3>2 DEF RunInv
    <3> QED BY <3>1, <3>2
  <2>3. \A u \in Threads :
          /\ pc'[u] # "idle" => row'[job'[u]] # "none"
          /\ pc'[u] \in {"started", "closing", "closed"} =>
               /\ latest'[job'[u]] = run'[u]
               /\ status'[run'[u]] = IF pc'[u] = "closed" THEN outcome'[u] ELSE "RUNNING"
    <3> TAKE u \in Threads
    <3>1. CASE u = t
      <4>1. row[job[t]] # "none"
        BY DEF RunInv, Start
      <4>2. pc'[u] = "started" /\ latest'[job'[u]] = r /\ run'[u] = r /\ status'[r] = "RUNNING"
        BY <1>1, <3>1
      <4> QED BY <1>1, <3>1, <4>1, <4>2
    <3>2. CASE u # t
      BY <1>1, <1>2, <3>2 DEF RunInv
    <3> QED BY <3>1, <3>2
  <2> QED BY <2>1, <2>2, <2>3 DEF RunInv
<1>5. QueueInv'
  <2>1. PendingIsQueued'
    BY <1>1 DEF QueueInv, PendingIsQueued, Final
  <2>2. \A u \in Threads :
          /\ pc'[u] = "started" => approval'[run'[u]] = NULL
          /\ pc'[u] \in {"closing", "closed"} =>
               (outcome'[u] = "APPROVAL_PENDING" <=> approval'[run'[u]] # NULL)
    BY <1>1, <1>2 DEF QueueInv
  <2> QED BY <2>1, <2>2 DEF QueueInv
<1>6. LastIsLatest'
  BY <1>1, <1>3 DEF LastIsLatest, Final, Stored
<1> QED BY <1>4, <1>5, <1>6

\* A run concludes: the queue has a row for it if it says so.
LEMMA ConcludeRun ==
  ASSUME AutomationAssumption, BaseInv, MarkInv, RunInv, QueueInv, LastIsLatest,
         NEW t \in Threads, NEW result \in Final, pc[t] = "started", Conclude(t, result),
         approval' = IF result = "APPROVAL_PENDING"
                     THEN [approval EXCEPT ![run[t]] = "PENDING"] ELSE approval
  PROVE  (RunInv /\ QueueInv /\ LastIsLatest)'
<1> USE DEF BaseInv, TypeOK, CallInv
<1>1. /\ pc' = [pc EXCEPT ![t] = "closing"] /\ outcome' = [outcome EXCEPT ![t] = result]
      /\ UNCHANGED <<job, run, row, last, status, owner, latest>>
  BY DEF Conclude, jobRows
<1>2. run[t] \in Runs /\ status[run[t]] = "RUNNING" /\ approval[run[t]] = NULL
  BY DEF RunInv, QueueInv
<1>3. \A u \in Threads : u # t /\ pc[u] \in {"started", "closing", "closed"} => run[u] # run[t]
  BY OwnRun
<1>4. RunInv'
  <2>1. \A s \in Runs : status'[s] = NULL => approval'[s] = NULL
    BY <1>1, <1>2 DEF RunInv, AutomationAssumption, Statuses
  <2>2. \A j \in Jobs : /\ row'[j] = "none" => latest'[j] = NULL
                        /\ latest'[j] # NULL => status'[latest'[j]] # NULL /\ owner'[latest'[j]] = j
    BY <1>1 DEF RunInv
  <2>3. \A u \in Threads :
          /\ pc'[u] # "idle" => row'[job'[u]] # "none"
          /\ pc'[u] \in {"started", "closing", "closed"} =>
               /\ latest'[job'[u]] = run'[u]
               /\ status'[run'[u]] = IF pc'[u] = "closed" THEN outcome'[u] ELSE "RUNNING"
    BY <1>1 DEF RunInv
  <2> QED BY <2>1, <2>2, <2>3 DEF RunInv
<1>5. QueueInv'
  <2>1. PendingIsQueued'
    BY <1>1, <1>2 DEF QueueInv, PendingIsQueued, Final
  <2>2. \A u \in Threads :
          /\ pc'[u] = "started" => approval'[run'[u]] = NULL
          /\ pc'[u] \in {"closing", "closed"} =>
               (outcome'[u] = "APPROVAL_PENDING" <=> approval'[run'[u]] # NULL)
    <3> TAKE u \in Threads
    <3>1. CASE u = t
      BY <1>1, <1>2, <3>1 DEF AutomationAssumption
    <3>2. CASE u # t
      BY <1>1, <1>2, <1>3, <3>2 DEF QueueInv
    <3> QED BY <3>1, <3>2
  <2> QED BY <2>1, <2>2 DEF QueueInv
<1>6. LastIsLatest'
  BY <1>1 DEF LastIsLatest, Stored
<1> QED BY <1>4, <1>5, <1>6

\* A run closes: it is the latest of its job, whose row gets the same status.
LEMMA CloseRun ==
  ASSUME AutomationAssumption, BaseInv, MarkInv, RunInv, QueueInv, LastIsLatest,
         NEW t \in Threads, Close(t)
  PROVE  (RunInv /\ QueueInv /\ LastIsLatest)'
<1> USE DEF BaseInv, TypeOK, CallInv
<1>1. /\ pc[t] = "closing" /\ pc' = [pc EXCEPT ![t] = "closed"]
      /\ status' = [status EXCEPT ![run[t]] = outcome[t]]
      /\ last' = [last EXCEPT ![job[t]] = IF Stored(job[t]) THEN outcome[t] ELSE @]
      /\ UNCHANGED <<row, owner, approval, job, run, outcome, latest>>
  BY DEF Close
<1>2. /\ job[t] \in Jobs /\ run[t] \in Runs /\ outcome[t] \in Final
      /\ latest[job[t]] = run[t] /\ owner[run[t]] = job[t] /\ status[run[t]] = "RUNNING"
  <2>1. job[t] \in Jobs /\ run[t] \in Runs /\ outcome[t] \in Final
    BY <1>1
  <2>2. latest[job[t]] = run[t] /\ status[run[t]] = "RUNNING"
    BY <1>1 DEF RunInv
  <2> QED BY <2>1, <2>2 DEF RunInv, AutomationAssumption
<1>3. outcome[t] # NULL
  BY <1>2 DEF AutomationAssumption, Statuses
<1>4. \A u \in Threads : u # t /\ pc[u] \in {"started", "closing", "closed"} => run[u] # run[t]
  BY <1>1, OwnRun
<1>5. RunInv'
  <2>1. \A s \in Runs : status'[s] = NULL => approval'[s] = NULL
    BY <1>1, <1>2, <1>3 DEF RunInv
  <2>2. \A j \in Jobs : /\ row'[j] = "none" => latest'[j] = NULL
                        /\ latest'[j] # NULL => status'[latest'[j]] # NULL /\ owner'[latest'[j]] = j
    BY <1>1, <1>2, <1>3 DEF RunInv
  <2>3. \A u \in Threads :
          /\ pc'[u] # "idle" => row'[job'[u]] # "none"
          /\ pc'[u] \in {"started", "closing", "closed"} =>
               /\ latest'[job'[u]] = run'[u]
               /\ status'[run'[u]] = IF pc'[u] = "closed" THEN outcome'[u] ELSE "RUNNING"
    <3> TAKE u \in Threads
    <3>1. CASE u = t
      BY <1>1, <1>2, <3>1 DEF RunInv
    <3>2. CASE u # t
      BY <1>1, <1>2, <1>4, <3>2 DEF RunInv
    <3> QED BY <3>1, <3>2
  <2> QED BY <2>1, <2>2, <2>3 DEF RunInv
<1>6. QueueInv'
  <2>1. PendingIsQueued'
    BY <1>1, <1>2 DEF QueueInv, PendingIsQueued
  <2>2. \A u \in Threads :
          /\ pc'[u] = "started" => approval'[run'[u]] = NULL
          /\ pc'[u] \in {"closing", "closed"} =>
               (outcome'[u] = "APPROVAL_PENDING" <=> approval'[run'[u]] # NULL)
    BY <1>1 DEF QueueInv
  <2> QED BY <2>1, <2>2 DEF QueueInv
<1>7. LastIsLatest'
  <2> SUFFICES ASSUME NEW j \in Jobs, Stored(j)', latest'[j] # NULL, status'[latest'[j]] \in Final
               PROVE  last'[j] = status'[latest'[j]]
    BY DEF LastIsLatest
  <2>1. Stored(j) /\ latest[j] # NULL /\ latest[j] \in Runs
    BY <1>1 DEF Stored
  <2>2. CASE j = job[t]
    BY <1>1, <1>2, <2>1, <2>2
  <2>3. CASE j # job[t]
    <3>1. latest[j] # run[t]
      BY <1>2, <2>1, <2>3 DEF RunInv
    <3> QED BY <1>1, <1>2, <2>1, <2>3, <3>1 DEF LastIsLatest
  <2> QED BY <2>2, <2>3
<1> QED BY <1>5, <1>6, <1>7

LEMMA NextRuns ==
  ASSUME AutomationAssumption, BaseInv, MarkInv, RunInv, QueueInv, LastIsLatest, [Next]_vars
  PROVE  (RunInv /\ QueueInv /\ LastIsLatest)'
<1> USE DEF jobRows, runRows, calls
<1>1. ASSUME NEW j \in Jobs, CreateJob(j) \/ DeleteJob(j) \/ BecomeDue(j)
      PROVE (RunInv /\ QueueInv /\ LastIsLatest)'
  <2>1. UNCHANGED <<last, status, owner, approval, latest, pc, job, run, outcome>>
    BY <1>1 DEF CreateJob, DeleteJob, BecomeDue
  <2>2. \A k \in Jobs : /\ row'[k] = "none" => row[k] = "none"
                        /\ row[k] = "none" => row'[k] \in {"none", "enabled"}
                        /\ row[k] # "none" /\ Stored(k)' => Stored(k)
    BY <1>1 DEF CreateJob, DeleteJob, BecomeDue, Stored, BaseInv, TypeOK
  <2> QED BY <2>1, <2>2, RunFrame
<1>2. ASSUME NEW j \in Jobs, NEW state \in {"enabled", "paused"}, ToggleJob(j, state)
      PROVE (RunInv /\ QueueInv /\ LastIsLatest)'
  <2>1. UNCHANGED <<last, status, owner, approval, latest, pc, job, run, outcome>>
    BY <1>2 DEF ToggleJob
  <2>2. \A k \in Jobs : /\ row'[k] = "none" => row[k] = "none"
                        /\ row[k] = "none" => row'[k] \in {"none", "enabled"}
                        /\ row[k] # "none" /\ Stored(k)' => Stored(k)
    BY <1>2 DEF ToggleJob, Stored, BaseInv, TypeOK
  <2> QED BY <2>1, <2>2, RunFrame
<1>3. ASSUME NEW t \in Threads, NEW j \in Jobs, Fire(t, j) \/ RunNow(t, j)
      PROVE (RunInv /\ QueueInv /\ LastIsLatest)'
  <2>1. Call(t, j) /\ row[j] # "none"
    BY <1>3 DEF Fire, RunNow, Stored
  <2> QED BY <2>1, CallFrame DEF Call, BaseInv, TypeOK
<1>4. ASSUME NEW t \in Threads, Skip(t) \/ Release(t) \/ StoreFails(t)
      PROVE (RunInv /\ QueueInv /\ LastIsLatest)'
  <2>1. Leave(t) /\ UNCHANGED <<row, last, status, owner, approval, latest>>
    BY <1>4 DEF Skip, Release, StoreFails
  <2> QED BY <2>1, CallFrame DEF Leave, BaseInv, TypeOK
<1>5. ASSUME NEW t \in Threads, Claim(t) PROVE (RunInv /\ QueueInv /\ LastIsLatest)'
  BY <1>5, CallFrame DEF Claim, BaseInv, TypeOK
<1>6. ASSUME NEW t \in Threads, NEW r \in Runs, Start(t, r)
      PROVE (RunInv /\ QueueInv /\ LastIsLatest)'
  BY <1>6, StartRun
<1>7. ASSUME NEW t \in Threads, NEW result \in {"SUCCESS", "FAILED"}, Perform(t, result)
      PROVE (RunInv /\ QueueInv /\ LastIsLatest)'
  BY <1>7, ConcludeRun DEF Perform, Final
<1>8. ASSUME NEW t \in Threads, Ask(t) PROVE (RunInv /\ QueueInv /\ LastIsLatest)'
  BY <1>8, ConcludeRun DEF Ask, Final
<1>9. ASSUME NEW t \in Threads, AskFails(t) PROVE (RunInv /\ QueueInv /\ LastIsLatest)'
  BY <1>9, ConcludeRun DEF AskFails, Final
<1>10. ASSUME NEW t \in Threads, Close(t) PROVE (RunInv /\ QueueInv /\ LastIsLatest)'
  BY <1>10, CloseRun
<1>11. ASSUME Restart PROVE (RunInv /\ QueueInv /\ LastIsLatest)'
  BY <1>11, CallFrame DEF Restart
<1>12. ASSUME NEW r \in Runs, Decide(r) PROVE (RunInv /\ QueueInv /\ LastIsLatest)'
  <2>1. /\ approval[r] # NULL /\ approval' = [approval EXCEPT ![r] = "RESOLVED"]
        /\ UNCHANGED <<row, last, status, owner, latest, pc, job, run, outcome>>
    BY <1>12 DEF Decide, AutomationAssumption
  <2>2. \A s \in Runs : approval'[s] = NULL <=> approval[s] = NULL
    BY <2>1 DEF BaseInv, TypeOK, AutomationAssumption
  <2>3. RunInv'
    BY <2>1, <2>2 DEF RunInv
  <2>4. QueueInv'
    BY <2>1, <2>2 DEF QueueInv, PendingIsQueued, BaseInv, CallInv
  <2>5. LastIsLatest'
    BY <2>1 DEF LastIsLatest, Stored
  <2> QED BY <2>3, <2>4, <2>5
<1>13. CASE UNCHANGED vars
  BY <1>13, CallFrame DEF vars
<1> QED
  BY <1>1, <1>2, <1>3, <1>4, <1>5, <1>6, <1>7, <1>8, <1>9, <1>10, <1>11,
     <1>12, <1>13 DEF Next, Proceed

LEMMA Invariant == ASSUME AutomationAssumption PROVE Spec => []Inv
<1>1. Init => Inv
  BY InitBase, InitMark, InitRun DEF Inv
<1>2. Inv /\ [Next]_vars => Inv'
  BY NextBase, NextMark, NextRuns DEF Inv
<1> QED BY <1>1, <1>2, PTL DEF Spec

\* The row of a job shows the status of the run that began last, however many
\* triggers, failures and restarts there were.
THEOREM LatestShown == ASSUME AutomationAssumption PROVE Spec => []LastIsLatest
<1>1. Inv => LastIsLatest
  BY DEF Inv
<1> QED BY <1>1, Invariant, PTL

\* A closed run says APPROVAL_PENDING just when its request is in the queue.
THEOREM LogMatchesQueue == ASSUME AutomationAssumption PROVE Spec => []PendingIsQueued
<1>1. Inv => PendingIsQueued
  BY DEF Inv, QueueInv
<1> QED BY <1>1, Invariant, PTL
-----------------------------------------------------------------------------
(* The log as a whole *)

InRun(t) == pc[t] \in {"started", "closing"}

\* The open runs that are not lost are the ones threads work on; a lost run
\* stays open, and no thread has it.
LogInv ==
  /\ \A r \in lost.runs : status[r] = "RUNNING"
  /\ \A t \in Threads : InRun(t) => run[t] \notin lost.runs
  /\ \A r \in Runs : status[r] = "RUNNING" =>
       r \in lost.runs \/ \E t \in Threads : InRun(t) /\ run[t] = r

\* A thread has no run before it began one, and none afterwards.
IdleInv == \A t \in Threads : pc[t] \in {"idle", "called", "claimed"} => run[t] = NULL

LEMMA NextIdle == ASSUME BaseInv, IdleInv, [Next]_vars PROVE IdleInv'
<1> USE DEF BaseInv, TypeOK, IdleInv, calls
<1>1. ASSUME NEW j \in Jobs, CreateJob(j) \/ DeleteJob(j) \/ BecomeDue(j) PROVE IdleInv'
  BY <1>1 DEF CreateJob, DeleteJob, BecomeDue
<1>2. ASSUME NEW j \in Jobs, NEW state \in {"enabled", "paused"}, ToggleJob(j, state)
      PROVE IdleInv'
  BY <1>2 DEF ToggleJob
<1>3. ASSUME NEW t \in Threads, NEW j \in Jobs, Fire(t, j) \/ RunNow(t, j) PROVE IdleInv'
  BY <1>3 DEF Fire, RunNow, Call
<1>4. ASSUME NEW t \in Threads, Skip(t) \/ Release(t) \/ StoreFails(t) PROVE IdleInv'
  BY <1>4 DEF Skip, Release, StoreFails, Leave
<1>5. ASSUME NEW t \in Threads, Claim(t) \/ Close(t) PROVE IdleInv'
  BY <1>5 DEF Claim, Close
<1>6. ASSUME NEW t \in Threads, NEW r \in Runs, Start(t, r) PROVE IdleInv'
  BY <1>6 DEF Start
<1>7. ASSUME NEW t \in Threads, NEW result \in {"SUCCESS", "FAILED"}, Perform(t, result)
      PROVE IdleInv'
  BY <1>7 DEF Perform, Conclude
<1>8. ASSUME NEW t \in Threads, Ask(t) \/ AskFails(t) PROVE IdleInv'
  BY <1>8 DEF Ask, AskFails, Conclude
<1>9. ASSUME Restart PROVE IdleInv'
  BY <1>9 DEF Restart
<1>10. ASSUME NEW r \in Runs, Decide(r) PROVE IdleInv'
  BY <1>10 DEF Decide
<1>11. CASE UNCHANGED vars
  BY <1>11 DEF vars
<1> QED
  BY <1>1, <1>2, <1>3, <1>4, <1>5, <1>6, <1>7, <1>8, <1>9, <1>10, <1>11 DEF Next, Proceed

\* What a thread that works on a run knows of it.
LEMMA RunOpen ==
  ASSUME AutomationAssumption, Inv, LogInv, NEW t \in Threads, InRun(t)
  PROVE  /\ run[t] \in Runs /\ job[t] \in Jobs /\ Log!Open(run[t])
         /\ owner[run[t]] = job[t]
BY DEF Inv, BaseInv, CallInv, RunInv, LogInv, InRun, Log!Open, AutomationAssumption

\* A step that leaves the log, the lost runs and the threads at work alone.
LEMMA LogFrame ==
  ASSUME LogInv, UNCHANGED <<status, lost>>,
         \A t \in Threads : InRun(t)' <=> InRun(t),
         \A t \in Threads : InRun(t) => run'[t] = run[t]
  PROVE  LogInv'
BY DEF LogInv

LEMMA NextLog ==
  ASSUME AutomationAssumption, Inv, IdleInv, LogInv, [Next]_vars PROVE LogInv'
<1> USE DEF jobRows, runRows, calls, Inv, BaseInv, TypeOK, CallInv
<1>1. ASSUME NEW j \in Jobs, CreateJob(j) \/ DeleteJob(j) \/ BecomeDue(j) PROVE LogInv'
  BY <1>1, LogFrame DEF CreateJob, DeleteJob, BecomeDue, InRun
<1>2. ASSUME NEW j \in Jobs, NEW state \in {"enabled", "paused"}, ToggleJob(j, state)
      PROVE LogInv'
  BY <1>2, LogFrame DEF ToggleJob, InRun
<1>3. ASSUME NEW t \in Threads, NEW j \in Jobs, Fire(t, j) \/ RunNow(t, j) PROVE LogInv'
  BY <1>3, LogFrame DEF Fire, RunNow, Call, InRun
<1>4. ASSUME NEW t \in Threads, Skip(t) \/ Release(t) PROVE LogInv'
  BY <1>4, LogFrame DEF Skip, Release, Leave, InRun
<1>5. ASSUME NEW t \in Threads, Claim(t) PROVE LogInv'
  BY <1>5, LogFrame DEF Claim, InRun
<1>6. ASSUME NEW t \in Threads, NEW r \in Runs, Start(t, r) PROVE LogInv'
  <2>1. /\ status[r] = NULL /\ status' = [status EXCEPT ![r] = "RUNNING"]
        /\ pc[t] = "claimed" /\ pc' = [pc EXCEPT ![t] = "started"]
        /\ run' = [run EXCEPT ![t] = r] /\ lost' = lost
    BY <1>6 DEF Start
  <2>2. r \notin lost.runs
    BY <2>1 DEF LogInv, AutomationAssumption, Statuses, Final
  <2>3. \A u \in Threads : InRun(u)' <=> InRun(u) \/ u = t
    BY <2>1 DEF InRun
  <2>4. \A u \in Threads : InRun(u) => run'[u] = run[u]
    BY <2>1 DEF InRun
  <2>5. \A q \in Runs : q # r => status'[q] = status[q]
    BY <2>1
  <2>6. status'[r] = "RUNNING" /\ run'[t] = r
    BY <2>1
  <2> QED BY <2>1, <2>2, <2>3, <2>4, <2>5, <2>6 DEF LogInv
<1>7. ASSUME NEW t \in Threads, NEW result \in {"SUCCESS", "FAILED"}, Perform(t, result)
      PROVE LogInv'
  BY <1>7, LogFrame DEF Perform, Conclude, InRun
<1>8. ASSUME NEW t \in Threads, Ask(t) \/ AskFails(t) PROVE LogInv'
  BY <1>8, LogFrame DEF Ask, AskFails, Conclude, InRun
<1>9. ASSUME NEW t \in Threads, Close(t) PROVE LogInv'
  <2>1. /\ pc[t] = "closing" /\ pc' = [pc EXCEPT ![t] = "closed"]
        /\ status' = [status EXCEPT ![run[t]] = outcome[t]]
        /\ UNCHANGED <<run, lost>> /\ outcome[t] \in Final /\ run[t] \in Runs
    BY <1>9 DEF Close
  <2>2. \A u \in Threads : InRun(u)' <=> InRun(u) /\ u # t
    BY <2>1 DEF InRun
  <2>3. \A u \in Threads : InRun(u) /\ u # t => run[u] # run[t]
    BY <2>1, OwnRun DEF InRun
  <2>4. run[t] \notin lost.runs
    BY <2>1 DEF LogInv, InRun
  <2>5. status'[run[t]] # "RUNNING"
    BY <2>1 DEF Final
  <2>6. \A q \in Runs : q # run[t] => status'[q] = status[q]
    BY <2>1
  <2> QED BY <2>1, <2>2, <2>3, <2>4, <2>5, <2>6 DEF LogInv
<1>10. ASSUME NEW t \in Threads, StoreFails(t) PROVE LogInv'
  <2>1. /\ pc[t] \in {"claimed", "closing"} /\ pc' = [pc EXCEPT ![t] = "idle"]
        /\ run' = [run EXCEPT ![t] = NULL] /\ status' = status
        /\ lost'.runs = lost.runs \cup ({run[t]} \ {NULL})
    BY <1>10 DEF StoreFails, Leave
  <2>2. \A u \in Threads : InRun(u)' <=> InRun(u) /\ u # t
    BY <2>1 DEF InRun
  <2>3. \A u \in Threads : InRun(u) /\ u # t => run'[u] = run[u]
    BY <2>1 DEF InRun
  <2>4. CASE pc[t] = "claimed"
    <3>1. run[t] = NULL
      BY <2>4 DEF IdleInv
    <3> QED BY <2>1, <2>2, <2>3, <2>4, <3>1 DEF LogInv, InRun
  <2>5. CASE pc[t] = "closing"
    <3>1. InRun(t) /\ run[t] \in Runs /\ status[run[t]] = "RUNNING"
      BY <2>5 DEF InRun, RunInv
    <3>2. \A u \in Threads : InRun(u) /\ u # t => run[u] # run[t]
      BY <2>5, OwnRun DEF InRun
    <3>3. lost'.runs = lost.runs \cup {run[t]}
      BY <2>1, <3>1 DEF AutomationAssumption
    <3> QED BY <2>1, <2>2, <2>3, <3>1, <3>2, <3>3 DEF LogInv
  <2> QED BY <2>1, <2>4, <2>5
<1>11. ASSUME Restart PROVE LogInv'
  BY <1>11 DEF Restart, LogInv, InRun
<1>12. ASSUME NEW r \in Runs, Decide(r) PROVE LogInv'
  BY <1>12, LogFrame DEF Decide, InRun
<1>13. CASE UNCHANGED vars
  BY <1>13, LogFrame DEF vars, InRun
<1> QED
  BY <1>1, <1>2, <1>3, <1>4, <1>5, <1>6, <1>7, <1>8, <1>9, <1>10, <1>11,
     <1>12, <1>13 DEF Next, Proceed

\* Every step of the engine is a step of the log, or does not touch it.
LEMMA StepLogs ==
  ASSUME AutomationAssumption, Inv, IdleInv, LogInv, [Next]_vars
  PROVE  Log!Next \/ UNCHANGED Log!logVars
<1> USE DEF jobRows, runRows, calls, Log!logVars
<1>1. ASSUME NEW j \in Jobs, CreateJob(j) \/ DeleteJob(j) \/ BecomeDue(j)
      PROVE UNCHANGED Log!logVars
  BY <1>1 DEF CreateJob, DeleteJob, BecomeDue
<1>2. ASSUME NEW j \in Jobs, NEW state \in {"enabled", "paused"}, ToggleJob(j, state)
      PROVE UNCHANGED Log!logVars
  BY <1>2 DEF ToggleJob
<1>3. ASSUME NEW t \in Threads, NEW j \in Jobs, Fire(t, j) \/ RunNow(t, j)
      PROVE UNCHANGED Log!logVars
  BY <1>3 DEF Fire, RunNow, Call
<1>4. ASSUME NEW t \in Threads, Skip(t) \/ Release(t) \/ Claim(t)
      PROVE UNCHANGED Log!logVars
  BY <1>4 DEF Skip, Release, Claim
<1>5. ASSUME NEW t \in Threads, NEW r \in Runs, Start(t, r) PROVE Log!Next
  <2>1. /\ pc[t] = "claimed" /\ job[t] \in Jobs
        /\ status[r] = NULL /\ status' = [status EXCEPT ![r] = "RUNNING"]
        /\ owner' = [owner EXCEPT ![r] = job[t]]
        /\ UNCHANGED <<approval, lost>>
    BY <1>5 DEF Start, Inv, BaseInv, CallInv
  <2>2. ASSUME NEW q \in Runs, Log!Open(q) PROVE owner[q] # job[t]
    <3>1. PICK u \in Threads : InRun(u) /\ run[u] = q
      BY <2>2 DEF Log!Open, LogInv
    <3>2. owner[q] = job[u]
      BY <3>1, RunOpen
    <3>3. job[u] # job[t]
      BY <2>1, <3>1 DEF InRun, Inv, MarkInv, Holding
    <3> QED BY <3>2, <3>3
  <2>3. Log!Begin(r, job[t])
    BY <2>1, <2>2 DEF Log!Begin
  <2> QED BY <2>1, <2>3 DEF Log!Next
<1>6. ASSUME NEW t \in Threads, NEW result \in {"SUCCESS", "FAILED"}, Perform(t, result)
      PROVE UNCHANGED Log!logVars
  BY <1>6 DEF Perform, Conclude
<1>7. ASSUME NEW t \in Threads, Ask(t) PROVE Log!Next
  <2>1. /\ pc[t] = "started" /\ approval' = [approval EXCEPT ![run[t]] = "PENDING"]
        /\ UNCHANGED <<status, owner, lost>>
    BY <1>7 DEF Ask, Conclude
  <2>2. run[t] \in Runs /\ Log!Open(run[t]) /\ approval[run[t]] = NULL
    BY <2>1, RunOpen DEF InRun, Inv, QueueInv
  <2>3. Log!Request(run[t])
    BY <2>1, <2>2 DEF Log!Request
  <2> QED BY <2>2, <2>3 DEF Log!Next
<1>8. ASSUME NEW t \in Threads, AskFails(t) PROVE UNCHANGED Log!logVars
  BY <1>8 DEF AskFails, Conclude
<1>9. ASSUME NEW t \in Threads, Close(t) PROVE Log!Next
  <2>1. /\ pc[t] = "closing" /\ status' = [status EXCEPT ![run[t]] = outcome[t]]
        /\ UNCHANGED <<owner, approval, lost>>
    BY <1>9 DEF Close
  <2>2. run[t] \in Runs /\ Log!Open(run[t])
    BY <2>1, RunOpen DEF InRun
  <2>3. outcome[t] \in Final /\ (outcome[t] = "APPROVAL_PENDING" <=> approval[run[t]] # NULL)
    BY <2>1 DEF Inv, QueueInv, BaseInv, CallInv
  <2>4. Log!Close(run[t], outcome[t])
    BY <2>1, <2>2, <2>3 DEF Log!Close
  <2> QED BY <2>2, <2>3, <2>4 DEF Log!Next
<1>10. ASSUME NEW t \in Threads, StoreFails(t) PROVE Log!Next
  <2>1. /\ pc[t] \in {"claimed", "closing"} /\ UNCHANGED <<status, owner, approval>>
        /\ lost'.runs = ({run[t]} \ {NULL}) \cup lost.runs
    BY <1>10 DEF StoreFails
  <2>2. ASSUME NEW r \in {run[t]} \ {NULL} PROVE r \in Runs /\ status[r] = "RUNNING"
    BY <2>1, <2>2 DEF Inv, IdleInv, RunInv, BaseInv, TypeOK
  <2>3. Log!Abandon({run[t]} \ {NULL})
    BY <2>1, <2>2 DEF Log!Abandon
  <2> QED BY <2>2, <2>3 DEF Log!Next
<1>11. ASSUME Restart PROVE Log!Next
  <2> DEFINE R == {r \in Runs : status[r] = "RUNNING"}
  <2>1. lost'.runs = R /\ UNCHANGED <<status, owner, approval>>
    BY <1>11 DEF Restart
  <2>2. lost.runs \subseteq R
    BY DEF LogInv, Inv, BaseInv, TypeOK
  <2>3. Log!Abandon(R)
    BY <2>1, <2>2 DEF Log!Abandon
  <2> QED BY <2>3 DEF Log!Next
<1>12. ASSUME NEW r \in Runs, Decide(r) PROVE Log!Next
  <2>1. Log!Decide(r)
    BY <1>12 DEF Decide, Log!Decide
  <2> QED BY <2>1 DEF Log!Next
<1>13. CASE UNCHANGED vars
  BY <1>13 DEF vars
<1> QED
  BY <1>1, <1>2, <1>3, <1>4, <1>5, <1>6, <1>7, <1>8, <1>9, <1>10, <1>11,
     <1>12, <1>13 DEF Next, Proceed

\* The transactions of the engine add up to a log in which a job has one open
\* run at a time and a run closes once, with the request it made.
THEOREM LogRefined == ASSUME AutomationAssumption PROVE Spec => KeepsLog
<1>1. Init => IdleInv /\ LogInv
  BY DEF AutomationAssumption, Init, IdleInv, LogInv, InRun, Statuses, Final
<1>2. Inv /\ IdleInv /\ LogInv /\ [Next]_vars => (IdleInv /\ LogInv)'
  BY NextIdle, NextLog DEF Inv
<1>3. Init => Log!Init
  BY DEF Init, Log!Init
<1>4. Inv /\ IdleInv /\ LogInv /\ [Next]_vars => [Log!Next]_(Log!logVars)
  BY StepLogs
<1> QED BY <1>1, <1>2, <1>3, <1>4, Invariant, PTL DEF Spec, KeepsLog, Log!Spec

\* A run that is open in the log has a thread that will close it, or its thread
\* was lost: the safety half of RunsClose.
THEOREM OpenRunsWorked ==
  ASSUME AutomationAssumption
  PROVE  Spec => [](\A r \in Runs : status[r] = "RUNNING" =>
                      r \in lost.runs \/ \E t \in Threads : InRun(t) /\ run[t] = r)
<1>1. Init => IdleInv /\ LogInv
  BY DEF AutomationAssumption, Init, IdleInv, LogInv, InRun, Statuses, Final
<1>2. Inv /\ IdleInv /\ LogInv /\ [Next]_vars => (IdleInv /\ LogInv)'
  BY NextIdle, NextLog DEF Inv
<1>3. LogInv => \A r \in Runs : status[r] = "RUNNING" =>
                  r \in lost.runs \/ \E t \in Threads : InRun(t) /\ run[t] = r
  BY DEF LogInv
<1> QED BY <1>1, <1>2, <1>3, Invariant, PTL DEF Spec
=============================================================================
