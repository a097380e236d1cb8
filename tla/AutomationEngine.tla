-------------------------- MODULE AutomationEngine --------------------------
(***************************************************************************)
(* Scheduled and manual automations: AutomationEngine (core/scheduler.py)  *)
(* with the approval queue of CentralizedApprovalEngine                    *)
(* (core/operations/approval_engine.py).                                   *)
(*                                                                         *)
(* A thread of the API server runs execute_job on a row it, or the timer   *)
(* loop, read before.  Each SQLite transaction is one step, and each look  *)
(* at the set of running jobs, taken under the engine's lock.  An id of a  *)
(* job or of an execution is never used twice.  Event triggers are left    *)
(* out: nothing publishes the three events the engine subscribes to.       *)
(***************************************************************************)
EXTENDS Naturals, FiniteSets

CONSTANTS
  Jobs,       \* bound: automations
  Interval,   \* the jobs with an INTERVAL trigger; the others run on request
  Gated,      \* the jobs whose action is of CATEGORY_B; the others of CATEGORY_A
  Threads,    \* bound: calls of execute_job at the same time
  Runs,       \* bound: execution ids
  MaxFaults,  \* bound: transactions that fail, and restarts
  NULL

Final == {"SUCCESS", "FAILED", "APPROVAL_PENDING"}
Statuses == Final \cup {"RUNNING"}

ASSUME AutomationAssumption ==
  /\ Interval \subseteq Jobs /\ Gated \subseteq Jobs
  /\ MaxFaults \in Nat
  /\ NULL \notin Jobs \cup Runs \cup Statuses \cup {"later", "now", "PENDING", "RESOLVED"}

VARIABLES
  row,       \* operational_automations: job -> the state of its row
  due,       \* its next_run_at: NULL, "later" than now, or "now"
  last,      \* its last_status
  status,    \* operational_automation_executions: run -> status, NULL if no row
  owner,     \* its job_id
  approval,  \* operational_pending_approvals: run -> status of the row it added
  running,   \* _running_jobs
  pc,        \* thread -> where its call of execute_job is
  job,       \* thread -> the job it was given
  run,       \* thread -> its execution id
  outcome,   \* thread -> the local variable status
  latest,    \* history: job -> the run that began last
  lost,      \* history: running jobs and open runs whose thread is gone
  faults     \* faults so far

jobRows == <<row, due, last>>
runRows == <<status, owner, approval>>
calls == <<pc, job, run, outcome>>
vars == <<jobRows, runRows, running, calls, latest, lost, faults>>

TypeOK ==
  /\ row \in [Jobs -> {"none", "enabled", "paused", "deleted"}]
  /\ due \in [Jobs -> {NULL, "later", "now"}]
  /\ last \in [Jobs -> Final \cup {NULL}]
  /\ status \in [Runs -> Statuses \cup {NULL}]
  /\ owner \in [Runs -> Jobs \cup {NULL}]
  /\ approval \in [Runs -> {"PENDING", "RESOLVED", NULL}]
  /\ running \subseteq Jobs
  /\ pc \in [Threads -> {"idle", "called", "claimed", "started", "closing", "closed"}]
  /\ job \in [Threads -> Jobs \cup {NULL}]
  /\ run \in [Threads -> Runs \cup {NULL}]
  /\ outcome \in [Threads -> Final \cup {NULL}]
  /\ latest \in [Jobs -> Runs \cup {NULL}]
  /\ lost \in [jobs : SUBSET Jobs, runs : SUBSET Runs]
  /\ faults \in 0..MaxFaults

Init ==
  /\ row = [j \in Jobs |-> "none"]
  /\ due = [j \in Jobs |-> NULL]
  /\ last = [j \in Jobs |-> NULL]
  /\ status = [r \in Runs |-> NULL]
  /\ owner = [r \in Runs |-> NULL]
  /\ approval = [r \in Runs |-> NULL]
  /\ running = {}
  /\ pc = [t \in Threads |-> "idle"]
  /\ job = [t \in Threads |-> NULL]
  /\ run = [t \in Threads |-> NULL]
  /\ outcome = [t \in Threads |-> NULL]
  /\ latest = [j \in Jobs |-> NULL]
  /\ lost = [jobs |-> {}, runs |-> {}]
  /\ faults = 0

Stored(j) == row[j] \in {"enabled", "paused"}

\* The next run of job j, counted from now.
NextRun(j) == IF j \in Interval THEN "later" ELSE NULL

-----------------------------------------------------------------------------
(* The job table *)

CreateJob(j) ==
  /\ row[j] = "none"
  /\ row' = [row EXCEPT ![j] = "enabled"]
  /\ due' = [due EXCEPT ![j] = NextRun(j)]
  /\ UNCHANGED <<last, runRows, running, calls, latest, lost, faults>>

ToggleJob(j, state) ==
  /\ Stored(j)
  /\ row' = [row EXCEPT ![j] = state]
  /\ UNCHANGED <<due, last, runRows, running, calls, latest, lost, faults>>

\* A run of the job that is under way, or about to begin, is not stopped.
DeleteJob(j) ==
  /\ Stored(j)
  /\ row' = [row EXCEPT ![j] = "deleted"]
  /\ UNCHANGED <<due, last, runRows, running, calls, latest, lost, faults>>

\* The clock passes next_run_at.
BecomeDue(j) ==
  /\ due[j] = "later"
  /\ due' = [due EXCEPT ![j] = "now"]
  /\ UNCHANGED <<row, last, runRows, running, calls, latest, lost, faults>>

-----------------------------------------------------------------------------
(* Triggers: a row is read, and a thread gets it *)

Call(t, j) ==
  /\ pc[t] = "idle"
  /\ pc' = [pc EXCEPT ![t] = "called"]
  /\ job' = [job EXCEPT ![t] = j]
  /\ UNCHANGED <<run, outcome, jobRows, runRows, running, latest, lost, faults>>

\* One row of a cycle of the timer loop.  The loop starts a thread for every
\* row it read; when a thread gets to run is open, so what happens between the
\* SELECT and the start of the thread may as well happen after it.
Fire(t, j) == j \in Interval /\ row[j] = "enabled" /\ due[j] = "now" /\ Call(t, j)

\* POST /{job_id}/run, for a paused job as well.
RunNow(t, j) == Stored(j) /\ Call(t, j)

-----------------------------------------------------------------------------
(* execute_job *)

\* Thread t leaves execute_job.
Leave(t) ==
  /\ pc' = [pc EXCEPT ![t] = "idle"]
  /\ job' = [job EXCEPT ![t] = NULL]
  /\ run' = [run EXCEPT ![t] = NULL]
  /\ outcome' = [outcome EXCEPT ![t] = NULL]

\* Fault: the refused call passes through the release as well.
MutSkip(t) ==
  /\ pc[t] = "called" /\ job[t] \in running
  /\ Leave(t)
  /\ running' = running \ {job[t]}
  /\ UNCHANGED <<jobRows, runRows, latest, lost, faults>>

\* The job runs already: the call answers SKIPPED and stores nothing.
Skip(t) ==
  /\ pc[t] = "called" /\ job[t] \in running
  /\ Leave(t)
  /\ UNCHANGED <<jobRows, runRows, running, latest, lost, faults>>

\* Fault: the running jobs are looked at before the lock is taken.
MutClaim(t) ==
  /\ pc[t] = "called"
  /\ pc' = [pc EXCEPT ![t] = "claimed"]
  /\ running' = running \cup {job[t]}
  /\ UNCHANGED <<job, run, outcome, jobRows, runRows, latest, lost, faults>>

Claim(t) ==
  /\ pc[t] = "called" /\ job[t] \notin running
  /\ pc' = [pc EXCEPT ![t] = "claimed"]
  /\ running' = running \cup {job[t]}
  /\ UNCHANGED <<job, run, outcome, jobRows, runRows, latest, lost, faults>>

\* The row of the run.
Start(t, r) ==
  /\ pc[t] = "claimed" /\ status[r] = NULL
  /\ status' = [status EXCEPT ![r] = "RUNNING"]
  /\ owner' = [owner EXCEPT ![r] = job[t]]
  /\ latest' = [latest EXCEPT ![job[t]] = r]
  /\ pc' = [pc EXCEPT ![t] = "started"]
  /\ run' = [run EXCEPT ![t] = r]
  /\ UNCHANGED <<approval, job, outcome, jobRows, running, lost, faults>>

Conclude(t, result) ==
  /\ pc' = [pc EXCEPT ![t] = "closing"]
  /\ outcome' = [outcome EXCEPT ![t] = result]
  /\ UNCHANGED <<job, run, jobRows, status, owner, running, latest, lost>>

\* Fault: a run whose handler raises ends with a status the table does not have.
MutPerform(t, result) ==
  /\ pc[t] = "started" /\ job[t] \notin Gated
  /\ Conclude(t, IF result = "FAILED" THEN "ERROR" ELSE result)
  /\ UNCHANGED <<approval, faults>>

\* The handler of a CATEGORY_A action, which evaluate_and_request_approval lets
\* pass even if the job is marked approval_required, returns or raises.
Perform(t, result) ==
  /\ pc[t] = "started" /\ job[t] \notin Gated
  /\ Conclude(t, result)
  /\ UNCHANGED <<approval, faults>>

\* A CATEGORY_B action waits for approval whatever the preferences are: each
\* run adds a row to the queue and ends.
Ask(t) ==
  /\ pc[t] = "started" /\ job[t] \in Gated
  /\ approval' = [approval EXCEPT ![run[t]] = "PENDING"]
  /\ Conclude(t, "APPROVAL_PENDING")
  /\ UNCHANGED faults

\* The row cannot be added; the exception makes the run FAILED.
AskFails(t) ==
  /\ pc[t] = "started" /\ job[t] \in Gated
  /\ faults < MaxFaults /\ faults' = faults + 1
  /\ Conclude(t, "FAILED")
  /\ UNCHANGED approval

\* Fault: a run that waits for approval does not plan the next one.
MutClose(t) ==
  /\ pc[t] = "closing"
  /\ pc' = [pc EXCEPT ![t] = "closed"]
  /\ status' = [status EXCEPT ![run[t]] = outcome[t]]
  /\ last' = [last EXCEPT ![job[t]] = IF Stored(job[t]) THEN outcome[t] ELSE @]
  /\ due' = [due EXCEPT ![job[t]] =
               IF Stored(job[t]) /\ outcome[t] # "APPROVAL_PENDING"
               THEN NextRun(job[t]) ELSE NULL]
  /\ UNCHANGED <<row, owner, approval, job, run, outcome, running, latest, lost, faults>>

\* Fault: the finally block only writes the row of the job.
MutCloseJob(t) ==
  /\ pc[t] = "closing"
  /\ pc' = [pc EXCEPT ![t] = "closed"]
  /\ last' = [last EXCEPT ![job[t]] = IF Stored(job[t]) THEN outcome[t] ELSE @]
  /\ due' = [due EXCEPT ![job[t]] = IF Stored(job[t]) THEN NextRun(job[t]) ELSE @]
  /\ UNCHANGED <<row, runRows, job, run, outcome, running, latest, lost, faults>>

\* The finally block: the outcome in the row of the run, and in the row of the
\* job (a deleted job has none) the outcome and the next due time.
Close(t) ==
  /\ pc[t] = "closing"
  /\ pc' = [pc EXCEPT ![t] = "closed"]
  /\ status' = [status EXCEPT ![run[t]] = outcome[t]]
  /\ last' = [last EXCEPT ![job[t]] = IF Stored(job[t]) THEN outcome[t] ELSE @]
  /\ due' = [due EXCEPT ![job[t]] = IF Stored(job[t]) THEN NextRun(job[t]) ELSE @]
  /\ UNCHANGED <<row, owner, approval, job, run, outcome, running, latest, lost, faults>>

\* Fault: a run that waits for approval keeps its mark until it is decided.
MutRelease(t) ==
  /\ pc[t] = "closed"
  /\ Leave(t)
  /\ running' = IF outcome[t] = "APPROVAL_PENDING" THEN running ELSE running \ {job[t]}
  /\ UNCHANGED <<jobRows, runRows, latest, lost, faults>>

Release(t) ==
  /\ pc[t] = "closed"
  /\ Leave(t)
  /\ running' = running \ {job[t]}
  /\ UNCHANGED <<jobRows, runRows, latest, lost, faults>>

-----------------------------------------------------------------------------
(* Failures and decisions *)

\* The transaction that records the start, or the outcome, fails: the
\* exception leaves execute_job, and nothing takes the job off the running ones.
StoreFails(t) ==
  /\ pc[t] \in {"claimed", "closing"}
  /\ faults < MaxFaults /\ faults' = faults + 1
  /\ lost' = [jobs |-> lost.jobs \cup {job[t]},
              runs |-> lost.runs \cup ({run[t]} \ {NULL})]
  /\ Leave(t)
  /\ UNCHANGED <<jobRows, runRows, running, latest>>

\* The server stops and starts again: the threads and _running_jobs are gone,
\* and nothing looks for the runs that were open.
Restart ==
  /\ faults < MaxFaults /\ faults' = faults + 1
  /\ running' = {}
  /\ pc' = [t \in Threads |-> "idle"]
  /\ job' = [t \in Threads |-> NULL]
  /\ run' = [t \in Threads |-> NULL]
  /\ outcome' = [t \in Threads |-> NULL]
  /\ lost' = [jobs |-> {}, runs |-> {r \in Runs : status[r] = "RUNNING"}]
  /\ UNCHANGED <<jobRows, runRows, latest>>

\* CentralizedApprovalEngine.resolve_approval.  Whether the answer is APPROVED
\* or REJECTED makes no difference to the engine: nothing runs the job.
Decide(r) ==
  /\ approval[r] = "PENDING"
  /\ approval' = [approval EXCEPT ![r] = "RESOLVED"]
  /\ UNCHANGED <<status, owner, jobRows, running, calls, latest, lost, faults>>

-----------------------------------------------------------------------------
\* What thread t does next by itself.
Proceed(t) ==
  \/ Skip(t) \/ Claim(t) \/ Ask(t) \/ Close(t) \/ Release(t)
  \/ \E r \in Runs : Start(t, r)
  \/ \E result \in {"SUCCESS", "FAILED"} : Perform(t, result)

Next ==
  \/ \E j \in Jobs : CreateJob(j) \/ DeleteJob(j) \/ BecomeDue(j)
  \/ \E j \in Jobs, state \in {"enabled", "paused"} : ToggleJob(j, state)
  \/ \E t \in Threads, j \in Jobs : Fire(t, j) \/ RunNow(t, j)
  \/ \E t \in Threads : Proceed(t) \/ AskFails(t) \/ StoreFails(t)
  \/ \E r \in Runs : Decide(r)
  \/ Restart

Spec == Init /\ [][Next]_vars

\* Threads run on, and the timer loop comes round to every job: as long as the
\* job is due it starts a thread for it every ten seconds.  Fairness of Fire is
\* strong because Threads is a bound of the model; the code has no pool.
FairSpec ==
  /\ Spec
  /\ \A t \in Threads : WF_vars(Proceed(t))
  /\ \A j \in Jobs : SF_vars(\E t \in Threads : Fire(t, j))

-----------------------------------------------------------------------------
(* Properties *)

\* The threads that hold job j: they claimed it and did not release it yet.
Holders(j) == {t \in Threads : job[t] = j /\ pc[t] \notin {"idle", "called"}}

\* One job never runs twice at the same time, whoever triggers it and however
\* its runs end (_running_jobs in execute_job).
OneRunAtATime ==
  \A t, u \in Threads : \A j \in Jobs : {t, u} \subseteq Holders(j) => t = u

\* A job is marked as running only while a thread runs it: a mark left behind
\* would stop the job for good.  Only a failed transaction leaves one.
MarksHeld == \A j \in running : Holders(j) # {} \/ j \in lost.jobs

\* The last status an administrator reads in the row of a job is that of the
\* latest run that began, not that of an older run which closed after it.
LastIsLatest ==
  \A j \in Jobs : Stored(j) /\ latest[j] # NULL /\ status[latest[j]] \in Final
                    => last[j] = status[latest[j]]

\* The log and the approval queue agree although two transactions write them: a
\* closed run says APPROVAL_PENDING just when its request is in the queue.
PendingIsQueued ==
  \A r \in Runs : status[r] \in Final =>
                    (status[r] = "APPROVAL_PENDING" <=> approval[r] # NULL)

\* The log and the queue as an administrator reads them.
Log == INSTANCE AutomationLog WITH
         Results <- Final, entry <- status, jobOf <- owner, request <- approval,
         abandoned <- lost.runs

\* One open run for each job, closed once and for good, with the requests it
\* made and no others: however threads, triggers, failures and restarts
\* interleave, the transactions of execute_job add up to that log.
KeepsLog == Log!Spec

\* Every run closes in the log unless its thread was lost (execute_job's
\* finally block; nothing repairs the log afterwards).
RunsClose == \A r \in Runs : <>[](status[r] = "RUNNING") => <>(r \in lost.runs)

\* A due job is run and planned again, whatever its last run ended with, unless
\* it is paused or deleted or a failed transaction left its mark behind.
DueRuns ==
  \A j \in Jobs :
    row[j] = "enabled" /\ due[j] = "now"
      ~> \/ row[j] # "enabled" \/ due[j] = "later" \/ j \in lost.jobs
         \/ \A r \in Runs : status[r] # NULL
=============================================================================
