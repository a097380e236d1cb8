---------------------------- MODULE ActionEngine ----------------------------
(***************************************************************************)
(* Proposal, approval and execution of network actions:                    *)
(* ActionManagementEngine (core/network_intelligence/action_engine.py) and *)
(* the approval queue it shares with CentralizedApprovalEngine             *)
(* (core/operations/approval_engine.py).                                   *)
(*                                                                         *)
(* Every SQLite transaction is one step.  A request that needs several     *)
(* transactions belongs to a caller, a thread of the API server, and keeps *)
(* what it read between them.  Actions are never deleted, so a lookup that *)
(* only asks whether an action exists is part of the step after it.        *)
(***************************************************************************)
EXTENDS Naturals, FiniteSets

CONSTANTS
  Actions,      \* bound: action ids
  Callers,      \* bound: requests served at the same time
  Risks,        \* the risks of the actions proposed
  MaxPolicies,  \* bound: different policies given to update_operations_policy
  MaxFaults,    \* bound: requests that die between two transactions
  NULL

\* What classify_risk makes of the name of an action.
AllRisks == {"READ_ONLY", "LOW", "MEDIUM", "HIGH", "CRITICAL"}
Statuses == {"PENDING_APPROVAL", "APPROVED", "REJECTED", "EXECUTING", "SUCCESS"}
Decisions == {"APPROVED", "REJECTED"}
Policies == [autoLow : BOOLEAN, requireMedium : BOOLEAN]

ASSUME ActionAssumption ==
  /\ Risks \subseteq AllRisks
  /\ MaxPolicies \in Nat
  /\ MaxFaults \in Nat
  /\ NULL \notin Actions \cup AllRisks \cup Statuses \cup {"PENDING"} \cup Policies

VARIABLES
  status,   \* operational_action_records: action -> status, NULL if no row
  risk,     \* its risk_level
  queue,    \* operational_pending_approvals: action -> status, NULL if no row
  policy,   \* operational_approval_preferences: the row a SELECT returns first
  phase,    \* caller -> what its request has done
  plan,     \* caller -> risk and status of the action being proposed
  target,   \* caller -> action being executed
  granted,  \* operational_audit_log: actions with an ACTION_APPROVED row
  started,  \* history: actions whose execution began
  asked,    \* history: policies given to update_operations_policy
  faults    \* faults so far

tables == <<status, risk, queue, granted, started>>
policies == <<policy, asked>>
calls == <<phase, plan, target>>
vars == <<tables, policies, calls, faults>>

Plans == [risk : Risks, status : {"APPROVED", "PENDING_APPROVAL"}]

TypeOK ==
  /\ status \in [Actions -> Statuses \cup {NULL}]
  /\ risk \in [Actions -> Risks \cup {NULL}]
  /\ queue \in [Actions -> Decisions \cup {"PENDING", NULL}]
  /\ policy \in Policies \cup {NULL}
  /\ phase \in [Callers -> {"idle", "proposing", "checked", "executing"}]
  /\ plan \in [Callers -> Plans \cup {NULL}]
  /\ target \in [Callers -> Actions \cup {NULL}]
  /\ granted \subseteq Actions /\ started \subseteq Actions
  /\ asked \subseteq Policies
  /\ faults \in 0..MaxFaults

Init ==
  /\ status = [a \in Actions |-> NULL]
  /\ risk = [a \in Actions |-> NULL]
  /\ queue = [a \in Actions |-> NULL]
  /\ policy = NULL
  /\ phase = [c \in Callers |-> "idle"]
  /\ plan = [c \in Callers |-> NULL]
  /\ target = [c \in Callers |-> NULL]
  /\ granted = {} /\ started = {} /\ asked = {}
  /\ faults = 0

-----------------------------------------------------------------------------
(* Policy *)

\* get_operations_policy: without a row, the defaults of AIOperationsPolicy.
Policy == IF policy = NULL THEN [autoLow |-> FALSE, requireMedium |-> TRUE]
                           ELSE policy

\* update_operations_policy: the row has no user_id, and UNIQUE does not relate
\* two NULLs, so the ON CONFLICT clause never applies: a second update adds a
\* second row, behind the one get_operations_policy fetches.
UpdatePolicy(p) ==
  /\ Cardinality(asked \cup {p}) <= MaxPolicies
  /\ policy' = IF policy = NULL THEN p ELSE policy
  /\ asked' = asked \cup {p}
  /\ UNCHANGED <<tables, calls, faults>>

-----------------------------------------------------------------------------
(* propose_action *)

\* Fault: the switch for MEDIUM actions waives the approval of HIGH ones too.
MutWaives(p, r) ==
  \/ r = "READ_ONLY"
  \/ r = "LOW" /\ p.autoLow
  \/ r \in {"MEDIUM", "HIGH"} /\ ~p.requireMedium

\* Policy p asks for no approval of an action of risk r.
Waives(p, r) ==
  \/ r = "READ_ONLY"
  \/ r = "LOW" /\ p.autoLow
  \/ r = "MEDIUM" /\ ~p.requireMedium

\* Fault: the record gets the status of the queue row.
MutPlanned(r) == IF Waives(Policy, r) THEN "APPROVED" ELSE "PENDING"

Planned(r) == IF Waives(Policy, r) THEN "APPROVED" ELSE "PENDING_APPROVAL"

\* The first transaction reads the policy ...
Propose(c, r) ==
  /\ phase[c] = "idle"
  /\ phase' = [phase EXCEPT ![c] = "proposing"]
  /\ plan' = [plan EXCEPT ![c] = [risk |-> r, status |-> Planned(r)]]
  /\ UNCHANGED <<target, tables, policies, faults>>

\* ... the second one writes the record and, if needed, the queue row.
Record(c, a) ==
  /\ phase[c] = "proposing"
  /\ status[a] = NULL
  /\ status' = [status EXCEPT ![a] = plan[c].status]
  /\ risk' = [risk EXCEPT ![a] = plan[c].risk]
  /\ queue' = [queue EXCEPT ![a] =
                 IF plan[c].status = "PENDING_APPROVAL" THEN "PENDING" ELSE @]
  /\ phase' = [phase EXCEPT ![c] = "idle"]
  /\ plan' = [plan EXCEPT ![c] = NULL]
  /\ UNCHANGED <<target, granted, started, policies, faults>>

-----------------------------------------------------------------------------
(* Decisions *)

\* Fault: only the record is updated, the queue row is forgotten.
MutResolve(a, decision) ==
  /\ status[a] # NULL
  /\ status' = [status EXCEPT ![a] = decision]
  /\ granted' = IF decision = "APPROVED" THEN granted \cup {a} ELSE granted
  /\ UNCHANGED <<queue, risk, started, policies, calls, faults>>

\* ActionManagementEngine.resolve_approval: whatever the status was, record
\* and queue row get the decision, and the audit log a row.
Resolve(a, decision) ==
  /\ status[a] # NULL
  /\ status' = [status EXCEPT ![a] = decision]
  /\ queue' = [queue EXCEPT ![a] = IF @ = NULL THEN NULL ELSE decision]
  /\ granted' = IF decision = "APPROVED" THEN granted \cup {a} ELSE granted
  /\ UNCHANGED <<risk, started, policies, calls, faults>>

\* CentralizedApprovalEngine.resolve_approval, from the administration console:
\* a pending row of the queue is decided; the record stays as it is.
ResolveInQueue(a, decision) ==
  /\ queue[a] = "PENDING"
  /\ queue' = [queue EXCEPT ![a] = decision]
  /\ UNCHANGED <<status, risk, granted, started, policies, calls, faults>>

-----------------------------------------------------------------------------
(* execute_and_verify_action *)

\* The first transaction reads the record ...
Check(c, a) ==
  /\ phase[c] = "idle"
  /\ status[a] = "APPROVED"
  /\ phase' = [phase EXCEPT ![c] = "checked"]
  /\ target' = [target EXCEPT ![c] = a]
  /\ UNCHANGED <<plan, tables, policies, faults>>

\* ... the second one marks it, without a look at its status ...
Execute(c) ==
  /\ phase[c] = "checked"
  /\ status' = [status EXCEPT ![target[c]] = "EXECUTING"]
  /\ started' = started \cup {target[c]}
  /\ phase' = [phase EXCEPT ![c] = "executing"]
  /\ UNCHANGED <<risk, queue, granted, plan, target, policies, faults>>

\* Fault: the final status is written only if the verification failed.
MutFinish(c) ==
  /\ phase[c] = "executing"
  /\ phase' = [phase EXCEPT ![c] = "idle"]
  /\ target' = [target EXCEPT ![c] = NULL]
  /\ UNCHANGED <<tables, plan, policies, faults>>

\* ... and the third one stores the outcome (the verification is simulated and
\* always passes).
Finish(c) ==
  /\ phase[c] = "executing"
  /\ status' = [status EXCEPT ![target[c]] = "SUCCESS"]
  /\ phase' = [phase EXCEPT ![c] = "idle"]
  /\ target' = [target EXCEPT ![c] = NULL]
  /\ UNCHANGED <<risk, queue, granted, started, plan, policies, faults>>

\* The next transaction of the request fails (the database stays locked), or
\* the process stops.
Die(c) ==
  /\ phase[c] # "idle"
  /\ faults < MaxFaults
  /\ faults' = faults + 1
  /\ phase' = [phase EXCEPT ![c] = "idle"]
  /\ plan' = [plan EXCEPT ![c] = NULL]
  /\ target' = [target EXCEPT ![c] = NULL]
  /\ UNCHANGED <<tables, policies>>

-----------------------------------------------------------------------------
Continue(c) == Execute(c) \/ Finish(c) \/ \E a \in Actions : Record(c, a)

Next ==
  \/ \E p \in Policies : UpdatePolicy(p)
  \/ \E c \in Callers, r \in Risks : Propose(c, r)
  \/ \E c \in Callers, a \in Actions : Check(c, a)
  \/ \E c \in Callers : Continue(c) \/ Die(c)
  \/ \E a \in Actions, d \in Decisions : Resolve(a, d) \/ ResolveInQueue(a, d)

Spec == Init /\ [][Next]_vars

\* A request that has begun runs on.
FairSpec == Spec /\ \A c \in Callers : WF_vars(Continue(c))

-----------------------------------------------------------------------------
(* Properties *)

\* An action begins only if an administrator approved it or a policy that was
\* once in force waives the approval of its risk; no policy waives it for HIGH
\* and CRITICAL (propose_action, update_operations_policy).
Allowed(a) ==
  \/ a \in granted
  \/ risk[a] = "READ_ONLY"
  \/ \E p \in asked : risk[a] \in {"LOW", "MEDIUM"} /\ Waives(p, risk[a])
NoBypass == \A a \in started : Allowed(a)

\* The queue never shows as open an action that is decided, or that runs: both
\* tables change in one transaction (resolve_approval).
QueueNotBehind == \A a \in Actions : queue[a] = "PENDING" => status[a] = "PENDING_APPROVAL"

\* What is being executed gets a final status, whoever else executes or decides
\* it meanwhile; only a request that died can leave an action EXECUTING for good
\* (execute_and_verify_action; nothing looks for such actions afterwards).
ExecutionEnds ==
  \A a \in Actions : <>[](status[a] = "EXECUTING") => <>(faults > 0)

\* "must be 'APPROVED' before execution"
\* core/network_intelligence/action_engine.py:427.
ExecutesApproved ==
  [][\A c \in Callers : Execute(c) => status[target[c]] = "APPROVED"]_vars
=============================================================================
