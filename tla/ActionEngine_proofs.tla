------------------------ MODULE ActionEngine_proofs ------------------------
(***************************************************************************)
(* For any number of actions, requests, policies and faults: no action     *)
(* that needs an approval ever begins without one, the approval queue is   *)
(* never behind the records, and no execution is forgotten unless its      *)
(* request died.                                                           *)
(*                                                                         *)
(* The gate is not one check but a chain: a policy is read, a status is    *)
(* derived from it, stored, read again by another request and trusted one  *)
(* transaction later.  GateInv says of every link that what it holds comes *)
(* from an approval or a waiver.                                           *)
(***************************************************************************)
EXTENDS ActionEngine, FiniteSetTheorems, TLAPS

-----------------------------------------------------------------------------
(* Invariants *)

\* A request that goes on has what it needs for that.
CallInv ==
  \A c \in Callers :
    /\ phase[c] = "proposing" => plan[c] \in Plans
    /\ phase[c] \in {"checked", "executing"} => target[c] \in Actions

BaseInv == TypeOK /\ CallInv

\* Some policy given so far waives the approval of an action of risk r.
Waived(r) ==
  \/ r = "READ_ONLY"
  \/ \E p \in asked : r \in {"LOW", "MEDIUM"} /\ Waives(p, r)

GateInv ==
  /\ policy # NULL => policy \in asked
  /\ \A c \in Callers :
       /\ phase[c] = "proposing" /\ plan[c].status = "APPROVED" => Waived(plan[c].risk)
       /\ phase[c] \in {"checked", "executing"} => Allowed(target[c])
  /\ \A a \in Actions : status[a] \in {"APPROVED", "EXECUTING", "SUCCESS"} => Allowed(a)
  /\ \A a \in started : Allowed(a)

\* Only a recorded action has a row in the queue, and what a request executes
\* is not waiting there.
QueueInv ==
  /\ \A a \in Actions :
       /\ status[a] = NULL => queue[a] = NULL
       /\ queue[a] = "PENDING" => status[a] = "PENDING_APPROVAL"
  /\ \A c \in Callers :
       phase[c] \in {"checked", "executing"} => queue[target[c]] # "PENDING"

\* A recorded action keeps its risk, and begins only when it is recorded.
RecordInv ==
  /\ \A a \in Actions : status[a] = NULL => a \notin started
  /\ \A c \in Callers :
       phase[c] \in {"checked", "executing"} => status[target[c]] # NULL

Inv == BaseInv /\ GateInv /\ QueueInv /\ RecordInv

-----------------------------------------------------------------------------
(* Types *)

LEMMA InitBase == ASSUME ActionAssumption, Init PROVE BaseInv
BY DEF ActionAssumption, Init, BaseInv, TypeOK, CallInv, Policies, Statuses

\* What a request plans to write is a plan.
LEMMA PlanType ==
  ASSUME NEW r \in Risks
  PROVE  [risk |-> r, status |-> Planned(r)] \in Plans
BY DEF Plans, Planned

\* Every step keeps the types.
LEMMA NextBase == ASSUME ActionAssumption, BaseInv, [Next]_vars PROVE BaseInv'
<1> USE DEF BaseInv, TypeOK, CallInv, tables, policies, calls
<1>1. ASSUME NEW p \in Policies, UpdatePolicy(p) PROVE BaseInv'
  BY <1>1 DEF UpdatePolicy
<1>2. ASSUME NEW c \in Callers, NEW r \in Risks, Propose(c, r) PROVE BaseInv'
  <2>1. [risk |-> r, status |-> Planned(r)] \in Plans
    BY PlanType
  <2>2. plan' \in [Callers -> Plans \cup {NULL}]
    BY <1>2, <2>1 DEF Propose
  <2>3. phase' \in [Callers -> {"idle", "proposing", "checked", "executing"}]
    BY <1>2 DEF Propose
  <2>4. CallInv'
    BY <1>2, <2>1 DEF Propose
  <2> QED BY <1>2, <2>2, <2>3, <2>4 DEF Propose
<1>3. ASSUME NEW c \in Callers, NEW a \in Actions, Check(c, a) PROVE BaseInv'
  BY <1>3 DEF Check
<1>4. ASSUME NEW c \in Callers, Execute(c) PROVE BaseInv'
  BY <1>4 DEF Execute, Statuses
<1>5. ASSUME NEW c \in Callers, Finish(c) PROVE BaseInv'
  BY <1>5 DEF Finish, Statuses
<1>6. ASSUME NEW c \in Callers, NEW a \in Actions, Record(c, a) PROVE BaseInv'
  <2>1. plan[c] \in Plans
    BY <1>6 DEF Record
  <2>2. plan[c].status \in Statuses /\ plan[c].risk \in Risks
    BY <2>1 DEF Plans, Statuses
  <2> QED BY <1>6, <2>1, <2>2 DEF Record, Plans
<1>7. ASSUME NEW c \in Callers, Die(c) PROVE BaseInv'
  BY <1>7 DEF Die, ActionAssumption
<1>8. ASSUME NEW a \in Actions, NEW d \in Decisions, Resolve(a, d) PROVE BaseInv'
  BY <1>8 DEF Resolve, Decisions, Statuses
<1>9. ASSUME NEW a \in Actions, NEW d \in Decisions, ResolveInQueue(a, d)
      PROVE BaseInv'
  BY <1>9 DEF ResolveInQueue
<1>10. CASE UNCHANGED vars
  BY <1>10 DEF vars
<1> QED
  BY <1>1, <1>2, <1>3, <1>4, <1>5, <1>6, <1>7, <1>8, <1>9, <1>10
  DEF Next, Continue

\* Whatever happens, requests and tables keep their types, and a request holds
\* what its next transaction uses.
THEOREM TypeCorrect == ASSUME ActionAssumption PROVE Spec => []TypeOK
<1>1. Init => BaseInv
  BY InitBase
<1>2. BaseInv /\ [Next]_vars => BaseInv'
  BY NextBase
<1>3. BaseInv => TypeOK
  BY DEF BaseInv
<1> QED BY <1>1, <1>2, <1>3, PTL DEF Spec

-----------------------------------------------------------------------------
(* The approval gate *)

\* A waiver lasts: later steps only add to the policies given.
LEMMA WaivedStays ==
  ASSUME asked \subseteq asked', NEW r, Waived(r)
  PROVE  Waived(r)'
BY DEF Waived, Waives

\* What the policy in force waives was waived by a policy that was given; the
\* defaults waive nothing but READ_ONLY.
LEMMA PolicyWaives ==
  ASSUME policy # NULL => policy \in asked, NEW r, Planned(r) = "APPROVED"
  PROVE  Waived(r)
<1>1. Waives(Policy, r)
  BY DEF Planned
<1>2. CASE policy = NULL
  BY <1>1, <1>2 DEF Policy, Waives, Waived
<1>3. CASE policy # NULL
  BY <1>1, <1>3 DEF Policy, Waives, Waived
<1> QED BY <1>2, <1>3

LEMMA AllowedIsWaived ==
  ASSUME NEW a
  PROVE  Allowed(a) <=> (a \in granted \/ Waived(risk[a]))
BY DEF Allowed, Waived

\* An approval lasts, as long as the action keeps its risk.
LEMMA AllowedStays ==
  ASSUME asked \subseteq asked', granted \subseteq granted',
         NEW a, risk'[a] = risk[a], Allowed(a)
  PROVE  Allowed(a)'
BY DEF Allowed, Waives

GateBase == BaseInv /\ GateInv /\ RecordInv

LEMMA InitGate == ASSUME ActionAssumption, Init PROVE GateBase
BY InitBase DEF GateBase, Init, GateInv, RecordInv, ActionAssumption, Statuses

LEMMA NextRecord ==
  ASSUME ActionAssumption, BaseInv, RecordInv, [Next]_vars
  PROVE  RecordInv'
<1> USE DEF BaseInv, TypeOK, CallInv, RecordInv, tables, policies, calls
<1>1. ASSUME NEW p \in Policies, UpdatePolicy(p) PROVE RecordInv'
  BY <1>1 DEF UpdatePolicy
<1>2. ASSUME NEW c \in Callers, NEW r \in Risks, Propose(c, r) PROVE RecordInv'
  BY <1>2 DEF Propose
<1>3. ASSUME NEW c \in Callers, NEW a \in Actions, Check(c, a) PROVE RecordInv'
  BY <1>3 DEF Check, ActionAssumption, Statuses
<1>4. ASSUME NEW c \in Callers, Execute(c) PROVE RecordInv'
  BY <1>4 DEF Execute, ActionAssumption, Statuses
<1>5. ASSUME NEW c \in Callers, Finish(c) PROVE RecordInv'
  BY <1>5 DEF Finish, ActionAssumption, Statuses
<1>6. ASSUME NEW c \in Callers, NEW a \in Actions, Record(c, a) PROVE RecordInv'
  <2>1. plan[c].status # NULL
    BY <1>6 DEF Record, Plans, ActionAssumption, Statuses
  <2> QED BY <1>6, <2>1 DEF Record
<1>7. ASSUME NEW c \in Callers, Die(c) PROVE RecordInv'
  BY <1>7 DEF Die
<1>8. ASSUME NEW a \in Actions, NEW d \in Decisions, Resolve(a, d) PROVE RecordInv'
  BY <1>8 DEF Resolve, Decisions, ActionAssumption, Statuses
<1>9. ASSUME NEW a \in Actions, NEW d \in Decisions, ResolveInQueue(a, d)
      PROVE RecordInv'
  BY <1>9 DEF ResolveInQueue
<1>10. CASE UNCHANGED vars
  BY <1>10 DEF vars
<1> QED
  BY <1>1, <1>2, <1>3, <1>4, <1>5, <1>6, <1>7, <1>8, <1>9, <1>10
  DEF Next, Continue

LEMMA NextGate ==
  ASSUME ActionAssumption, GateBase, [Next]_vars
  PROVE  GateInv'
<1> USE DEF GateBase, BaseInv, TypeOK, CallInv, tables, policies, calls
<1>1. ASSUME NEW p \in Policies, UpdatePolicy(p) PROVE GateInv'
  <2>1. asked \subseteq asked' /\ UNCHANGED <<tables, calls>>
    BY <1>1 DEF UpdatePolicy
  <2>2. policy' # NULL => policy' \in asked'
    BY <1>1 DEF UpdatePolicy, GateInv
  <2>3. \A a : Allowed(a) => Allowed(a)'
    BY <2>1, AllowedStays
  <2>4. \A r : Waived(r) => Waived(r)'
    BY <2>1, WaivedStays
  <2> QED BY <2>1, <2>2, <2>3, <2>4 DEF GateInv
<1>2. ASSUME NEW c \in Callers, NEW r \in Risks, Propose(c, r) PROVE GateInv'
  <2>1. Planned(r) = "APPROVED" => Waived(r)
    BY PolicyWaives DEF GateInv
  <2>2. \A a : Allowed(a)' <=> Allowed(a)
    BY <1>2 DEF Propose, Allowed
  <2>3. \A x : Waived(x)' <=> Waived(x)
    BY <1>2 DEF Propose, Waived
  <2>4. plan'[c] = [risk |-> r, status |-> Planned(r)]
    BY <1>2 DEF Propose
  <2>5. plan'[c].risk = r /\ plan'[c].status = Planned(r)
    BY <2>4
  <2>6. \A d \in Callers \ {c} : phase'[d] = phase[d] /\ plan'[d] = plan[d]
    BY <1>2 DEF Propose
  <2> QED BY <1>2, <2>1, <2>2, <2>3, <2>5, <2>6 DEF Propose, GateInv
<1>3. ASSUME NEW c \in Callers, NEW a \in Actions, Check(c, a) PROVE GateInv'
  <2>1. \A b : Allowed(b)' <=> Allowed(b)
    BY <1>3 DEF Check, Allowed
  <2>2. \A x : Waived(x)' <=> Waived(x)
    BY <1>3 DEF Check, Waived
  <2> QED BY <1>3, <2>1, <2>2 DEF Check, GateInv
<1>4. ASSUME NEW c \in Callers, Execute(c) PROVE GateInv'
  <2>1. \A b : Allowed(b)' <=> Allowed(b)
    BY <1>4 DEF Execute, Allowed
  <2>2. \A x : Waived(x)' <=> Waived(x)
    BY <1>4 DEF Execute, Waived
  <2> QED BY <1>4, <2>1, <2>2 DEF Execute, GateInv
<1>5. ASSUME NEW c \in Callers, Finish(c) PROVE GateInv'
  <2>1. \A b : Allowed(b)' <=> Allowed(b)
    BY <1>5 DEF Finish, Allowed
  <2>2. \A x : Waived(x)' <=> Waived(x)
    BY <1>5 DEF Finish, Waived
  <2> QED BY <1>5, <2>1, <2>2 DEF Finish, GateInv
<1>6. ASSUME NEW c \in Callers, NEW a \in Actions, Record(c, a) PROVE GateInv'
  <2>1. \A x : Waived(x)' <=> Waived(x)
    BY <1>6 DEF Record, Waived
  <2>2. \A b \in Actions \ {a} : risk'[b] = risk[b] /\ status'[b] = status[b]
    BY <1>6 DEF Record
  <2>3. \A b \in Actions \ {a} : Allowed(b) => Allowed(b)'
    BY <1>6, <2>2, AllowedStays DEF Record
  <2>4. a \notin started /\ \A d \in Callers :
          phase[d] \in {"checked", "executing"} => target[d] \in Actions \ {a}
    BY <1>6 DEF Record, RecordInv
  <2>5. risk'[a] = plan[c].risk /\ status'[a] = plan[c].status
    BY <1>6 DEF Record
  <2>6. status'[a] \in {"APPROVED", "EXECUTING", "SUCCESS"} => Waived(plan[c].risk)
    BY <1>6, <2>5 DEF Record, Plans, GateInv
  <2>7. status'[a] \in {"APPROVED", "EXECUTING", "SUCCESS"} => Allowed(a)'
    BY <2>1, <2>5, <2>6 DEF Allowed, Waived
  <2>8. policy' = policy /\ asked' = asked /\ started' = started /\ target' = target
    BY <1>6 DEF Record
  <2>9. \A d \in Callers : phase'[d] # "idle" => phase'[d] = phase[d] /\ plan'[d] = plan[d]
    BY <1>6 DEF Record
  <2> QED BY <2>1, <2>2, <2>3, <2>4, <2>7, <2>8, <2>9 DEF GateInv
<1>7. ASSUME NEW c \in Callers, Die(c) PROVE GateInv'
  <2>1. \A b : Allowed(b)' <=> Allowed(b)
    BY <1>7 DEF Die, Allowed
  <2>2. \A x : Waived(x)' <=> Waived(x)
    BY <1>7 DEF Die, Waived
  <2> QED BY <1>7, <2>1, <2>2 DEF Die, GateInv
<1>8. ASSUME NEW a \in Actions, NEW d \in Decisions, Resolve(a, d) PROVE GateInv'
  <2>1. \A b : Allowed(b) => Allowed(b)'
    BY <1>8, AllowedStays DEF Resolve
  <2>2. \A x : Waived(x)' <=> Waived(x)
    BY <1>8 DEF Resolve, Waived
  <2>3. d = "APPROVED" => Allowed(a)'
    BY <1>8 DEF Resolve, Allowed
  <2>4. \A b \in Actions : status'[b] = IF b = a THEN d ELSE status[b]
    BY <1>8 DEF Resolve
  <2> QED BY <1>8, <2>1, <2>2, <2>3, <2>4 DEF Resolve, GateInv, Decisions
<1>9. ASSUME NEW a \in Actions, NEW d \in Decisions, ResolveInQueue(a, d)
      PROVE GateInv'
  <2>1. \A b : Allowed(b)' <=> Allowed(b)
    BY <1>9 DEF ResolveInQueue, Allowed
  <2>2. \A x : Waived(x)' <=> Waived(x)
    BY <1>9 DEF ResolveInQueue, Waived
  <2> QED BY <1>9, <2>1, <2>2 DEF ResolveInQueue, GateInv
<1>10. CASE UNCHANGED vars
  BY <1>10 DEF vars, GateInv, Allowed, Waived
<1> QED
  BY <1>1, <1>2, <1>3, <1>4, <1>5, <1>6, <1>7, <1>8, <1>9, <1>10
  DEF Next, Continue

\* No action begins unless an administrator approved it or its risk needs no
\* approval: stale policies, stale statuses and dying requests included.
THEOREM NeverBypassed == ASSUME ActionAssumption PROVE Spec => []NoBypass
<1>1. Init => GateBase
  BY InitGate
<1>2. GateBase /\ [Next]_vars => GateBase'
  BY NextBase, NextRecord, NextGate DEF GateBase
<1>3. GateBase => NoBypass
  BY DEF GateBase, GateInv, NoBypass
<1> QED BY <1>1, <1>2, <1>3, PTL DEF Spec

-----------------------------------------------------------------------------
(* The queue *)

LEMMA NextQueue ==
  ASSUME ActionAssumption, BaseInv, RecordInv, QueueInv, [Next]_vars
  PROVE  QueueInv'
<1> USE DEF BaseInv, TypeOK, CallInv, QueueInv, tables, policies, calls
<1>1. ASSUME NEW p \in Policies, UpdatePolicy(p) PROVE QueueInv'
  BY <1>1 DEF UpdatePolicy
<1>2. ASSUME NEW c \in Callers, NEW r \in Risks, Propose(c, r) PROVE QueueInv'
  BY <1>2 DEF Propose
<1>3. ASSUME NEW c \in Callers, NEW a \in Actions, Check(c, a) PROVE QueueInv'
  BY <1>3 DEF Check
<1>4. ASSUME NEW c \in Callers, Execute(c) PROVE QueueInv'
  BY <1>4 DEF Execute, ActionAssumption, Statuses
<1>5. ASSUME NEW c \in Callers, Finish(c) PROVE QueueInv'
  BY <1>5 DEF Finish, ActionAssumption, Statuses
<1>6. ASSUME NEW c \in Callers, NEW a \in Actions, Record(c, a) PROVE QueueInv'
  <2>1. plan[c].status # NULL
    BY <1>6 DEF Record, Plans, ActionAssumption, Statuses
  <2>2. queue[a] = NULL /\ NULL # "PENDING"
    BY <1>6 DEF Record, ActionAssumption, AllRisks, Statuses
  <2>3. queue'[a] = "PENDING" => status'[a] = "PENDING_APPROVAL"
    BY <1>6, <2>2 DEF Record
  <2>4. \A d \in Callers : phase[d] \in {"checked", "executing"} => target[d] # a
    BY <1>6 DEF Record, RecordInv
  <2> QED BY <1>6, <2>1, <2>3, <2>4 DEF Record
<1>7. ASSUME NEW c \in Callers, Die(c) PROVE QueueInv'
  BY <1>7 DEF Die
<1>8. ASSUME NEW a \in Actions, NEW d \in Decisions, Resolve(a, d) PROVE QueueInv'
  BY <1>8 DEF Resolve, Decisions, ActionAssumption, Statuses
<1>9. ASSUME NEW a \in Actions, NEW d \in Decisions, ResolveInQueue(a, d)
      PROVE QueueInv'
  BY <1>9 DEF ResolveInQueue, Decisions
<1>10. CASE UNCHANGED vars
  BY <1>10 DEF vars
<1> QED
  BY <1>1, <1>2, <1>3, <1>4, <1>5, <1>6, <1>7, <1>8, <1>9, <1>10
  DEF Next, Continue

\* No row of the queue stays open once the action is decided or runs, whichever
\* engine decided it and however old the status is that an execution relies on.
THEOREM QueueKeepsUp == ASSUME ActionAssumption PROVE Spec => []QueueNotBehind
<1> DEFINE QInv == BaseInv /\ RecordInv /\ QueueInv
<1>1. Init => QInv
  BY InitBase DEF Init, RecordInv, QueueInv, ActionAssumption, Statuses, AllRisks
<1>2. QInv /\ [Next]_vars => QInv'
  BY NextBase, NextRecord, NextQueue
<1>3. QInv => QueueNotBehind
  BY DEF QueueInv, QueueNotBehind
<1> QED BY <1>1, <1>2, <1>3, PTL DEF Spec

-----------------------------------------------------------------------------
(* Executions *)

\* Actions that are EXECUTING and that no request is going to finish.
Stuck ==
  {a \in Actions : /\ status[a] = "EXECUTING"
                   /\ ~\E c \in Callers : phase[c] = "executing" /\ target[c] = a}

StuckInv == IsFiniteSet(Stuck) /\ Cardinality(Stuck) <= faults

\* A step adds no stuck action, but for a death, which adds one at most.
LEMMA StuckGrows ==
  ASSUME ActionAssumption, BaseInv, [Next]_vars
  PROVE  \/ Stuck' \subseteq Stuck /\ faults' = faults
         \/ /\ faults' = faults + 1
            /\ \E c \in Callers : Stuck' \subseteq Stuck \cup {target[c]}
<1> USE DEF BaseInv, TypeOK, CallInv, Stuck, tables, policies, calls
<1>1. ASSUME NEW p \in Policies, UpdatePolicy(p)
      PROVE  Stuck' \subseteq Stuck /\ faults' = faults
  BY <1>1 DEF UpdatePolicy
<1>2. ASSUME NEW c \in Callers, NEW r \in Risks, Propose(c, r)
      PROVE  Stuck' \subseteq Stuck /\ faults' = faults
  BY <1>2 DEF Propose
<1>3. ASSUME NEW c \in Callers, NEW a \in Actions, Check(c, a)
      PROVE  Stuck' \subseteq Stuck /\ faults' = faults
  BY <1>3 DEF Check
<1>4. ASSUME NEW c \in Callers, Execute(c)
      PROVE  Stuck' \subseteq Stuck /\ faults' = faults
  <2>1. phase'[c] = "executing" /\ target' = target /\ faults' = faults
    BY <1>4 DEF Execute
  <2>2. \A a \in Actions : a # target[c] => status'[a] = status[a]
    BY <1>4 DEF Execute
  <2>3. \A e \in Callers : phase[e] = "executing" => phase'[e] = "executing"
    BY <1>4 DEF Execute
  <2> QED BY <2>1, <2>2, <2>3
<1>5. ASSUME NEW c \in Callers, Finish(c)
      PROVE  Stuck' \subseteq Stuck /\ faults' = faults
  <2>1. status'[target[c]] = "SUCCESS" /\ faults' = faults
    BY <1>5 DEF Finish
  <2>2. \A a \in Actions : a # target[c] => status'[a] = status[a]
    BY <1>5 DEF Finish
  <2>3. \A e \in Callers : e # c => phase'[e] = phase[e] /\ target'[e] = target[e]
    BY <1>5 DEF Finish
  <2> QED BY <2>1, <2>2, <2>3
<1>6. ASSUME NEW c \in Callers, NEW a \in Actions, Record(c, a)
      PROVE  Stuck' \subseteq Stuck /\ faults' = faults
  <2>1. plan[c].status # "EXECUTING" /\ phase[c] = "proposing"
    BY <1>6 DEF Record, Plans
  <2> QED BY <1>6, <2>1 DEF Record
<1>7. ASSUME NEW c \in Callers, Die(c)
      PROVE  faults' = faults + 1 /\ Stuck' \subseteq Stuck \cup {target[c]}
  BY <1>7 DEF Die
<1>8. ASSUME NEW a \in Actions, NEW d \in Decisions, Resolve(a, d)
      PROVE  Stuck' \subseteq Stuck /\ faults' = faults
  BY <1>8 DEF Resolve, Decisions
<1>9. ASSUME NEW a \in Actions, NEW d \in Decisions, ResolveInQueue(a, d)
      PROVE  Stuck' \subseteq Stuck /\ faults' = faults
  BY <1>9 DEF ResolveInQueue
<1>10. CASE UNCHANGED vars
  BY <1>10 DEF vars
<1> QED
  BY <1>1, <1>2, <1>3, <1>4, <1>5, <1>6, <1>7, <1>8, <1>9, <1>10 DEF Next, Continue

LEMMA NextStuck ==
  ASSUME ActionAssumption, BaseInv, StuckInv, [Next]_vars PROVE StuckInv'
<1>1. faults \in Nat
  BY DEF ActionAssumption, BaseInv, TypeOK
<1>2. CASE Stuck' \subseteq Stuck /\ faults' = faults
  BY <1>1, <1>2, FS_Subset, FS_CardinalityType DEF StuckInv
<1>3. ASSUME NEW c \in Callers, faults' = faults + 1,
             Stuck' \subseteq Stuck \cup {target[c]}
      PROVE  StuckInv'
  <2> DEFINE More == Stuck \cup {target[c]}
  <2>1. IsFiniteSet(More) /\ Cardinality(More) <= Cardinality(Stuck) + 1
    <3>1. IsFiniteSet(Stuck) /\ Cardinality(Stuck) \in Nat
      BY FS_CardinalityType DEF StuckInv
    <3>2. /\ IsFiniteSet(More)
          /\ Cardinality(More) = IF target[c] \in Stuck THEN Cardinality(Stuck)
                                                        ELSE Cardinality(Stuck) + 1
      BY <3>1, FS_AddElement
    <3> QED BY <3>1, <3>2
  <2>2. IsFiniteSet(Stuck') /\ Cardinality(Stuck') <= Cardinality(More)
    BY <1>3, <2>1, FS_Subset
  <2> QED
    BY <1>1, <1>3, <2>1, <2>2, FS_CardinalityType DEF StuckInv
<1> QED BY <1>2, <1>3, StuckGrows

\* However many requests execute or decide one action, it is EXECUTING only in
\* the hands of a request that is going to store an outcome, but for one action
\* for each request that died: the safety half of ExecutionEnds.
THEOREM ExecutionsWorked == ASSUME ActionAssumption PROVE Spec => []StuckInv
<1>1. Init => BaseInv /\ StuckInv
  <2>1. Init => Stuck = {} /\ faults = 0
    BY DEF Init, Stuck, ActionAssumption, Statuses
  <2> QED BY InitBase, <2>1, FS_EmptySet DEF StuckInv
<1>2. BaseInv /\ StuckInv /\ [Next]_vars => (BaseInv /\ StuckInv)'
  BY NextBase, NextStuck
<1> QED BY <1>1, <1>2, PTL DEF Spec
=============================================================================
