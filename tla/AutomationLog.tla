--------------------------- MODULE AutomationLog ---------------------------
(***************************************************************************)
(* What an administrator may rely on in the execution log of automations   *)
(* and the approval queue: a job has one open run at a time, a run is      *)
(* closed once and for good, it asks for approval at most once and only    *)
(* while it is open, and it closes as APPROVAL_PENDING just when it asked. *)
(* A run may be abandoned: then it stays open and counts no more.          *)
(***************************************************************************)
CONSTANTS Jobs, Runs, Results, NULL

VARIABLES
  entry,     \* run -> "RUNNING" or its result, NULL if it did not begin
  jobOf,     \* run -> its job
  request,   \* run -> its request for approval, NULL if it made none
  abandoned  \* runs nobody works on any more

logVars == <<entry, jobOf, request, abandoned>>

Open(r) == entry[r] = "RUNNING" /\ r \notin abandoned

Init ==
  /\ entry = [r \in Runs |-> NULL]
  /\ jobOf = [r \in Runs |-> NULL]
  /\ request = [r \in Runs |-> NULL]
  /\ abandoned = {}

Begin(r, j) ==
  /\ entry[r] = NULL
  /\ \A q \in Runs : Open(q) => jobOf[q] # j
  /\ entry' = [entry EXCEPT ![r] = "RUNNING"]
  /\ jobOf' = [jobOf EXCEPT ![r] = j]
  /\ UNCHANGED <<request, abandoned>>

Request(r) ==
  /\ Open(r) /\ request[r] = NULL
  /\ request' = [request EXCEPT ![r] = "PENDING"]
  /\ UNCHANGED <<entry, jobOf, abandoned>>

Decide(r) ==
  /\ request[r] = "PENDING"
  /\ request' = [request EXCEPT ![r] = "RESOLVED"]
  /\ UNCHANGED <<entry, jobOf, abandoned>>

Close(r, result) ==
  /\ Open(r)
  /\ result = "APPROVAL_PENDING" <=> request[r] # NULL
  /\ entry' = [entry EXCEPT ![r] = result]
  /\ UNCHANGED <<jobOf, request, abandoned>>

Abandon(R) ==
  /\ \A r \in R : entry[r] = "RUNNING"
  /\ abandoned' = R \cup abandoned
  /\ UNCHANGED <<entry, jobOf, request>>

Next ==
  \/ \E r \in Runs : Request(r) \/ Decide(r)
  \/ \E r \in Runs, j \in Jobs : Begin(r, j)
  \/ \E r \in Runs, result \in Results : Close(r, result)
  \/ \E R \in SUBSET Runs : Abandon(R)

Spec == Init /\ [][Next]_logVars
=============================================================================
