------------------------- MODULE MCAutomationEngine -------------------------
(* AutomationEngine with a timed job that needs approval and a job that is   *)
(* run on request, and two overlapping calls of execute_job.                 *)
EXTENDS AutomationEngine
=============================================================================
