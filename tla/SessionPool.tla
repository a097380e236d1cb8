---------------------------- MODULE SessionPool ----------------------------
(***************************************************************************)
(* What the connection engine promises its callers: a pool of at most      *)
(* MaxSessions open sessions.  A session is opened once, runs one command  *)
(* at a time, is closed only between commands, and never comes back.       *)
(***************************************************************************)
EXTENDS Naturals, FiniteSets

CONSTANTS Sids, Threads, MaxSessions

VARIABLES
  life,     \* Sids -> "unused", "open" or "closed"
  running   \* the commands in progress: <<thread, session>> pairs

poolVars == <<life, running>>

Open == {s \in Sids : life[s] = "open"}
Free(s) == \A t \in Threads : <<t, s>> \notin running

Init ==
  /\ life = [s \in Sids |-> "unused"]
  /\ running = {}

OpenSession(s) ==
  /\ life[s] = "unused"
  /\ Cardinality(Open) < MaxSessions
  /\ life' = [life EXCEPT ![s] = "open"]
  /\ UNCHANGED running

Start(t, s) ==
  /\ life[s] = "open" /\ Free(s)
  /\ running' = running \cup {<<t, s>>}
  /\ UNCHANGED life

Finish(t, s) ==
  /\ <<t, s>> \in running
  /\ running' = running \ {<<t, s>>}
  /\ UNCHANGED life

CloseSession(s) ==
  /\ life[s] = "open" /\ Free(s)
  /\ life' = [life EXCEPT ![s] = "closed"]
  /\ UNCHANGED running

Next ==
  \E s \in Sids :
    \/ OpenSession(s) \/ CloseSession(s)
    \/ \E t \in Threads : Start(t, s) \/ Finish(t, s)

Spec == Init /\ [][Next]_poolVars
=============================================================================
