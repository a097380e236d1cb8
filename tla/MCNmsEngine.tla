---------------------------- MODULE MCNmsEngine ----------------------------
(* NmsEngine with one device and one or two incident ids. *)
EXTENDS NmsEngine, TLC

\* In use, managed or not; paused; in maintenance.  A device that is not in use is
\* suspended whether or not it is managed, and maintenance comes before paused.
SomeProfiles ==
  {p \in [paused : BOOLEAN, maintenance : BOOLEAN, managed : BOOLEAN] :
     p.paused \/ p.maintenance => p.managed /\ p.paused # p.maintenance}

Symmetry == Permutations(Devices) \cup Permutations(Incidents)
=============================================================================
