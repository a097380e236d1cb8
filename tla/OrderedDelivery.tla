-------------------------- MODULE OrderedDelivery --------------------------
(***************************************************************************)
(* What the path from an edge gateway to the NOC promises: every sample is *)
(* delivered at most once, and samples are delivered in the order in which *)
(* they were made, until the sender resets its queue.  Samples may be      *)
(* lost, so a delivery may skip some.                                      *)
(***************************************************************************)
EXTENDS Naturals

CONSTANT MaxSamples

VARIABLES
  made,    \* samples 1..made exist
  copies,  \* sample -> how often it was delivered
  ordered  \* the sender has not reset its queue

deliveryVars == <<made, copies, ordered>>

Samples == 1..MaxSamples

Init ==
  /\ made = 0
  /\ copies = [s \in Samples |-> 0]
  /\ ordered = TRUE

Make ==
  /\ made < MaxSamples
  /\ made' = made + 1
  /\ UNCHANGED <<copies, ordered>>

\* A batch S arrives: none of it was delivered before, and every sample of it
\* is newer than all delivered ones.
Deliver(S) ==
  /\ S # {}
  /\ \A s \in S : copies[s] = 0
  /\ ordered => \A s \in S, d \in Samples : copies[d] > 0 => d < s
  /\ copies' = [s \in Samples |-> IF s \in S THEN 1 ELSE copies[s]]
  /\ UNCHANGED <<made, ordered>>

Reset ==
  /\ ordered' = FALSE
  /\ UNCHANGED <<made, copies>>

Next == Make \/ Reset \/ \E S \in SUBSET (1..made) : Deliver(S)

Spec == Init /\ [][Next]_deliveryVars
=============================================================================
