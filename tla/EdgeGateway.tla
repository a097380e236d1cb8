---------------------------- MODULE EdgeGateway ----------------------------
(***************************************************************************)
(* Telemetry from one customer edge gateway to the NOC,                    *)
(* core/edge_gateway: the durable bounded queue of the gateway (buffer.py),*)
(* the loop that drains it, and the ingestion hub (ingestion.py) behind    *)
(* EdgeGatewayManager.ingest_telemetry.                                    *)
(*                                                                         *)
(* Every SQLite transaction is one step.  A sample is a number, in the     *)
(* order of its making; its sequence number is a datum of its own because  *)
(* clear() restarts the numbering.  The link between the drain loop and    *)
(* the hub loses requests and answers, and the gateway may give up on a    *)
(* request the hub still works on.  Gateways share nothing but the write   *)
(* lock of the database, so one gateway is enough.                         *)
(***************************************************************************)
EXTENDS Naturals, FiniteSets

CONSTANTS
  MaxSamples,  \* bound: samples made
  Capacity,    \* EdgeBufferQueue.max_capacity
  BatchSize,   \* samples per peek_batch
  Kinds,       \* the kinds of samples made
  Calls,       \* bound: telemetry requests that exist at the same time
  MaxFaults,   \* bound: lost messages and premature timeouts
  MaxClears,   \* bound: calls of EdgeBufferQueue.clear
  NULL

\* "good"    acceptable
\* "bad"     unknown telemetry_type, a payload over 512 KB, or a device that is
\*           not in the inventory of the gateway's tenant and site
\* "poison"  passes those checks, but its rx_utilization is not a number
AllKinds == {"good", "bad", "poison"}

ASSUME EdgeAssumption ==
  /\ MaxSamples \in Nat
  /\ Capacity \in Nat \ {0}
  /\ BatchSize \in Nat \ {0}
  /\ Kinds \subseteq AllKinds
  /\ MaxFaults \in Nat
  /\ MaxClears \in Nat
  /\ NULL \notin Calls \cup AllKinds

Samples == 1..MaxSamples
Stages == {"free", "sent", "authenticated", "ok", "refused", "lost"}

VARIABLES
  made,       \* samples 1..made were enqueued so far
  kind,       \* Samples -> kind of the sample
  seqOf,      \* Samples -> sequence_number
  lastSeq,    \* edge_buffer_meta.last_sequence
  buffer,     \* the samples in edge_telemetry_buffer
  dropped,    \* history: samples the buffer discarded (dropped_total counts
              \* those of them that overflowed)
  clears,     \* calls of clear so far
  stage,      \* Calls -> how far the request has come
  batch,      \* Calls -> the samples of the request
  current,    \* the request the drain loop waits for
  faults,     \* faults so far
  gateway,    \* operational_gateways.status
  tenant,     \* operational_tenants.status (MAINTENANCE counts as ACTIVE)
  cursor,     \* operational_gateway_sequences.last_sequence_number
  copies,     \* Samples -> how often the hub accepted it
  reported    \* history: samples named in an error item

edgeVars == <<made, kind, seqOf, lastSeq, buffer, dropped, clears>>
linkVars == <<stage, batch, current, faults>>
adminVars == <<gateway, tenant>>
hubVars == <<cursor, copies, reported>>
vars == <<edgeVars, linkVars, adminVars, hubVars>>

TypeOK ==
  /\ made \in 0..MaxSamples
  /\ kind \in [Samples -> Kinds \cup {NULL}]
  /\ seqOf \in [Samples -> 0..MaxSamples]
  /\ lastSeq \in 0..MaxSamples
  /\ buffer \in SUBSET (1..made) /\ dropped \in SUBSET (1..made)
  /\ clears \in 0..MaxClears
  /\ stage \in [Calls -> Stages]
  /\ batch \in [Calls -> SUBSET (1..made)]
  /\ current \in Calls \cup {NULL}
  /\ faults \in 0..MaxFaults
  /\ gateway \in {"ACTIVE", "REVOKED"}
  /\ tenant \in {"ACTIVE", "SUSPENDED"}
  /\ cursor \in 0..MaxSamples
  /\ copies \in [Samples -> Nat]
  /\ reported \in SUBSET (1..made)

\* The gateway has just been enrolled: its sequence row says 0.
Init ==
  /\ made = 0 /\ lastSeq = 0 /\ clears = 0 /\ faults = 0 /\ cursor = 0
  /\ kind = [s \in Samples |-> NULL]
  /\ seqOf = [s \in Samples |-> 0]
  /\ buffer = {} /\ dropped = {} /\ reported = {}
  /\ stage = [c \in Calls |-> "free"]
  /\ batch = [c \in Calls |-> {}]
  /\ current = NULL
  /\ gateway = "ACTIVE" /\ tenant = "ACTIVE"
  /\ copies = [s \in Samples |-> 0]

-----------------------------------------------------------------------------
(* The queue of the gateway *)

\* Fault: the oldest are kept when the queue is full, the newest dropped.
MutNewest(S, n) == {s \in S : Cardinality({r \in S : r > s}) <= n}

\* The n newest, and the n oldest, samples of S.
Newest(S, n) == {s \in S : Cardinality({r \in S : r > s}) < n}

Oldest(S, n) == {s \in S : Cardinality({r \in S : r < s}) < n}

\* enqueue: number the sample, make room, insert it.  The number is read before
\* the transaction begins with the update (buffer.py:95, 97), so that two threads
\* might take the same one; the samples of a gateway come from one loop.
Enqueue(k) ==
  LET kept == Newest(buffer, Capacity - 1)
  IN
  /\ made < MaxSamples
  /\ made' = made + 1
  /\ lastSeq' = lastSeq + 1
  /\ kind' = [kind EXCEPT ![made + 1] = k]
  /\ seqOf' = [seqOf EXCEPT ![made + 1] = lastSeq + 1]
  /\ buffer' = kept \cup {made + 1}
  /\ dropped' = dropped \cup (buffer \ kept)
  /\ UNCHANGED <<clears, linkVars, adminVars, hubVars>>

\* clear: empties the queue and restarts the numbering.
Clear ==
  /\ clears < MaxClears
  /\ clears' = clears + 1
  /\ buffer' = {}
  /\ lastSeq' = 0
  /\ dropped' = dropped \cup buffer
  /\ UNCHANGED <<made, kind, seqOf, linkVars, adminVars, hubVars>>

-----------------------------------------------------------------------------
(* The drain loop *)

Free(c) ==
  /\ stage' = [stage EXCEPT ![c] = "free"]
  /\ batch' = [batch EXCEPT ![c] = {}]

\* The loop peeks a batch and posts it.
Send(c) ==
  /\ current = NULL
  /\ buffer # {}
  /\ stage[c] = "free"
  /\ stage' = [stage EXCEPT ![c] = "sent"]
  /\ batch' = [batch EXCEPT ![c] = Oldest(buffer, BatchSize)]
  /\ current' = c
  /\ UNCHANGED <<faults, edgeVars, adminVars, hubVars>>

\* Fault: everything queued so far is deleted, not the ids of the batch.
MutAcknowledged(c) == buffer

\* acknowledge_batch gets the ids of the whole batch, whatever the answer
\* says of its samples.
Acknowledged(c) == batch[c]

Acknowledge(c) ==
  /\ current = c
  /\ stage[c] = "ok"
  /\ buffer' = buffer \ Acknowledged(c)
  /\ current' = NULL
  /\ Free(c)
  /\ UNCHANGED <<made, kind, seqOf, lastSeq, dropped, clears, faults,
                 adminVars, hubVars>>

\* PermissionError, or the failed transaction: the samples stay queued.
Refused(c) ==
  /\ current = c
  /\ stage[c] = "refused"
  /\ current' = NULL
  /\ Free(c)
  /\ UNCHANGED <<faults, edgeVars, adminVars, hubVars>>

\* The request or its answer is lost, or the hub stops before the commit.
Lose(c) ==
  /\ stage[c] \in {"sent", "authenticated", "ok", "refused"}
  /\ faults < MaxFaults
  /\ faults' = faults + 1
  /\ IF current = c
     THEN stage' = [stage EXCEPT ![c] = "lost"] /\ UNCHANGED batch
     ELSE Free(c)
  /\ UNCHANGED <<current, edgeVars, adminVars, hubVars>>

\* No answer will come: the loop times out.
Timeout(c) ==
  /\ current = c
  /\ stage[c] = "lost"
  /\ current' = NULL
  /\ Free(c)
  /\ UNCHANGED <<faults, edgeVars, adminVars, hubVars>>

\* The loop times out too early, or its process restarts: the answer finds
\* nobody, and the hub may still be working on the request.
GiveUp(c) ==
  /\ current = c
  /\ stage[c] # "lost"
  /\ faults < MaxFaults
  /\ faults' = faults + 1
  /\ current' = NULL
  /\ IF stage[c] \in {"ok", "refused"} THEN Free(c) ELSE UNCHANGED <<stage, batch>>
  /\ UNCHANGED <<edgeVars, adminVars, hubVars>>

-----------------------------------------------------------------------------
(* The hub *)

Admitted == gateway = "ACTIVE" /\ tenant = "ACTIVE"

\* The answer reaches the loop if it still waits for this request.
Reply(c, answer) ==
  IF current = c
  THEN stage' = [stage EXCEPT ![c] = answer] /\ UNCHANGED batch
  ELSE Free(c)

Authenticate(c) ==
  /\ stage[c] = "sent"
  /\ IF Admitted
     THEN stage' = [stage EXCEPT ![c] = "authenticated"] /\ UNCHANGED batch
     ELSE Reply(c, "refused")
  /\ UNCHANGED <<current, faults, edgeVars, adminVars, hubVars>>

\* Type, size and device checks: a sample that fails is an error item.
Valid(s) == kind[s] # "bad"

\* Fault: `<` instead of `<=` in the duplicate check.
MutFresh(b) == {s \in b : Valid(s) /\ seqOf[s] >= cursor}

\* The samples past the cursor; the batch is sorted and its numbers differ,
\* so the cursor at the start of the loop tells them apart.
Fresh(b) == {s \in b : Valid(s) /\ seqOf[s] > cursor}

\* Fault: the next expected number is stored instead of the last one.
MutCursorsNext(b) == {cursor} \cup {seqOf[s] + 1 : s \in Fresh(b)}

\* The values the cursor takes in the loop; the last one is stored.
Cursors(b) == {cursor} \cup {seqOf[s] : s \in Fresh(b)}

\* Fault: one bad sample rejects the whole batch, so it is sent forever.
MutAborts(b) == \E s \in b : ~Valid(s) \/ kind[s] = "poison"

\* float() raises on a poison sample: the transaction is rolled back.
Aborts(b) == \E s \in Fresh(b) : kind[s] = "poison"

Abort(c) ==
  /\ stage[c] = "authenticated"
  /\ Aborts(batch[c])
  /\ Reply(c, "refused")
  /\ UNCHANGED <<current, faults, edgeVars, adminVars, hubVars>>

Ingest(c) ==
  LET fresh == Fresh(batch[c])
  IN
  /\ stage[c] = "authenticated"
  /\ ~Aborts(batch[c])
  /\ cursor' \in Cursors(batch[c])
  /\ \A n \in Cursors(batch[c]) : n <= cursor'
  /\ copies' = [s \in Samples |-> IF s \in fresh THEN copies[s] + 1 ELSE copies[s]]
  /\ reported' = reported \cup {s \in batch[c] : ~Valid(s)}
  /\ Reply(c, "ok")
  /\ UNCHANGED <<current, faults, edgeVars, adminVars>>

-----------------------------------------------------------------------------
(* Operators at the NOC *)

\* revoke_gateway
Revoke ==
  /\ gateway' = "REVOKED"
  /\ UNCHANGED <<tenant, edgeVars, linkVars, hubVars>>

\* update_tenant_status
SetTenant ==
  /\ tenant' \in {"ACTIVE", "SUSPENDED"}
  /\ UNCHANGED <<gateway, edgeVars, linkVars, hubVars>>

Serve(c) == Authenticate(c) \/ Abort(c) \/ Ingest(c)
Await(c) == Acknowledge(c) \/ Refused(c) \/ Timeout(c)
Drain == \E c \in Calls : Send(c) \/ Await(c)

Next ==
  \/ \E k \in Kinds : Enqueue(k)
  \/ Clear
  \/ Drain
  \/ \E c \in Calls : Lose(c) \/ GiveUp(c) \/ Serve(c)
  \/ Revoke \/ SetTenant

Spec == Init /\ [][Next]_vars

\* The drain loop runs on as long as something is queued, each wait ends, and
\* the hub serves every request it received.
FairSpec == Spec /\ WF_vars(Drain) /\ \A c \in Calls : WF_vars(Serve(c))

-----------------------------------------------------------------------------
(* Properties *)

\* The queue never holds more than max_capacity samples (enqueue).
BufferBound == Cardinality(buffer) <= Capacity

\* A sample that left the queue was accepted, was named in an error item or
\* was discarded by the queue itself.
Settled(s) == copies[s] > 0 \/ s \in reported \/ s \in dropped
Accounted == \A s \in 1..made : s \in buffer \/ Settled(s)

\* Until the queue is cleared nothing is lost in silence: acknowledge_batch
\* deletes only what the hub has dealt with, although it ignores what the
\* answer says.  (After clear fresh samples carry old numbers, are taken for
\* duplicates and are deleted.)
NoSilentLoss == clears = 0 => Accounted

\* Queue, loop, link and hub implement the abstract delivery: no sample is
\* accepted twice, whatever is lost, repeated, late or cleared, and until the
\* queue is cleared the samples are accepted in the order of their making.
Delivery == INSTANCE OrderedDelivery WITH ordered <- (clears = 0)
ImplementsDelivery == Delivery!Spec

\* As long as the gateway is admitted for good, the drain loop empties the
\* queue.  docs/NETWORKING_VIII/EDGE_GATEWAY_PROTOCOL.md:162.
QueueDrains == <>[]Admitted => <>[](buffer = {})

\* The same, when no poison sample stays in the queue: rejected, repeated and
\* abandoned batches never keep the loop from emptying it.
Clean == \A s \in buffer : kind[s] # "poison"
CleanQueueDrains == <>[](Admitted /\ Clean) => <>[](buffer = {})
=============================================================================
