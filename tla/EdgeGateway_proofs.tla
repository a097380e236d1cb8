------------------------ MODULE EdgeGateway_proofs -------------------------
(***************************************************************************)
(* Theorems about EdgeGateway, for every number of samples and requests,   *)
(* every capacity and every batch size.                                    *)
(*                                                                         *)
(* At-most-once delivery rests on SeenInv: whatever was accepted has a     *)
(* number at or below the cursor, and the cursor only grows.  That nothing *)
(* is lost silently rests on three facts: a batch leaves no unsettled hole *)
(* below its members (GapInv), so the cursor never jumps over an unsettled *)
(* sample (CursorInv), so a positive answer settles its batch (OkInv).     *)
(***************************************************************************)
EXTENDS EdgeGateway, FiniteSetTheorems, WellFoundedInduction, TLAPS

\* The numbers handed out, and what the hub has accepted.
SeqInv == lastSeq <= made
SeenInv ==
  \A s \in Samples :
    copies[s] > 0 => s \in 1..made /\ seqOf[s] <= cursor /\ copies[s] = 1

BaseInv == TypeOK /\ SeqInv /\ SeenInv

\* Until the queue is cleared a sample's number is the sample itself.
NumberInv ==
  lastSeq = made /\ cursor <= made /\ \A s \in 1..made : seqOf[s] = s

GapInv ==
  \A c \in Calls : \A b \in batch[c] : \A s \in 1..made :
    s < b /\ s \notin batch[c] => Settled(s)
CursorInv == \A s \in 1..made : s <= cursor => Settled(s)
OkInv == \A c \in Calls : stage[c] = "ok" => \A s \in batch[c] : Settled(s)

LossInv == NumberInv /\ Accounted /\ GapInv /\ CursorInv /\ OkInv

-----------------------------------------------------------------------------

\* The first state is typed and nothing was accepted yet.
LEMMA InitBase == Init => BaseInv
BY EdgeAssumption DEF Init, BaseInv, TypeOK, SeqInv, SeenInv, Samples, Stages

\* The answer to a request only changes the request's own record.
LEMMA ReplyTyped ==
  ASSUME TypeOK, NEW c \in Calls, NEW a \in Stages, Reply(c, a)
  PROVE  /\ stage' \in [Calls -> Stages]
         /\ batch' \in [Calls -> SUBSET (1..made)]
         /\ \A d \in Calls : batch'[d] \in {batch[d], {}}
         /\ \A d \in Calls : stage'[d] = "ok" => batch'[d] = batch[d]
                                /\ (d # c => stage[d] = "ok")
BY DEF TypeOK, Reply, Free, Stages

\* A freed request has no batch and no answer.
LEMMA FreeTyped ==
  ASSUME TypeOK, NEW c \in Calls, Free(c)
  PROVE  /\ stage' \in [Calls -> Stages]
         /\ batch' \in [Calls -> SUBSET (1..made)]
         /\ \A d \in Calls : batch'[d] \in {batch[d], {}}
         /\ \A d \in Calls : stage'[d] = "ok" => batch'[d] = batch[d]
                                /\ (d # c => stage[d] = "ok")
BY DEF TypeOK, Free, Stages

\* Every step of the model keeps the types, and accepts only what is new.
LEMMA NextBase == BaseInv /\ [Next]_vars => BaseInv'
<1> SUFFICES ASSUME BaseInv, [Next]_vars PROVE BaseInv'
  OBVIOUS
<1> USE EdgeAssumption DEF BaseInv, SeqInv, SeenInv
<1>0. CASE UNCHANGED vars
  BY <1>0 DEF vars, edgeVars, linkVars, adminVars, hubVars, TypeOK
<1>1. ASSUME NEW k \in Kinds, Enqueue(k) PROVE BaseInv'
  <2>1. made + 1 \in Samples /\ lastSeq + 1 \in 0..MaxSamples
    BY <1>1 DEF Enqueue, TypeOK, Samples
  <2>a. made' = made + 1 /\ 1..made \subseteq 1..made' /\ made + 1 \in 1..made'
    BY <1>1 DEF Enqueue, TypeOK
  <2>2. buffer' \in SUBSET (1..made') /\ dropped' \in SUBSET (1..made')
    <3>1. Newest(buffer, Capacity - 1) \subseteq buffer
      BY DEF Newest
    <3>2. buffer \subseteq 1..made /\ dropped \subseteq 1..made
      BY DEF TypeOK
    <3>3. /\ buffer' = Newest(buffer, Capacity - 1) \cup {made + 1}
          /\ dropped' = dropped \cup (buffer \ Newest(buffer, Capacity - 1))
      BY <1>1 DEF Enqueue
    <3> QED
      BY <3>1, <3>2, <3>3, <2>a
  <2>b. batch' \in [Calls -> SUBSET (1..made')] /\ reported' \in SUBSET (1..made')
    BY <1>1, <2>a DEF Enqueue, TypeOK, linkVars, hubVars
  <2>c. kind' \in [Samples -> Kinds \cup {NULL}] /\ seqOf' \in [Samples -> 0..MaxSamples]
    BY <1>1, <2>1 DEF Enqueue, TypeOK
  <2>3. TypeOK'
    <3>1. made' \in 0..MaxSamples /\ lastSeq' \in 0..MaxSamples
      BY <1>1, <2>1 DEF Enqueue, Samples
    <3> QED
      BY <1>1, <3>1, <2>2, <2>b, <2>c DEF Enqueue, TypeOK, linkVars, adminVars, hubVars
  <2>4. SeenInv'
    BY <1>1, <2>1 DEF Enqueue, TypeOK, hubVars, Samples
  <2> QED
    BY <1>1, <2>3, <2>4 DEF Enqueue, TypeOK
<1>2. CASE Clear
  BY <1>2 DEF Clear, TypeOK, linkVars, adminVars, hubVars, Samples
<1>3. ASSUME NEW c \in Calls, Send(c) PROVE BaseInv'
  <2>1. Oldest(buffer, BatchSize) \in SUBSET (1..made)
    BY DEF Oldest, TypeOK
  <2> QED
    BY <1>3, <2>1 DEF Send, TypeOK, Stages, edgeVars, adminVars, hubVars
<1>4. ASSUME NEW c \in Calls, Acknowledge(c) PROVE BaseInv'
  BY <1>4, FreeTyped DEF Acknowledge, TypeOK, adminVars, hubVars
<1>5. ASSUME NEW c \in Calls, Refused(c) \/ Timeout(c) PROVE BaseInv'
  BY <1>5, FreeTyped DEF Refused, Timeout, TypeOK, edgeVars, adminVars, hubVars
<1>6. ASSUME NEW c \in Calls, Lose(c) PROVE BaseInv'
  <2>1. stage' \in [Calls -> Stages] /\ batch' \in [Calls -> SUBSET (1..made)]
    BY <1>6, FreeTyped DEF Lose, TypeOK, Stages
  <2> QED
    BY <1>6, <2>1 DEF Lose, TypeOK, edgeVars, adminVars, hubVars
<1>7. ASSUME NEW c \in Calls, GiveUp(c) PROVE BaseInv'
  <2>1. stage' \in [Calls -> Stages] /\ batch' \in [Calls -> SUBSET (1..made)]
    BY <1>7, FreeTyped DEF GiveUp, TypeOK
  <2> QED
    BY <1>7, <2>1 DEF GiveUp, TypeOK, edgeVars, adminVars, hubVars
<1>8. ASSUME NEW c \in Calls, Authenticate(c) PROVE BaseInv'
  <2>1. stage' \in [Calls -> Stages] /\ batch' \in [Calls -> SUBSET (1..made)]
    BY <1>8, ReplyTyped DEF Authenticate, TypeOK, Stages
  <2> QED
    BY <1>8, <2>1 DEF Authenticate, TypeOK, edgeVars, adminVars, hubVars
<1>9. ASSUME NEW c \in Calls, Abort(c) PROVE BaseInv'
  <2>1. stage' \in [Calls -> Stages] /\ batch' \in [Calls -> SUBSET (1..made)]
    BY <1>9, ReplyTyped DEF Abort, Stages
  <2> QED
    BY <1>9, <2>1 DEF Abort, TypeOK, edgeVars, adminVars, hubVars
<1>10. ASSUME NEW c \in Calls, Ingest(c) PROVE BaseInv'
  <2>1. stage' \in [Calls -> Stages] /\ batch' \in [Calls -> SUBSET (1..made)]
    BY <1>10, ReplyTyped DEF Ingest, Stages
  <2>2. cursor' \in 0..MaxSamples /\ cursor <= cursor'
    BY <1>10 DEF Ingest, Cursors, Fresh, TypeOK, Samples
  <2>a. copies' \in [Samples -> Nat]
    BY <1>10 DEF Ingest, TypeOK
  <2>b. reported' \in SUBSET (1..made)
    BY <1>10 DEF Ingest, TypeOK
  <2>3. TypeOK'
    BY <1>10, <2>1, <2>2, <2>a, <2>b DEF Ingest, TypeOK, edgeVars, adminVars
  <2>4. \A s \in Fresh(batch[c]) : s \in 1..made /\ seqOf[s] > cursor /\ seqOf[s] <= cursor'
    BY <1>10 DEF Ingest, Cursors, Fresh, TypeOK
  <2>5. SeenInv'
    BY <1>10, <2>2, <2>4 DEF Ingest, TypeOK, edgeVars, Samples
  <2> QED
    BY <1>10, <2>3, <2>5 DEF Ingest, edgeVars
<1>11. CASE Revoke \/ SetTenant
  <2>1. UNCHANGED <<edgeVars, linkVars, hubVars>>
    BY <1>11 DEF Revoke, SetTenant
  <2>2. gateway' \in {"ACTIVE", "REVOKED"} /\ tenant' \in {"ACTIVE", "SUSPENDED"}
    BY <1>11 DEF Revoke, SetTenant, TypeOK
  <2> QED
    BY <2>1, <2>2 DEF TypeOK, edgeVars, linkVars, hubVars
<1> QED
  BY <1>0, <1>1, <1>2, <1>3, <1>4, <1>5, <1>6, <1>7, <1>8, <1>9, <1>10, <1>11
  DEF Next, Drain, Await, Serve

\* Every reachable state has the types TypeOK gives the variables.
THEOREM TypeCorrect == Spec => []TypeOK
<1>1. BaseInv => TypeOK
  BY DEF BaseInv
<1> QED
  BY <1>1, InitBase, NextBase, PTL DEF Spec

-----------------------------------------------------------------------------

\* The n newest of a finite set of numbers are at most n.
LEMMA NewestBounded ==
  ASSUME NEW m \in Nat, NEW S \in SUBSET (1..m), NEW n \in Nat
  PROVE  IsFiniteSet(Newest(S, n)) /\ Cardinality(Newest(S, n)) <= n
<1> DEFINE N == Newest(S, n)
<1> DEFINE Above(x) == {r \in S : r > x}
<1>1. IsFiniteSet(S)
  BY FS_Interval, FS_Subset, 0 \in Int, 1 \in Int, m \in Int
<1>2. N \subseteq S /\ N \subseteq Nat
  <2>1. N \subseteq S
    BY DEF Newest
  <2>2. S \subseteq Nat
    OBVIOUS
  <2> QED
    BY <2>1, <2>2
<1>3. IsFiniteSet(N) /\ Cardinality(N) \in Nat
  BY <1>1, <1>2, FS_Subset, FS_CardinalityType
<1>4. CASE N = {}
  BY <1>4, FS_EmptySet
<1>5. CASE N # {}
  <2>1. PICK x \in N : \A y \in N : ~(<<y, x>> \in OpToRel(<, Nat))
    BY <1>2, <1>5, WFMin, NatLessThanWellFounded
  <2>2. \A y \in N \ {x} : y > x
    <3> SUFFICES ASSUME NEW y \in N, y # x PROVE y > x
      OBVIOUS
    <3>1. x \in Nat /\ y \in Nat
      BY <1>2
    <3>2. ~(y < x)
      BY <2>1, <3>1 DEF OpToRel
    <3> HIDE DEF N
    <3> QED
      BY <3>1, <3>2
  <2>3. N \ {x} \subseteq Above(x) /\ Above(x) \subseteq S
    BY <2>2, <1>2
  <2>4. IsFiniteSet(Above(x)) /\ Cardinality(Above(x)) \in Nat
    BY <2>3, <1>1, FS_Subset, FS_CardinalityType
  <2>5. Cardinality(N \ {x}) <= Cardinality(Above(x))
    BY <2>3, <2>4, FS_Subset
  <2>6. Cardinality(N \ {x}) = Cardinality(N) - 1
    BY <1>3, FS_RemoveElement
  <2>7. Cardinality(Above(x)) < n
    BY DEF Newest
  <2> HIDE DEF N, Above
  <2>8. Cardinality(N) <= n
    BY <1>3, <2>4, <2>5, <2>6, <2>7
  <2> QED
    BY <1>3, <2>8 DEF N
<1> QED
  BY <1>3, <1>4, <1>5

\* No step lets the queue grow past its capacity.
LEMMA NextBound ==
  ASSUME BaseInv, BufferBound, [Next]_vars
  PROVE  BufferBound'
<1> USE EdgeAssumption
<1>T. made \in Nat /\ buffer \in SUBSET (1..made) /\ IsFiniteSet(buffer)
  <2>1. made \in Nat /\ buffer \in SUBSET (1..made)
    BY DEF BaseInv, TypeOK
  <2> QED
    BY <2>1, FS_Interval, FS_Subset, 1 \in Int, made \in Int
<1>1. ASSUME NEW k \in Kinds, Enqueue(k) PROVE BufferBound'
  <2> DEFINE kept == Newest(buffer, Capacity - 1)
  <2>1. buffer' = kept \cup {made + 1}
    BY <1>1 DEF Enqueue
  <2>2. IsFiniteSet(kept) /\ Cardinality(kept) <= Capacity - 1
    BY <1>T, NewestBounded, Capacity - 1 \in Nat
  <2>3. Cardinality(kept) \in Nat
    BY <2>2, FS_CardinalityType
  <2>4. Cardinality(buffer') <= Cardinality(kept) + 1
    <3>1. Cardinality(buffer') \in {Cardinality(kept), Cardinality(kept) + 1}
      BY <2>1, <2>2, FS_AddElement
    <3> HIDE DEF kept
    <3> QED
      BY <2>3, <3>1
  <2>5. Cardinality(buffer') \in Nat
    BY <2>1, <2>2, FS_AddElement, FS_CardinalityType
  <2> HIDE DEF kept
  <2> QED
    BY <2>2, <2>3, <2>4, <2>5 DEF BufferBound
<1>2. ASSUME buffer' \subseteq buffer PROVE BufferBound'
  <2>1. Cardinality(buffer') <= Cardinality(buffer) /\ IsFiniteSet(buffer')
    BY <1>T, <1>2, FS_Subset
  <2>2. Cardinality(buffer') \in Nat /\ Cardinality(buffer) \in Nat
    BY <1>T, <2>1, FS_CardinalityType
  <2> QED
    BY <2>1, <2>2 DEF BufferBound
<1>3. CASE Clear \/ Revoke \/ SetTenant \/ UNCHANGED vars
  BY <1>2, <1>3 DEF Clear, Revoke, SetTenant, vars, edgeVars
<1>4. ASSUME NEW c \in Calls, Acknowledge(c) PROVE BufferBound'
  BY <1>2, <1>4 DEF Acknowledge
<1>5. ASSUME NEW c \in Calls,
        \/ Send(c) \/ Refused(c) \/ Timeout(c) \/ Lose(c)
        \/ GiveUp(c) \/ Authenticate(c) \/ Abort(c) \/ Ingest(c)
      PROVE BufferBound'
  BY <1>2, <1>5 DEF Send, Refused, Timeout, Lose, GiveUp, Authenticate, Abort,
                    Ingest, edgeVars
<1> QED
  BY <1>1, <1>3, <1>4, <1>5 DEF Next, Drain, Await, Serve

\* The queue never holds more than its capacity (enqueue).
THEOREM BufferBounded == Spec => []BufferBound
<1>1. Init => BufferBound
  BY FS_EmptySet, EdgeAssumption DEF Init, BufferBound
<1>2. BaseInv /\ BufferBound /\ [Next]_vars => BufferBound'
  BY NextBound
<1> QED
  BY <1>1, <1>2, InitBase, NextBase, PTL DEF Spec

-----------------------------------------------------------------------------

\* A prefix of a finite set of numbers: below a member nothing is left out.
LEMMA OldestPrefix ==
  ASSUME NEW m \in Nat, NEW S \in SUBSET (1..m), NEW n \in Nat,
         NEW b \in Oldest(S, n), NEW s \in S, s < b
  PROVE  s \in Oldest(S, n)
<1> DEFINE L(x) == {r \in S : r < x}
<1>1. IsFiniteSet(S)
  BY FS_Interval, FS_Subset, 0 \in Int, 1 \in Int, m \in Int
<1>2. IsFiniteSet(L(b)) /\ L(s) \subseteq L(b)
  <2>1. S \subseteq Int /\ b \in S
    BY DEF Oldest
  <2>2. L(b) \subseteq S
    OBVIOUS
  <2>3. ASSUME NEW r \in S, r < s PROVE r < b
    BY <2>1, <2>3
  <2>4. L(s) \subseteq L(b)
    BY <2>3
  <2> QED
    BY <1>1, <2>2, <2>4, FS_Subset
<1>3. Cardinality(L(s)) \in Nat /\ Cardinality(L(b)) \in Nat
        /\ Cardinality(L(s)) <= Cardinality(L(b))
  BY <1>2, FS_Subset, FS_CardinalityType
<1>4. Cardinality(L(b)) < n
  BY DEF Oldest
<1>5. Cardinality(L(s)) < n
  <2> HIDE DEF L
  <2> QED
    BY <1>3, <1>4
<1> QED
  BY <1>5 DEF Oldest

\* What is settled stays settled.
LEMMA SettledGrows ==
  ASSUME BaseInv, [Next]_vars, NEW s \in Samples, Settled(s)
  PROVE  Settled(s)'
<1> USE DEF Settled
<1>1. CASE UNCHANGED vars
  BY <1>1 DEF vars, edgeVars, hubVars
<1>2. ASSUME NEW k \in Kinds, Enqueue(k) PROVE Settled(s)'
  BY <1>2 DEF Enqueue, hubVars
<1>3. CASE Clear
  BY <1>3 DEF Clear, hubVars
<1>4. ASSUME NEW c \in Calls,
        \/ Send(c) \/ Acknowledge(c) \/ Refused(c) \/ Timeout(c)
        \/ Lose(c) \/ GiveUp(c) \/ Authenticate(c) \/ Abort(c)
      PROVE Settled(s)'
  BY <1>4 DEF Send, Acknowledge, Refused, Timeout, Lose, GiveUp, Authenticate,
              Abort, edgeVars, hubVars
<1>5. ASSUME NEW c \in Calls, Ingest(c) PROVE Settled(s)'
  BY <1>5 DEF Ingest, BaseInv, TypeOK, edgeVars
<1>6. CASE Revoke \/ SetTenant
  BY <1>6 DEF Revoke, SetTenant, edgeVars, hubVars
<1> QED
  BY <1>1, <1>2, <1>3, <1>4, <1>5, <1>6 DEF Next, Drain, Await, Serve

\* Steps that only touch the link keep what a request says of its batch.
LEMMA LinkStep ==
  ASSUME BaseInv, LossInv, [Next]_vars,
         \A c \in Calls : batch'[c] \in {batch[c], {}},
         \A c \in Calls : stage'[c] = "ok" => stage[c] = "ok" /\ batch'[c] = batch[c],
         UNCHANGED <<made, seqOf, lastSeq, cursor>>,
         \A s \in 1..made : s \in buffer => s \in buffer' \/ Settled(s)
  PROVE  LossInv'
<1>1. \A s \in 1..made : Settled(s) => Settled(s)'
  <2>1. 1..made \subseteq Samples
    BY EdgeAssumption DEF BaseInv, TypeOK, Samples
  <2> QED
    BY <2>1, SettledGrows
<1> QED
  BY <1>1 DEF LossInv, NumberInv, Accounted, GapInv, CursorInv, OkInv, BaseInv, TypeOK

\* Every step keeps LossInv, as long as the queue is not cleared.
LEMMA NextLoss ==
  ASSUME clears' = 0, BaseInv, LossInv, [Next]_vars
  PROVE  LossInv'
<1> USE EdgeAssumption
<1>T. TypeOK
  BY DEF BaseInv
<1>G. \A s \in 1..made : Settled(s) => Settled(s)'
  BY SettledGrows, <1>T DEF TypeOK, Samples
<1>0. CASE UNCHANGED vars
  BY <1>0, LinkStep, <1>T DEF vars, edgeVars, linkVars, hubVars, TypeOK
<1>1. ASSUME NEW k \in Kinds, Enqueue(k) PROVE LossInv'
  <2>1. made' = made + 1 /\ lastSeq' = made + 1 /\ made \in Nat /\ made + 1 \in Samples
    BY <1>1, <1>T DEF Enqueue, LossInv, NumberInv, TypeOK, Samples
  <2>2. NumberInv'
    BY <1>1, <1>T, <2>1 DEF Enqueue, LossInv, NumberInv, TypeOK, Samples, hubVars
  <2>3. Accounted'
    <3> SUFFICES ASSUME NEW s \in 1..(made + 1) PROVE s \in buffer' \/ Settled(s)'
      BY <2>1 DEF Accounted
    <3>1. CASE s = made + 1
      BY <3>1, <1>1 DEF Enqueue
    <3>2. CASE s \in buffer
      BY <3>2, <1>1 DEF Enqueue, Settled
    <3>3. CASE s # made + 1 /\ s \notin buffer
      BY <3>3, <1>G, <2>1 DEF LossInv, Accounted
    <3> QED
      BY <3>1, <3>2, <3>3
  <2>4. GapInv'
    <3> SUFFICES ASSUME NEW c \in Calls, NEW b \in batch[c], NEW s \in 1..(made + 1),
                        s < b, s \notin batch[c]
                 PROVE  Settled(s)'
      BY <1>1, <2>1 DEF GapInv, Enqueue, linkVars
    <3>1. b \in 1..made /\ s \in 1..made
      BY <1>T, <2>1 DEF TypeOK
    <3> QED
      BY <3>1, <1>G DEF LossInv, GapInv
  <2>5. CursorInv'
    <3>1. cursor <= made
      BY DEF LossInv, NumberInv
    <3> QED
      BY <3>1, <1>1, <1>G, <2>1, <1>T DEF LossInv, CursorInv, Enqueue, hubVars, TypeOK
  <2>6. OkInv'
    BY <1>1, <1>G, <1>T DEF LossInv, OkInv, Enqueue, linkVars, TypeOK
  <2> QED
    BY <2>2, <2>3, <2>4, <2>5, <2>6 DEF LossInv
<1>2. ASSUME Clear PROVE FALSE
  BY <1>2, <1>T DEF Clear, TypeOK
<1>3. ASSUME NEW c \in Calls, Send(c) PROVE LossInv'
  <2>1. /\ batch' = [batch EXCEPT ![c] = Oldest(buffer, BatchSize)]
        /\ stage' = [stage EXCEPT ![c] = "sent"]
        /\ UNCHANGED <<edgeVars, hubVars>>
    BY <1>3 DEF Send
  <2>2. GapInv'
    <3> SUFFICES ASSUME NEW d \in Calls, NEW b \in batch'[d], NEW s \in 1..made,
                        s < b, s \notin batch'[d]
                 PROVE  Settled(s)
      BY <1>G, <2>1 DEF GapInv, edgeVars
    <3>1. CASE d # c
      BY <3>1, <2>1, <1>T DEF LossInv, GapInv, TypeOK
    <3>2. CASE d = c
      <4>1. b \in Oldest(buffer, BatchSize) /\ s \notin Oldest(buffer, BatchSize)
        BY <3>2, <2>1, <1>T DEF TypeOK
      <4>2. s \notin buffer
        <5>1. made \in Nat /\ buffer \in SUBSET (1..made) /\ BatchSize \in Nat
          BY <1>T DEF TypeOK
        <5> QED
          BY <4>1, <5>1, OldestPrefix
      <4> QED
        BY <4>2 DEF LossInv, Accounted
    <3> QED
      BY <3>1, <3>2
  <2>3. OkInv'
    BY <2>1, <1>G, <1>T DEF LossInv, OkInv, TypeOK
  <2> QED
    BY <2>1, <2>2, <2>3, <1>G
    DEF LossInv, NumberInv, Accounted, CursorInv, edgeVars, hubVars
<1>4. ASSUME NEW c \in Calls, Acknowledge(c) PROVE LossInv'
  <2>1. \A s \in batch[c] : Settled(s)
    BY <1>4 DEF Acknowledge, LossInv, OkInv
  <2> QED
    BY <1>4, <2>1, <1>T, FreeTyped, LinkStep DEF Acknowledge, Acknowledged, Free, hubVars, TypeOK
<1>5. ASSUME NEW c \in Calls, Refused(c) \/ Timeout(c) PROVE LossInv'
  BY <1>5, <1>T, FreeTyped, LinkStep
  DEF Refused, Timeout, Free, edgeVars, hubVars, TypeOK
<1>6. ASSUME NEW c \in Calls, Lose(c) PROVE LossInv'
  BY <1>6, <1>T, LinkStep DEF Lose, Free, edgeVars, hubVars, TypeOK
<1>7. ASSUME NEW c \in Calls, GiveUp(c) PROVE LossInv'
  BY <1>7, <1>T, LinkStep DEF GiveUp, Free, edgeVars, hubVars, TypeOK
<1>8. ASSUME NEW c \in Calls, Authenticate(c) PROVE LossInv'
  BY <1>8, <1>T, LinkStep DEF Authenticate, Reply, Free, edgeVars, hubVars, TypeOK
<1>9. ASSUME NEW c \in Calls, Abort(c) PROVE LossInv'
  BY <1>9, <1>T, LinkStep DEF Abort, Reply, Free, edgeVars, hubVars, TypeOK
<1>10. ASSUME NEW c \in Calls, Ingest(c) PROVE LossInv'
  <2>1. UNCHANGED edgeVars
    BY <1>10 DEF Ingest
  <2>2. \A d \in Calls : batch'[d] \in {batch[d], {}}
    BY <1>10, <1>T, ReplyTyped DEF Ingest, Stages
  <2>3. \A d \in Calls : stage'[d] = "ok" =>
           batch'[d] = batch[d] /\ (d # c => stage[d] = "ok")
    BY <1>10, <1>T, ReplyTyped DEF Ingest, Stages
  <2>4. batch[c] \subseteq 1..made /\ \A s \in batch[c] : seqOf[s] = s
    BY <1>T DEF TypeOK, LossInv, NumberInv
  <2>5. \A s \in batch[c] : Settled(s)'
    <3> SUFFICES ASSUME NEW s \in batch[c] PROVE Settled(s)'
      OBVIOUS
    <3>1. CASE ~Valid(s)
      BY <3>1, <1>10 DEF Ingest, Settled
    <3>2. CASE Valid(s) /\ seqOf[s] > cursor
      <4>1. s \in Samples /\ s \in Fresh(batch[c])
        BY <3>2, <2>4, <1>T DEF Fresh, TypeOK, Samples
      <4>2. copies'[s] = copies[s] + 1
        BY <4>1, <1>10 DEF Ingest
      <4> QED
        BY <4>1, <4>2, <1>T DEF Settled, TypeOK
    <3>3. CASE ~(seqOf[s] > cursor)
      BY <3>3, <2>4, <1>G, <1>T DEF LossInv, CursorInv, TypeOK
    <3> QED
      BY <3>1, <3>2, <3>3
  <2>6. CursorInv'
    <3> SUFFICES ASSUME NEW s \in 1..made, s <= cursor' PROVE Settled(s)'
      BY <2>1 DEF CursorInv, edgeVars
    <3>1. CASE s <= cursor
      BY <3>1, <1>G DEF LossInv, CursorInv
    <3>2. CASE s \in batch[c]
      BY <3>2, <2>5
    <3>3. CASE ~(s <= cursor) /\ s \notin batch[c]
      <4>1. PICK m \in Fresh(batch[c]) : cursor' = seqOf[m]
        BY <3>3, <1>10, <1>T DEF Ingest, Cursors, TypeOK
      <4>2. m \in batch[c] /\ s < m
        BY <4>1, <3>3, <2>4, <1>T DEF Fresh, TypeOK
      <4> QED
        BY <4>2, <3>3, <1>G DEF LossInv, GapInv
    <3> QED
      BY <3>1, <3>2, <3>3
  <2>7. GapInv'
    BY <2>1, <2>2, <1>G, <1>T DEF LossInv, GapInv, edgeVars, TypeOK
  <2>8. OkInv'
    <3> SUFFICES ASSUME NEW d \in Calls, stage'[d] = "ok", NEW s \in batch'[d] PROVE Settled(s)'
      BY DEF OkInv
    <3>1. s \in batch[d] /\ s \in 1..made
      BY <2>3, <1>T DEF TypeOK
    <3>2. CASE d = c
      BY <3>1, <3>2, <2>5
    <3>3. CASE d # c
      BY <3>1, <3>3, <2>3, <1>G DEF LossInv, OkInv
    <3> QED
      BY <3>2, <3>3
  <2>9. cursor' <= made
    BY <1>10, <2>4, <1>T DEF Ingest, Cursors, Fresh, LossInv, NumberInv, TypeOK
  <2> QED
    BY <2>1, <2>6, <2>7, <2>8, <2>9, <1>G DEF LossInv, NumberInv, Accounted, edgeVars
<1>11. CASE Revoke \/ SetTenant
  BY <1>11, <1>T, LinkStep DEF Revoke, SetTenant, edgeVars, linkVars, hubVars, TypeOK
<1> QED
  BY <1>0, <1>1, <1>2, <1>3, <1>4, <1>5, <1>6, <1>7, <1>8, <1>9, <1>10, <1>11
  DEF Next, Drain, Await, Serve

\* Once cleared, cleared for good: LossInv holds until then.
LEMMA NextUncleared ==
  ASSUME BaseInv, clears = 0 => LossInv, [Next]_vars
  PROVE  (clears = 0 => LossInv)'
<1> SUFFICES ASSUME clears' = 0 PROVE LossInv'
  OBVIOUS
<1>1. clears = 0
  BY DEF BaseInv, TypeOK, Next, vars, edgeVars, linkVars, Drain, Await, Serve,
         Enqueue, Clear, Send, Acknowledge, Refused, Timeout, Lose, GiveUp,
         Authenticate, Abort, Ingest, Revoke, SetTenant
<1> QED
  BY <1>1, NextLoss

\* Until the queue is cleared, a sample that left it was accepted, reported or
\* discarded by the queue (acknowledge_batch).
THEOREM LossAccounted == Spec => []NoSilentLoss
<1>1. Init => (clears = 0 => LossInv)
  BY DEF Init, LossInv, NumberInv, Accounted, GapInv, CursorInv, OkInv
<1>2. BaseInv /\ (clears = 0 => LossInv) /\ [Next]_vars => (clears = 0 => LossInv)'
  BY NextUncleared
<1>3. (clears = 0 => LossInv) => NoSilentLoss
  BY DEF LossInv, NoSilentLoss
<1> QED
  BY <1>1, <1>2, <1>3, InitBase, NextBase, PTL DEF Spec

-----------------------------------------------------------------------------

\* A step of the gateway or the hub is a step of the abstract delivery, or
\* leaves it alone.
LEMMA StepDelivers ==
  ASSUME BaseInv, clears = 0 => LossInv, [Next]_vars
  PROVE  [Delivery!Next]_(Delivery!deliveryVars)
<1>T. TypeOK
  BY DEF BaseInv
<1> USE DEF Delivery!deliveryVars
<1>1. ASSUME NEW k \in Kinds, Enqueue(k) PROVE Delivery!Make
  BY <1>1 DEF Enqueue, Delivery!Make, hubVars
<1>2. CASE Clear
  <2>1. clears' # 0 /\ UNCHANGED <<made, copies>>
    BY <1>2, <1>T DEF Clear, TypeOK, hubVars
  <2> QED
    BY <2>1 DEF Delivery!Reset, Delivery!Next
<1>3. ASSUME NEW c \in Calls, Ingest(c) PROVE [Delivery!Next]_(Delivery!deliveryVars)
  <2> DEFINE F == Fresh(batch[c])
  <2>1. made' = made /\ clears' = clears
    BY <1>3 DEF Ingest, edgeVars
  <2>2. copies' = [s \in Samples |-> IF s \in F THEN copies[s] + 1 ELSE copies[s]]
    BY <1>3 DEF Ingest
  <2>3. F \in SUBSET (1..made) /\ F \subseteq Samples
    BY <1>T, EdgeAssumption DEF Fresh, TypeOK, Samples
  <2>4. \A s \in F : copies[s] = 0
    BY <2>3, <1>T DEF BaseInv, SeenInv, Fresh, TypeOK, Samples
  <2>5. CASE F = {}
    <3>1. copies' = copies
      BY <2>2, <2>5, <1>T DEF TypeOK
    <3> QED
      BY <2>1, <3>1
  <2>6. CASE F # {}
    <3>1. clears = 0 => \A s \in F, d \in Samples : copies[d] > 0 => d < s
      BY <2>3, <1>T DEF BaseInv, SeenInv, LossInv, NumberInv, Fresh, TypeOK, Samples
    <3>2. copies' = [s \in Samples |-> IF s \in F THEN 1 ELSE copies[s]]
      BY <2>2, <2>3, <2>4
    <3>3. Delivery!Deliver(F)
      BY <2>1, <2>4, <2>6, <3>1, <3>2 DEF Delivery!Deliver, Delivery!Samples, Samples
    <3> QED
      BY <3>3, <2>3 DEF Delivery!Next
  <2> QED
    BY <2>5, <2>6
<1>4. ASSUME NEW c \in Calls,
        \/ Send(c) \/ Acknowledge(c) \/ Refused(c) \/ Timeout(c)
        \/ Lose(c) \/ GiveUp(c) \/ Authenticate(c) \/ Abort(c)
      PROVE UNCHANGED <<made, copies, clears>>
  BY <1>4 DEF Send, Acknowledge, Refused, Timeout, Lose, GiveUp, Authenticate,
              Abort, edgeVars, hubVars
<1>5. CASE Revoke \/ SetTenant \/ UNCHANGED vars
  BY <1>5 DEF Revoke, SetTenant, vars, edgeVars, hubVars
<1> QED
  BY <1>1, <1>2, <1>3, <1>4, <1>5 DEF Next, Drain, Await, Serve, Delivery!Next

\* Queue, drain loop, lossy link and hub implement at-most-once delivery, in
\* order until the queue is cleared.
THEOREM DeliveryRefined == Spec => ImplementsDelivery
<1>1. Init => (clears = 0 => LossInv)
  BY DEF Init, LossInv, NumberInv, Accounted, GapInv, CursorInv, OkInv
<1>2. BaseInv /\ (clears = 0 => LossInv) /\ [Next]_vars => (clears = 0 => LossInv)'
  BY NextUncleared
<1>3. Init => Delivery!Init
  BY DEF Init, Delivery!Init, Samples, Delivery!Samples
<1>4. BaseInv /\ (clears = 0 => LossInv) /\ [Next]_vars
        => [Delivery!Next]_(Delivery!deliveryVars)
  BY StepDelivers
<1> QED
  BY <1>1, <1>2, <1>3, <1>4, InitBase, NextBase, PTL
  DEF Spec, ImplementsDelivery, Delivery!Spec
=============================================================================
