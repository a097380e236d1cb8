------------------------- MODULE ChatContext_proofs -------------------------
(***************************************************************************)
(* For any number of messages and faults, a restart between the writes of  *)
(* a turn among them: when no turn is under way, the context of the next   *)
(* one and the stored one have all the transcript shows, and they are the  *)
(* transcript unless the writes of a turn were cut short.  Turns that      *)
(* overlapped and failed transactions are the exceptions.                  *)
(*                                                                         *)
(* The context is cut by counting turns from the end, the transcript by    *)
(* comparing row ids.  Both cuts are the same (CutsAgree) because rows     *)
(* stand in the order in which they were stored (OrderInv).  What a turn   *)
(* that was cut short left in the contexts is kept apart by Covers: cuts   *)
(* and additions at the end keep it (CoversDropped, CoversAppended).       *)
(* MatchInv says what the turn under way has made of the context at each   *)
(* of its places, and between each two of its writes.                      *)
(***************************************************************************)
EXTENDS ChatTurns_proofs

-----------------------------------------------------------------------------
(* What covers what *)

\* A sequence covers itself.
LEMMA CoversItself ==
  ASSUME NEW s \in Seq(Turns)
  PROVE  Covers(s, s)
<1> DEFINE f == [i \in DOMAIN s |-> i]
<1>1. /\ f \in [DOMAIN s -> DOMAIN s] /\ \A i \in DOMAIN s : f[i] = i
      /\ \A i \in DOMAIN s : i \in Nat
  OBVIOUS
<1> HIDE DEF f
<1> QED BY <1>1 DEF Covers

\* What covers a sequence covers any part of it from its first entry on.
LEMMA CoversPart ==
  ASSUME NEW s \in Seq(Turns), NEW u \in Seq(Turns), Covers(s, u), NEW p \in Seq(Turns),
         \A i \in DOMAIN p : i \in DOMAIN s /\ p[i] = s[i]
  PROVE  Covers(p, u)
<1>1. PICK f \in [DOMAIN s -> DOMAIN u] :
        \A i, j \in DOMAIN s : u[f[i]] = s[i] /\ (i <= j => f[j] - f[i] >= j - i)
  BY DEF Covers
<1> DEFINE g == [i \in DOMAIN p |-> f[i]]
<1>2. g \in [DOMAIN p -> DOMAIN u] /\ \A i \in DOMAIN p : g[i] = f[i]
  OBVIOUS
<1> HIDE DEF g
<1>3. \A i, j \in DOMAIN p : u[g[i]] = p[i] /\ (i <= j => g[j] - g[i] >= j - i)
  BY <1>1, <1>2
<1> QED BY <1>2, <1>3 DEF Covers

\* The same turn is added to both.
LEMMA CoversAppended ==
  ASSUME NEW s \in Seq(Turns), NEW u \in Seq(Turns), Covers(s, u), NEW t \in Turns
  PROVE  Covers(Append(s, t), Append(u, t))
<1>1. PICK f \in [DOMAIN s -> DOMAIN u] :
        \A i, j \in DOMAIN s : u[f[i]] = s[i] /\ (i <= j => f[j] - f[i] >= j - i)
  BY DEF Covers
<1> DEFINE n == Len(s)
           m == Len(u)
           s2 == Append(s, t)
           u2 == Append(u, t)
           g == [i \in DOMAIN s2 |-> IF i \in DOMAIN s THEN f[i] ELSE m + 1]
<1>2. /\ n \in Nat /\ m \in Nat /\ DOMAIN s = 1..n /\ DOMAIN u = 1..m
      /\ DOMAIN s2 = 1..(n + 1) /\ DOMAIN u2 = 1..(m + 1)
      /\ s2[n + 1] = t /\ u2[m + 1] = t
      /\ \A i \in 1..n : s2[i] = s[i]
      /\ \A i \in 1..m : u2[i] = u[i]
  OBVIOUS
<1> HIDE DEF n, m, s2, u2
<1>3. /\ \A i \in 1..n : g[i] = f[i] /\ f[i] \in 1..m
      /\ g[n + 1] = m + 1 /\ g \in [DOMAIN s2 -> DOMAIN u2]
  BY <1>2
<1> HIDE DEF g
<1>4. \A i \in 1..n : f[i] <= m - (n - i)
  <2>1. ASSUME NEW i \in 1..n PROVE f[i] <= m - (n - i)
    <3>1. n \in 1..n /\ i <= n
      BY <1>2
    <3>2. f[n] - f[i] >= n - i
      BY <1>1, <1>2, <3>1
    <3> QED BY <1>2, <1>3, <3>1, <3>2
  <2> QED BY <2>1
<1>5. ASSUME NEW i \in 1..(n + 1), NEW j \in 1..(n + 1)
      PROVE  u2[g[i]] = s2[i] /\ (i <= j => g[j] - g[i] >= j - i)
  <2>1. CASE i \in 1..n /\ j \in 1..n
    BY <1>1, <1>2, <1>3, <2>1
  <2>2. CASE i \in 1..n /\ j = n + 1
    <3>1. g[j] = m + 1 /\ g[i] = f[i] /\ f[i] <= m - (n - i) /\ f[i] \in 1..m /\ i <= j
      BY <1>2, <1>3, <1>4, <2>2
    <3>2. u2[g[i]] = s2[i]
      BY <1>1, <1>2, <1>3, <2>2
    <3> QED BY <1>2, <2>2, <3>1, <3>2
  <2>3. CASE i = n + 1
    BY <1>2, <1>3, <2>3
  <2> QED BY <1>2, <2>1, <2>2, <2>3
<1>6. Covers(s2, u2)
  BY <1>2, <1>3, <1>5 DEF Covers
<1> QED BY <1>6 DEF s2, u2

\* As many turns are taken from the end of both.
LEMMA CoversDropped ==
  ASSUME NEW s \in Seq(Turns), NEW u \in Seq(Turns), Covers(s, u), NEW k \in 1..Len(s)
  PROVE  Covers(DropLast(s, k), DropLast(u, k))
<1>1. PICK f \in [DOMAIN s -> DOMAIN u] :
        \A i, j \in DOMAIN s : u[f[i]] = s[i] /\ (i <= j => f[j] - f[i] >= j - i)
  BY DEF Covers
<1> DEFINE n == Len(s)
           m == Len(u)
           s2 == DropLast(s, k)
           u2 == DropLast(u, k)
           g == [i \in DOMAIN s2 |-> f[i]]
<1>2. n \in Nat /\ m \in Nat /\ DOMAIN s = 1..n /\ DOMAIN u = 1..m /\ k \in 1..n
  OBVIOUS
<1>3. \A i \in 1..n : f[i] \in 1..m /\ f[i] <= m - (n - i)
  <2>1. ASSUME NEW i \in 1..n PROVE f[i] \in 1..m /\ f[i] <= m - (n - i)
    <3>1. n \in 1..n /\ i <= n
      BY <1>2
    <3>2. f[i] \in 1..m /\ f[n] \in 1..m
      BY <1>2, <3>1
    <3>3. f[n] - f[i] >= n - i
      BY <1>1, <1>2, <3>1
    <3> HIDE DEF n, m
    <3> QED BY <1>2, <3>1, <3>2, <3>3
  <2> QED BY <2>1
<1>4. k <= m
  <2>1. n \in 1..n /\ f[n] >= n
    <3>1. n \in 1..n /\ 1 \in 1..n
      BY <1>2
    <3>2. f[n] - f[1] >= n - 1 /\ f[1] \in 1..m /\ f[n] \in 1..m
      <4>1. n \in DOMAIN s /\ 1 \in DOMAIN s /\ 1 <= n
        BY <1>2, <3>1
      <4> QED BY <1>1, <1>3, <3>1, <4>1
    <3> HIDE DEF n, m
    <3> QED BY <1>2, <3>1, <3>2
  <2>2. f[n] \in 1..m
    BY <1>3, <2>1
  <2> HIDE DEF n, m
  <2> QED BY <1>2, <2>1, <2>2
<1>5. /\ s2 = SubSeq(s, 1, n - k) /\ u2 = SubSeq(u, 1, m - k)
      /\ n - k \in 0..n /\ m - k \in 0..m
  BY <1>2, <1>4 DEF DropLast
<1>6. /\ DOMAIN s2 = 1..(n - k) /\ DOMAIN u2 = 1..(m - k)
      /\ \A i \in 1..(n - k) : s2[i] = s[i]
      /\ \A i \in 1..(m - k) : u2[i] = u[i]
  BY <1>2, <1>5
<1> HIDE DEF n, m, s2, u2
<1>7. \A i \in 1..(n - k) : i \in 1..n /\ g[i] = f[i] /\ f[i] \in 1..(m - k)
  BY <1>2, <1>3, <1>6
<1>8. g \in [DOMAIN s2 -> DOMAIN u2]
  BY <1>6, <1>7
<1> HIDE DEF g
<1>9. \A i, j \in DOMAIN s2 : u2[g[i]] = s2[i] /\ (i <= j => g[j] - g[i] >= j - i)
  BY <1>1, <1>2, <1>6, <1>7
<1>10. Covers(s2, u2)
  BY <1>8, <1>9 DEF Covers
<1> QED BY <1>10 DEF s2, u2

\* A context like the rows s: it has all of them, and no more unless the writes of
\* a turn were cut short.
Like(s, u) == Covers(s, u) /\ (torn = {} => s = u)

\* A turn of which the context may be given back, or written.
Open(t) ==
  \/ pc[t] \in Working \cup {"returned", "saving"}
  \/ pc[t] = "flushing" /\ verdict[t] # "error"

\* A turn that has done its work: its message and answer have joined the context.
Complete(t) ==
  \/ pc[t] \in {"worked", "saving"}
  \/ pc[t] = "flushing" /\ verdict[t] = "ok"
  \/ pc[t] = "returned" /\ \E i \in DOMAIN ready : ready[i].turn = t /\ ready[i].item = "ok"

\* The context that turn t begins with.
Cut(t) ==
  IF target[t] = NULL THEN transcript ELSE DropLast(transcript, CountFrom(target[t]))

\* What the turn under way has made of the context.
Holds(t) ==
  /\ pc[t] = "created" => memory = NULL \/ Like(transcript, memory)
  /\ pc[t] = "thinking" => Like(Cut(t), memory)
  /\ Complete(t) => Like(Append(Cut(t), t), memory)
  /\ Open(t) =>
       /\ Like(transcript, backup[t])
       /\ target[t] # NULL => Occurs(target[t], transcript)
  /\ pc[t] = "flushing" => verdict[t] # NULL
  /\ pc[t] = "flushing" /\ verdict[t] = "error" => Like(transcript, memory)
  /\ Ahead(t) => Like(Append(transcript, t), memory)
  /\ pc[t] = "persisted" => raw = memory
  /\ pc[t] \in {"asked", "saved"} => Like(transcript, memory)

\* Nobody writes the context but the turn under way, and who ends leaves it like
\* the transcript; the stored one differs from it between two writes.
Matched ==
  /\ Covers(transcript, raw)
  /\ torn = {} /\ (\A t \in Turns : ~Ahead(t)) => raw = transcript
  /\ \A t \in Turns : pc[t] \in UnderWay => Holds(t)
  /\ (\A t \in Turns : pc[t] \notin UnderWay) => memory = NULL \/ Like(transcript, memory)

MatchInv == exists /\ ~piled /\ ~failed => Matched

\* Counting from the end and comparing rows cut at the same place.
LEMMA CutsAgree ==
  ASSUME TypeOK, OrderInv, NEW t \in Turns,
         target[t] # NULL => Occurs(target[t], transcript)
  PROVE  Truncated(t) = Cut(t)
<1>1. CASE target[t] = NULL
  BY <1>1 DEF Truncated, Cut
<1>2. CASE target[t] # NULL
  <2> DEFINE k == CHOOSE i \in DOMAIN transcript : transcript[i] = target[t]
             n == Len(transcript)
  <2>1. transcript \in Seq(Turns) /\ n \in Nat /\ DOMAIN transcript = 1..n
    BY DEF TypeOK
  <2>2. k \in DOMAIN transcript /\ transcript[k] = target[t]
    BY <1>2 DEF Occurs
  <2>3. CountFrom(target[t]) = n + 1 - k
    BY DEF CountFrom
  <2> HIDE DEF k, n
  <2>4. \A u, v : ~(Before(u, v) /\ Before(v, u))
    BY BeforeOrders
  <2>5. \A i \in DOMAIN transcript : Before(transcript[i], target[t]) <=> i < k
    <3> SUFFICES ASSUME NEW i \in DOMAIN transcript
                 PROVE  Before(transcript[i], target[t]) <=> i < k
      OBVIOUS
    <3>1. CASE i < k
      BY <2>2, <3>1 DEF OrderInv
    <3>2. CASE i = k
      BY <2>1, <2>2, <2>4, <3>2
    <3>3. CASE k < i
      BY <2>1, <2>2, <2>4, <3>3 DEF OrderInv
    <3> QED BY <2>1, <2>2, <3>1, <3>2, <3>3
  <2>6. Kept(target[t]) = 1..(k - 1)
    BY <2>1, <2>2, <2>5 DEF Kept
  <2>7. Cardinality(1..(k - 1)) = k - 1
    <3>1. k - 1 \in Nat
      BY <2>1, <2>2
    <3>2. 1 \in Int /\ k - 1 \in Int
      BY <3>1
    <3>3. Cardinality(1..(k - 1)) = IF 1 > k - 1 THEN 0 ELSE (k - 1) - 1 + 1
      BY <3>2, FS_Interval
    <3> QED BY <3>1, <3>3
  <2>8. ~(n + 1 - k > n) /\ n - (n + 1 - k) = k - 1
    BY <2>1, <2>2
  <2>9. DropLast(transcript, n + 1 - k) = SubSeq(transcript, 1, k - 1)
    BY <2>8 DEF DropLast, n
  <2> QED BY <1>2, <2>3, <2>6, <2>7, <2>9 DEF Truncated, Cut
<1> QED BY <1>1, <1>2

\* A context like the transcript is cut like the transcript.
LEMMA LikeCut ==
  ASSUME TypeOK, NEW t \in Turns, NEW c \in Seq(Turns), Like(transcript, c),
         target[t] # NULL => Occurs(target[t], transcript)
  PROVE  Like(Cut(t), IF target[t] = NULL THEN c ELSE DropLast(c, CountFrom(target[t])))
<1>1. CASE target[t] = NULL
  BY <1>1 DEF Cut
<1>2. CASE target[t] # NULL
  <2>1. CountFrom(target[t]) \in 1..Len(transcript)
    <3> DEFINE k == CHOOSE i \in DOMAIN transcript : transcript[i] = target[t]
    <3>1. k \in DOMAIN transcript
      BY <1>2 DEF Occurs
    <3>2. DOMAIN transcript = 1..Len(transcript) /\ Len(transcript) \in Nat
      BY DEF TypeOK
    <3>3. CountFrom(target[t]) = Len(transcript) + 1 - k
      BY DEF CountFrom
    <3> HIDE DEF k
    <3> QED BY <3>1, <3>2, <3>3
  <2>2. transcript \in Seq(Turns) /\ Covers(transcript, c)
    BY DEF TypeOK, Like
  <2>3. Covers(DropLast(transcript, CountFrom(target[t])), DropLast(c, CountFrom(target[t])))
    BY <2>1, <2>2, CoversDropped
  <2> QED BY <1>2, <2>3 DEF Like, Cut
<1> QED BY <1>1, <1>2

\* The turn that did its work joins both.
LEMMA LikeAppended ==
  ASSUME NEW s \in Seq(Turns), NEW u \in Seq(Turns), Like(s, u), NEW t \in Turns
  PROVE  Like(Append(s, t), Append(u, t))
BY CoversAppended DEF Like

\* What covers the rows with a turn more covers the rows.
LEMMA CoversRows ==
  ASSUME NEW s \in Seq(Turns), NEW u \in Seq(Turns), NEW t \in Turns,
         Covers(Append(s, t), u)
  PROVE  Covers(s, u)
<1>1. /\ Append(s, t) \in Seq(Turns)
      /\ \A i \in DOMAIN s : i \in DOMAIN Append(s, t) /\ s[i] = Append(s, t)[i]
  OBVIOUS
<1> QED BY <1>1, CoversPart

\* The steps that leave turn t and what it holds alone.
LEMMA HoldsKept ==
  ASSUME NEW t \in Turns, Holds(t), UNCHANGED <<transcript, raw, memory, torn>>,
         pc'[t] = pc[t], target'[t] = target[t], backup'[t] = backup[t],
         verdict'[t] = verdict[t],
         pc[t] = "returned" => \A i \in DOMAIN ready' :
           ready'[i].turn = t => \E j \in DOMAIN ready : ready[j] = ready'[i]
  PROVE  Holds(t)'
BY DEF Holds, Open, Complete, Ahead, Like, Cut, DropLast, CountFrom, Occurs

\* The cut of a turn depends on its target and on the transcript.
LEMMA CutKept ==
  ASSUME NEW t \in Turns, UNCHANGED <<transcript, target>>
  PROVE  Cut(t)' = Cut(t) /\ (Occurs(target[t], transcript)' <=> Occurs(target[t], transcript))
BY DEF Cut, DropLast, CountFrom, Occurs

\* A step that begins, goes on with or ends no turn.
LEMMA MatchedKept ==
  ASSUME Matched, UNCHANGED <<raw, transcript, memory, torn, backup, verdict>>,
         \A t \in Turns : pc[t] \in UnderWay \/ pc'[t] \in UnderWay =>
                            pc'[t] = pc[t] /\ target'[t] = target[t],
         \A i \in DOMAIN ready' : \E j \in DOMAIN ready : ready[j] = ready'[i]
  PROVE  Matched'
<1>1. ASSUME NEW t \in Turns, pc'[t] \in UnderWay PROVE Holds(t)'
  BY <1>1, HoldsKept DEF Matched
<1>2. \A t \in Turns : Ahead(t)' <=> Ahead(t)
  BY DEF Ahead, UnderWay, Storing
<1>3. (torn = {} /\ (\A t \in Turns : ~Ahead(t)) => raw = transcript)'
  BY <1>2 DEF Matched
<1>4. ((\A t \in Turns : pc[t] \notin UnderWay) => memory = NULL \/ Like(transcript, memory))'
  BY DEF Matched, Like
<1> QED BY <1>1, <1>3, <1>4 DEF Matched

\* A step of the only turn that is under way.
LEMMA MatchedMoved ==
  ASSUME NEW t \in Turns, Covers(transcript, raw)',
         torn' = {} /\ ~Ahead(t)' => raw' = transcript',
         \A u \in Turns \ {t} : pc'[u] \notin UnderWay,
         pc'[t] \in UnderWay => Holds(t)',
         pc'[t] \notin UnderWay => memory' = NULL \/ Like(transcript, memory)'
  PROVE  Matched'
BY DEF Matched

\* While turns do not overlap, the others are not under way.
LEMMA OthersRest ==
  ASSUME StopReaches, ~piled, NEW t \in Turns, pc[t] \in UnderWay
  PROVE  \A u \in Turns \ {t} : pc[u] \notin UnderWay
BY DEF StopReaches

\* The stored context is the transcript as long as no turn has begun its writes.
LEMMA RawKept ==
  ASSUME Matched, \A u \in Turns : ~Ahead(u), UNCHANGED <<raw, transcript, torn>>
  PROVE  Covers(transcript, raw)' /\ (torn' = {} => raw' = transcript')
BY DEF Matched

\* The context a turn gets is like the transcript.
LEMMA LoadedMatches ==
  ASSUME ChatAssumption, TypeOK, StopReaches, ~piled, Matched,
         NEW t \in Turns, pc[t] = "created"
  PROVE  Loaded \in Seq(Turns) /\ Like(transcript, Loaded)
<1>1. pc[t] \in UnderWay /\ ~Ahead(t) /\ Holds(t)
  BY DEF Matched, UnderWay, Ahead
<1>2. \A u \in Turns : ~Ahead(u)
  BY <1>1, OthersRest DEF Ahead, UnderWay, Storing
<1>3. Like(transcript, raw)
  BY <1>2 DEF Matched, Like
<1> QED BY <1>1, <1>3, LoadedType DEF Holds, Loaded

\* Each step of a turn keeps what its place says of the context.
LEMMA NextMatch ==
  ASSUME ChatAssumption, BaseInv, QueueInv, StopReaches, OrderInv, MatchInv, [Next]_vars
  PROVE  MatchInv'
<1>1. SUFFICES ASSUME exists', ~piled', ~failed' PROVE Matched'
  BY DEF MatchInv
<1>2. exists /\ ~piled /\ ~failed /\ Matched
  BY <1>1, FlagsStay, PiledStays DEF MatchInv
<1>3. /\ TypeOK
      /\ pc \in [Turns -> UnderWay \cup {"idle", "waiting", "refused", "done", "gone", "lost"}]
      /\ target \in [Turns -> Turns \cup {NULL}]
      /\ backup \in [Turns -> Seq(Turns) \cup {NULL}]
      /\ verdict \in [Turns -> Verdicts \cup {NULL}]
      /\ transcript \in Seq(Turns) /\ raw \in Seq(Turns)
      /\ memory \in Seq(Turns) \cup {NULL}
      /\ NULL \notin Seq(Turns) /\ NULL \notin Verdicts
  BY ChatAssumption DEF BaseInv, TypeOK, ChatAssumption
<1>4. \A t \in Turns : pc[t] \in UnderWay => \A u \in Turns \ {t} : pc[u] \notin UnderWay
  BY <1>2, OthersRest
<1>5. \A t \in Turns : pc[t] \in UnderWay => Holds(t)
  BY <1>2 DEF Matched
<1>6. \A t \in Turns : pc[t] \in UnderWay /\ ~Ahead(t) => \A u \in Turns : ~Ahead(u)
  BY <1>4 DEF Ahead, UnderWay, Storing
<1> USE DEF store, ends, inputs, events, hist, UnderWay, Working, Storing
<1>7. ASSUME NEW t \in Turns, NEW r \in Turns \cup {NULL}, Accept(t, r) PROVE Matched'
  <2>1. /\ pc'[t] = "created" /\ UNCHANGED <<raw, transcript, memory, torn>>
        /\ \A u \in Turns : pc[u] \notin UnderWay
        /\ \A u \in Turns \ {t} : pc'[u] = pc[u]
    BY <1>7, <1>1, <1>3 DEF Accept, CreateTask, Arrives
  <2>2. memory = NULL \/ Like(transcript, memory)
    BY <1>2, <2>1 DEF Matched
  <2>3. Holds(t)'
    BY <2>1, <2>2 DEF Holds, Open, Complete, Ahead, Like
  <2>4. Covers(transcript, raw)' /\ (torn' = {} => raw' = transcript')
    BY <1>2, <2>1, RawKept DEF Ahead
  <2> QED BY <2>1, <2>3, <2>4, MatchedMoved
<1>8. ASSUME NEW t \in Turns, Refuse(t) PROVE Matched'
  BY <1>8, <1>2, <1>3, MatchedKept DEF Refuse, Arrives
<1>9. ASSUME NEW t \in Turns, NEW r \in Turns \cup {NULL}, Wait(t, r) PROVE Matched'
  BY <1>9, <1>2, <1>3, MatchedKept DEF Wait, Arrives, Asks
<1>10. ASSUME NEW t \in Turns, Resume(t) PROVE Matched'
  <2>1. /\ pc'[t] = "created" /\ UNCHANGED <<raw, transcript, memory, torn>>
        /\ \A u \in Turns : pc[u] \notin UnderWay
        /\ \A u \in Turns \ {t} : pc'[u] = pc[u]
    BY <1>10, <1>1, <1>3 DEF Resume, CreateTask
  <2>2. memory = NULL \/ Like(transcript, memory)
    BY <1>2, <2>1 DEF Matched
  <2>3. Holds(t)'
    BY <2>1, <2>2 DEF Holds, Open, Complete, Ahead, Like
  <2>4. Covers(transcript, raw)' /\ (torn' = {} => raw' = transcript')
    BY <1>2, <2>1, RawKept DEF Ahead
  <2> QED BY <2>1, <2>3, <2>4, MatchedMoved
<1>11. ASSUME Stop PROVE Matched'
  BY <1>11, <1>2, <1>3, MatchedKept DEF Stop
<1>12. ASSUME NEW t \in Turns, CancelEarly(t) PROVE Matched'
  <2>1. /\ pc[t] \in UnderWay /\ Holds(t)
        /\ \A u \in Turns \ {t} : pc[u] \notin UnderWay /\ pc'[u] = pc[u]
    BY <1>12, <1>3, <1>4, <1>5 DEF CancelEarly, Answer
  <2>2. /\ Covers(transcript, raw)' /\ (torn' = {} => raw' = transcript')
        /\ UNCHANGED <<transcript, torn>>
    BY <1>12, <1>2, <1>6, <2>1, RawKept DEF CancelEarly, Answer, Ahead
  <2>3. pc'[t] = "done" /\ (memory' = NULL \/ Like(transcript, memory)')
    BY <1>12, <1>3, <2>1, <2>2 DEF CancelEarly, Answer, Holds, Open, Like
  <2> QED BY <2>1, <2>2, <2>3, MatchedMoved
<1>13. ASSUME NEW t \in Turns, Reject(t) PROVE Matched'
  <2>1. /\ pc[t] \in UnderWay /\ Holds(t)
        /\ \A u \in Turns \ {t} : pc[u] \notin UnderWay /\ pc'[u] = pc[u]
    BY <1>13, <1>3, <1>4, <1>5 DEF Reject, Flush
  <2>2. /\ Covers(transcript, raw)' /\ (torn' = {} => raw' = transcript')
        /\ UNCHANGED <<transcript, torn>>
    BY <1>13, <1>2, <1>6, <2>1, RawKept DEF Reject, Flush, Ahead
  <2>3. Like(transcript, memory)' /\ pc'[t] = "flushing" /\ verdict'[t] = "error"
    BY <1>13, <1>2, <1>3, <2>1, <2>2, LoadedMatches DEF Reject, Flush, Holds, Open, Complete, Like
  <2>4. Holds(t)'
    BY <1>13, <1>3, <2>1, <2>2, <2>3 DEF Holds, Open, Complete, Ahead, Verdicts
  <2> QED BY <2>1, <2>2, <2>4, <2>3, MatchedMoved
<1>14. ASSUME NEW t \in Turns, Prepare(t) PROVE Matched'
  <2>1. /\ pc[t] \in UnderWay /\ Holds(t)
        /\ \A u \in Turns \ {t} : pc[u] \notin UnderWay /\ pc'[u] = pc[u]
    BY <1>14, <1>3, <1>4, <1>5 DEF Prepare
  <2>2. /\ Covers(transcript, raw)' /\ (torn' = {} => raw' = transcript')
        /\ UNCHANGED <<transcript, torn>>
    BY <1>14, <1>2, <1>6, <2>1, RawKept DEF Prepare, Ahead
  <2>3. Loaded \in Seq(Turns) /\ Like(transcript, Loaded)
    BY <1>14, <1>2, <1>3, LoadedMatches DEF Prepare
  <2>4. /\ pc'[t] = "thinking" /\ backup'[t] = Loaded /\ UNCHANGED target
        /\ memory' = IF target[t] = NULL THEN Loaded ELSE DropLast(Loaded, CountFrom(target[t]))
        /\ target[t] # NULL => Occurs(target[t], transcript)
    BY <1>14, <1>3 DEF Prepare
  <2>5. Like(Cut(t), memory')
    BY <1>3, <2>3, <2>4, LikeCut
  <2>6. Holds(t)'
    BY <2>2, <2>3, <2>4, <2>5, CutKept DEF Holds, Open, Complete, Ahead, Like
  <2> QED BY <2>1, <2>2, <2>6, <2>4, MatchedMoved
<1>15. ASSUME NEW t \in Turns, SubmissionFails(t) PROVE Matched'
  <2>1. /\ pc[t] \in UnderWay /\ Holds(t)
        /\ \A u \in Turns \ {t} : pc[u] \notin UnderWay /\ pc'[u] = pc[u]
    BY <1>15, <1>3, <1>4, <1>5 DEF SubmissionFails, Flush
  <2>2. /\ Covers(transcript, raw)' /\ (torn' = {} => raw' = transcript')
        /\ UNCHANGED <<transcript, torn>>
    BY <1>15, <1>2, <1>6, <2>1, RawKept DEF SubmissionFails, Flush, Ahead
  <2>3. Like(transcript, memory)' /\ pc'[t] = "flushing" /\ verdict'[t] = "error"
    <3>1. Open(t)
      BY <1>15 DEF SubmissionFails, Open
    <3>2. Like(transcript, backup[t])
      BY <2>1, <3>1 DEF Holds
    <3> QED BY <1>15, <1>3, <2>2, <3>2 DEF SubmissionFails, Flush, Like
  <2>4. Holds(t)'
    BY <1>15, <1>3, <2>1, <2>2, <2>3 DEF Holds, Open, Complete, Ahead, Verdicts
  <2> QED BY <2>1, <2>2, <2>4, <2>3, MatchedMoved
<1>16. ASSUME NEW t \in Turns, Work(t) PROVE Matched'
  <2>1. /\ pc[t] \in UnderWay /\ Holds(t)
        /\ \A u \in Turns \ {t} : pc[u] \notin UnderWay /\ pc'[u] = pc[u]
    BY <1>16, <1>3, <1>4, <1>5 DEF Work
  <2>2. /\ Covers(transcript, raw)' /\ (torn' = {} => raw' = transcript')
        /\ UNCHANGED <<transcript, torn>>
    BY <1>16, <1>2, <1>6, <2>1, RawKept DEF Work, Ahead
  <2>3. /\ pc'[t] = "worked" /\ memory' = Append(memory, t) /\ UNCHANGED <<target, backup>>
        /\ memory \in Seq(Turns) /\ Like(Cut(t), memory)
    BY <1>16, <1>3, <2>1 DEF Work, Holds, BaseInv, Writing
  <2>4. Like(transcript, backup[t]) /\ (target[t] # NULL => Occurs(target[t], transcript))
    <3>1. Open(t)
      BY <1>16 DEF Work, Open
    <3> QED BY <2>1, <3>1 DEF Holds
  <2>5. Cut(t) \in Seq(Turns)
    BY <1>3, <2>4, CutsAgree, TruncatedRows
  <2>6. Like(Append(Cut(t), t), memory')
    BY <2>3, <2>5, LikeAppended
  <2>7. Holds(t)'
    BY <2>2, <2>3, <2>4, <2>6, CutKept DEF Holds, Open, Ahead, Like
  <2> QED BY <2>1, <2>2, <2>7, <2>3, MatchedMoved
<1>17. ASSUME NEW t \in Turns, NEW how \in Verdicts, Return(t, how) PROVE Matched'
  <2>1. /\ pc[t] \in UnderWay /\ Holds(t)
        /\ \A u \in Turns \ {t} : pc[u] \notin UnderWay /\ pc'[u] = pc[u]
    BY <1>17, <1>3, <1>4, <1>5 DEF Return
  <2>2. /\ Covers(transcript, raw)' /\ (torn' = {} => raw' = transcript')
        /\ UNCHANGED <<transcript, torn>>
    BY <1>17, <1>2, <1>6, <2>1, RawKept DEF Return, Ahead
  <2>3. pc'[t] = "returned" /\ UNCHANGED <<target, backup, memory>>
    BY <1>17, <1>3 DEF Return
  <2>4. Complete(t)' => pc[t] = "worked"
    <3>1. \A i \in DOMAIN ready : ready[i].turn = t => ready[i].item = "event"
      BY <1>17 DEF Return, QueueInv
    <3>2. \A i \in DOMAIN ready' :
            (i \in DOMAIN ready /\ ready'[i] = ready[i]) \/ ready'[i] = [turn |-> t, item |-> how]
      BY <1>17, <1>3 DEF Return, TypeOK
    <3> QED BY <1>17, <2>3, <3>1, <3>2 DEF Return, Complete
  <2>5. Holds(t)'
    BY <1>17, <2>1, <2>2, <2>3, <2>4, CutKept DEF Return, Holds, Open, Complete, Ahead, Like
  <2> QED BY <2>1, <2>2, <2>5, <2>3, MatchedMoved
<1>18. ASSUME Enqueue PROVE Matched'
  <2>1. \A i \in DOMAIN ready' : \E j \in DOMAIN ready : ready[j] = ready'[i]
    <3>1. /\ ready \in Seq(Items) /\ ready # <<>> /\ ready' = Tail(ready)
      BY <1>18, <1>3 DEF Enqueue, TypeOK
    <3>2. \A i \in DOMAIN ready' : i + 1 \in DOMAIN ready /\ ready'[i] = ready[i + 1]
      BY <3>1
    <3> QED BY <3>2
  <2> QED BY <1>18, <1>2, <2>1, MatchedKept DEF Enqueue
<1>19. ASSUME Wake PROVE Matched'
  <2>0. PICK t \in Turns : t = Head(ready).turn /\ pc[t] = "returned"
    BY <1>19, <1>3, WakesReturned
  <2>1. /\ pc[t] \in UnderWay /\ Holds(t)
        /\ \A u \in Turns \ {t} : pc[u] \notin UnderWay /\ pc'[u] = pc[u]
    BY <1>19, <1>3, <1>4, <1>5, <2>0 DEF Wake, Flush
  <2>2. /\ Covers(transcript, raw)' /\ (torn' = {} => raw' = transcript')
        /\ UNCHANGED <<transcript, torn>>
    BY <1>19, <1>2, <1>6, <2>0, <2>1, RawKept DEF Wake, Ahead
  <2>3. /\ pc'[t] = "flushing" /\ UNCHANGED <<target, backup>>
        /\ verdict'[t] = Head(ready).item /\ Head(ready).item \in Verdicts
        /\ memory' = IF Head(ready).item = "error" THEN backup[t] ELSE memory
    BY <1>19, <1>3, <2>0 DEF Wake, Flush
  <2>4. Head(ready).item = "ok" => Complete(t)
    <3>1. 1 \in DOMAIN ready /\ ready[1] = Head(ready)
      BY <1>19, <1>3 DEF Wake, TypeOK
    <3> QED BY <2>0, <3>1 DEF Complete
  <2>5. Holds(t)'
    <3>1. /\ Like(transcript, backup[t])
          /\ target[t] # NULL => Occurs(target[t], transcript)
          /\ Head(ready).item = "ok" => Like(Append(Cut(t), t), memory)
      <4>1. Open(t)
        BY <2>0 DEF Open
      <4> QED BY <2>1, <2>4, <4>1 DEF Holds
    <3>2. Complete(t)' => Head(ready).item = "ok"
      BY <2>3 DEF Complete
    <3>3. Head(ready).item # NULL
      BY <1>3, <2>3
    <3> QED BY <2>0, <2>2, <2>3, <3>1, <3>2, <3>3, CutKept DEF Holds, Open, Ahead, Like
  <2> QED BY <2>0, <2>1, <2>2, <2>5, <2>3, MatchedMoved
<1>20. ASSUME Deliver PROVE Matched'
  BY <1>20, <1>2, <1>3, MatchedKept DEF Deliver
<1>21. ASSUME NEW t \in Turns, Fail(t) PROVE Matched'
  <2>1. /\ pc[t] \in UnderWay /\ Holds(t)
        /\ \A u \in Turns \ {t} : pc[u] \notin UnderWay /\ pc'[u] = pc[u]
    BY <1>21, <1>3, <1>4, <1>5 DEF Fail, Flushed, Answer
  <2>2. /\ Covers(transcript, raw)' /\ (torn' = {} => raw' = transcript')
        /\ UNCHANGED <<transcript, torn>>
    BY <1>21, <1>2, <1>6, <2>1, RawKept DEF Fail, Flushed, Answer, Ahead
  <2>3. pc'[t] = "done" /\ (memory' = NULL \/ Like(transcript, memory)')
    BY <1>21, <1>3, <2>1, <2>2 DEF Fail, Flushed, Answer, Holds, Open, Like
  <2> QED BY <2>1, <2>2, <2>3, MatchedMoved
<1>22. ASSUME NEW t \in Turns, Discard(t) PROVE Matched'
  <2>1. /\ pc[t] \in UnderWay /\ Holds(t)
        /\ \A u \in Turns \ {t} : pc[u] \notin UnderWay /\ pc'[u] = pc[u]
    BY <1>22, <1>3, <1>4, <1>5 DEF Discard, Flushed, Answer
  <2>2. /\ Covers(transcript, raw)' /\ (torn' = {} => raw' = transcript')
        /\ UNCHANGED <<transcript, torn>>
    BY <1>22, <1>2, <1>6, <2>1, RawKept DEF Discard, Flushed, Answer, Ahead
  <2>3. pc'[t] = "done" /\ (memory' = NULL \/ Like(transcript, memory)')
    <3>1. Open(t)
      BY <1>22 DEF Discard, Flushed, Open
    <3>2. Like(transcript, backup[t])
      BY <2>1, <3>1 DEF Holds
    <3> QED BY <1>22, <1>3, <2>2, <3>2 DEF Discard, Flushed, Answer, Like
  <2> QED BY <2>1, <2>2, <2>3, MatchedMoved
<1>23. ASSUME NEW t \in Turns, Orphan(t) PROVE Matched'
  BY <1>23, <1>2 DEF Orphan
<1>24. ASSUME NEW t \in Turns, Proceed(t) PROVE Matched'
  <2>1. /\ pc[t] \in UnderWay /\ Holds(t)
        /\ \A u \in Turns \ {t} : pc[u] \notin UnderWay /\ pc'[u] = pc[u]
    BY <1>24, <1>3, <1>4, <1>5 DEF Proceed, Flushed
  <2>2. /\ Covers(transcript, raw)' /\ (torn' = {} => raw' = transcript')
        /\ UNCHANGED <<transcript, torn>>
    BY <1>24, <1>2, <1>6, <2>1, RawKept DEF Proceed, Flushed, Ahead
  <2>3. pc'[t] = "saving" /\ Complete(t) /\ Open(t) /\ UNCHANGED <<target, backup, memory>>
    BY <1>24, <1>3, <2>1 DEF Proceed, Flushed, Holds, Open, Complete, Discarded, Verdicts
  <2>4. Holds(t)'
    BY <2>1, <2>2, <2>3, CutKept DEF Holds, Open, Complete, Ahead, Like
  <2> QED BY <2>1, <2>2, <2>4, <2>3, MatchedMoved
<1>25. ASSUME NEW t \in Turns, Truncate(t) PROVE Matched'
  <2>1. /\ pc[t] \in UnderWay /\ Holds(t)
        /\ \A u \in Turns \ {t} : pc[u] \notin UnderWay /\ pc'[u] = pc[u]
    BY <1>25, <1>3, <1>4, <1>5 DEF Truncate
  <2>2. Truncated(t) = Cut(t) /\ Like(Append(Cut(t), t), memory)
    <3>1. Open(t) /\ Complete(t)
      BY <1>25 DEF Truncate, Open, Complete
    <3>2. /\ Like(Append(Cut(t), t), memory)
          /\ target[t] # NULL => Occurs(target[t], transcript)
      BY <2>1, <3>1 DEF Holds
    <3> QED BY <1>3, <3>2, CutsAgree
  <2>3. transcript' = Truncated(t) /\ pc'[t] = "cut" /\ UNCHANGED <<raw, memory, torn>>
    BY <1>25, <1>3 DEF Truncate
  <2>4. Covers(transcript, raw)'
    <3>1. Covers(transcript, raw)
      BY <1>2 DEF Matched
    <3> QED BY <1>3, <2>3, <3>1, TruncatedRows, CoversPart
  <2>5. Holds(t)' /\ Ahead(t)'
    BY <2>2, <2>3 DEF Holds, Open, Complete, Ahead, Like
  <2> QED BY <2>1, <2>4, <2>5, <2>3, MatchedMoved
<1>26. ASSUME NEW t \in Turns, Persist(t) PROVE Matched'
  <2>1. /\ pc[t] \in UnderWay /\ Holds(t)
        /\ \A u \in Turns \ {t} : pc[u] \notin UnderWay /\ pc'[u] = pc[u]
    BY <1>26, <1>3, <1>4, <1>5 DEF Persist
  <2>2. Like(Append(transcript, t), memory) /\ memory \in Seq(Turns)
    <3>1. CASE target[t] = NULL
      BY <1>26, <1>3, <2>1, <3>1 DEF Persist, Holds, Complete, Cut, BaseInv, Writing
    <3>2. CASE target[t] # NULL
      BY <1>26, <1>3, <2>1, <3>2 DEF Persist, Holds, Ahead, BaseInv, Writing
    <3> QED BY <3>1, <3>2
  <2>3. raw' = memory /\ pc'[t] = "persisted" /\ UNCHANGED <<transcript, memory, torn>>
    BY <1>26, <1>2, <1>3 DEF Persist
  <2>4. Covers(transcript, raw)'
    <3>1. Covers(Append(transcript, t), memory)
      BY <2>2 DEF Like
    <3> QED BY <1>3, <2>2, <2>3, <3>1, CoversRows
  <2>5. Holds(t)' /\ Ahead(t)'
    BY <2>2, <2>3 DEF Holds, Open, Complete, Ahead, Like
  <2> QED BY <2>1, <2>4, <2>5, <2>3, MatchedMoved
<1>27. ASSUME NEW t \in Turns, AddUser(t) PROVE Matched'
  <2>1. /\ pc[t] \in UnderWay /\ Holds(t)
        /\ \A u \in Turns \ {t} : pc[u] \notin UnderWay /\ pc'[u] = pc[u]
    BY <1>27, <1>3, <1>4, <1>5 DEF AddUser
  <2>2. Like(Append(transcript, t), memory) /\ raw = memory
    BY <1>27, <2>1 DEF AddUser, Holds, Ahead
  <2>3. /\ transcript' = Append(transcript, t) /\ pc'[t] = "asked"
        /\ UNCHANGED <<raw, memory, torn>>
    BY <1>27, <1>3 DEF AddUser
  <2>4. Covers(transcript, raw)' /\ (torn' = {} => raw' = transcript')
    BY <2>2, <2>3 DEF Like
  <2>5. Holds(t)'
    BY <2>2, <2>3 DEF Holds, Open, Complete, Ahead, Like
  <2> QED BY <2>1, <2>4, <2>5, <2>3, MatchedMoved
<1>28. ASSUME NEW t \in Turns, AddAnswer(t) PROVE Matched'
  <2>1. /\ pc[t] \in UnderWay /\ Holds(t)
        /\ \A u \in Turns \ {t} : pc[u] \notin UnderWay /\ pc'[u] = pc[u]
    BY <1>28, <1>3, <1>4, <1>5 DEF AddAnswer
  <2>2. /\ Covers(transcript, raw)' /\ (torn' = {} => raw' = transcript')
        /\ UNCHANGED <<transcript, torn>>
    BY <1>28, <1>2, <1>6, <2>1, RawKept DEF AddAnswer, Ahead
  <2>3. pc'[t] = "saved" /\ UNCHANGED memory /\ Like(transcript, memory)
    BY <1>28, <1>3, <2>1 DEF AddAnswer, Holds
  <2>4. Holds(t)'
    BY <2>2, <2>3 DEF Holds, Open, Complete, Ahead, Like
  <2> QED BY <2>1, <2>2, <2>4, <2>3, MatchedMoved
<1>29. ASSUME NEW t \in Turns, Respond(t) PROVE Matched'
  <2>1. /\ pc[t] \in UnderWay /\ Holds(t)
        /\ \A u \in Turns \ {t} : pc[u] \notin UnderWay /\ pc'[u] = pc[u]
    BY <1>29, <1>3, <1>4, <1>5 DEF Respond, Answer
  <2>2. /\ Covers(transcript, raw)' /\ (torn' = {} => raw' = transcript')
        /\ UNCHANGED <<transcript, torn>>
    BY <1>29, <1>2, <1>6, <2>1, RawKept DEF Respond, Answer, Ahead
  <2>3. pc'[t] = "done" /\ (memory' = NULL \/ Like(transcript, memory)')
    BY <1>29, <1>3, <2>1, <2>2 DEF Respond, Answer, Holds, Open, Like
  <2> QED BY <2>1, <2>2, <2>3, MatchedMoved
<1>30. ASSUME NEW t \in Turns, StoreFails(t) PROVE Matched'
  BY <1>30, <1>1 DEF StoreFails
<1>31. ASSUME NEW t \in Turns, Cleanup(t) PROVE Matched'
  BY <1>31, <1>2, <1>3, MatchedKept DEF Cleanup
<1>32. ASSUME Delete PROVE Matched'
  BY <1>32, <1>1 DEF Delete
<1>33. ASSUME Restart PROVE Matched'
  <2>1. /\ memory' = NULL /\ UNCHANGED <<raw, transcript>>
        /\ \A t \in Turns : pc'[t] \notin UnderWay
        /\ torn' = torn \cup {t \in Turns : pc[t] \in Begun}
    BY <1>33, <1>3 DEF Restart
  <2>2. torn' = {} => raw' = transcript'
    <3>1. torn' = {} => torn = {} /\ \A t \in Turns : ~Ahead(t)
      BY <2>1 DEF Begun, Ahead
    <3> QED BY <1>2, <2>1, <3>1 DEF Matched
  <2> QED BY <1>2, <2>1, <2>2 DEF Matched
<1>34. ASSUME UNCHANGED vars PROVE Matched'
  BY <1>34, <1>2, <1>3, MatchedKept DEF vars
<1> HIDE DEF store, ends, inputs, events, hist, UnderWay, Working, Storing
<1> QED
  BY <1>7, <1>8, <1>9, <1>10, <1>11, <1>12, <1>13, <1>14, <1>15, <1>16, <1>17, <1>18,
     <1>19, <1>20, <1>21, <1>22, <1>23, <1>24, <1>25, <1>26, <1>27, <1>28, <1>29,
     <1>30, <1>31, <1>32, <1>33, <1>34 DEF Next, Step

\* Edits, stops and errors leave the contexts and the transcript alike; a restart at
\* any moment takes nothing from the contexts that the transcript shows.
THEOREM ContextIsTranscript == ASSUME ChatAssumption PROVE Spec => []ContextMatches
<1>1. Init => SavedInv /\ OrderInv /\ MatchInv
  <2>1. ASSUME Init PROVE SavedInv
    BY <2>1, EmptyOccurs, ChatAssumption DEF Init, SavedInv, Dropped, ChatAssumption, Verdicts
  <2>2. ASSUME Init PROVE OrderInv
    BY <2>2, EmptyOccurs DEF Init, OrderInv
  <2>3. ASSUME Init PROVE MatchInv
    <3>1. /\ transcript = <<>> /\ raw = <<>> /\ memory = NULL
          /\ \A t \in Turns : pc[t] = "idle"
      BY <2>3 DEF Init
    <3>2. Covers(transcript, raw)
      <4>1. <<>> \in Seq(Turns)
        OBVIOUS
      <4>2. Covers(<<>>, <<>>)
        BY <4>1, CoversItself
      <4> QED BY <3>1, <4>2
    <3> QED BY <3>1, <3>2 DEF MatchInv, Matched, UnderWay, Working, Storing
  <2> QED BY <2>1, <2>2, <2>3
<1>2. /\ BaseInv /\ QueueInv /\ StopReaches /\ SavedInv /\ OrderInv /\ MatchInv /\ [Next]_vars
      => SavedInv' /\ OrderInv' /\ MatchInv'
  BY ChatAssumption, NextSaved, NextOrder, NextMatch DEF BaseInv
<1>3. TypeOK /\ SavedInv /\ MatchInv => ContextMatches
  <2> SUFFICES ASSUME TypeOK, SavedInv, MatchInv, exists, ~piled, ~failed,
                      \A t \in Turns : pc[t] \notin UnderWay
               PROVE  /\ Covers(transcript, Loaded) /\ Covers(transcript, raw)
                      /\ torn = {} =>
                           /\ Loaded = transcript /\ raw = transcript
                           /\ \A i \in DOMAIN transcript : transcript[i] \in replied
    BY DEF ContextMatches
  <2>1. \A t \in Turns : ~Ahead(t) /\ pc[t] # "asked"
    BY DEF Ahead, UnderWay, Storing
  <2>2. Matched
    BY DEF MatchInv
  <2>3. Covers(transcript, Loaded) /\ Covers(transcript, raw)
    BY <2>2 DEF Matched, Like, Loaded
  <2>4. torn = {} => Loaded = transcript /\ raw = transcript
    BY <2>1, <2>2 DEF Matched, Like, Loaded
  <2>5. torn = {} => \A i \in DOMAIN transcript : transcript[i] \in replied
    <3>1. \A i \in DOMAIN transcript : transcript[i] \in Turns /\ Occurs(transcript[i], saved)
      <4>1. \A i \in DOMAIN transcript :
              transcript[i] \in Turns /\ Occurs(transcript[i], transcript)
        BY DEF Occurs, TypeOK
      <4> QED BY <4>1 DEF SavedInv
    <3> QED BY <2>1, <3>1 DEF SavedInv
  <2> QED BY <2>3, <2>4, <2>5
<1>4. BaseInv => TypeOK
  BY DEF BaseInv
<1> QED BY <1>1, <1>2, <1>3, <1>4, BaseInvariant, StopReachesTurn, PTL DEF Spec
=============================================================================
