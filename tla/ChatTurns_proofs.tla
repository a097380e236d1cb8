-------------------------- MODULE ChatTurns_proofs --------------------------
(***************************************************************************)
(* For any number of messages and faults: a stop reaches the turn under    *)
(* way and keeps it out of the store, no event follows the end of its      *)
(* turn, a stopped turn leaves no trace, what an edit replaces goes only   *)
(* when its replacement is stored, unless the edit is cut short between    *)
(* its writes, and nobody waits for what will not come.                    *)
(*                                                                         *)
(* The argument starts from the callbacks (QueueInv): the event of a turn  *)
(* comes before the end of its call, so a task that wakes has nothing left *)
(* outside the queue.  Contexts (ContextInv) hold what was stored and the  *)
(* turn under way; that there is one at most is StopReaches.  That context *)
(* and transcript are alike is proved in ChatContext_proofs.               *)
(***************************************************************************)
EXTENDS ChatTurns, FiniteSetTheorems, SequenceTheorems, TLAPS

-----------------------------------------------------------------------------
(* Types *)

\* A turn that may give its context back, or write it, has it.
Writing(t) ==
  \/ pc[t] \in Working \cup Storing \cup {"returned", "saved"}
  \/ pc[t] = "flushing" /\ verdict[t] # "error"

BaseInv ==
  /\ TypeOK
  /\ \A t \in Turns : Writing(t) => backup[t] # NULL /\ memory # NULL

\* Where a turn is before anything of it is published.
Unsent == {"idle", "created", "thinking", "waiting", "refused"}

\* The callbacks of a turn are its event and then the end of its call; with the
\* end nothing of the turn is left outside the queue.
QueueInv ==
  /\ \A i \in DOMAIN ready :
       /\ pc[ready[i].turn] \in {"worked", "returned"}
       /\ ready[i].item # "event" => pc[ready[i].turn] = "returned"
  /\ \A i, j \in DOMAIN ready :
       i < j /\ ready[i].turn = ready[j].turn => ready[i].item = "event"
  /\ \A i \in DOMAIN queue : pc[queue[i]] \notin Unsent

\* The number of rows that truncate_turns_from keeps.
LEMMA KeptCount ==
  ASSUME transcript \in Seq(Turns), NEW r
  PROVE  Cardinality(Kept(r)) \in 0..Len(transcript)
<1>1. /\ IsFiniteSet(1..Len(transcript))
      /\ Cardinality(1..Len(transcript)) = Len(transcript)
  <2>1. Len(transcript) \in Nat
    OBVIOUS
  <2> QED BY <2>1, FS_Interval
<1>2. Kept(r) \subseteq 1..Len(transcript)
  BY DEF Kept
<1>3. /\ IsFiniteSet(Kept(r))
      /\ Cardinality(Kept(r)) <= Len(transcript)
  BY <1>1, <1>2, FS_Subset
<1> QED BY <1>3, FS_CardinalityType

\* What truncate_turns_from leaves, and truncate_history_by_user_turns.
LEMMA TruncatedType ==
  ASSUME transcript \in Seq(Turns), NEW t \in Turns
  PROVE  Truncated(t) \in Seq(Turns)
<1>1. Cardinality(Kept(target[t])) \in 0..Len(transcript)
  BY KeptCount
<1> QED BY <1>1 DEF Truncated

LEMMA DropLastType ==
  ASSUME NEW s \in Seq(Turns), NEW n \in Nat PROVE DropLast(s, n) \in Seq(Turns)
BY DEF DropLast

\* get_memory finds a context in the cache or in the row.
LEMMA LoadedType == ASSUME TypeOK PROVE Loaded \in Seq(Turns)
BY DEF TypeOK, Loaded

\* count_user_turns_from.
LEMMA CountType ==
  ASSUME TypeOK, NEW r, Occurs(r, transcript) PROVE CountFrom(r) \in Nat
<1> DEFINE i == CHOOSE i \in DOMAIN transcript : transcript[i] = r
<1>1. i \in 1..Len(transcript)
  BY DEF TypeOK, Occurs
<1> QED BY <1>1 DEF TypeOK, CountFrom

\* The fields of what the event loop has to do.
LEMMA ItemFields ==
  ASSUME TypeOK
  PROVE  \A i \in DOMAIN ready :
           ready[i].turn \in Turns /\ ready[i].item \in Verdicts \cup {"event"}
<1>1. \A i \in DOMAIN ready : ready[i] \in Items
  BY DEF TypeOK
<1> QED BY <1>1 DEF Items

\* The server starts with empty tables, caches and queues.
LEMMA InitBase == ASSUME ChatAssumption, Init PROVE BaseInv
<1>1. <<>> \in Seq(Turns) /\ <<>> \in Seq(Items)
  OBVIOUS
<1>2. /\ transcript \in Seq(Turns) /\ raw \in Seq(Turns) /\ saved \in Seq(Turns)
      /\ ready \in Seq(Items) /\ queue \in Seq(Turns)
  BY <1>1 DEF Init
<1>3. /\ exists = TRUE /\ memory = NULL /\ active = NULL
      /\ pc = [t \in Turns |-> "idle"]
      /\ target = [t \in Turns |-> NULL] /\ waits = [t \in Turns |-> NULL]
      /\ backup = [t \in Turns |-> NULL]
      /\ verdict = [t \in Turns |-> NULL] /\ answer = [t \in Turns |-> NULL]
      /\ stopped = {} /\ replied = {} /\ torn = {} /\ late = {}
      /\ piled = FALSE /\ failed = FALSE /\ faults = 0
  BY DEF Init
<1>4. TypeOK
  <2>1. /\ exists \in BOOLEAN /\ piled \in BOOLEAN /\ failed \in BOOLEAN
        /\ memory \in Seq(Turns) \cup {NULL} /\ active \in Turns \cup {NULL}
        /\ stopped \subseteq Turns /\ late \subseteq Turns
        /\ replied \subseteq Turns /\ torn \subseteq Turns
    BY <1>3
  <2>4. faults \in 0..MaxFaults
    BY <1>3, ChatAssumption DEF ChatAssumption
  <2>2. pc \in [Turns -> UnderWay \cup {"idle", "waiting", "refused", "done", "gone", "lost"}]
    BY <1>3
  <2>3. /\ target \in [Turns -> Turns \cup {NULL}] /\ waits \in [Turns -> Turns \cup {NULL}]
        /\ backup \in [Turns -> Seq(Turns) \cup {NULL}]
        /\ verdict \in [Turns -> Verdicts \cup {NULL}]
        /\ answer \in [Turns -> {"response", "cancelled", "error", "busy", NULL}]
    BY <1>3
  <2> QED BY <1>2, <2>1, <2>2, <2>3, <2>4 DEF TypeOK
<1>5. \A t \in Turns : ~Writing(t)
  BY <1>3 DEF Writing, Working, Storing
<1> QED BY <1>4, <1>5 DEF BaseInv

\* Every step keeps the types; a turn that may give its context back has it.
LEMMA NextBase == ASSUME ChatAssumption, BaseInv, QueueInv, [Next]_vars PROVE BaseInv'
<1> USE ChatAssumption DEF BaseInv, TypeOK, Writing, Working, Storing, UnderWay, Verdicts,
      ChatAssumption, store, ends, inputs, events, hist, vars
<1>1. ASSUME NEW t \in Turns, NEW r \in Turns \cup {NULL}, Accept(t, r) PROVE BaseInv'
  BY <1>1 DEF Accept, CreateTask, Arrives, Asks
<1>2. ASSUME NEW t \in Turns, Refuse(t) PROVE BaseInv'
  BY <1>2 DEF Refuse, Arrives
<1>3. ASSUME NEW t \in Turns, NEW r \in Turns \cup {NULL}, Wait(t, r) PROVE BaseInv'
  BY <1>3 DEF Wait, Arrives, Asks
<1>4. ASSUME NEW t \in Turns, Resume(t) PROVE BaseInv'
  BY <1>4 DEF Resume, CreateTask
<1>5. ASSUME Stop PROVE BaseInv'
  BY <1>5 DEF Stop
<1>6. ASSUME NEW t \in Turns, CancelEarly(t) PROVE BaseInv'
  BY <1>6 DEF CancelEarly, Answer
<1>7. ASSUME NEW t \in Turns, Reject(t) PROVE BaseInv'
  <2>1. Loaded \in Seq(Turns)
    BY LoadedType
  <2> QED BY <1>7, <2>1 DEF Reject, Flush
<1>8. ASSUME NEW t \in Turns, Prepare(t) PROVE BaseInv'
  <2>1. Loaded \in Seq(Turns)
    BY LoadedType
  <2>2. target[t] # NULL => DropLast(Loaded, CountFrom(target[t])) \in Seq(Turns)
    BY <1>8, <2>1, CountType, DropLastType DEF Prepare
  <2>3. memory' \in Seq(Turns)
    BY <1>8, <2>1, <2>2 DEF Prepare
  <2> QED BY <1>8, <2>1, <2>3 DEF Prepare
<1>9. ASSUME NEW t \in Turns, SubmissionFails(t) PROVE BaseInv'
  BY <1>9 DEF SubmissionFails, Flush
<1>10. ASSUME NEW t \in Turns, Work(t) PROVE BaseInv'
  <2>1. memory \in Seq(Turns)
    BY <1>10 DEF Work
  <2>2. memory' \in Seq(Turns)
    BY <1>10, <2>1 DEF Work
  <2>3. [turn |-> t, item |-> "event"] \in Items
    BY DEF Items
  <2>4. ready' \in Seq(Items)
    BY <1>10, <2>3 DEF Work
  <2> QED BY <1>10, <2>2, <2>4 DEF Work
<1>11. ASSUME NEW t \in Turns, NEW how \in Verdicts, Return(t, how) PROVE BaseInv'
  <2>1. [turn |-> t, item |-> how] \in Items
    BY <1>11 DEF Items
  <2>2. ready' \in Seq(Items)
    BY <1>11, <2>1 DEF Return
  <2> QED BY <1>11, <2>2 DEF Return
<1>12. ASSUME Enqueue PROVE BaseInv'
  <2>1. Head(ready) \in Items
    BY <1>12 DEF Enqueue
  <2>2. ready' \in Seq(Items)
    BY <1>12 DEF Enqueue
  <2>3. queue' \in Seq(Turns)
    BY <1>12, <2>1 DEF Enqueue, Items
  <2> QED BY <1>12, <2>2, <2>3 DEF Enqueue
<1>13. ASSUME Wake PROVE BaseInv'
  <2>1. ready # <<>> /\ ready' = Tail(ready)
    BY <1>13 DEF Wake
  <2>2. Head(ready) \in Items /\ ready' \in Seq(Items)
    BY <2>1
  <2> DEFINE t == Head(ready).turn
             i == Head(ready).item
  <2>3. t \in Turns /\ i \in Verdicts
    BY <1>13, <2>2 DEF Wake, Items
  <2>4. /\ pc' = [pc EXCEPT ![t] = "flushing"]
        /\ verdict' = [verdict EXCEPT ![t] = i]
        /\ memory' = IF i = "error" THEN backup[t] ELSE memory
        /\ UNCHANGED <<exists, transcript, raw, saved, active, target, stopped, waits,
                       backup, answer, queue, replied, torn, late, piled, failed, faults>>
    BY <1>13 DEF Wake, Flush
  <2>5. pc[t] = "returned"
    BY <1>13, <2>1 DEF Wake, QueueInv, Verdicts
  <2> HIDE DEF t, i
  <2> QED BY <2>2, <2>3, <2>4, <2>5
<1>14. ASSUME Deliver PROVE BaseInv'
  BY <1>14 DEF Deliver
<1>15. ASSUME NEW t \in Turns, Fail(t) PROVE BaseInv'
  BY <1>15 DEF Fail, Flushed, Fault, Answer
<1>16. ASSUME NEW t \in Turns, Discard(t) PROVE BaseInv'
  BY <1>16 DEF Discard, Flushed, Fault, Answer
<1>17. ASSUME NEW t \in Turns, Orphan(t) PROVE BaseInv'
  BY <1>17 DEF Orphan, Flushed, Fault, Answer
<1>18. ASSUME NEW t \in Turns, Proceed(t) PROVE BaseInv'
  BY <1>18 DEF Proceed, Flushed, Fault
<1>19. ASSUME NEW t \in Turns, Truncate(t) PROVE BaseInv'
  <2>1. Truncated(t) \in Seq(Turns)
    BY TruncatedType
  <2> QED BY <1>19, <2>1 DEF Truncate
<1>20. ASSUME NEW t \in Turns, Persist(t) PROVE BaseInv'
  <2>1. raw' \in Seq(Turns)
    BY <1>20 DEF Persist
  <2> QED BY <1>20, <2>1 DEF Persist
<1>21. ASSUME NEW t \in Turns, AddUser(t) PROVE BaseInv'
  <2>1. transcript' \in Seq(Turns) /\ saved' \in Seq(Turns)
    BY <1>21 DEF AddUser
  <2> QED BY <1>21, <2>1 DEF AddUser
<1>22. ASSUME NEW t \in Turns, AddAnswer(t) PROVE BaseInv'
  BY <1>22 DEF AddAnswer
<1>23. ASSUME NEW t \in Turns, Respond(t) PROVE BaseInv'
  BY <1>23 DEF Respond, Answer
<1>24. ASSUME NEW t \in Turns, StoreFails(t) PROVE BaseInv'
  BY <1>24 DEF StoreFails, Fault, Answer
<1>25. ASSUME NEW t \in Turns, Cleanup(t) PROVE BaseInv'
  BY <1>25 DEF Cleanup
<1>26. ASSUME Delete PROVE BaseInv'
  <2>1. transcript' \in Seq(Turns) /\ raw' \in Seq(Turns)
    BY <1>26 DEF Delete
  <2>2. /\ exists' = FALSE /\ faults' \in 0..MaxFaults
        /\ UNCHANGED <<saved, replied, torn, memory, active, pc, target, stopped, waits, backup,
                       verdict, answer, ready, queue, late, piled, failed>>
    BY <1>26 DEF Delete, Fault
  <2> QED BY <2>1, <2>2
<1>27. ASSUME Restart PROVE BaseInv'
  BY <1>27 DEF Restart, Fault
<1>28. CASE UNCHANGED vars
  BY <1>28
<1> HIDE DEF BaseInv, TypeOK, Writing, Working, Storing, UnderWay, Verdicts, store, ends,
             inputs, events, hist, vars
<1> QED
  BY <1>1, <1>2, <1>3, <1>4, <1>5, <1>6, <1>7, <1>8, <1>9, <1>10, <1>11, <1>12, <1>13,
     <1>14, <1>15, <1>16, <1>17, <1>18, <1>19, <1>20, <1>21, <1>22, <1>23, <1>24,
     <1>25, <1>26, <1>27, <1>28
     DEF Next, Step

-----------------------------------------------------------------------------
(* The callbacks and the queue *)

\* Nothing waits when the server starts.
LEMMA InitQueue == ASSUME Init PROVE QueueInv
BY DEF Init, QueueInv

\* A turn moves on that has no callback.
LEMMA QueueFrame ==
  ASSUME TypeOK, QueueInv, UNCHANGED <<ready, queue>>,
         NEW t \in Turns, NEW s, pc' = [pc EXCEPT ![t] = s],
         pc[t] \notin {"worked", "returned"}, s \in Unsent => pc[t] \in Unsent
  PROVE  QueueInv'
<1>1. \A u \in Turns : pc'[u] = IF u = t THEN s ELSE pc[u]
  BY DEF TypeOK
<1>2. \A i \in DOMAIN queue : queue[i] \in Turns
  BY DEF TypeOK
<1> QED BY <1>1, <1>2, ItemFields DEF QueueInv

\* A worker thread adds a callback: no end of its call was there before.
LEMMA AppendReady ==
  ASSUME TypeOK, QueueInv, UNCHANGED queue, NEW t \in Turns,
         pc[t] \in {"thinking", "worked"},
         NEW k \in Verdicts \cup {"event"}, NEW s \in {"worked", "returned"},
         \A u \in Turns : pc'[u] = IF u = t THEN s ELSE pc[u],
         k # "event" => s = "returned",
         ready' = Append(ready, [turn |-> t, item |-> k])
  PROVE  QueueInv'
<1>1. ready \in Seq(Items) /\ [turn |-> t, item |-> k] \in Items
  <2>1. [turn |-> t, item |-> k] \in Items
    BY DEF Items
  <2> QED BY <2>1 DEF TypeOK
<1>2. \A i \in DOMAIN ready' :
        \/ i \in DOMAIN ready /\ ready'[i] = ready[i]
        \/ i = Len(ready) + 1 /\ ready'[i] = [turn |-> t, item |-> k]
  BY <1>1
<1>3. \A i \in DOMAIN ready : ready[i].turn \in Turns /\ i < Len(ready) + 1
  BY <1>1, ItemFields
<1>4. \A i \in DOMAIN ready : ready[i].turn = t => ready[i].item = "event"
  BY DEF QueueInv
<1>5. \A i \in DOMAIN ready' :
        /\ pc'[ready'[i].turn] \in {"worked", "returned"}
        /\ ready'[i].item # "event" => pc'[ready'[i].turn] = "returned"
  BY <1>2, <1>3, <1>4 DEF QueueInv
<1>6. \A i, j \in DOMAIN ready' :
        i < j /\ ready'[i].turn = ready'[j].turn => ready'[i].item = "event"
  <2>1. ASSUME NEW i \in DOMAIN ready', NEW j \in DOMAIN ready', i < j,
               ready'[i].turn = ready'[j].turn
        PROVE  ready'[i].item = "event"
    <3>1. i \in DOMAIN ready
      BY <1>1, <1>2, <1>3, <2>1
    <3>2. CASE j \in DOMAIN ready
      BY <1>2, <1>3, <2>1, <3>1, <3>2 DEF QueueInv
    <3>3. CASE j = Len(ready) + 1
      BY <1>1, <1>2, <1>3, <1>4, <2>1, <3>1, <3>3
    <3> QED BY <1>2, <3>2, <3>3
  <2> QED BY <2>1
<1>7. \A i \in DOMAIN queue' : pc'[queue'[i]] \notin Unsent
  BY DEF TypeOK, QueueInv, Unsent
<1> QED BY <1>5, <1>6, <1>7 DEF QueueInv

\* Callbacks are made in the order of the worker, and taken in that order.
LEMMA NextQueue == ASSUME TypeOK, QueueInv, [Next]_vars PROVE QueueInv'
<1> USE DEF store, ends, inputs, events, hist
<1>1. ASSUME NEW t \in Turns, NEW r \in Turns \cup {NULL}, Accept(t, r) PROVE QueueInv'
  BY <1>1, QueueFrame DEF Accept, CreateTask, Arrives, Asks, Unsent, Working, Storing, UnderWay
<1>2. ASSUME NEW t \in Turns, Refuse(t) PROVE QueueInv'
  BY <1>2, QueueFrame DEF Refuse, Arrives, Unsent, Working, Storing, UnderWay
<1>3. ASSUME NEW t \in Turns, NEW r \in Turns \cup {NULL}, Wait(t, r) PROVE QueueInv'
  BY <1>3, QueueFrame DEF Wait, Arrives, Asks, Unsent, Working, Storing, UnderWay
<1>4. ASSUME NEW t \in Turns, Resume(t) PROVE QueueInv'
  BY <1>4, QueueFrame DEF Resume, CreateTask, Unsent, Working, Storing, UnderWay
<1>5. ASSUME Stop PROVE QueueInv'
  BY <1>5 DEF Stop, QueueInv
<1>6. ASSUME NEW t \in Turns, CancelEarly(t) PROVE QueueInv'
  BY <1>6, QueueFrame DEF CancelEarly, Answer, Unsent, Working, Storing, UnderWay
<1>7. ASSUME NEW t \in Turns, Reject(t) PROVE QueueInv'
  BY <1>7, QueueFrame DEF Reject, Flush, Unsent, Working, Storing, UnderWay
<1>8. ASSUME NEW t \in Turns, Prepare(t) PROVE QueueInv'
  BY <1>8, QueueFrame DEF Prepare, Unsent, Working, Storing, UnderWay
<1>9. ASSUME NEW t \in Turns, SubmissionFails(t) PROVE QueueInv'
  BY <1>9, QueueFrame DEF SubmissionFails, Flush, Unsent, Working, Storing, UnderWay
<1>10. ASSUME NEW t \in Turns, Work(t) PROVE QueueInv'
  <2>1. \A u \in Turns : pc'[u] = IF u = t THEN "worked" ELSE pc[u]
    BY <1>10 DEF Work, TypeOK
  <2> QED BY <1>10, <2>1, AppendReady DEF Work, Unsent
<1>11. ASSUME NEW t \in Turns, NEW how \in Verdicts, Return(t, how) PROVE QueueInv'
  <2>1. \A u \in Turns : pc'[u] = IF u = t THEN "returned" ELSE pc[u]
    BY <1>11 DEF Return, TypeOK
  <2>2. pc[t] \in {"thinking", "worked"}
    BY <1>11 DEF Return, Working
  <2> QED BY <1>11, <2>1, <2>2, AppendReady DEF Return, Verdicts, Unsent
<1>12. ASSUME Enqueue PROVE QueueInv'
  <2>1. /\ ready # <<>> /\ ready' = Tail(ready) /\ ready \in Seq(Items)
        /\ queue' = Append(queue, Head(ready).turn) /\ queue \in Seq(Turns)
        /\ pc' = pc
    BY <1>12 DEF Enqueue, TypeOK
  <2>2. \A i \in DOMAIN ready' : i + 1 \in DOMAIN ready /\ ready'[i] = ready[i + 1]
    BY <2>1
  <2>3. \A i, j \in DOMAIN ready' :
          i < j /\ ready'[i].turn = ready'[j].turn => ready'[i].item = "event"
    <3>1. ASSUME NEW i \in DOMAIN ready', NEW j \in DOMAIN ready', i < j,
                 ready'[i].turn = ready'[j].turn
          PROVE  ready'[i].item = "event"
      <4>1. i + 1 < j + 1
        BY <2>1, <3>1
      <4> QED BY <2>2, <3>1, <4>1 DEF QueueInv
    <3> QED BY <3>1
  <2>4. 1 \in DOMAIN ready /\ Head(ready) = ready[1] /\ Head(ready).turn \in Turns
    BY <2>1, ItemFields
  <2>5. pc[Head(ready).turn] \notin Unsent
    BY <2>4 DEF QueueInv, Unsent
  <2>6. \A i \in DOMAIN queue' :
          \/ i \in DOMAIN queue /\ queue'[i] = queue[i]
          \/ queue'[i] = Head(ready).turn
    BY <2>1, <2>4
  <2>7. \A i \in DOMAIN queue' : pc[queue'[i]] \notin Unsent
    BY <2>5, <2>6 DEF QueueInv
  <2> QED BY <2>1, <2>2, <2>3, <2>7 DEF QueueInv
<1>13. ASSUME Wake PROVE QueueInv'
  <2>1. /\ ready # <<>> /\ ready' = Tail(ready) /\ ready \in Seq(Items)
        /\ Head(ready).item # "event" /\ queue' = queue
    BY <1>13 DEF Wake, TypeOK, Verdicts
  <2>2. \A i \in DOMAIN ready' : i + 1 \in DOMAIN ready /\ ready'[i] = ready[i + 1]
    BY <2>1
  <2>3. 1 \in DOMAIN ready /\ Head(ready) = ready[1] /\ Head(ready).turn \in Turns
    BY <2>1, ItemFields
  <2> DEFINE t == Head(ready).turn
  <2>4. pc' = [pc EXCEPT ![t] = "flushing"]
    BY <1>13 DEF Wake, Flush
  <2>5. \A i \in DOMAIN ready' : ready'[i].turn # t
    <3>1. ASSUME NEW i \in DOMAIN ready', ready'[i].turn = t PROVE FALSE
      <4>1. 1 < i + 1
        BY <2>1, <3>1
      <4> QED BY <2>1, <2>2, <2>3, <3>1, <4>1 DEF QueueInv
    <3> QED BY <3>1
  <2>6. \A i, j \in DOMAIN ready' :
          i < j /\ ready'[i].turn = ready'[j].turn => ready'[i].item = "event"
    <3>1. ASSUME NEW i \in DOMAIN ready', NEW j \in DOMAIN ready', i < j,
                 ready'[i].turn = ready'[j].turn
          PROVE  ready'[i].item = "event"
      <4>1. i + 1 < j + 1
        BY <2>1, <3>1
      <4> QED BY <2>2, <3>1, <4>1 DEF QueueInv
    <3> QED BY <3>1
  <2>7. \A u \in Turns : pc'[u] = IF u = t THEN "flushing" ELSE pc[u]
    BY <2>3, <2>4 DEF TypeOK
  <2>8. \A i \in DOMAIN ready' : ready'[i].turn \in Turns
    BY <2>2, ItemFields
  <2>9. \A i \in DOMAIN queue : queue[i] \in Turns
    BY DEF TypeOK
  <2> HIDE DEF t
  <2>10. \A i \in DOMAIN ready' :
           /\ pc'[ready'[i].turn] \in {"worked", "returned"}
           /\ ready'[i].item # "event" => pc'[ready'[i].turn] = "returned"
    BY <2>2, <2>5, <2>7, <2>8 DEF QueueInv
  <2>11. \A i \in DOMAIN queue' : pc'[queue'[i]] \notin Unsent
    BY <2>1, <2>7, <2>9 DEF QueueInv, Unsent
  <2> QED BY <2>6, <2>10, <2>11 DEF QueueInv
<1>14. ASSUME Deliver PROVE QueueInv'
  <2>1. /\ queue # <<>> /\ queue' = Tail(queue) /\ queue \in Seq(Turns)
        /\ UNCHANGED <<pc, ready>>
    BY <1>14 DEF Deliver, TypeOK
  <2>2. \A i \in DOMAIN queue' : i + 1 \in DOMAIN queue /\ queue'[i] = queue[i + 1]
    BY <2>1
  <2> QED BY <2>1, <2>2 DEF QueueInv
<1>15. ASSUME NEW t \in Turns, Fail(t) PROVE QueueInv'
  BY <1>15, QueueFrame DEF Fail, Flushed, Fault, Answer, Unsent, Working, Storing, UnderWay
<1>16. ASSUME NEW t \in Turns, Discard(t) PROVE QueueInv'
  BY <1>16, QueueFrame DEF Discard, Flushed, Fault, Answer, Unsent, Working, Storing, UnderWay
<1>17. ASSUME NEW t \in Turns, Orphan(t) PROVE QueueInv'
  BY <1>17, QueueFrame DEF Orphan, Flushed, Fault, Answer, Unsent, Working, Storing, UnderWay
<1>18. ASSUME NEW t \in Turns, Proceed(t) PROVE QueueInv'
  BY <1>18, QueueFrame DEF Proceed, Flushed, Fault, Unsent, Working, Storing, UnderWay
<1>19. ASSUME NEW t \in Turns, Truncate(t) PROVE QueueInv'
  BY <1>19, QueueFrame DEF Truncate, Unsent, Working, Storing, UnderWay
<1>20. ASSUME NEW t \in Turns, Persist(t) PROVE QueueInv'
  BY <1>20, QueueFrame DEF Persist, Unsent, Working, Storing, UnderWay
<1>21. ASSUME NEW t \in Turns, AddUser(t) PROVE QueueInv'
  BY <1>21, QueueFrame DEF AddUser, Unsent, Working, Storing, UnderWay
<1>22. ASSUME NEW t \in Turns, AddAnswer(t) PROVE QueueInv'
  BY <1>22, QueueFrame DEF AddAnswer, Unsent, Working, Storing, UnderWay
<1>23. ASSUME NEW t \in Turns, Respond(t) PROVE QueueInv'
  BY <1>23, QueueFrame DEF Respond, Answer, Unsent, Working, Storing, UnderWay
<1>24. ASSUME NEW t \in Turns, StoreFails(t) PROVE QueueInv'
  BY <1>24, QueueFrame DEF StoreFails, Fault, Answer, Unsent, Working, Storing, UnderWay
<1>25. ASSUME NEW t \in Turns, Cleanup(t) PROVE QueueInv'
  BY <1>25, QueueFrame DEF Cleanup, Unsent, Working, Storing, UnderWay
<1>26. ASSUME Delete PROVE QueueInv'
  BY <1>26 DEF Delete, QueueInv
<1>27. ASSUME Restart PROVE QueueInv'
  BY <1>27 DEF Restart, QueueInv
<1>28. CASE UNCHANGED vars
  BY <1>28 DEF vars, QueueInv
<1> QED
  BY <1>1, <1>2, <1>3, <1>4, <1>5, <1>6, <1>7, <1>8, <1>9, <1>10, <1>11, <1>12, <1>13,
     <1>14, <1>15, <1>16, <1>17, <1>18, <1>19, <1>20, <1>21, <1>22, <1>23, <1>24,
     <1>25, <1>26, <1>27, <1>28
     DEF Next, Step

\* Types and callbacks are as they should be at all times.
LEMMA BaseInvariant == ASSUME ChatAssumption PROVE Spec => [](BaseInv /\ QueueInv)
<1>1. Init => BaseInv /\ QueueInv
  BY InitBase, InitQueue
<1>2. BaseInv /\ QueueInv /\ [Next]_vars => (BaseInv /\ QueueInv)'
  BY NextBase, NextQueue DEF BaseInv
<1> QED BY <1>1, <1>2, PTL DEF Spec

\* Cache, rows, queue and task of every turn keep their types; a context is
\* never given back that was not taken.
THEOREM TypeCorrect == ASSUME ChatAssumption PROVE Spec => []TypeOK
<1>1. BaseInv => TypeOK
  BY DEF BaseInv
<1> QED BY <1>1, BaseInvariant, PTL
\* The task that wakes is one whose call returned.
LEMMA WakesReturned ==
  ASSUME TypeOK, QueueInv, Wake
  PROVE  Head(ready).turn \in Turns /\ pc[Head(ready).turn] = "returned"
<1>1. ready # <<>> /\ ready \in Seq(Items)
  BY DEF Wake, TypeOK
<1>2. 1 \in DOMAIN ready /\ Head(ready) = ready[1]
  BY <1>1
<1> QED BY <1>2, ItemFields DEF Wake, QueueInv, Verdicts

-----------------------------------------------------------------------------
(* The entry of the session *)

\* The cleanup of an older task leaves the entry of a newer one alone.
LEMMA NextReaches == ASSUME TypeOK, QueueInv, StopReaches, [Next]_vars PROVE StopReaches'
<1> USE DEF StopReaches, Working, Storing, UnderWay, TypeOK, store, ends, inputs, events, hist
<1>1. ASSUME NEW t \in Turns, NEW r \in Turns \cup {NULL}, Accept(t, r) PROVE StopReaches'
  BY <1>1 DEF Accept, CreateTask, Arrives, Asks
<1>2. ASSUME NEW t \in Turns, Refuse(t) PROVE StopReaches'
  BY <1>2 DEF Refuse, Arrives
<1>3. ASSUME NEW t \in Turns, NEW r \in Turns \cup {NULL}, Wait(t, r) PROVE StopReaches'
  BY <1>3 DEF Wait, Arrives, Asks
<1>4. ASSUME NEW t \in Turns, Resume(t) PROVE StopReaches'
  BY <1>4 DEF Resume, CreateTask
<1>5. ASSUME Stop PROVE StopReaches'
  BY <1>5 DEF Stop
<1>6. ASSUME NEW t \in Turns, CancelEarly(t) PROVE StopReaches'
  BY <1>6 DEF CancelEarly, Answer
<1>7. ASSUME NEW t \in Turns, Reject(t) PROVE StopReaches'
  BY <1>7 DEF Reject, Flush
<1>8. ASSUME NEW t \in Turns, Prepare(t) PROVE StopReaches'
  BY <1>8 DEF Prepare
<1>9. ASSUME NEW t \in Turns, SubmissionFails(t) PROVE StopReaches'
  BY <1>9 DEF SubmissionFails, Flush
<1>10. ASSUME NEW t \in Turns, Work(t) PROVE StopReaches'
  BY <1>10 DEF Work
<1>11. ASSUME NEW t \in Turns, NEW how \in Verdicts, Return(t, how) PROVE StopReaches'
  BY <1>11 DEF Return
<1>12. ASSUME Enqueue PROVE StopReaches'
  BY <1>12 DEF Enqueue
<1>13. ASSUME Wake PROVE StopReaches'
  <2>1. Head(ready).turn \in Turns /\ pc[Head(ready).turn] = "returned"
    BY <1>13, WakesReturned
  <2> QED BY <1>13, <2>1 DEF Wake, Flush
<1>14. ASSUME Deliver PROVE StopReaches'
  BY <1>14 DEF Deliver
<1>15. ASSUME NEW t \in Turns, Fail(t) PROVE StopReaches'
  BY <1>15 DEF Fail, Flushed, Fault, Answer
<1>16. ASSUME NEW t \in Turns, Discard(t) PROVE StopReaches'
  BY <1>16 DEF Discard, Flushed, Fault, Answer
<1>17. ASSUME NEW t \in Turns, Orphan(t) PROVE StopReaches'
  BY <1>17 DEF Orphan, Flushed, Fault, Answer
<1>18. ASSUME NEW t \in Turns, Proceed(t) PROVE StopReaches'
  BY <1>18 DEF Proceed, Flushed, Fault
<1>19. ASSUME NEW t \in Turns, Truncate(t) PROVE StopReaches'
  BY <1>19 DEF Truncate
<1>20. ASSUME NEW t \in Turns, Persist(t) PROVE StopReaches'
  BY <1>20 DEF Persist
<1>21. ASSUME NEW t \in Turns, AddUser(t) PROVE StopReaches'
  BY <1>21 DEF AddUser
<1>22. ASSUME NEW t \in Turns, AddAnswer(t) PROVE StopReaches'
  BY <1>22 DEF AddAnswer
<1>23. ASSUME NEW t \in Turns, Respond(t) PROVE StopReaches'
  BY <1>23 DEF Respond, Answer
<1>24. ASSUME NEW t \in Turns, StoreFails(t) PROVE StopReaches'
  BY <1>24 DEF StoreFails, Fault, Answer
<1>25. ASSUME NEW t \in Turns, Cleanup(t) PROVE StopReaches'
  BY <1>25 DEF Cleanup
<1>26. ASSUME Delete PROVE StopReaches'
  BY <1>26 DEF Delete, Fault
<1>27. ASSUME Restart PROVE StopReaches'
  BY <1>27 DEF Restart, Fault
<1>28. CASE UNCHANGED vars
  BY <1>28 DEF vars
<1> HIDE DEF StopReaches, Working, Storing, UnderWay, TypeOK, store, ends, inputs, events, hist
<1> QED
  BY <1>1, <1>2, <1>3, <1>4, <1>5, <1>6, <1>7, <1>8, <1>9, <1>10, <1>11, <1>12, <1>13,
     <1>14, <1>15, <1>16, <1>17, <1>18, <1>19, <1>20, <1>21, <1>22, <1>23, <1>24,
     <1>25, <1>26, <1>27, <1>28
     DEF Next, Step

\* While turns do not overlap, a stop reaches the turn that is under way.
THEOREM StopReachesTurn == ASSUME ChatAssumption PROVE Spec => []StopReaches
<1>1. Init => StopReaches
  BY DEF Init, StopReaches, Working, Storing, UnderWay
<1>2. BaseInv /\ QueueInv /\ StopReaches /\ [Next]_vars => StopReaches'
  BY NextReaches DEF BaseInv
<1> QED BY <1>1, <1>2, BaseInvariant, PTL DEF Spec

-----------------------------------------------------------------------------
(* What is stored *)

\* A turn is not stopped between its last check and its writes.
SavingInv == \A t \in Turns : pc[t] \in Storing => t \notin stopped

\* Between the last check of a turn and its writes no message is received.
LEMMA NextSaving == ASSUME TypeOK, QueueInv, SavingInv, [Next]_vars PROVE SavingInv'
<1> USE DEF SavingInv, Storing, TypeOK, store, ends, inputs, events, hist
<1>1. ASSUME NEW t \in Turns, NEW r \in Turns \cup {NULL}, Accept(t, r) PROVE SavingInv'
  BY <1>1 DEF Accept, CreateTask, Arrives, Asks
<1>2. ASSUME NEW t \in Turns, Refuse(t) PROVE SavingInv'
  BY <1>2 DEF Refuse, Arrives
<1>3. ASSUME NEW t \in Turns, NEW r \in Turns \cup {NULL}, Wait(t, r) PROVE SavingInv'
  BY <1>3 DEF Wait, Arrives, Asks
<1>4. ASSUME NEW t \in Turns, Resume(t) PROVE SavingInv'
  BY <1>4 DEF Resume, CreateTask
<1>5. ASSUME LoopFree, Stop PROVE SavingInv'
  BY <1>5 DEF Stop, LoopFree
<1>6. ASSUME NEW t \in Turns, CancelEarly(t) PROVE SavingInv'
  BY <1>6 DEF CancelEarly, Answer
<1>7. ASSUME NEW t \in Turns, Reject(t) PROVE SavingInv'
  BY <1>7 DEF Reject, Flush
<1>8. ASSUME NEW t \in Turns, Prepare(t) PROVE SavingInv'
  BY <1>8 DEF Prepare
<1>9. ASSUME NEW t \in Turns, SubmissionFails(t) PROVE SavingInv'
  BY <1>9 DEF SubmissionFails, Flush
<1>10. ASSUME NEW t \in Turns, Work(t) PROVE SavingInv'
  BY <1>10 DEF Work
<1>11. ASSUME NEW t \in Turns, NEW how \in Verdicts, Return(t, how) PROVE SavingInv'
  BY <1>11 DEF Return
<1>12. ASSUME Enqueue PROVE SavingInv'
  BY <1>12 DEF Enqueue
<1>13. ASSUME Wake PROVE SavingInv'
  <2>1. Head(ready).turn \in Turns /\ pc[Head(ready).turn] = "returned"
    BY <1>13, WakesReturned
  <2> QED BY <1>13, <2>1 DEF Wake, Flush
<1>14. ASSUME Deliver PROVE SavingInv'
  BY <1>14 DEF Deliver
<1>15. ASSUME NEW t \in Turns, Fail(t) PROVE SavingInv'
  BY <1>15 DEF Fail, Flushed, Fault, Answer
<1>16. ASSUME NEW t \in Turns, Discard(t) PROVE SavingInv'
  BY <1>16 DEF Discard, Flushed, Fault, Answer
<1>17. ASSUME NEW t \in Turns, Orphan(t) PROVE SavingInv'
  BY <1>17 DEF Orphan, Flushed, Fault, Answer
<1>18. ASSUME NEW t \in Turns, Proceed(t) PROVE SavingInv'
  BY <1>18 DEF Proceed, Discarded
<1>19. ASSUME NEW t \in Turns, Truncate(t) PROVE SavingInv'
  BY <1>19 DEF Truncate, Storing
<1>20. ASSUME NEW t \in Turns, Persist(t) PROVE SavingInv'
  BY <1>20 DEF Persist, Storing
<1>21. ASSUME NEW t \in Turns, AddUser(t) PROVE SavingInv'
  BY <1>21 DEF AddUser, Storing
<1>22. ASSUME NEW t \in Turns, AddAnswer(t) PROVE SavingInv'
  BY <1>22 DEF AddAnswer, Storing
<1>23. ASSUME NEW t \in Turns, Respond(t) PROVE SavingInv'
  BY <1>23 DEF Respond, Answer
<1>24. ASSUME NEW t \in Turns, StoreFails(t) PROVE SavingInv'
  BY <1>24 DEF StoreFails, Fault, Answer
<1>25. ASSUME NEW t \in Turns, Cleanup(t) PROVE SavingInv'
  BY <1>25 DEF Cleanup
<1>26. ASSUME Delete PROVE SavingInv'
  BY <1>26 DEF Delete, Fault
<1>27. ASSUME Restart PROVE SavingInv'
  BY <1>27 DEF Restart, Fault
<1>28. CASE UNCHANGED vars
  BY <1>28 DEF vars
<1> HIDE DEF SavingInv, Storing, TypeOK, store, ends, inputs, events, hist
<1> QED
  BY <1>1, <1>2, <1>3, <1>4, <1>5, <1>6, <1>7, <1>8, <1>9, <1>10, <1>11, <1>12, <1>13,
     <1>14, <1>15, <1>16, <1>17, <1>18, <1>19, <1>20, <1>21, <1>22, <1>23, <1>24,
     <1>25, <1>26, <1>27, <1>28
     DEF Next, Step

\* An entry is added at the end.
LEMMA AppendOccurs ==
  ASSUME NEW s \in Seq(Turns), NEW u \in Turns, NEW t
  PROVE  Occurs(t, Append(s, u)) <=> Occurs(t, s) \/ t = u
<1>1. /\ Append(s, u) \in Seq(Turns) /\ Len(Append(s, u)) = Len(s) + 1
      /\ Append(s, u)[Len(s) + 1] = u
      /\ \A i \in 1..Len(s) : Append(s, u)[i] = s[i]
  OBVIOUS
<1>2. DOMAIN s = 1..Len(s) /\ DOMAIN Append(s, u) = 1..Len(s) + 1 /\ Len(s) \in Nat
  OBVIOUS
<1>3. ASSUME Occurs(t, Append(s, u)), t # u PROVE Occurs(t, s)
  BY <1>1, <1>2, <1>3 DEF Occurs
<1>4. ASSUME Occurs(t, s) PROVE Occurs(t, Append(s, u))
  BY <1>1, <1>2, <1>4 DEF Occurs
<1>5. Occurs(u, Append(s, u))
  BY <1>1, <1>2 DEF Occurs
<1> QED BY <1>3, <1>4, <1>5

\* Only a turn that stores its message adds to what was ever stored.
LEMMA StoresOnly ==
  ASSUME Next, saved' # saved
  PROVE  \E u \in Turns : pc[u] = "persisted" /\ saved' = Append(saved, u)
<1> DEFINE Stores == \E u \in Turns : pc[u] = "persisted" /\ saved' = Append(saved, u)
<1>1. ASSUME NEW t \in Turns, Step(t) PROVE Stores
  BY <1>1 DEF Step, store, Truncate, Persist, AddUser, AddAnswer, Resume, CreateTask,
              CancelEarly, Reject, Prepare, Fail, Discard, Orphan, Proceed, Respond, Cleanup
<1>2. ASSUME NEW t \in Turns, NEW r \in Turns \cup {NULL}, Accept(t, r) \/ Wait(t, r)
      PROVE  Stores
  BY <1>2 DEF store, Accept, CreateTask, Wait
<1>3. ASSUME NEW t \in Turns, Refuse(t) \/ SubmissionFails(t) \/ Work(t) PROVE Stores
  BY <1>3 DEF store, Refuse, SubmissionFails, Work
<1>4. ASSUME NEW t \in Turns, NEW how \in Verdicts, Return(t, how) PROVE Stores
  BY <1>4 DEF store, Return
<1>5. ASSUME NEW t \in Turns, StoreFails(t) PROVE Stores
  BY <1>5 DEF StoreFails, store
<1>6. ASSUME Stop \/ Enqueue \/ Wake \/ Deliver \/ Restart \/ Delete PROVE Stores
  BY <1>6 DEF store, Stop, Enqueue, Wake, Deliver, Restart, Delete
<1> HIDE DEF Stores
<1>7. Stores
  BY <1>1, <1>2, <1>3, <1>5, <1>6, <1>4 DEF Next
<1> QED BY <1>7 DEF Stores

\* A stop that arrives before the writes of a turn keeps it out of the store,
\* whatever step comes next.
THEOREM StoppedNotStored == ASSUME ChatAssumption PROVE Spec => StopDiscards
<1>1. Init => SavingInv
  BY DEF Init, SavingInv
<1>2. BaseInv /\ QueueInv /\ SavingInv /\ [Next]_vars => SavingInv'
  BY NextSaving DEF BaseInv
<1>3. BaseInv /\ QueueInv /\ SavingInv /\ [Next]_vars =>
        [\A t \in Turns : t \in stopped /\ ~Occurs(t, saved) => ~Occurs(t, saved')]_vars
  <2> SUFFICES ASSUME BaseInv, SavingInv, Next, NEW t \in Turns, t \in stopped,
                      ~Occurs(t, saved), saved' # saved
               PROVE  ~Occurs(t, saved')
    BY DEF vars, store
  <2>1. PICK u \in Turns : pc[u] = "persisted" /\ saved' = Append(saved, u)
    BY StoresOnly
  <2>2. u # t
    BY <2>1 DEF SavingInv, Storing
  <2> QED BY <2>1, <2>2, AppendOccurs DEF BaseInv, TypeOK
<1> QED BY <1>1, <1>2, <1>3, BaseInvariant, PTL DEF Spec, StopDiscards
-----------------------------------------------------------------------------
(* Events after the end of a turn *)

\* A turn that is answered is over; one that passed its flush has no event in
\* the queue, or the flush gave up.
StrayInv ==
  \A t \in Turns :
    /\ answer[t] # NULL => pc[t] \in {"done", "gone", "refused", "lost"}
    /\ answer[t] # NULL \/ pc[t] \in Storing \cup {"saved"} => t \in late \/ ~Occurs(t, queue)

\* Turns with an event in the queue have begun to work.
LEMMA QueueOccurs ==
  ASSUME TypeOK, QueueInv, NEW t \in Turns, Occurs(t, queue) PROVE pc[t] \notin Unsent
BY DEF QueueInv, Occurs

\* Sequences and their entries.
LEMMA EmptyOccurs == \A t : ~Occurs(t, <<>>)
BY DEF Occurs

LEMMA TailOccurs ==
  ASSUME NEW s \in Seq(Turns), s # <<>>, NEW t, Occurs(t, Tail(s)) PROVE Occurs(t, s)
<1>1. PICK i \in DOMAIN Tail(s) : Tail(s)[i] = t
  BY DEF Occurs
<1>2. i + 1 \in DOMAIN s /\ s[i + 1] = t
  BY <1>1
<1> QED BY <1>2 DEF Occurs

\* A turn ends after its flush, and sends no event after its end.
LEMMA NextStray ==
  ASSUME ChatAssumption, TypeOK, QueueInv, StrayInv, [Next]_vars PROVE StrayInv'
<1> USE DEF StrayInv, Storing, TypeOK, store, ends, inputs, events, hist
<1>1. ASSUME NEW t \in Turns, NEW r \in Turns \cup {NULL}, Accept(t, r) PROVE StrayInv'
  BY <1>1 DEF Accept, CreateTask, Arrives, Asks
<1>2. ASSUME NEW t \in Turns, Refuse(t) PROVE StrayInv'
  BY <1>2, QueueOccurs DEF Refuse, Arrives, Unsent
<1>3. ASSUME NEW t \in Turns, NEW r \in Turns \cup {NULL}, Wait(t, r) PROVE StrayInv'
  BY <1>3 DEF Wait, Arrives, Asks
<1>4. ASSUME NEW t \in Turns, Resume(t) PROVE StrayInv'
  BY <1>4 DEF Resume, CreateTask
<1>5. ASSUME Stop PROVE StrayInv'
  BY <1>5 DEF Stop
<1>6. ASSUME NEW t \in Turns, CancelEarly(t) PROVE StrayInv'
  BY <1>6, QueueOccurs DEF CancelEarly, Answer, Unsent
<1>7. ASSUME NEW t \in Turns, Reject(t) PROVE StrayInv'
  BY <1>7 DEF Reject, Flush
<1>8. ASSUME NEW t \in Turns, Prepare(t) PROVE StrayInv'
  BY <1>8 DEF Prepare
<1>9. ASSUME NEW t \in Turns, SubmissionFails(t) PROVE StrayInv'
  BY <1>9 DEF SubmissionFails, Flush
<1>10. ASSUME NEW t \in Turns, Work(t) PROVE StrayInv'
  BY <1>10 DEF Work
<1>11. ASSUME NEW t \in Turns, NEW how \in Verdicts, Return(t, how) PROVE StrayInv'
  BY <1>11 DEF Return, Working
<1>12. ASSUME Enqueue PROVE StrayInv'
  <2>1. /\ ready # <<>> /\ ready \in Seq(Items) /\ queue \in Seq(Turns)
        /\ queue' = Append(queue, Head(ready).turn) /\ UNCHANGED <<pc, answer, late>>
    BY <1>12 DEF Enqueue
  <2>2. 1 \in DOMAIN ready /\ Head(ready) = ready[1] /\ Head(ready).turn \in Turns
    BY <2>1, ItemFields
  <2>3. pc[Head(ready).turn] \in {"worked", "returned"}
    BY <2>2 DEF QueueInv
  <2>4. \A t : Occurs(t, queue') <=> Occurs(t, queue) \/ t = Head(ready).turn
    BY <2>1, <2>2, AppendOccurs
  <2> QED BY <2>1, <2>3, <2>4
<1>13. ASSUME Wake PROVE StrayInv'
  <2>1. Head(ready).turn \in Turns /\ pc[Head(ready).turn] = "returned"
    BY <1>13, WakesReturned
  <2> QED BY <1>13, <2>1 DEF Wake, Flush
<1>14. ASSUME Deliver PROVE StrayInv'
  <2>1. /\ queue # <<>> /\ queue' = Tail(queue) /\ queue \in Seq(Turns)
        /\ UNCHANGED <<pc, answer, late>>
    BY <1>14 DEF Deliver
  <2>2. \A t : Occurs(t, queue') => Occurs(t, queue)
    BY <2>1, TailOccurs
  <2> QED BY <2>1, <2>2
<1>15. ASSUME NEW t \in Turns, Fail(t) PROVE StrayInv'
  BY <1>15, EmptyOccurs DEF Fail, Flushed, Fault, Answer
<1>16. ASSUME NEW t \in Turns, Discard(t) PROVE StrayInv'
  BY <1>16, EmptyOccurs DEF Discard, Flushed, Fault, Answer
<1>17. ASSUME NEW t \in Turns, Orphan(t) PROVE StrayInv'
  BY <1>17, EmptyOccurs DEF Orphan, Flushed, Fault, Answer
<1>18. ASSUME NEW t \in Turns, Proceed(t) PROVE StrayInv'
  BY <1>18, EmptyOccurs DEF Proceed, Flushed, Fault
<1>19. ASSUME NEW t \in Turns, Truncate(t) PROVE StrayInv'
  BY <1>19 DEF Truncate, Storing
<1>20. ASSUME NEW t \in Turns, Persist(t) PROVE StrayInv'
  BY <1>20 DEF Persist, Storing
<1>21. ASSUME NEW t \in Turns, AddUser(t) PROVE StrayInv'
  BY <1>21 DEF AddUser, Storing
<1>22. ASSUME NEW t \in Turns, AddAnswer(t) PROVE StrayInv'
  BY <1>22 DEF AddAnswer, Storing
<1>23. ASSUME NEW t \in Turns, Respond(t) PROVE StrayInv'
  BY <1>23 DEF Respond, Answer
<1>24. ASSUME NEW t \in Turns, StoreFails(t) PROVE StrayInv'
  BY <1>24, QueueOccurs DEF StoreFails, Fault, Answer, Unsent
<1>25. ASSUME NEW t \in Turns, Cleanup(t) PROVE StrayInv'
  BY <1>25 DEF Cleanup
<1>26. ASSUME Delete PROVE StrayInv'
  BY <1>26 DEF Delete, Fault
<1>27. ASSUME Restart PROVE StrayInv'
  BY <1>27, EmptyOccurs DEF Restart, UnderWay, Working, Storing
<1>28. CASE UNCHANGED vars
  BY <1>28 DEF vars
<1> HIDE DEF StrayInv, Storing, TypeOK, store, ends, inputs, events, hist
<1> QED
  BY <1>1, <1>2, <1>3, <1>4, <1>5, <1>6, <1>7, <1>8, <1>9, <1>10, <1>11, <1>12, <1>13,
     <1>14, <1>15, <1>16, <1>17, <1>18, <1>19, <1>20, <1>21, <1>22, <1>23, <1>24,
     <1>25, <1>26, <1>27, <1>28
     DEF Next, Step

\* Flush, the order of the callbacks and the single consumer of the queue let no
\* event of a turn follow the message that ends it.
THEOREM NoStrayEvent == ASSUME ChatAssumption PROVE Spec => []NoStray
<1>1. Init => StrayInv
  BY EmptyOccurs DEF Init, StrayInv
<1>2. BaseInv /\ QueueInv /\ StrayInv /\ [Next]_vars => StrayInv'
  BY NextStray DEF BaseInv
<1>3. QueueInv /\ StrayInv => NoStray
  BY DEF QueueInv, StrayInv, NoStray
<1> QED BY <1>1, <1>2, <1>3, BaseInvariant, PTL DEF Spec

-----------------------------------------------------------------------------
(* Rows and contexts *)

\* A turn is in the store from the write of its message on, and its answer from the
\* write of that on; the transcript has nothing else.  A turn is answered when it is
\* over: a response says it is stored, the rest that it is not.  A turn whose writes
\* were cut short is over, and its client knows of no answer.
SavedInv ==
  /\ \A t \in Turns : Occurs(t, saved) => pc[t] \in {"asked", "saved", "done", "gone", "lost"}
  /\ \A t \in Turns : pc[t] \in {"asked", "saved"} => Occurs(t, saved)
  /\ \A t \in Turns : pc[t] = "saved" => t \in replied
  /\ \A t \in Turns : Occurs(t, saved) => t \in replied \cup torn \/ pc[t] = "asked"
  /\ \A t \in Turns : Occurs(t, transcript) => Occurs(t, saved)
  /\ \A t \in Turns : answer[t] # NULL => pc[t] \in {"done", "gone", "lost", "refused"}
  /\ \A t \in Turns : answer[t] = "response" => Occurs(t, saved) /\ t \in replied
  /\ \A t \in Turns : t \in torn =>
       pc[t] \in {"done", "gone", "lost"} /\ (answer[t] = NULL \/ (answer[t] = "error" /\ failed))
  /\ \A t \in Turns : Dropped(t) => ~Occurs(t, saved)

\* The context of the session may hold turn t though its message is not stored.
Carried(t) ==
  \/ pc[t] \in {"worked", "returned", "saving", "cut", "persisted"}
  \/ pc[t] = "flushing" /\ verdict[t] # "error"
  \/ t \in torn

\* Contexts hold what was stored, the turn that is under way, and what is left of
\* turns that were cut short.
ContextInv ==
  exists /\ ~piled /\ ~failed =>
    /\ \A t \in Turns : Occurs(t, raw) => Occurs(t, saved) \/ t \in torn \/ pc[t] = "persisted"
    /\ memory # NULL =>
         \A t \in Turns : Occurs(t, memory) => Occurs(t, saved) \/ Carried(t)
    /\ \A t, u \in Turns : backup[t] # NULL /\ Occurs(u, backup[t]) =>
         Occurs(u, saved) \/ u \in torn

LEMMA PrefixOccurs ==
  ASSUME NEW s \in Seq(Turns), NEW n \in 0..Len(s), NEW t, Occurs(t, SubSeq(s, 1, n))
  PROVE  Occurs(t, s)
<1>1. PICK i \in DOMAIN SubSeq(s, 1, n) : SubSeq(s, 1, n)[i] = t
  BY DEF Occurs
<1>2. i \in DOMAIN s /\ s[i] = t
  BY <1>1
<1> QED BY <1>2 DEF Occurs

\* truncate_turns_from and truncate_history_by_user_turns only take away.
LEMMA TruncatedOccurs ==
  ASSUME TypeOK, NEW t \in Turns, NEW u, Occurs(u, Truncated(t)) PROVE Occurs(u, transcript)
<1>1. Cardinality(Kept(target[t])) \in 0..Len(transcript)
  BY KeptCount DEF TypeOK
<1> QED BY <1>1, PrefixOccurs DEF TypeOK, Truncated

LEMMA DropLastOccurs ==
  ASSUME NEW s \in Seq(Turns), NEW n \in Nat, NEW t, Occurs(t, DropLast(s, n))
  PROVE  Occurs(t, s)
<1>1. CASE n > Len(s)
  BY <1>1, EmptyOccurs DEF DropLast
<1>2. CASE ~(n > Len(s))
  <2>1. Len(s) - n \in 0..Len(s)
    BY <1>2
  <2> QED BY <1>2, <2>1, PrefixOccurs DEF DropLast
<1> QED BY <1>1, <1>2

\* Only what is saved is in the transcript, and no stopped turn is.
LEMMA NextSaved ==
  ASSUME ChatAssumption, TypeOK, QueueInv, SavedInv, [Next]_vars
  PROVE  SavedInv'
<1> USE DEF ChatAssumption, SavedInv, Dropped, Storing, Begun, TypeOK, store, ends, inputs,
            events, hist
<1>1. ASSUME NEW t \in Turns, NEW r \in Turns \cup {NULL}, Accept(t, r) PROVE SavedInv'
  BY <1>1 DEF Accept, CreateTask, Arrives, Asks
<1>2. ASSUME NEW t \in Turns, Refuse(t) PROVE SavedInv'
  BY <1>2, SMTT(60) DEF Refuse, Arrives
<1>3. ASSUME NEW t \in Turns, NEW r \in Turns \cup {NULL}, Wait(t, r) PROVE SavedInv'
  BY <1>3 DEF Wait, Arrives, Asks
<1>4. ASSUME NEW t \in Turns, Resume(t) PROVE SavedInv'
  BY <1>4 DEF Resume, CreateTask
<1>5. ASSUME Stop PROVE SavedInv'
  BY <1>5 DEF Stop
<1>6. ASSUME NEW t \in Turns, CancelEarly(t) PROVE SavedInv'
  BY <1>6, SMTT(60) DEF CancelEarly, Answer
<1>7. ASSUME NEW t \in Turns, Reject(t) PROVE SavedInv'
  BY <1>7 DEF Reject, Flush
<1>8. ASSUME NEW t \in Turns, Prepare(t) PROVE SavedInv'
  BY <1>8 DEF Prepare
<1>9. ASSUME NEW t \in Turns, SubmissionFails(t) PROVE SavedInv'
  BY <1>9 DEF SubmissionFails, Flush
<1>10. ASSUME NEW t \in Turns, Work(t) PROVE SavedInv'
  BY <1>10 DEF Work
<1>11. ASSUME NEW t \in Turns, NEW how \in Verdicts, Return(t, how) PROVE SavedInv'
  BY <1>11 DEF Return, Working
<1>12. ASSUME Enqueue PROVE SavedInv'
  BY <1>12 DEF Enqueue
<1>13. ASSUME Wake PROVE SavedInv'
  <2>1. Head(ready).turn \in Turns /\ pc[Head(ready).turn] = "returned"
    BY <1>13, WakesReturned
  <2> QED BY <1>13, <2>1 DEF Wake, Flush
<1>14. ASSUME Deliver PROVE SavedInv'
  BY <1>14 DEF Deliver
<1>15. ASSUME NEW t \in Turns, Fail(t) PROVE SavedInv'
  BY <1>15, SMTT(60) DEF Fail, Flushed, Fault, Answer
<1>16. ASSUME NEW t \in Turns, Discard(t) PROVE SavedInv'
  BY <1>16, SMTT(60) DEF Discard, Flushed, Fault, Answer
<1>17. ASSUME NEW t \in Turns, Orphan(t) PROVE SavedInv'
  BY <1>17, SMTT(60) DEF Orphan, Flushed, Fault, Answer
<1>18. ASSUME NEW t \in Turns, Proceed(t) PROVE SavedInv'
  BY <1>18 DEF Proceed, Flushed, Fault
<1>19. ASSUME NEW t \in Turns, Truncate(t) PROVE SavedInv'
  <2>1. \A u : Occurs(u, transcript') => Occurs(u, transcript)
    BY <1>19, TruncatedOccurs DEF Truncate
  <2> QED BY <1>19, <2>1 DEF Truncate
<1>20. ASSUME NEW t \in Turns, Persist(t) PROVE SavedInv'
  BY <1>20 DEF Persist
<1>21. ASSUME NEW t \in Turns, AddUser(t) PROVE SavedInv'
  <2>1. \A u : Occurs(u, saved') <=> Occurs(u, saved) \/ u = t
    BY <1>21, AppendOccurs DEF AddUser
  <2>2. \A u : Occurs(u, transcript') <=> Occurs(u, transcript) \/ u = t
    BY <1>21, AppendOccurs DEF AddUser
  <2>3. answer' = answer /\ answer[t] = NULL /\ failed' = failed
    BY <1>21 DEF AddUser
  <2>4. \A u \in Turns : Dropped(u)' => u # t /\ Dropped(u)
    BY <2>3 DEF Verdicts
  <2> QED BY <1>21, <2>1, <2>2, <2>3, <2>4 DEF AddUser
<1>22. ASSUME NEW t \in Turns, AddAnswer(t) PROVE SavedInv'
  BY <1>22 DEF AddAnswer
<1>23. ASSUME NEW t \in Turns, Respond(t) PROVE SavedInv'
  BY <1>23, SMTT(60) DEF Respond, Answer
<1>24. ASSUME NEW t \in Turns, StoreFails(t) PROVE SavedInv'
  BY <1>24 DEF StoreFails, Answer
<1>25. ASSUME NEW t \in Turns, Cleanup(t) PROVE SavedInv'
  BY <1>25 DEF Cleanup
<1>26. ASSUME Delete PROVE SavedInv'
  BY <1>26, EmptyOccurs DEF Delete
<1>27. ASSUME Restart PROVE SavedInv'
  BY <1>27 DEF Restart, UnderWay, Working, Storing
<1>28. CASE UNCHANGED vars
  BY <1>28 DEF vars
<1> HIDE DEF ChatAssumption, SavedInv, Dropped, Storing, Begun, TypeOK, store, ends, inputs,
             events, hist
<1> QED
  BY <1>1, <1>2, <1>3, <1>4, <1>5, <1>6, <1>7, <1>8, <1>9, <1>10, <1>11, <1>12, <1>13,
     <1>14, <1>15, <1>16, <1>17, <1>18, <1>19, <1>20, <1>21, <1>22, <1>23, <1>24,
     <1>25, <1>26, <1>27, <1>28
     DEF Next, Step
\* Only the turn in the entry may be carried, and it is not when it begins.
LEMMA NoneCarried ==
  ASSUME StopReaches, ~piled, NEW t \in Turns, pc[t] = "created", NEW u \in Turns
  PROVE  Carried(u) => u \in torn
BY DEF StopReaches, Carried, UnderWay, Working, Storing

LEMMA NonePersisted ==
  ASSUME StopReaches, ~piled, NEW t \in Turns, pc[t] = "created", NEW u \in Turns
  PROVE  pc[u] # "persisted"
BY DEF StopReaches, UnderWay, Storing

\* Stops and errors give the context back as it was taken.
LEMMA NextContext ==
  ASSUME ChatAssumption, BaseInv, QueueInv, StopReaches, SavedInv, ContextInv, [Next]_vars
  PROVE  ContextInv'
<1> USE DEF ContextInv, Carried, BaseInv, TypeOK, store, ends, inputs, events, hist
<1>1. ASSUME NEW t \in Turns, NEW r \in Turns \cup {NULL}, Accept(t, r) PROVE ContextInv'
  BY <1>1 DEF Accept, CreateTask, Arrives, Asks
<1>2. ASSUME NEW t \in Turns, Refuse(t) PROVE ContextInv'
  BY <1>2 DEF Refuse, Arrives
<1>3. ASSUME NEW t \in Turns, NEW r \in Turns \cup {NULL}, Wait(t, r) PROVE ContextInv'
  BY <1>3 DEF Wait, Arrives, Asks
<1>4. ASSUME NEW t \in Turns, Resume(t) PROVE ContextInv'
  BY <1>4 DEF Resume, CreateTask
<1>5. ASSUME Stop PROVE ContextInv'
  BY <1>5 DEF Stop
<1>6. ASSUME NEW t \in Turns, CancelEarly(t) PROVE ContextInv'
  BY <1>6 DEF CancelEarly, Answer
<1>7. ASSUME NEW t \in Turns, Reject(t) PROVE ContextInv'
  <2>1. Loaded \in Seq(Turns) /\ Loaded # NULL
    BY LoadedType, ChatAssumption DEF ChatAssumption
  <2>2. exists /\ ~piled /\ ~failed =>
          \A u \in Turns : Occurs(u, Loaded) => Occurs(u, saved) \/ u \in torn
    BY <1>7, NoneCarried, NonePersisted DEF Reject, Loaded
  <2> QED BY <1>7, <2>1, <2>2 DEF Reject, Flush
<1>8. ASSUME NEW t \in Turns, Prepare(t) PROVE ContextInv'
  <2>1. Loaded \in Seq(Turns) /\ Loaded # NULL
    BY LoadedType, ChatAssumption DEF ChatAssumption
  <2>2. exists /\ ~piled /\ ~failed =>
          \A u \in Turns : Occurs(u, Loaded) => Occurs(u, saved) \/ u \in torn
    BY <1>8, NoneCarried, NonePersisted DEF Prepare, Loaded
  <2>3. \A u \in Turns : Occurs(u, memory') => Occurs(u, Loaded)
    BY <1>8, <2>1, CountType, DropLastOccurs DEF Prepare
  <2> QED BY <1>8, <2>1, <2>2, <2>3 DEF Prepare
<1>9. ASSUME NEW t \in Turns, SubmissionFails(t) PROVE ContextInv'
  <2>1. backup[t] # NULL
    BY <1>9 DEF SubmissionFails, Writing, Working
  <2> QED BY <1>9, <2>1 DEF SubmissionFails, Flush
<1>10. ASSUME NEW t \in Turns, Work(t) PROVE ContextInv'
  <2>1. memory # NULL
    BY <1>10 DEF Work, Writing, Working
  <2>2. \A u : Occurs(u, memory') <=> Occurs(u, memory) \/ u = t
    BY <1>10, <2>1, AppendOccurs DEF Work
  <2> QED BY <1>10, <2>1, <2>2 DEF Work
<1>11. ASSUME NEW t \in Turns, NEW how \in Verdicts, Return(t, how) PROVE ContextInv'
  BY <1>11 DEF Return, Working
<1>12. ASSUME Enqueue PROVE ContextInv'
  BY <1>12 DEF Enqueue
<1>13. ASSUME Wake PROVE ContextInv'
  <2>1. Head(ready).turn \in Turns /\ pc[Head(ready).turn] = "returned"
    BY <1>13, WakesReturned
  <2>2. backup[Head(ready).turn] # NULL
    BY <2>1 DEF Writing, Working
  <2> QED BY <1>13, <2>1, <2>2 DEF Wake, Flush
<1>14. ASSUME Deliver PROVE ContextInv'
  BY <1>14 DEF Deliver
<1>15. ASSUME NEW t \in Turns, Fail(t) PROVE ContextInv'
  BY <1>15 DEF Fail, Answer, Flushed
<1>16. ASSUME NEW t \in Turns, Discard(t) PROVE ContextInv'
  <2>1. backup[t] # NULL
    BY <1>16 DEF Discard, Flushed, Writing
  <2> QED BY <1>16, <2>1 DEF Discard, Answer, Flushed
<1>17. ASSUME NEW t \in Turns, Orphan(t) PROVE ContextInv'
  BY <1>17 DEF Orphan
<1>18. ASSUME NEW t \in Turns, Proceed(t) PROVE ContextInv'
  BY <1>18 DEF Proceed, Flushed
<1>19. ASSUME NEW t \in Turns, Truncate(t) PROVE ContextInv'
  BY <1>19 DEF Truncate
<1>20. ASSUME NEW t \in Turns, Persist(t) PROVE ContextInv'
  <2>1. pc[t] \in {"saving", "cut"} /\ memory # NULL
    BY <1>20 DEF Persist, Writing, Storing
  <2>2. exists /\ ~piled => \A u \in Turns : Carried(u) => u = t \/ u \in torn
    BY <2>1 DEF StopReaches, UnderWay, Working, Storing
  <2> QED BY <1>20, <2>1, <2>2 DEF Persist
<1>21. ASSUME NEW t \in Turns, AddUser(t) PROVE ContextInv'
  <2>1. \A u : Occurs(u, saved') <=> Occurs(u, saved) \/ u = t
    BY <1>21, AppendOccurs DEF AddUser
  <2> QED BY <1>21, <2>1 DEF AddUser
<1>22. ASSUME NEW t \in Turns, AddAnswer(t) PROVE ContextInv'
  BY <1>22 DEF AddAnswer
<1>23. ASSUME NEW t \in Turns, Respond(t) PROVE ContextInv'
  BY <1>23 DEF Respond, Answer
<1>24. ASSUME NEW t \in Turns, StoreFails(t) PROVE ContextInv'
  BY <1>24 DEF StoreFails
<1>25. ASSUME NEW t \in Turns, Cleanup(t) PROVE ContextInv'
  BY <1>25 DEF Cleanup
<1>26. ASSUME Delete PROVE ContextInv'
  BY <1>26 DEF Delete
<1>27. ASSUME Restart PROVE ContextInv'
  BY <1>27 DEF Restart, Begun, Storing
<1>28. CASE UNCHANGED vars
  BY <1>28 DEF vars
<1> HIDE DEF ContextInv, Carried, BaseInv, TypeOK, store, ends, inputs, events, hist
<1> QED
  BY <1>1, <1>2, <1>3, <1>4, <1>5, <1>6, <1>7, <1>8, <1>9, <1>10, <1>11, <1>12, <1>13,
     <1>14, <1>15, <1>16, <1>17, <1>18, <1>19, <1>20, <1>21, <1>22, <1>23, <1>24,
     <1>25, <1>26, <1>27, <1>28
     DEF Next, Step

\* The client is told the truth about every turn: a response is stored, and a
\* turn that was refused, stopped or failed is not, nor is it in the contexts
\* unless turns overlapped or a transaction failed (_process_turn).
THEOREM AnswersAreTrue == ASSUME ChatAssumption PROVE Spec => []AnswersTrue
<1>1. Init => SavedInv /\ ContextInv
  <2>1. ASSUME Init PROVE SavedInv
    BY <2>1, EmptyOccurs, ChatAssumption DEF Init, SavedInv, Dropped, ChatAssumption, Verdicts
  <2>2. ASSUME Init PROVE ContextInv
    BY <2>2, EmptyOccurs DEF Init, ContextInv
  <2> QED BY <2>1, <2>2
<1>2. BaseInv /\ QueueInv /\ StopReaches /\ SavedInv /\ ContextInv /\ [Next]_vars
        => SavedInv' /\ ContextInv'
  BY NextSaved, NextContext DEF BaseInv
<1>3. SavedInv /\ ContextInv => AnswersTrue
  <2> SUFFICES ASSUME SavedInv, ContextInv, NEW t \in Turns
               PROVE  /\ answer[t] = "response" => Occurs(t, saved) /\ t \in replied
                      /\ Dropped(t) => ~Occurs(t, saved) /\ ~Occurs(t, transcript)
                      /\ Dropped(t) /\ exists /\ ~piled /\ ~failed
                           => ~Occurs(t, Loaded) /\ ~Occurs(t, raw)
    BY DEF AnswersTrue
  <2>1. Dropped(t) => /\ ~Occurs(t, saved) /\ ~Occurs(t, transcript) /\ t \notin torn
                      /\ pc[t] \in {"done", "gone", "lost", "refused"}
    BY ChatAssumption DEF ChatAssumption, Verdicts, SavedInv, Dropped
  <2> QED BY <2>1 DEF SavedInv, ContextInv, Loaded, Carried
<1> QED BY <1>1, <1>2, <1>3, BaseInvariant, StopReachesTurn, PTL DEF Spec

-----------------------------------------------------------------------------
(* What is replaced *)

\* Only messages that arrive ask for something.
LEMMA AsksOnly ==
  ASSUME [Next]_vars, target' # target
  PROVE  \E t \in Turns, r \in Turns \cup {NULL} : Accept(t, r) \/ Wait(t, r)
<1> DEFINE Goal == \/ target' = target
                   \/ \E t \in Turns, r \in Turns \cup {NULL} : Accept(t, r) \/ Wait(t, r)
<1>1. ASSUME NEW t \in Turns, Step(t) PROVE Goal
  BY <1>1 DEF Step, inputs, Truncate, Persist, AddUser, AddAnswer, Resume, CreateTask,
              CancelEarly, Reject, Prepare, Fail, Discard, Orphan, Proceed, Respond, Cleanup
<1>2. ASSUME NEW t \in Turns, NEW r \in Turns \cup {NULL}, Accept(t, r) \/ Wait(t, r)
      PROVE  Goal
  BY <1>2
<1>3. ASSUME NEW t \in Turns, Refuse(t) \/ SubmissionFails(t) \/ Work(t) \/ StoreFails(t)
      PROVE  Goal
  BY <1>3 DEF inputs, Refuse, SubmissionFails, Work, StoreFails
<1>4. ASSUME NEW t \in Turns, NEW how \in Verdicts, Return(t, how) PROVE Goal
  BY <1>4 DEF inputs, Return
<1>5. ASSUME Stop \/ Enqueue \/ Wake \/ Deliver \/ Restart \/ Delete PROVE Goal
  BY <1>5 DEF inputs, Stop, Enqueue, Wake, Deliver, Restart, Delete
<1>6. ASSUME UNCHANGED vars PROVE Goal
  BY <1>6 DEF vars, inputs
<1> HIDE DEF Goal
<1>7. Goal
  BY <1>1, <1>2, <1>3, <1>4, <1>5, <1>6 DEF Next
<1> QED BY <1>7 DEF Goal

LEMMA TargetStays ==
  ASSUME TypeOK, [Next]_vars, NEW u \in Turns, pc[u] # "idle"
  PROVE  target'[u] = target[u]
BY AsksOnly DEF TypeOK, Accept, Wait, Arrives, Asks

\* A session once deleted stays so; a failure is not forgotten.
LEMMA FlagsStay ==
  ASSUME [Next]_vars
  PROVE  (exists' => exists) /\ (~failed' => ~failed)
<1> DEFINE Goal == (exists' => exists) /\ (~failed' => ~failed)
<1>1. ASSUME NEW t \in Turns, Step(t) PROVE Goal
  BY <1>1 DEF Step, store, ends, hist, Truncate, Persist, AddUser, AddAnswer, Resume,
              CreateTask, CancelEarly, Reject, Prepare, Fail, Discard, Orphan, Proceed,
              Respond, Cleanup
<1>2. ASSUME NEW t \in Turns, NEW r \in Turns \cup {NULL}, Accept(t, r) \/ Wait(t, r)
      PROVE  Goal
  BY <1>2 DEF store, ends, hist, Accept, CreateTask, Wait
<1>3. ASSUME NEW t \in Turns, Refuse(t) \/ SubmissionFails(t) \/ Work(t) \/ StoreFails(t)
      PROVE  Goal
  BY <1>3 DEF store, ends, hist, Refuse, SubmissionFails, Work, StoreFails
<1>4. ASSUME NEW t \in Turns, NEW how \in Verdicts, Return(t, how) PROVE Goal
  BY <1>4 DEF store, ends, hist, Return
<1>5. ASSUME Stop \/ Enqueue \/ Wake \/ Deliver \/ Restart \/ Delete PROVE Goal
  BY <1>5 DEF store, ends, hist, Stop, Enqueue, Wake, Deliver, Restart, Delete
<1>6. ASSUME UNCHANGED vars PROVE Goal
  BY <1>6 DEF vars, store, ends, hist
<1> HIDE DEF Goal
<1>7. Goal
  BY <1>1, <1>2, <1>3, <1>4, <1>5, <1>6 DEF Next
<1> QED BY <1>7 DEF Goal

\* Turns that overlapped are not forgotten.
LEMMA PiledStays ==
  ASSUME [Next]_vars
  PROVE  ~piled' => ~piled
<1> DEFINE Goal == ~piled' => ~piled
<1>1. ASSUME NEW t \in Turns, Step(t) PROVE Goal
  BY <1>1 DEF Step, store, ends, hist, Truncate, Persist, AddUser, AddAnswer, Resume,
              CreateTask, CancelEarly, Reject, Prepare, Fail, Discard, Orphan, Proceed,
              Respond, Cleanup
<1>2. ASSUME NEW t \in Turns, NEW r \in Turns \cup {NULL}, Accept(t, r) \/ Wait(t, r)
      PROVE  Goal
  BY <1>2 DEF store, ends, hist, Accept, CreateTask, Wait
<1>3. ASSUME NEW t \in Turns, Refuse(t) \/ SubmissionFails(t) \/ Work(t) \/ StoreFails(t)
      PROVE  Goal
  BY <1>3 DEF store, ends, hist, Refuse, SubmissionFails, Work, StoreFails
<1>4. ASSUME NEW t \in Turns, NEW how \in Verdicts, Return(t, how) PROVE Goal
  BY <1>4 DEF store, ends, hist, Return
<1>5. ASSUME Stop \/ Enqueue \/ Wake \/ Deliver \/ Restart \/ Delete PROVE Goal
  BY <1>5 DEF store, ends, hist, Stop, Enqueue, Wake, Deliver, Restart, Delete
<1>6. ASSUME UNCHANGED vars PROVE Goal
  BY <1>6 DEF vars, store, ends, hist
<1> HIDE DEF Goal
<1>7. Goal
  BY <1>1, <1>2, <1>3, <1>4, <1>5, <1>6 DEF Next
<1> QED BY <1>7 DEF Goal

\* Nor are turns that were cut short.
LEMMA TornStays ==
  ASSUME [Next]_vars
  PROVE  torn \subseteq torn'
<1> DEFINE Goal == torn \subseteq torn'
<1>1. ASSUME NEW t \in Turns, Step(t) PROVE Goal
  BY <1>1 DEF Step, store, ends, hist, Truncate, Persist, AddUser, AddAnswer, Resume,
              CreateTask, CancelEarly, Reject, Prepare, Fail, Discard, Orphan, Proceed,
              Respond, Cleanup
<1>2. ASSUME NEW t \in Turns, NEW r \in Turns \cup {NULL}, Accept(t, r) \/ Wait(t, r)
      PROVE  Goal
  BY <1>2 DEF store, ends, hist, Accept, CreateTask, Wait
<1>3. ASSUME NEW t \in Turns, Refuse(t) \/ SubmissionFails(t) \/ Work(t) \/ StoreFails(t)
      PROVE  Goal
  BY <1>3 DEF store, ends, hist, Refuse, SubmissionFails, Work, StoreFails
<1>4. ASSUME NEW t \in Turns, NEW how \in Verdicts, Return(t, how) PROVE Goal
  BY <1>4 DEF store, ends, hist, Return
<1>5. ASSUME Stop \/ Enqueue \/ Wake \/ Deliver \/ Restart \/ Delete PROVE Goal
  BY <1>5 DEF store, ends, hist, Stop, Enqueue, Wake, Deliver, Restart, Delete
<1>6. ASSUME UNCHANGED vars PROVE Goal
  BY <1>6 DEF vars, store, ends, hist
<1> HIDE DEF Goal
<1>7. Goal
  BY <1>1, <1>2, <1>3, <1>4, <1>5, <1>6 DEF Next
<1> QED BY <1>7 DEF Goal

\* Rows change when a turn cuts them or adds its message, or the session is deleted.
LEMMA RowsStep ==
  ASSUME [Next]_vars
  PROVE  \/ UNCHANGED <<transcript, saved>>
         \/ transcript' = <<>> /\ saved' = saved /\ ~exists'
         \/ \E t \in Turns : Truncate(t) \/ AddUser(t)
<1> DEFINE Goal == \/ UNCHANGED <<transcript, saved>>
                   \/ transcript' = <<>> /\ saved' = saved /\ ~exists'
                   \/ \E t \in Turns : Truncate(t) \/ AddUser(t)
<1>1. ASSUME NEW t \in Turns, Step(t) PROVE Goal
  BY <1>1 DEF Step, store, Persist, AddAnswer, Resume, CreateTask, CancelEarly, Reject,
              Prepare, Fail, Discard, Orphan, Proceed, Respond, Cleanup
<1>2. ASSUME NEW t \in Turns, NEW r \in Turns \cup {NULL}, Accept(t, r) \/ Wait(t, r)
      PROVE  Goal
  BY <1>2 DEF store, Accept, CreateTask, Wait
<1>3. ASSUME NEW t \in Turns, Refuse(t) \/ SubmissionFails(t) \/ Work(t) \/ StoreFails(t)
      PROVE  Goal
  BY <1>3 DEF store, Refuse, SubmissionFails, Work, StoreFails
<1>4. ASSUME NEW t \in Turns, NEW how \in Verdicts, Return(t, how) PROVE Goal
  BY <1>4 DEF store, Return
<1>5. ASSUME Stop \/ Enqueue \/ Wake \/ Deliver \/ Restart \/ Delete PROVE Goal
  BY <1>5 DEF store, Stop, Enqueue, Wake, Deliver, Restart, Delete
<1>6. ASSUME UNCHANGED vars PROVE Goal
  BY <1>6 DEF vars, store
<1> HIDE DEF Goal
<1>7. Goal
  BY <1>1, <1>2, <1>3, <1>4, <1>5, <1>6 DEF Next
<1> QED BY <1>7 DEF Goal

\* Turn t has cut the transcript and not stored its message yet.
Ahead(t) == pc[t] \in {"cut", "persisted"}

\* Such a turn stores its message next, or is cut short.
LEMMA AheadStep ==
  ASSUME TypeOK, QueueInv, [Next]_vars, NEW u \in Turns, Ahead(u)
  PROVE  Ahead(u)' \/ u \in torn' \/ AddUser(u)
<1> DEFINE Goal == Ahead(u)' \/ u \in torn' \/ AddUser(u)
<1> USE DEF Ahead, TypeOK
<1>1. ASSUME NEW t \in Turns, Truncate(t) \/ Persist(t) \/ AddUser(t) \/ AddAnswer(t)
      PROVE  Goal
  <2>1. CASE t = u /\ AddUser(t)
    BY <2>1
  <2>2. CASE t # u /\ AddUser(t)
    BY <2>2 DEF AddUser
  <2>3. CASE Truncate(t) \/ Persist(t) \/ AddAnswer(t)
    BY <2>3 DEF Truncate, Persist, AddAnswer
  <2> QED BY <1>1, <2>1, <2>2, <2>3
<1>2. ASSUME NEW t \in Turns, \/ Resume(t) \/ CancelEarly(t) \/ Reject(t) \/ Prepare(t)
                              \/ Fail(t) \/ Discard(t) \/ Orphan(t) \/ Proceed(t)
      PROVE  Goal
  BY <1>2 DEF Resume, CreateTask, CancelEarly, Answer, Reject, Flush, Prepare, Fail, Flushed,
              Discard, Orphan, Proceed
<1>3. ASSUME NEW t \in Turns, Respond(t) \/ Cleanup(t) \/ SubmissionFails(t) \/ Work(t) PROVE Goal
  BY <1>3 DEF Respond, Answer, Cleanup, SubmissionFails, Flush, Work
<1>4. ASSUME NEW t \in Turns, NEW r \in Turns \cup {NULL}, Accept(t, r) \/ Wait(t, r)
      PROVE  Goal
  BY <1>4 DEF Accept, CreateTask, Wait, Arrives
<1>5. ASSUME NEW t \in Turns, Refuse(t) \/ StoreFails(t) PROVE Goal
  BY <1>5 DEF Refuse, Arrives, StoreFails, Answer, Begun, Storing
<1>6. ASSUME NEW t \in Turns, NEW how \in Verdicts, Return(t, how) PROVE Goal
  BY <1>6 DEF Return, Working
<1>7. ASSUME Stop \/ Enqueue \/ Deliver \/ Delete PROVE Goal
  BY <1>7 DEF Stop, Enqueue, Deliver, Delete
<1>8. ASSUME Wake PROVE Goal
  BY <1>8, WakesReturned DEF Wake, Flush
<1>9. ASSUME Restart PROVE Goal
  BY <1>9 DEF Restart, Begun, Storing
<1>10. ASSUME UNCHANGED vars PROVE Goal
  BY <1>10 DEF vars
<1> HIDE DEF Ahead, TypeOK, Goal
<1>11. Goal
  BY <1>1, <1>2, <1>3, <1>4, <1>5, <1>6, <1>7, <1>8, <1>9, <1>10 DEF Next, Step
<1> QED BY <1>11 DEF Goal

\* A message is stored once; the transcript is in the order in which messages were
\* stored; what a turn is to replace was stored once.
OrderInv ==
  /\ \A i, j \in DOMAIN saved : saved[i] = saved[j] => i = j
  /\ \A i, j \in DOMAIN transcript : i < j => Before(transcript[i], transcript[j])
  /\ \A t \in Turns : target[t] # NULL => Occurs(target[t], saved)

\* What is stored after others stays so.
LEMMA BeforeStays ==
  ASSUME TypeOK, NEW t \in Turns, saved' = Append(saved, t), NEW u, NEW v
  PROVE  (Before(u, v) => Before(u, v)') /\ (Occurs(u, saved) => Before(u, t)')
<1>1. /\ saved \in Seq(Turns) /\ Len(saved) \in Nat /\ Len(saved) + 1 \in DOMAIN saved'
      /\ saved'[Len(saved) + 1] = t
      /\ \A i \in DOMAIN saved : i \in DOMAIN saved' /\ saved'[i] = saved[i] /\ i < Len(saved) + 1
  BY DEF TypeOK
<1> QED BY <1>1 DEF Before, Occurs

\* Of two messages that were stored, one was the first.
LEMMA BeforeOrders ==
  ASSUME TypeOK, OrderInv
  PROVE  /\ \A u, v : Occurs(u, saved) /\ Occurs(v, saved) =>
              u = v \/ Before(u, v) \/ Before(v, u)
         /\ \A u, v : ~(Before(u, v) /\ Before(v, u))
         /\ \A u, v, w : Before(u, v) /\ Before(v, w) => Before(u, w)
<1>1. DOMAIN saved = 1..Len(saved) /\ Len(saved) \in Nat
  BY DEF TypeOK
<1>2. ASSUME NEW u, NEW v, Occurs(u, saved), Occurs(v, saved)
      PROVE  u = v \/ Before(u, v) \/ Before(v, u)
  <2>1. PICK a \in DOMAIN saved, b \in DOMAIN saved : saved[a] = u /\ saved[b] = v
    BY <1>2 DEF Occurs
  <2>2. a < b \/ a = b \/ b < a
    BY <1>1, <2>1
  <2> QED BY <2>1, <2>2 DEF Before
<1>3. ASSUME NEW u, NEW v, NEW w, Before(u, v), Before(v, w) PROVE Before(u, w) /\ u # w
  <2>1. PICK a \in DOMAIN saved, b \in DOMAIN saved : a < b /\ saved[a] = u /\ saved[b] = v
    BY <1>3 DEF Before
  <2>2. PICK c \in DOMAIN saved, d \in DOMAIN saved : c < d /\ saved[c] = v /\ saved[d] = w
    BY <1>3 DEF Before
  <2>3. b = c
    BY <2>1, <2>2 DEF OrderInv
  <2>4. a < d
    BY <1>1, <2>1, <2>2, <2>3
  <2>5. u # w
    BY <1>1, <2>1, <2>2, <2>4 DEF OrderInv
  <2> QED BY <2>1, <2>2, <2>4, <2>5 DEF Before
<1> QED BY <1>2, <1>3

\* A part of the rows from the first one on is in order as well.
LEMMA TruncatedRows ==
  ASSUME TypeOK, NEW t \in Turns
  PROVE  /\ Truncated(t) \in Seq(Turns)
         /\ \A i \in DOMAIN Truncated(t) :
              i \in DOMAIN transcript /\ Truncated(t)[i] = transcript[i]
<1>1. transcript \in Seq(Turns) /\ Cardinality(Kept(target[t])) \in 0..Len(transcript)
  BY KeptCount DEF TypeOK
<1> QED BY <1>1 DEF Truncated

\* Messages are stored at the end of the rows, and only once.
LEMMA NextOrder ==
  ASSUME ChatAssumption, TypeOK, SavedInv, OrderInv, [Next]_vars
  PROVE  OrderInv'
<1>1. \A i, j \in DOMAIN saved' : saved'[i] = saved'[j] => i = j
  <2>1. CASE saved' = saved
    BY <2>1 DEF OrderInv
  <2>2. CASE saved' # saved
    <3>1. PICK t \in Turns : pc[t] = "persisted" /\ saved' = Append(saved, t)
      BY <2>2, StoresOnly DEF vars, store
    <3>2. ~Occurs(t, saved)
      BY <3>1 DEF SavedInv
    <3>3. /\ saved \in Seq(Turns) /\ Len(saved) \in Nat /\ saved'[Len(saved) + 1] = t
          /\ \A i \in DOMAIN saved' :
               i = Len(saved) + 1 \/ (i \in DOMAIN saved /\ saved'[i] = saved[i])
      BY <3>1 DEF TypeOK
    <3> QED BY <3>2, <3>3 DEF OrderInv, Occurs
  <2> QED BY <2>1, <2>2
<1> DEFINE After(u, v) == \E i, j \in DOMAIN saved' : i < j /\ saved'[i] = u /\ saved'[j] = v
<1>2. (saved' = saved \/ \E t \in Turns : saved' = Append(saved, t)) =>
        \A u, v : Before(u, v) => After(u, v)
  BY BeforeStays DEF Before
<1>3. ASSUME NEW t \in Turns, saved' = Append(saved, t), NEW u, Occurs(u, saved)
      PROVE  After(u, t)
  <2>1. Before(u, t)'
    BY <1>3, BeforeStays
  <2> QED BY <2>1 DEF Before
<1> HIDE DEF After
<1>4. \A i, j \in DOMAIN transcript' : i < j => After(transcript'[i], transcript'[j])
  <2>1. CASE UNCHANGED <<transcript, saved>>
    BY <1>2, <2>1 DEF OrderInv
  <2>2. CASE transcript' = <<>>
    BY <2>2
  <2>3. ASSUME NEW t \in Turns, Truncate(t)
        PROVE  \A i, j \in DOMAIN transcript' : i < j => After(transcript'[i], transcript'[j])
    <3>1. \A i \in DOMAIN transcript' : i \in DOMAIN transcript /\ transcript'[i] = transcript[i]
      BY <2>3, TruncatedRows DEF Truncate
    <3> QED BY <1>2, <2>3, <3>1 DEF Truncate, OrderInv
  <2>4. ASSUME NEW t \in Turns, AddUser(t),
               NEW i \in DOMAIN transcript', NEW j \in DOMAIN transcript', i < j
        PROVE  After(transcript'[i], transcript'[j])
    <3>1. /\ transcript \in Seq(Turns) /\ Len(transcript) \in Nat
          /\ transcript' = Append(transcript, t) /\ saved' = Append(saved, t)
      BY <2>4 DEF AddUser, TypeOK
    <3>2. i \in DOMAIN transcript /\ transcript'[i] = transcript[i]
      BY <2>4, <3>1
    <3>3. CASE j = Len(transcript) + 1
      <4>1. transcript'[j] = t
        BY <3>1, <3>3
      <4>2. Occurs(transcript[i], saved)
        BY <3>1, <3>2 DEF SavedInv, Occurs
      <4>3. After(transcript[i], t)
        BY <1>3, <3>1, <4>2
      <4> QED BY <3>2, <4>1, <4>3
    <3>4. CASE j \in DOMAIN transcript
      <4>1. transcript'[j] = transcript[j]
        BY <3>1, <3>4
      <4>2. Before(transcript[i], transcript[j])
        BY <2>4, <3>2, <3>4 DEF OrderInv
      <4>3. After(transcript[i], transcript[j])
        BY <1>2, <3>1, <4>2
      <4> QED BY <3>2, <4>1, <4>3
    <3> QED BY <2>4, <3>1, <3>3, <3>4
  <2> QED BY <2>1, <2>2, <2>3, <2>4, RowsStep
<1>5. ASSUME NEW t \in Turns, target'[t] # NULL PROVE Occurs(target'[t], saved')
  <2>1. \A u : Occurs(u, saved) => Occurs(u, saved')
    <3>1. CASE saved' = saved
      BY <3>1
    <3>2. CASE saved' # saved
      <4>1. PICK u \in Turns : saved' = Append(saved, u)
        BY <3>2, StoresOnly DEF vars, store
      <4> QED BY <4>1, AppendOccurs DEF TypeOK
    <3> QED BY <3>1, <3>2
  <2>2. CASE target'[t] = target[t]
    BY <1>5, <2>1, <2>2 DEF OrderInv
  <2>3. CASE target'[t] # target[t]
    <3>1. PICK u \in Turns, r \in Turns \cup {NULL} : Accept(u, r) \/ Wait(u, r)
      BY <2>3, AsksOnly
    <3>2. target'[t] # NULL => Occurs(target'[t], saved)
      BY <2>3, <3>1 DEF Accept, Wait, Asks, TypeOK
    <3> QED BY <1>5, <2>1, <3>2
  <2> QED BY <2>2, <2>3
<1> QED BY <1>1, <1>4, <1>5 DEF OrderInv, Before, After

\* An edit cuts the turn it was asked to replace and those after it, and no other.
LEMMA CutTakes ==
  ASSUME TypeOK, SavedInv, OrderInv, NEW t \in Turns, target[t] # NULL,
         NEW u \in Turns, Occurs(u, transcript), ~Occurs(u, Truncated(t))
  PROVE  Replaces(t, u)
<1> DEFINE r == target[t]
           K == Kept(target[t])
<1>1. /\ transcript \in Seq(Turns) /\ DOMAIN transcript = 1..Len(transcript)
      /\ Cardinality(K) \in 0..Len(transcript) /\ IsFiniteSet(1..Len(transcript))
      /\ K \subseteq 1..Len(transcript)
  <2>1. transcript \in Seq(Turns) /\ DOMAIN transcript = 1..Len(transcript)
    BY DEF TypeOK
  <2>2. Len(transcript) \in Int
    BY <2>1
  <2>3. Cardinality(K) \in 0..Len(transcript)
    BY <2>1, KeptCount
  <2>4. K \subseteq 1..Len(transcript)
    BY <2>1 DEF Kept
  <2> QED BY <2>1, <2>2, <2>3, <2>4, FS_Interval
<1>2. PICK k \in 1..Len(transcript) : transcript[k] = u
  BY <1>1 DEF Occurs
<1>3. ~(k <= Cardinality(K))
  <2>1. SUFFICES ASSUME k <= Cardinality(K) PROVE FALSE
    OBVIOUS
  <2>2. Truncated(t) = SubSeq(transcript, 1, Cardinality(K))
    BY DEF Truncated
  <2>3. k \in DOMAIN Truncated(t) /\ Truncated(t)[k] = u
    BY <1>1, <1>2, <2>1, <2>2
  <2> QED BY <2>3 DEF Occurs
<1>4. k \notin K
  <2>1. SUFFICES ASSUME k \in K PROVE FALSE
    OBVIOUS
  <2>2. \A i \in 1..k : i \in K
    <3>1. ASSUME NEW i \in 1..k, i # k PROVE i \in K
      <4>1. i \in DOMAIN transcript /\ i < k
        BY <1>1, <1>2, <3>1
      <4>2. Before(transcript[i], transcript[k]) /\ Before(transcript[k], r)
        BY <1>1, <1>2, <2>1, <4>1 DEF OrderInv, Kept
      <4>3. Before(transcript[i], r)
        BY <4>2, BeforeOrders
      <4> QED BY <4>1, <4>3 DEF Kept
    <3> QED BY <2>1, <3>1
  <2>3. IsFiniteSet(K)
    BY <1>1, FS_Subset
  <2>4. Cardinality(1..k) <= Cardinality(K)
    BY <2>2, <2>3, FS_Subset
  <2>5. Cardinality(1..k) = k
    BY <1>2, FS_Interval
  <2> QED BY <1>1, <1>2, <1>3, <2>4, <2>5
<1>5. ~Before(u, r)
  BY <1>1, <1>2, <1>4 DEF Kept
<1>6. Occurs(u, saved) /\ Occurs(r, saved)
  BY DEF SavedInv, OrderInv
<1>7. u = r \/ Before(r, u)
  BY <1>5, <1>6, BeforeOrders
<1> QED BY <1>7 DEF Replaces

\* Message u, once stored, is there, or the turn that was to replace it is stored,
\* about to be, or was cut short.
Accounted(u) ==
  \/ Occurs(u, transcript)
  \/ \E t \in Turns :
       Replaces(t, u) /\ (Before(u, t) \/ Ahead(t) \/ t \in torn)

AccountInv == exists => \A u \in Turns : Occurs(u, saved) => Accounted(u)

\* Every step accounts for what was stored.
LEMMA NextAccount ==
  ASSUME ChatAssumption, TypeOK, QueueInv, SavedInv, OrderInv, AccountInv, [Next]_vars
  PROVE  AccountInv'
<1>1. SUFFICES ASSUME exists', NEW u \in Turns, Occurs(u, saved') PROVE Accounted(u)'
  BY DEF AccountInv
<1>2. exists /\ torn \subseteq torn' /\ torn \subseteq Turns
  BY <1>1, FlagsStay, TornStays DEF TypeOK
<1>3. saved' = saved \/ \E t \in Turns : AddUser(t) /\ saved' = Append(saved, t)
  BY <1>1, RowsStep DEF Truncate, AddUser
<1>4. \A v, w : Before(v, w) => Before(v, w)'
  BY <1>3, BeforeStays DEF Before
<1>5. \A v : \A t \in Turns : Replaces(t, v) /\ pc[t] # "idle" => Replaces(t, v)'
  BY <1>4, TargetStays DEF Replaces
<1>6. \A t \in Turns : Before(u, t) \/ Ahead(t) \/ t \in torn => pc[t] # "idle"
  <2>1. \A t \in Turns : Before(u, t) => Occurs(t, saved)
    BY DEF Before, Occurs
  <2>2. \A t \in Turns : Occurs(t, saved) \/ t \in torn => pc[t] # "idle"
    BY DEF SavedInv
  <2> QED BY <2>1, <2>2 DEF Ahead
<1>7. ASSUME NEW t \in Turns, Replaces(t, u), Before(u, t) \/ Ahead(t) \/ t \in torn,
             Occurs(u, saved)
      PROVE  Accounted(u)'
  <2>1. Replaces(t, u)'
    BY <1>5, <1>6, <1>7
  <2>2. AddUser(t) => Before(u, t)'
    BY <1>7, BeforeStays DEF AddUser
  <2>3. Before(u, t)' \/ Ahead(t)' \/ t \in torn'
    BY <1>2, <1>4, <1>7, <2>2, AheadStep
  <2> QED BY <2>1, <2>3 DEF Accounted
<1>8. CASE Occurs(u, transcript')
  BY <1>8 DEF Accounted, Occurs
<1>9. CASE ~Occurs(u, transcript') /\ Occurs(u, saved)
  <2>1. CASE ~Occurs(u, transcript)
    BY <1>2, <1>7, <1>9, <2>1 DEF AccountInv, Accounted
  <2>2. CASE Occurs(u, transcript)
    <3>1. PICK t \in Turns : Truncate(t) \/ AddUser(t)
      BY <1>1, <1>9, <2>2, RowsStep
    <3>2. CASE AddUser(t)
      BY <1>9, <2>2, <3>2, AppendOccurs DEF AddUser, TypeOK
    <3>3. CASE Truncate(t)
      <4>1. target[t] # NULL /\ ~Occurs(u, Truncated(t)) /\ pc[t] = "saving" /\ Ahead(t)'
        BY <1>9, <3>3 DEF Truncate, Ahead, TypeOK
      <4>2. Replaces(t, u)
        BY <2>2, <4>1, CutTakes
      <4>3. Replaces(t, u)'
        BY <1>5, <4>1, <4>2
      <4> QED BY <4>1, <4>3 DEF Accounted
    <3> QED BY <3>1, <3>2, <3>3
  <2> QED BY <2>1, <2>2
<1>10. CASE ~Occurs(u, transcript') /\ ~Occurs(u, saved)
  <2>1. PICK t \in Turns : AddUser(t)
    BY <1>1, <1>3, <1>10
  <2>2. u = t /\ Occurs(u, transcript')
    BY <1>1, <1>10, <2>1, AppendOccurs DEF AddUser, TypeOK
  <2> QED BY <1>10, <2>2
<1> QED BY <1>8, <1>9, <1>10

\* An edit that is stopped, fails in the model call or dies with the server before
\* its writes takes nothing from the transcript, and none takes more than it was
\* asked to: a stored message goes when the very turn that replaces it is stored.
\* Only a turn that was cut short between its writes takes what it cannot replace,
\* and its client has not been told that it was stopped, or answered.
THEOREM ReplacedByStored == ASSUME ChatAssumption PROVE Spec => []ReplacedOnceStored
<1>1. Init => SavedInv /\ OrderInv /\ AccountInv
  <2>1. ASSUME Init PROVE SavedInv
    BY <2>1, EmptyOccurs, ChatAssumption DEF Init, SavedInv, Dropped, ChatAssumption, Verdicts
  <2>2. ASSUME Init PROVE OrderInv /\ AccountInv
    BY <2>2, EmptyOccurs DEF Init, OrderInv, AccountInv
  <2> QED BY <2>1, <2>2
<1>2. BaseInv /\ QueueInv /\ SavedInv /\ OrderInv /\ AccountInv /\ [Next]_vars
        => SavedInv' /\ OrderInv' /\ AccountInv'
  BY NextSaved, NextOrder, NextAccount DEF BaseInv
<1>3. BaseInv /\ SavedInv /\ AccountInv => ReplacedOnceStored
  <2> SUFFICES ASSUME BaseInv, SavedInv, AccountInv, exists, NEW i \in DOMAIN saved
               PROVE  \/ Occurs(saved[i], transcript)
                      \/ \E t \in Turns :
                           /\ Replaces(t, saved[i])
                           /\ \/ Before(saved[i], t)
                              \/ pc[t] \in {"cut", "persisted"}
                              \/ t \in torn /\ answer[t] \in {NULL, "error"}
    BY DEF ReplacedOnceStored
  <2>1. saved[i] \in Turns /\ Occurs(saved[i], saved)
    BY DEF BaseInv, TypeOK, Occurs
  <2>2. Accounted(saved[i])
    BY <2>1 DEF AccountInv
  <2> QED BY <2>2 DEF Accounted, Ahead, SavedInv
<1> QED BY <1>1, <1>2, <1>3, BaseInvariant, PTL DEF Spec

-----------------------------------------------------------------------------
(* Nobody is forgotten *)

\* The entry of the session is a turn whose task is not cleaned up yet, and so
\* is, or was, the turn a receive loop waits for.
HandInv ==
  /\ active # NULL => pc[active] \in UnderWay \cup {"done"}
  /\ \A t \in Turns : pc[t] = "waiting" =>
       waits[t] \in Turns /\ pc[waits[t]] \in UnderWay \cup {"done", "gone"}

\* The end of a model call that is not seen yet is among the callbacks.
WokenInv ==
  \A t \in Turns : pc[t] = "returned" =>
    \E i \in DOMAIN ready : ready[i].turn = t /\ ready[i].item # "event"

\* A turn under way moves on.
LEMMA HandFrame ==
  ASSUME ChatAssumption, TypeOK, HandInv, UNCHANGED <<active, waits>>,
         NEW t \in Turns, pc[t] \in UnderWay,
         NEW s \in UnderWay \cup {"done"}, pc' = [pc EXCEPT ![t] = s]
  PROVE  HandInv'
<1>1. \A u \in Turns : pc'[u] = IF u = t THEN s ELSE pc[u]
  BY DEF TypeOK
<1>2. active \in Turns \cup {NULL}
  BY DEF TypeOK
<1> QED BY <1>1, <1>2 DEF HandInv, Working, Storing, UnderWay

LEMMA NextHand ==
  ASSUME ChatAssumption, TypeOK, QueueInv, HandInv, [Next]_vars PROVE HandInv'
<1> USE DEF store, ends, inputs, events, hist
<1>1. ASSUME NEW t \in Turns, NEW r \in Turns \cup {NULL}, Accept(t, r) PROVE HandInv'
  <2>1. /\ active' = t /\ waits' = waits /\ pc[t] = "idle"
        /\ \A u \in Turns : pc'[u] = IF u = t THEN "created" ELSE pc[u]
    BY <1>1 DEF Accept, CreateTask, Arrives, TypeOK
  <2> QED BY <2>1 DEF HandInv, Working, Storing, UnderWay
<1>2. ASSUME NEW t \in Turns, Refuse(t) PROVE HandInv'
  BY <1>2, ChatAssumption DEF Refuse, Arrives, HandInv, TypeOK, ChatAssumption, Working,
     Storing, UnderWay
<1>3. ASSUME NEW t \in Turns, NEW r \in Turns \cup {NULL}, Wait(t, r) PROVE HandInv'
  <2>1. /\ active' = active /\ active \in Turns /\ pc[active] \in UnderWay /\ pc[t] = "idle"
        /\ \A u \in Turns : pc'[u] = IF u = t THEN "waiting" ELSE pc[u]
        /\ \A u \in Turns : waits'[u] = IF u = t THEN active ELSE waits[u]
    BY <1>3 DEF Wait, Arrives, TypeOK
  <2> QED BY <2>1 DEF HandInv, Working, Storing, UnderWay
<1>4. ASSUME NEW t \in Turns, Resume(t) PROVE HandInv'
  <2>1. /\ active' = t /\ pc[t] = "waiting"
        /\ \A u \in Turns : pc'[u] = IF u = t THEN "created" ELSE pc[u]
        /\ \A u \in Turns : u # t => waits'[u] = waits[u]
    BY <1>4 DEF Resume, CreateTask, TypeOK
  <2> QED BY <2>1 DEF HandInv, Working, Storing, UnderWay
<1>5. ASSUME NEW t \in Turns, Cleanup(t) PROVE HandInv'
  <2>1. /\ active' = (IF active = t THEN NULL ELSE active) /\ waits' = waits /\ pc[t] = "done"
        /\ active \in Turns \cup {NULL}
        /\ \A u \in Turns : pc'[u] = IF u = t THEN "gone" ELSE pc[u]
    BY <1>5 DEF Cleanup, TypeOK
  <2> QED BY <2>1 DEF HandInv, Working, Storing, UnderWay
<1>6. ASSUME Wake PROVE HandInv'
  <2>1. PICK t \in Turns : pc[t] = "returned" /\ pc' = [pc EXCEPT ![t] = "flushing"]
    BY <1>6, WakesReturned DEF Wake, Flush
  <2> QED BY <1>6, <2>1, HandFrame DEF Wake, Working, Storing, UnderWay
<1>7. ASSUME NEW t \in Turns, NEW how \in Verdicts, Return(t, how) PROVE HandInv'
  BY <1>7, HandFrame DEF Return, Working, Storing, UnderWay
<1>8. ASSUME NEW t \in Turns, StoreFails(t) PROVE HandInv'
  BY <1>8, HandFrame DEF StoreFails, Answer, Working, Storing, UnderWay
<1>9. ASSUME Restart PROVE HandInv'
  BY <1>9, ChatAssumption DEF Restart, HandInv, TypeOK, ChatAssumption, Working, Storing, UnderWay
<1>10. CASE UNCHANGED <<active, pc, waits>>
  BY <1>10 DEF HandInv
<1>11. ASSUME Stop \/ Enqueue \/ Deliver \/ Delete PROVE HandInv'
  BY <1>10, <1>11 DEF Stop, Enqueue, Deliver, Delete
<1>12. ASSUME NEW t \in Turns, CancelEarly(t) PROVE HandInv'
  BY <1>12, HandFrame DEF CancelEarly, Answer, Working, Storing, UnderWay
<1>13. ASSUME NEW t \in Turns, Reject(t) PROVE HandInv'
  BY <1>13, HandFrame DEF Reject, Flush, Working, Storing, UnderWay
<1>14. ASSUME NEW t \in Turns, Prepare(t) PROVE HandInv'
  BY <1>14, HandFrame DEF Prepare, Working, Storing, UnderWay
<1>15. ASSUME NEW t \in Turns, SubmissionFails(t) PROVE HandInv'
  BY <1>15, HandFrame DEF SubmissionFails, Flush, Working, Storing, UnderWay
<1>16. ASSUME NEW t \in Turns, Work(t) PROVE HandInv'
  BY <1>16, HandFrame DEF Work, Working, Storing, UnderWay
<1>17. ASSUME NEW t \in Turns, Fail(t) PROVE HandInv'
  BY <1>17, HandFrame DEF Fail, Flushed, Fault, Answer, Working, Storing, UnderWay
<1>18. ASSUME NEW t \in Turns, Discard(t) PROVE HandInv'
  BY <1>18, HandFrame DEF Discard, Flushed, Fault, Answer, Working, Storing, UnderWay
<1>19. ASSUME NEW t \in Turns, Orphan(t) PROVE HandInv'
  BY <1>19, HandFrame DEF Orphan, Flushed, Fault, Answer, Working, Storing, UnderWay
<1>20. ASSUME NEW t \in Turns, Proceed(t) PROVE HandInv'
  BY <1>20, HandFrame DEF Proceed, Flushed, Fault, Working, Storing, UnderWay
<1>21. ASSUME NEW t \in Turns, Truncate(t) PROVE HandInv'
  BY <1>21, HandFrame DEF Truncate, Working, Storing, UnderWay
<1>22. ASSUME NEW t \in Turns, Persist(t) PROVE HandInv'
  BY <1>22, HandFrame DEF Persist, Working, Storing, UnderWay
<1>23. ASSUME NEW t \in Turns, AddUser(t) PROVE HandInv'
  BY <1>23, HandFrame DEF AddUser, Working, Storing, UnderWay
<1>24. ASSUME NEW t \in Turns, AddAnswer(t) PROVE HandInv'
  BY <1>24, HandFrame DEF AddAnswer, Working, Storing, UnderWay
<1>25. ASSUME NEW t \in Turns, Respond(t) PROVE HandInv'
  BY <1>25, HandFrame DEF Respond, Answer, Working, Storing, UnderWay
<1>26. CASE UNCHANGED vars
  BY <1>10, <1>26 DEF vars
<1> QED
  BY <1>1, <1>2, <1>3, <1>4, <1>5, <1>6, <1>7, <1>8, <1>9, <1>10, <1>11, <1>12, <1>13,
     <1>14, <1>15, <1>16, <1>17, <1>18, <1>19, <1>20, <1>21, <1>22, <1>23, <1>24,
     <1>25, <1>26
     DEF Next, Step

LEMMA NextWoken == ASSUME TypeOK, WokenInv, [Next]_vars PROVE WokenInv'
<1> USE DEF store, ends, inputs, events, hist
<1>1. ASSUME NEW t \in Turns, Work(t) PROVE WokenInv'
  <2>1. /\ ready \in Seq(Items) /\ ready' = Append(ready, [turn |-> t, item |-> "event"])
        /\ pc' = [pc EXCEPT ![t] = "worked"]
    BY <1>1 DEF Work, TypeOK
  <2>2. \A i \in DOMAIN ready : i \in DOMAIN ready' /\ ready'[i] = ready[i]
    BY <2>1
  <2> QED BY <2>1, <2>2 DEF WokenInv, TypeOK
<1>2. ASSUME NEW t \in Turns, NEW how \in Verdicts, Return(t, how) PROVE WokenInv'
  <2>1. /\ ready \in Seq(Items) /\ ready' = Append(ready, [turn |-> t, item |-> how])
        /\ pc' = [pc EXCEPT ![t] = "returned"]
    BY <1>2 DEF Return, TypeOK
  <2>2. \A i \in DOMAIN ready : i \in DOMAIN ready' /\ ready'[i] = ready[i]
    BY <2>1
  <2>3. Len(ready) + 1 \in DOMAIN ready' /\ ready'[Len(ready) + 1] = [turn |-> t, item |-> how]
    BY <2>1
  <2>4. how # "event"
    BY DEF Verdicts
  <2> QED BY <2>1, <2>2, <2>3, <2>4 DEF WokenInv, TypeOK
<1>3. ASSUME Enqueue PROVE WokenInv'
  <2>1. ready \in Seq(Items) /\ ready # <<>> /\ ready' = Tail(ready) /\ pc' = pc
        /\ ready[1].item = "event"
    BY <1>3 DEF Enqueue, TypeOK
  <2>2. \A i \in DOMAIN ready : i # 1 => i - 1 \in DOMAIN ready' /\ ready'[i - 1] = ready[i]
    BY <2>1
  <2> QED BY <2>1, <2>2 DEF WokenInv
<1>4. ASSUME Wake PROVE WokenInv'
  <2>1. ready \in Seq(Items) /\ ready # <<>> /\ ready' = Tail(ready)
        /\ pc' = [pc EXCEPT ![Head(ready).turn] = "flushing"] /\ Head(ready) = ready[1]
    BY <1>4 DEF Wake, Flush, TypeOK
  <2>2. \A i \in DOMAIN ready : i # 1 => i - 1 \in DOMAIN ready' /\ ready'[i - 1] = ready[i]
    BY <2>1
  <2>3. \A u \in Turns : pc'[u] = "returned" => pc[u] = "returned" /\ u # ready[1].turn
    BY <2>1 DEF TypeOK
  <2> QED BY <2>2, <2>3 DEF WokenInv
<1>5. ASSUME UNCHANGED ready, \A t \in Turns : pc'[t] = "returned" => pc[t] = "returned"
      PROVE WokenInv'
  BY <1>5 DEF WokenInv
<1>6. ASSUME NEW t \in Turns, NEW r \in Turns \cup {NULL}, Accept(t, r) \/ Wait(t, r)
      PROVE  WokenInv'
  BY <1>5, <1>6 DEF Accept, Wait, CreateTask, TypeOK
<1>7. ASSUME NEW t \in Turns, Refuse(t) \/ Resume(t) \/ Cleanup(t) PROVE WokenInv'
  BY <1>5, <1>7 DEF Refuse, Resume, Cleanup, CreateTask, TypeOK
<1>8. ASSUME NEW t \in Turns, CancelEarly(t) \/ Respond(t) \/ Prepare(t) PROVE WokenInv'
  BY <1>5, <1>8 DEF CancelEarly, Respond, Prepare, Answer, TypeOK
<1>9. ASSUME NEW t \in Turns, Truncate(t) \/ Persist(t) \/ AddUser(t) \/ AddAnswer(t)
      PROVE  WokenInv'
  BY <1>5, <1>9 DEF Truncate, Persist, AddUser, AddAnswer, TypeOK
<1>10. ASSUME NEW t \in Turns, Reject(t) \/ SubmissionFails(t) PROVE WokenInv'
  BY <1>5, <1>10 DEF Reject, SubmissionFails, Flush, TypeOK
<1>11. ASSUME NEW t \in Turns, Fail(t) \/ Discard(t) \/ Orphan(t) \/ Proceed(t) PROVE WokenInv'
  BY <1>5, <1>11 DEF Fail, Discard, Orphan, Proceed, Answer, TypeOK
<1>12. ASSUME NEW t \in Turns, StoreFails(t) PROVE WokenInv'
  BY <1>5, <1>12 DEF StoreFails, Answer, TypeOK
<1>13. ASSUME Stop \/ Deliver \/ Delete PROVE WokenInv'
  BY <1>5, <1>13 DEF Stop, Deliver, Delete
<1>14. ASSUME Restart PROVE WokenInv'
  BY <1>14 DEF Restart, WokenInv, Working, Storing, UnderWay
<1>15. CASE UNCHANGED vars
  BY <1>5, <1>15 DEF vars
<1> QED
  BY <1>1, <1>2, <1>3, <1>4, <1>5, <1>6, <1>7, <1>8, <1>9, <1>10, <1>11, <1>12, <1>13,
     <1>14, <1>15
     DEF Next, Step

\* No end of a model call gets lost, no receive loop waits for a turn that is
\* not coming to its end, and no entry outlives its turn: the safety half of
\* Answered.
THEOREM NobodyForgotten == ASSUME ChatAssumption PROVE Spec => [](HandInv /\ WokenInv)
<1>1. Init => HandInv /\ WokenInv
  BY DEF Init, HandInv, WokenInv
<1>2. BaseInv /\ QueueInv /\ HandInv /\ WokenInv /\ [Next]_vars => (HandInv /\ WokenInv)'
  BY NextHand, NextWoken DEF BaseInv
<1> QED BY <1>1, <1>2, BaseInvariant, PTL DEF Spec
=============================================================================
