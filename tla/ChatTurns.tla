------------------------------ MODULE ChatTurns ------------------------------
(***************************************************************************)
(* The turns of one chat session: the WebSocket route (api/routers/ws.py), *)
(* the bridge that carries the events of a turn to the client              *)
(* (api/ws_bridge.py), the cached context (api/state.py) and the stored    *)
(* session (core/chat_sessions.py).                                        *)
(*                                                                         *)
(* All of this runs on one event loop: a step is what runs between two     *)
(* awaits.  Only the model call of a turn (Brain.think) runs in a worker   *)
(* thread, and a request that deletes the session in another.  A turn      *)
(* stands for a user message with its answer: one entry of the transcript, *)
(* and one of the context.  Trimming of long contexts is left out.         *)
(***************************************************************************)
EXTENDS Naturals, Sequences, FiniteSets

CONSTANTS
  MaxTurns,   \* bound: messages sent
  MaxFaults,  \* bound: deletions, failed transactions, late flushes and restarts
  NULL

Turns == 1..MaxTurns
Verdicts == {"ok", "cancelled", "error"}

ASSUME ChatAssumption ==
  /\ MaxTurns \in Nat /\ MaxFaults \in Nat
  /\ NULL \notin Turns \cup Seq(Turns) \cup Verdicts
                  \cup {"response", "busy"}

VARIABLES
  exists,      \* the session has its row in chat_sessions
  transcript,  \* the messages in chat_turns, in order of their ids
  raw,         \* the column raw_history
  memory,      \* _MEMORY_CACHE: the context of the session, NULL if not cached
  active,      \* _ACTIVE_RUNS: the turn in the entry of the session, or NULL
  pc,          \* turn -> where its task is
  target,      \* turn -> the turn it replaces (edit, regenerate), NULL if none
  stopped,     \* turns whose cancel event is set
  waits,       \* turn -> the stopped turn its receive loop waits for
  backup,      \* turn -> backup_history
  verdict,     \* turn -> how the model call ended
  answer,      \* turn -> the last message the client gets about it
  ready,       \* callbacks the worker threads gave to the event loop
  queue,       \* the bridge's queue: the turns its events belong to
  saved,       \* history: turns whose message was ever stored, in order
  replied,     \* history: turns whose answer was stored
  torn,        \* history: turns whose writes were begun and never ended
  late,        \* history: turns that did not wait for the queue to empty
  piled,       \* history: a turn began while another was under way
  failed,      \* history: a transaction of a turn failed
  faults       \* faults so far

store == <<exists, transcript, raw, saved>>
inputs == <<target, stopped, waits>>
events == <<ready, queue>>
ends == <<replied, torn>>
hist == <<late, piled, failed, faults>>
vars == <<store, ends, memory, active, pc, inputs, backup, verdict, answer, events, hist>>

Working == {"thinking", "worked"}

\* The writes of a turn are separate transactions: the turn is about to make the
\* first, has cut the transcript, stored the context, or stored its message.
Storing == {"saving", "cut", "persisted", "asked"}
UnderWay == Working \cup Storing \cup {"created", "returned", "flushing", "saved"}

\* What a worker thread gives to the event loop: an event, or how a call ended.
Items == [turn : Turns, item : Verdicts \cup {"event"}]

TypeOK ==
  /\ exists \in BOOLEAN
  /\ transcript \in Seq(Turns) /\ raw \in Seq(Turns) /\ saved \in Seq(Turns)
  /\ memory \in Seq(Turns) \cup {NULL}
  /\ active \in Turns \cup {NULL}
  /\ pc \in [Turns -> UnderWay \cup {"idle", "waiting", "refused", "done", "gone", "lost"}]
  /\ target \in [Turns -> Turns \cup {NULL}]
  /\ stopped \subseteq Turns
  /\ waits \in [Turns -> Turns \cup {NULL}]
  /\ backup \in [Turns -> Seq(Turns) \cup {NULL}]
  /\ verdict \in [Turns -> Verdicts \cup {NULL}]
  /\ answer \in [Turns -> {"response", "cancelled", "error", "busy", NULL}]
  /\ ready \in Seq(Items)
  /\ queue \in Seq(Turns)
  /\ replied \subseteq Turns /\ torn \subseteq Turns /\ late \subseteq Turns
  /\ piled \in BOOLEAN /\ failed \in BOOLEAN
  /\ faults \in 0..MaxFaults

Init ==
  /\ exists = TRUE
  /\ transcript = <<>> /\ raw = <<>> /\ saved = <<>>
  /\ memory = NULL
  /\ active = NULL
  /\ pc = [t \in Turns |-> "idle"]
  /\ target = [t \in Turns |-> NULL]
  /\ stopped = {}
  /\ waits = [t \in Turns |-> NULL]
  /\ backup = [t \in Turns |-> NULL]
  /\ verdict = [t \in Turns |-> NULL]
  /\ answer = [t \in Turns |-> NULL]
  /\ ready = <<>> /\ queue = <<>>
  /\ replied = {} /\ torn = {} /\ late = {} /\ piled = FALSE /\ failed = FALSE
  /\ faults = 0

Occurs(t, s) == \E i \in DOMAIN s : s[i] = t

Fault == faults < MaxFaults /\ faults' = faults + 1

-----------------------------------------------------------------------------
(* The receive loops of the sockets (chat_ws) *)

CreateTask(t) ==
  /\ pc' = [pc EXCEPT ![t] = "created"]
  /\ active' = t
  /\ piled' = (piled \/ \E u \in Turns : pc[u] \in UnderWay)
  /\ UNCHANGED <<store, ends, memory, backup, verdict, events, late, failed, faults>>

\* A message arrives.  Messages are numbered in the order they arrive.
Arrives(t) == pc[t] = "idle" /\ \A u \in Turns : u < t => pc[u] # "idle"

\* It asks for a new turn, or to replace turn r, which a client once saw in the
\* transcript, and those after it.
Asks(t, r) ==
  /\ r # NULL => Occurs(r, saved)
  /\ target' = [target EXCEPT ![t] = r]

\* No turn is under way; the task of the last one may wait for its cleanup.
Accept(t, r) ==
  /\ Arrives(t)
  /\ active # NULL => pc[active] = "done"
  /\ Asks(t, r)
  /\ CreateTask(t)
  /\ UNCHANGED <<stopped, waits, answer>>

Refuse(t) ==
  /\ Arrives(t)
  /\ active # NULL /\ pc[active] \in UnderWay /\ active \notin stopped
  /\ pc' = [pc EXCEPT ![t] = "refused"]
  /\ answer' = [answer EXCEPT ![t] = "busy"]
  /\ UNCHANGED <<store, ends, memory, active, inputs, backup, verdict, events, hist>>

\* The turn under way is stopped already: the receive loop awaits its task ...
Wait(t, r) ==
  /\ Arrives(t)
  /\ active # NULL /\ pc[active] \in UnderWay /\ active \in stopped
  /\ Asks(t, r)
  /\ pc' = [pc EXCEPT ![t] = "waiting"]
  /\ waits' = [waits EXCEPT ![t] = active]
  /\ UNCHANGED <<store, ends, memory, active, stopped, backup, verdict, answer, events, hist>>

\* ... and then creates its own, whatever another receive loop did meanwhile.
\* The cleanup is the first callback of a task that is done.
Resume(t) ==
  /\ pc[t] = "waiting" /\ pc[waits[t]] = "gone"
  /\ CreateTask(t)
  /\ waits' = [waits EXCEPT ![t] = NULL]
  /\ UNCHANGED <<target, stopped, answer>>

\* A cancel message.
Stop ==
  /\ active # NULL
  /\ stopped' = stopped \cup {active}
  /\ UNCHANGED <<store, ends, memory, active, pc, target, waits, backup, verdict, answer,
                 events, hist>>

-----------------------------------------------------------------------------
(* The task of a turn (_process_turn) *)

\* get_memory.
Loaded == IF memory # NULL THEN memory ELSE raw

\* truncate_history_by_user_turns.
DropLast(s, n) == IF n > Len(s) THEN <<>> ELSE SubSeq(s, 1, Len(s) - n)

\* count_user_turns_from: the entries of the transcript from turn r on.
CountFrom(r) ==
  Len(transcript) + 1 - (CHOOSE i \in DOMAIN transcript : transcript[i] = r)

\* Fault: the client gets the verdict of the model call.
MutAnswer(t, how) ==
  /\ pc' = [pc EXCEPT ![t] = "done"]
  /\ answer' = [answer EXCEPT ![t] = verdict[t]]
  /\ backup' = [backup EXCEPT ![t] = NULL]
  /\ verdict' = [verdict EXCEPT ![t] = NULL]

\* The client is told how turn t ended, and its task is done.
Answer(t, how) ==
  /\ pc' = [pc EXCEPT ![t] = "done"]
  /\ answer' = [answer EXCEPT ![t] = how]
  /\ backup' = [backup EXCEPT ![t] = NULL]
  /\ verdict' = [verdict EXCEPT ![t] = NULL]

Flush(t, how) ==
  /\ pc' = [pc EXCEPT ![t] = "flushing"]
  /\ verdict' = [verdict EXCEPT ![t] = how]

\* Stopped, or the session deleted, before the turn began.
CancelEarly(t) ==
  /\ pc[t] = "created" /\ (t \in stopped \/ ~exists)
  /\ Answer(t, "cancelled")
  /\ UNCHANGED <<store, ends, memory, active, inputs, events, hist>>

\* What should be replaced is not in the transcript (any more).
Reject(t) ==
  /\ pc[t] = "created" /\ t \notin stopped /\ exists
  /\ target[t] # NULL /\ ~Occurs(target[t], transcript)
  /\ memory' = Loaded
  /\ Flush(t, "error")
  /\ UNCHANGED <<store, ends, active, inputs, backup, answer, events, hist>>

\* Fault: an edit truncates the transcript at once.
MutPrepare(t) ==
  /\ pc[t] = "created" /\ t \notin stopped /\ exists
  /\ target[t] # NULL => Occurs(target[t], transcript)
  /\ backup' = [backup EXCEPT ![t] = Loaded]
  /\ memory' = IF target[t] = NULL THEN Loaded ELSE DropLast(Loaded, CountFrom(target[t]))
  /\ transcript' = IF target[t] = NULL THEN transcript
                   ELSE DropLast(transcript, CountFrom(target[t]))
  /\ pc' = [pc EXCEPT ![t] = "thinking"]
  /\ UNCHANGED <<exists, raw, saved, ends, active, inputs, verdict, answer, events, hist>>

\* The context is cut back to what comes before the turns to be replaced.  Then
\* a submission is resolved, the ack sent and the worker thread started.
Prepare(t) ==
  /\ pc[t] = "created" /\ t \notin stopped /\ exists
  /\ target[t] # NULL => Occurs(target[t], transcript)
  /\ backup' = [backup EXCEPT ![t] = Loaded]
  /\ memory' = IF target[t] = NULL THEN Loaded ELSE DropLast(Loaded, CountFrom(target[t]))
  /\ pc' = [pc EXCEPT ![t] = "thinking"]
  /\ UNCHANGED <<store, ends, active, inputs, verdict, answer, events, hist>>

\* resolve_submission raises.
SubmissionFails(t) ==
  /\ pc[t] = "thinking"
  /\ memory' = backup[t]
  /\ Flush(t, "error")
  /\ UNCHANGED <<store, ends, active, inputs, backup, answer, events, hist>>

\* Worker thread: the message and its answer join the context, an event is
\* published (WebSocketEventBridge._on_event).
Work(t) ==
  /\ pc[t] = "thinking"
  /\ pc' = [pc EXCEPT ![t] = "worked"]
  /\ memory' = Append(memory, t)
  /\ ready' = Append(ready, [turn |-> t, item |-> "event"])
  /\ UNCHANGED <<store, ends, active, inputs, backup, verdict, answer, queue, hist>>

\* Worker thread: think returns, finds the cancel event set, or raises.
Return(t, how) ==
  /\ \/ how = "ok" /\ pc[t] = "worked"
     \/ how = "cancelled" /\ pc[t] \in Working /\ t \in stopped
     \/ how = "error" /\ pc[t] \in Working
  /\ pc' = [pc EXCEPT ![t] = "returned"]
  /\ ready' = Append(ready, [turn |-> t, item |-> how])
  /\ UNCHANGED <<store, ends, memory, active, inputs, backup, verdict, answer, queue, hist>>

-----------------------------------------------------------------------------
(* The event loop and the bridge *)

\* The next callback puts an event into the queue ...
Enqueue ==
  /\ ready # <<>> /\ Head(ready).item = "event"
  /\ ready' = Tail(ready)
  /\ queue' = Append(queue, Head(ready).turn)
  /\ UNCHANGED <<store, ends, memory, active, pc, inputs, backup, verdict, answer, hist>>

\* ... or wakes the task whose model call ended; a context that was given to a
\* call that raised is restored.
Wake ==
  /\ ready # <<>> /\ Head(ready).item \in Verdicts
  /\ ready' = Tail(ready)
  /\ Flush(Head(ready).turn, Head(ready).item)
  /\ memory' = IF Head(ready).item = "error" THEN backup[Head(ready).turn] ELSE memory
  /\ UNCHANGED <<store, ends, active, inputs, backup, answer, queue, hist>>

\* The consumer sends the first event of the queue.
Deliver ==
  /\ queue # <<>>
  /\ queue' = Tail(queue)
  /\ UNCHANGED <<store, ends, memory, active, pc, inputs, backup, verdict, answer, ready, hist>>

\* Fault: a turn that failed is answered without flush.
MutFlushed(t) ==
  /\ pc[t] = "flushing"
  /\ \/ (queue = <<>> \/ verdict[t] = "error") /\ UNCHANGED <<late, faults>>
     \/ queue # <<>> /\ Fault /\ late' = late \cup {t}

\* flush returns: the queue is empty, or five seconds are over.
Flushed(t) ==
  /\ pc[t] = "flushing"
  /\ \/ queue = <<>> /\ UNCHANGED <<late, faults>>
     \/ queue # <<>> /\ Fault /\ late' = late \cup {t}

-----------------------------------------------------------------------------
(* The end of a turn *)

\* Fault: nobody answers for a turn that failed after it was stopped.
MutFail(t) ==
  /\ Flushed(t) /\ verdict[t] = "error" /\ t \notin stopped
  /\ Answer(t, "error")
  /\ UNCHANGED <<store, ends, memory, active, inputs, events, piled, failed>>

Fail(t) ==
  /\ Flushed(t) /\ verdict[t] = "error"
  /\ Answer(t, "error")
  /\ UNCHANGED <<store, ends, memory, active, inputs, events, piled, failed>>

\* Fault: only what think reports counts, not a stop that came after it.
MutDiscarded(t) == verdict[t] = "cancelled"

Discarded(t) == verdict[t] = "cancelled" \/ t \in stopped

\* Fault: the context keeps the messages of the stopped turn.
MutDiscard(t) ==
  /\ Flushed(t) /\ verdict[t] # "error" /\ Discarded(t)
  /\ Answer(t, "cancelled")
  /\ UNCHANGED <<store, ends, memory, active, inputs, events, piled, failed>>

\* The user stopped the turn: its result is dropped, the context restored.
Discard(t) ==
  /\ Flushed(t) /\ verdict[t] # "error" /\ Discarded(t)
  /\ memory' = backup[t]
  /\ Answer(t, "cancelled")
  /\ UNCHANGED <<store, ends, active, inputs, events, piled, failed>>

\* The session was deleted meanwhile.
Orphan(t) ==
  /\ Flushed(t) /\ verdict[t] # "error" /\ ~Discarded(t) /\ ~exists
  /\ Answer(t, "cancelled")
  /\ UNCHANGED <<store, ends, memory, active, inputs, events, piled, failed>>

\* The checks are passed; until the writes are made the event loop does nothing
\* else, but other threads go on.
Proceed(t) ==
  /\ Flushed(t) /\ verdict[t] # "error" /\ ~Discarded(t) /\ exists
  /\ pc' = [pc EXCEPT ![t] = "saving"]
  /\ UNCHANGED <<store, ends, memory, active, inputs, backup, verdict, answer, events, piled,
                 failed>>

\* Turn u was stored before turn v.
Before(u, v) ==
  \E i, j \in DOMAIN saved : i < j /\ saved[i] = u /\ saved[j] = v

\* Fault: the row before is taken as well.
MutKept(r) ==
  {i \in DOMAIN transcript : \E j \in DOMAIN transcript : i < j /\ Before(transcript[j], r)}

\* truncate_turns_from: the rows before that of the turn replaced, be it there
\* or gone; rows are in the order in which they were stored.
Kept(r) == {i \in DOMAIN transcript : Before(transcript[i], r)}
Truncated(t) ==
  IF target[t] = NULL THEN transcript
  ELSE SubSeq(transcript, 1, Cardinality(Kept(target[t])))

Truncate(t) ==
  /\ pc[t] = "saving" /\ target[t] # NULL
  /\ transcript' = Truncated(t)
  /\ pc' = [pc EXCEPT ![t] = "cut"]
  /\ UNCHANGED <<exists, raw, saved, ends, memory, active, inputs, backup, verdict, answer,
                 events, hist>>

\* persist_memory: the row of a session deleted meanwhile is not updated.
Persist(t) ==
  /\ pc[t] = IF target[t] = NULL THEN "saving" ELSE "cut"
  /\ raw' = IF exists THEN memory ELSE raw
  /\ pc' = [pc EXCEPT ![t] = "persisted"]
  /\ UNCHANGED <<exists, transcript, saved, ends, memory, active, inputs, backup, verdict,
                 answer, events, hist>>

\* add_turn, of the message ...
AddUser(t) ==
  /\ pc[t] = "persisted"
  /\ transcript' = Append(transcript, t)
  /\ saved' = Append(saved, t)
  /\ pc' = [pc EXCEPT ![t] = "asked"]
  /\ UNCHANGED <<exists, raw, ends, memory, active, inputs, backup, verdict, answer, events,
                 hist>>

\* ... and of the answer.
AddAnswer(t) ==
  /\ pc[t] = "asked"
  /\ replied' = replied \cup {t}
  /\ pc' = [pc EXCEPT ![t] = "saved"]
  /\ UNCHANGED <<store, torn, memory, active, inputs, backup, verdict, answer, events, hist>>

\* Some writes of the turn are made, and some not.
Begun == Storing \ {"saving"}

\* The answer is spoken, if the message was, and sent.
Respond(t) ==
  /\ pc[t] = "saved"
  /\ Answer(t, "response")
  /\ UNCHANGED <<store, ends, memory, active, inputs, events, hist>>

\* A transaction fails, or a read or the speech after them: _run_turn answers with
\* an error and repairs nothing.
StoreFails(t) ==
  /\ pc[t] \in Storing \cup {"thinking", "saved"}
  /\ Fault
  /\ failed' = TRUE
  /\ torn' = IF pc[t] \in Begun THEN torn \cup {t} ELSE torn
  /\ Answer(t, "error")
  /\ UNCHANGED <<store, replied, memory, active, inputs, events, late, piled>>

\* Fault: the entry is removed whoever's it is.
MutCleanup(t) ==
  /\ pc[t] = "done"
  /\ pc' = [pc EXCEPT ![t] = "gone"]
  /\ active' = NULL
  /\ stopped' = stopped \ {t}
  /\ UNCHANGED <<store, ends, memory, target, waits, backup, verdict, answer, events, hist>>

\* The callback of a task that is done (_cleanup_run).
Cleanup(t) ==
  /\ pc[t] = "done"
  /\ pc' = [pc EXCEPT ![t] = "gone"]
  /\ active' = IF active = t THEN NULL ELSE active
  /\ stopped' = stopped \ {t}
  /\ UNCHANGED <<store, ends, memory, target, waits, backup, verdict, answer, events, hist>>

-----------------------------------------------------------------------------
(* Other threads, and the process *)

\* DELETE /{session_id}.  drop_cache is left out: the context of a session
\* that does not exist is not used again.
Delete ==
  /\ exists
  /\ Fault
  /\ exists' = FALSE
  /\ transcript' = <<>> /\ raw' = <<>>
  /\ UNCHANGED <<saved, ends, memory, active, pc, inputs, backup, verdict, answer, events, late,
                 piled, failed>>

\* The server is killed, between two writes of a turn if it so happens, and starts
\* again.
Restart ==
  /\ Fault
  /\ memory' = NULL /\ active' = NULL
  /\ pc' = [t \in Turns |-> IF pc[t] \in UnderWay \cup {"waiting", "done"}
                            THEN "lost" ELSE pc[t]]
  /\ ready' = <<>> /\ queue' = <<>>
  /\ stopped' = {}
  /\ waits' = [t \in Turns |-> NULL]
  /\ backup' = [t \in Turns |-> NULL]
  /\ verdict' = [t \in Turns |-> NULL]
  /\ torn' = torn \cup {t \in Turns : pc[t] \in Begun}
  /\ UNCHANGED <<store, replied, target, answer, late, piled, failed>>

-----------------------------------------------------------------------------
\* The event loop is not in the middle of the writes of a turn.
LoopFree == \A t \in Turns : pc[t] \notin Storing

\* What turn t does next on the event loop.
Step(t) ==
  \/ Truncate(t) \/ Persist(t) \/ AddUser(t) \/ AddAnswer(t)
  \/ /\ LoopFree
     /\ \/ Resume(t) \/ CancelEarly(t) \/ Reject(t) \/ Prepare(t) \/ Fail(t)
        \/ Discard(t) \/ Orphan(t) \/ Proceed(t) \/ Respond(t) \/ Cleanup(t)

Next ==
  \/ \E t \in Turns :
       \/ Step(t) \/ Work(t) \/ \E how \in Verdicts : Return(t, how)
       \/ (LoopFree \/ pc[t] \in Storing) /\ StoreFails(t)
       \/ LoopFree /\ (SubmissionFails(t) \/ Refuse(t))
       \/ LoopFree /\ \E r \in Turns \cup {NULL} : Accept(t, r) \/ Wait(t, r)
  \/ LoopFree /\ (Stop \/ Enqueue \/ Wake \/ Deliver)
  \/ Delete \/ Restart

Spec == Init /\ [][Next]_vars

\* The event loop runs what is ready and the model calls end: providers have
\* timeouts, and so has flush.
FairSpec ==
  /\ Spec
  /\ WF_vars(LoopFree /\ (Enqueue \/ Wake)) /\ WF_vars(LoopFree /\ Deliver)
  /\ \A t \in Turns : WF_vars(Step(t)) /\ WF_vars(\E how \in Verdicts : Return(t, how))

-----------------------------------------------------------------------------
(* Properties *)

\* No event of a turn reaches the client after the message that ends the turn,
\* unless the flush before it gave up (api/ws_bridge.py:42).
NoStray ==
  \A t \in Turns : answer[t] # NULL =>
    t \in late \/ (~Occurs(t, queue) /\ \A i \in DOMAIN ready : ready[i].turn # t)

\* Every entry of s is in u, in the same order.
Covers(s, u) ==
  \E f \in [DOMAIN s -> DOMAIN u] :
    \A i, j \in DOMAIN s : u[f[i]] = s[i] /\ (i <= j => f[j] - f[i] >= j - i)

\* When no turn is under way, the context of the next one, and the stored one, have
\* all the transcript shows: stops, errors, edits and a restart at any moment have
\* not taken from them more than from it.  They are the transcript, and all its
\* messages have their answers, unless the writes of a turn were cut short.  Turns
\* that overlapped and failed transactions are the exceptions.
ContextMatches ==
  exists /\ ~piled /\ ~failed /\ (\A t \in Turns : pc[t] \notin UnderWay)
    => /\ Covers(transcript, Loaded) /\ Covers(transcript, raw)
       /\ torn = {} =>
            /\ Loaded = transcript /\ raw = transcript
            /\ \A i \in DOMAIN transcript : transcript[i] \in replied

\* The last message about a turn says what became of it.  Message and answer are
\* stored before the client gets the answer; a turn that was refused, stopped,
\* orphaned or failed is never stored and leaves nothing in the contexts
\* (api/routers/ws.py:13).  What a failed transaction leaves behind is the exception.
Dropped(t) == answer[t] \in {"cancelled", "busy"} \/ (answer[t] = "error" /\ ~failed)
AnswersTrue ==
  \A t \in Turns :
    /\ answer[t] = "response" => Occurs(t, saved) /\ t \in replied
    /\ Dropped(t) => ~Occurs(t, saved) /\ ~Occurs(t, transcript)
    /\ Dropped(t) /\ exists /\ ~piled /\ ~failed => ~Occurs(t, Loaded) /\ ~Occurs(t, raw)

\* Turn t is asked to replace turn u: u itself, or a turn stored before u.
Replaces(t, u) == target[t] # NULL /\ (target[t] = u \/ Before(target[t], u))

\* A stored message only goes when the turn that is to replace it has been stored
\* (api/routers/ws.py:15): no stop, error or restart takes it, and no edit takes
\* more than it was asked to.  The exception is a turn that was cut short between
\* its writes, by the end of the process or by a failed transaction: the transcript
\* is cut before the replacement is stored, so that what it was to replace is lost.
ReplacedOnceStored ==
  exists =>
    \A i \in DOMAIN saved :
      \/ Occurs(saved[i], transcript)
      \/ \E t \in Turns :
           /\ Replaces(t, saved[i])
           /\ \/ Before(saved[i], t)
              \/ pc[t] \in {"cut", "persisted"}
              \/ t \in torn /\ answer[t] \in {NULL, "error"}

\* The entry of the session is the turn under way, so that a stop reaches it
\* (api/routers/ws.py:63); turns that overlap are the exception.
StopReaches == ~piled => \A t \in Turns : pc[t] \in UnderWay => active = t

\* A turn that is stopped before it is stored never is.
StopDiscards ==
  [][\A t \in Turns : t \in stopped /\ ~Occurs(t, saved) => ~Occurs(t, saved')]_vars

\* Every message that is not refused ends with a message to the client.
Owed(t) == pc[t] \in UnderWay \cup {"waiting"}
Answered == (\E t \in Turns : Owed(t)) ~> (\A t \in Turns : ~Owed(t))
=============================================================================
