------------------------- MODULE ConnectionManager -------------------------
(***************************************************************************)
(* The persistent SSH connection engine (APCE),                            *)
(* agents/akane/connection_manager.py with agents/akane/session_state.py.  *)
(*                                                                         *)
(* Request threads (FastAPI handlers, batch workers, discovery) and one    *)
(* monitor thread share a bounded pool of SSH sessions.  Three levels of   *)
(* locks protect it: `lock` (the reentrant table lock), one `targetLock`   *)
(* per host key, one `sessionLock` per session.  A `with self._lock:`      *)
(* block that waits for nothing is one atomic step guarded by LockFree;    *)
(* only the credential probe keeps `lock` across a wait, so only it ever   *)
(* owns `lock` in a state.  Passwords, output and latency are left out;    *)
(* wall-clock conditions are flags that the passing of time raises.        *)
(***************************************************************************)
EXTENDS Naturals, FiniteSets

CONSTANTS
  Callers,      \* request threads
  Monitor,      \* the background thread of _idle_monitor_loop
  Hosts,        \* host keys "host:port:username"
  Manual,       \* the host keys opened by hand: device_name is None
  Sids,         \* the session ids uuid4 can return (bound of the runs)
  MaxSessions,  \* MAX_CONCURRENT_SESSIONS
  MaxCalls,     \* bound: calls one request thread makes
  Ops,          \* the entry points the request threads use
  NULL

Threads == Callers \cup {Monitor}
AllOps == {"command", "open", "execute", "close", "probe", "shutdown"}

ASSUME ConfigAssumption ==
  /\ Monitor \notin Callers
  /\ Manual \subseteq Hosts
  /\ MaxSessions \in Nat
  /\ MaxCalls \in Nat
  /\ Ops \subseteq AllOps
  /\ NULL \notin Threads \cup Hosts \cup Sids \cup AllOps

VARIABLES
  status,       \* Sids -> session.status; "unused": not in _sessions yet
  hostOf,       \* Sids -> the host key of the session
  alive,        \* sessions whose shell.is_alive()
  idle,         \* sessions with idle_seconds() > IDLE_TIMEOUT_SECONDS
  expired,      \* sessions with is_expired()
  hostIndex,    \* _host_index
  pending,      \* _pending_hosts
  backoff,      \* host keys whose reconnect cooldown is running
  secrets,      \* sessions with an entry in _manual_secrets
  lock,         \* owner of _lock between two steps
  sessionLock,  \* Sids -> owner of _session_locks[sid]
  targetLock,   \* Hosts -> owner of _target_locks[key]
  pc, op, tgt, sid, retried,  \* where each thread is, and its locals
  queue,        \* sessions the thread has still to close
  calls,        \* calls made so far
  stopped       \* _monitor_stop

sessionVars == <<status, hostOf, alive, idle, expired>>
tableVars == <<hostIndex, pending, backoff, secrets>>
lockVars == <<lock, sessionLock, targetLock>>
localVars == <<op, tgt, retried>>
closeVars == <<queue, stopped>>
callVars == <<calls, closeVars>>
threadVars == <<pc, sid, localVars, callVars>>
vars == <<sessionVars, tableVars, lockVars, threadVars>>

Statuses == {"unused", "connected", "busy", "error", "closed"}
Labels == {"idle", "lookup", "target", "opencheck", "connect", "unpend",
           "exec", "wait", "reconnect", "run", "evict", "probe",
           "closing", "closewait", "closefin"}

TypeOK ==
  /\ status \in [Sids -> Statuses]
  /\ hostOf \in [Sids -> Hosts \cup {NULL}]
  /\ alive \in SUBSET Sids /\ idle \in SUBSET Sids /\ expired \in SUBSET Sids
  /\ hostIndex \in [Hosts -> Sids \cup {NULL}]
  /\ pending \in SUBSET Hosts /\ backoff \in SUBSET Hosts
  /\ secrets \in SUBSET Sids
  /\ lock \in Threads \cup {NULL}
  /\ sessionLock \in [Sids -> Threads \cup {NULL}]
  /\ targetLock \in [Hosts -> Threads \cup {NULL}]
  /\ pc \in [Threads -> Labels]
  /\ op \in [Threads -> AllOps \cup {NULL}]
  /\ tgt \in [Threads -> Hosts \cup {NULL}]
  /\ sid \in [Threads -> Sids \cup {NULL}]
  /\ retried \in [Threads -> BOOLEAN]
  /\ queue \in [Threads -> SUBSET Sids]
  /\ calls \in [Callers -> 0..MaxCalls]
  /\ stopped \in BOOLEAN

Init ==
  /\ status = [s \in Sids |-> "unused"]
  /\ hostOf = [s \in Sids |-> NULL]
  /\ alive = {} /\ idle = {} /\ expired = {}
  /\ hostIndex = [h \in Hosts |-> NULL]
  /\ pending = {} /\ backoff = {} /\ secrets = {}
  /\ lock = NULL
  /\ sessionLock = [s \in Sids |-> NULL]
  /\ targetLock = [h \in Hosts |-> NULL]
  /\ pc = [t \in Threads |-> "idle"]
  /\ op = [t \in Threads |-> NULL]
  /\ tgt = [t \in Threads |-> NULL]
  /\ sid = [t \in Threads |-> NULL]
  /\ retried = [t \in Threads |-> FALSE]
  /\ queue = [t \in Threads |-> {}]
  /\ calls = [t \in Callers |-> 0]
  /\ stopped = FALSE

-----------------------------------------------------------------------------
(* Helpers *)

At(t, label) == pc[t] = label
Goto(t, label) == pc' = [pc EXCEPT ![t] = label]
Stay(t, label) == Goto(t, label) /\ UNCHANGED localVars

\* The call is over: its locals are forgotten.
Return(t) ==
  /\ Goto(t, "idle")
  /\ sid' = [sid EXCEPT ![t] = NULL]
  /\ tgt' = [tgt EXCEPT ![t] = NULL]
  /\ op' = [op EXCEPT ![t] = NULL]
  /\ retried' = [retried EXCEPT ![t] = FALSE]

\* open_connection gave session s: the call ends, or runs its command on s.
UseSession(t, s) ==
  IF op[t] = "command"
  THEN sid' = [sid EXCEPT ![t] = s] /\ Stay(t, "exec")
  ELSE Return(t)

\* _lock is an RLock: free, or already held by this thread.
LockFree(t) == lock \in {NULL, t}

Known == {s \in Sids : status[s] # "unused"}
Active == {s \in Sids : status[s] \notin {"unused", "closed"}}
Stale(s) == s # NULL /\ status[s] \in {"closed", "error"}
Usable(s) == s # NULL /\ ~Stale(s) /\ s \notin expired

\* Fault: the entry is popped whichever session it names.
MutUnindex(s) ==
  hostIndex' = [h \in Hosts |-> IF h = hostOf[s] THEN NULL ELSE hostIndex[h]]

\* _evict_stale_session: drop the index entry if it still names this session.
Unindex(s) ==
  hostIndex' = [h \in Hosts |-> IF h = hostOf[s] /\ hostIndex[h] = s
                                THEN NULL ELSE hostIndex[h]]

Unlock(s) == sessionLock' = [sessionLock EXCEPT ![s] = NULL]
Lock(t, s) == sessionLock' = [sessionLock EXCEPT ![s] = t]
SetStatus(s, value) == status' = [status EXCEPT ![s] = value]

-----------------------------------------------------------------------------
(* Entry points *)

\* execute_for_device / execute_command, open_connection and
\* test_target_credentials (without explicit credentials) name a host.
BeginOnHost(t) ==
  /\ At(t, "idle") /\ calls[t] < MaxCalls
  /\ \E h \in Hosts, o \in Ops \cap {"command", "open", "probe"} :
       /\ op' = [op EXCEPT ![t] = o]
       /\ tgt' = [tgt EXCEPT ![t] = h]
       /\ Goto(t, CASE o = "command" -> "lookup"
                    [] o = "open" -> "target"
                    [] o = "probe" -> "probe")
  /\ calls' = [calls EXCEPT ![t] = @ + 1]
  /\ UNCHANGED <<sessionVars, tableVars, lockVars, sid, retried, closeVars>>

\* POST /connections/execute names a session the client has seen.
BeginOnSession(t) ==
  /\ At(t, "idle") /\ calls[t] < MaxCalls /\ "execute" \in Ops
  /\ \E s \in Known : sid' = [sid EXCEPT ![t] = s]
  /\ op' = [op EXCEPT ![t] = "execute"]
  /\ Goto(t, "exec")
  /\ calls' = [calls EXCEPT ![t] = @ + 1]
  /\ UNCHANGED <<sessionVars, tableVars, lockVars, tgt, retried, closeVars>>

\* close_connection closes one session, shutdown every one ever opened.
BeginClose(t) ==
  /\ At(t, "idle") /\ calls[t] < MaxCalls /\ LockFree(t)
  /\ \/ /\ "close" \in Ops
        /\ \E s \in Known : queue' = [queue EXCEPT ![t] = {s}]
        /\ op' = [op EXCEPT ![t] = "close"]
     \/ /\ "shutdown" \in Ops
        /\ queue' = [queue EXCEPT ![t] = Known]
        /\ op' = [op EXCEPT ![t] = "shutdown"]
  /\ Goto(t, "closing")
  /\ calls' = [calls EXCEPT ![t] = @ + 1]
  /\ UNCHANGED <<sessionVars, tableVars, lockVars, sid, tgt, retried, stopped>>

-----------------------------------------------------------------------------
(* execute_for_device / execute_command: choose the session *)

Lookup(t) ==
  /\ At(t, "lookup") /\ LockFree(t)
  /\ LET s == hostIndex[tgt[t]] IN
       /\ hostIndex' = [hostIndex EXCEPT ![tgt[t]] = IF Stale(s) THEN NULL ELSE @]
       /\ IF Usable(s)
          THEN UseSession(t, s)
          ELSE Stay(t, "target") /\ UNCHANGED sid
  /\ UNCHANGED <<sessionVars, pending, backoff, secrets, lockVars, callVars>>

-----------------------------------------------------------------------------
(* open_connection *)

AcquireTarget(t) ==
  /\ At(t, "target") /\ targetLock[tgt[t]] = NULL
  /\ targetLock' = [targetLock EXCEPT ![tgt[t]] = t]
  /\ Stay(t, "opencheck")
  /\ UNCHANGED <<sessionVars, tableVars, lock, sessionLock, sid, callVars>>

ReleaseTarget(t) == targetLock' = [targetLock EXCEPT ![tgt[t]] = NULL]

OpenBackoff(t) ==
  /\ At(t, "opencheck") /\ LockFree(t)
  /\ tgt[t] \in backoff
  /\ ReleaseTarget(t)
  /\ Return(t)
  /\ UNCHANGED <<sessionVars, tableVars, lock, sessionLock, callVars>>

\* The backoff test and the table test are two blocks under `lock`; only the
\* owner of the target lock starts a cooldown, so they are one step.
OpenReuse(t) ==
  /\ At(t, "opencheck") /\ LockFree(t)
  /\ tgt[t] \notin backoff
  /\ Usable(hostIndex[tgt[t]])
  /\ ReleaseTarget(t)
  /\ UseSession(t, hostIndex[tgt[t]])
  /\ UNCHANGED <<sessionVars, tableVars, lock, sessionLock, callVars>>

\* Fault: slots reserved by threads that are still dialling are not counted.
MutSlotFree(h) == Cardinality(Active) < MaxSessions

SlotFree(h) ==
  h \in pending \/ Cardinality(Active) + Cardinality(pending) < MaxSessions

\* A stale entry leaves the index; an expired session stays open and indexed.
OpenReserve(t) ==
  /\ At(t, "opencheck") /\ LockFree(t)
  /\ tgt[t] \notin backoff
  /\ ~Usable(hostIndex[tgt[t]])
  /\ hostIndex' = [hostIndex EXCEPT ![tgt[t]] = IF Stale(@) THEN NULL ELSE @]
  /\ \/ /\ SlotFree(tgt[t])
        /\ pending' = pending \cup {tgt[t]}
        /\ sid' = [sid EXCEPT ![t] = NULL]
        /\ Stay(t, "connect")
        /\ UNCHANGED targetLock
     \/ /\ ~SlotFree(tgt[t])
        /\ ReleaseTarget(t)
        /\ Return(t)
        /\ UNCHANGED pending
  /\ UNCHANGED <<sessionVars, backoff, secrets, lock, sessionLock, callVars>>

ConnectFail(t) ==
  /\ At(t, "connect") /\ LockFree(t)
  /\ backoff' = backoff \cup {tgt[t]}
  /\ Stay(t, "unpend")
  /\ UNCHANGED <<sessionVars, hostIndex, pending, secrets, lockVars, sid, callVars>>

ConnectOk(t) ==
  /\ At(t, "connect") /\ LockFree(t)
  /\ \E s \in Sids :
       /\ status[s] = "unused"
       /\ SetStatus(s, "connected")
       /\ hostOf' = [hostOf EXCEPT ![s] = tgt[t]]
       /\ alive' = alive \cup {s}
       /\ hostIndex' = [hostIndex EXCEPT ![tgt[t]] = s]
       /\ secrets' = IF tgt[t] \in Manual THEN secrets \cup {s} ELSE secrets
       /\ sid' = [sid EXCEPT ![t] = s]
  /\ backoff' = backoff \ {tgt[t]}
  /\ Stay(t, "unpend")
  /\ UNCHANGED <<idle, expired, pending, lockVars, callVars>>

\* Fault: the reservation is dropped on success only, not in a finally block.
MutUnpend(t) ==
  /\ At(t, "unpend") /\ LockFree(t)
  /\ pending' = IF sid[t] = NULL THEN pending ELSE pending \ {tgt[t]}
  /\ ReleaseTarget(t)
  /\ IF sid[t] = NULL THEN Return(t) ELSE UseSession(t, sid[t])
  /\ UNCHANGED <<sessionVars, hostIndex, backoff, secrets, lock, sessionLock, callVars>>

\* The finally block, then the end of `with target_lock`.
Unpend(t) ==
  /\ At(t, "unpend") /\ LockFree(t)
  /\ pending' = pending \ {tgt[t]}
  /\ ReleaseTarget(t)
  /\ IF sid[t] = NULL THEN Return(t) ELSE UseSession(t, sid[t])
  /\ UNCHANGED <<sessionVars, hostIndex, backoff, secrets, lock, sessionLock, callVars>>

-----------------------------------------------------------------------------
(* execute *)

\* execute returned: the probe leaves `with self._lock`.
EndExec(t) ==
  /\ Return(t)
  /\ lock' = IF lock = t THEN NULL ELSE lock

\* "Session sudah ditutup.": a device command is retried once on a new session.
FoundClosed(t) ==
  IF op[t] = "command" /\ ~retried[t]
  THEN /\ retried' = [retried EXCEPT ![t] = TRUE]
       /\ Goto(t, "target")
       /\ UNCHANGED <<lock, sid, op, tgt>>
  ELSE EndExec(t)

ExecLookup(t) ==
  /\ At(t, "exec") /\ LockFree(t)
  /\ \/ status[sid[t]] = "closed" /\ FoundClosed(t)
     \/ status[sid[t]] # "closed" /\ Stay(t, "wait") /\ UNCHANGED <<lock, sid>>
  /\ UNCHANGED <<sessionVars, tableVars, sessionLock, targetLock, callVars>>

\* Fault: the status is not looked at again under the session lock.
MutExecAcquire(t) ==
  /\ At(t, "wait") /\ sessionLock[sid[t]] = NULL
  /\ Lock(t, sid[t])
  /\ \/ /\ sid[t] \in alive
        /\ SetStatus(sid[t], "busy") /\ Stay(t, "run")
     \/ /\ sid[t] \notin alive
        /\ Stay(t, "reconnect") /\ UNCHANGED status
  /\ UNCHANGED <<lock, sid, hostOf, alive, idle, expired, tableVars, targetLock,
                 callVars>>

\* `with lock:` and the second look at the status under it.
ExecAcquire(t) ==
  /\ At(t, "wait") /\ sessionLock[sid[t]] = NULL
  /\ \/ /\ status[sid[t]] = "closed"
        /\ FoundClosed(t)
        /\ UNCHANGED <<status, sessionLock>>
     \/ /\ status[sid[t]] # "closed" /\ sid[t] \in alive
        /\ Lock(t, sid[t]) /\ SetStatus(sid[t], "busy") /\ Stay(t, "run")
        /\ UNCHANGED <<lock, sid>>
     \/ /\ status[sid[t]] # "closed" /\ sid[t] \notin alive
        /\ Lock(t, sid[t]) /\ Stay(t, "reconnect")
        /\ UNCHANGED <<lock, sid, status>>
  /\ UNCHANGED <<hostOf, alive, idle, expired, tableVars, targetLock, callVars>>

\* _reconnect_credentials reads _manual_secrets under `lock`.
CredentialsReadable(t) == hostOf[sid[t]] \in Manual => LockFree(t)

\* The session is alive again, but is not put back in the index.
ReconnectOk(t) ==
  /\ At(t, "reconnect") /\ CredentialsReadable(t)
  /\ alive' = alive \cup {sid[t]}
  /\ idle' = idle \ {sid[t]}
  /\ expired' = expired \ {sid[t]}
  /\ SetStatus(sid[t], "busy")
  /\ Stay(t, "run")
  /\ UNCHANGED <<hostOf, tableVars, lockVars, sid, callVars>>

ReconnectFail(t) ==
  /\ At(t, "reconnect") /\ CredentialsReadable(t)
  /\ SetStatus(sid[t], "error")
  /\ Stay(t, "evict")
  /\ UNCHANGED <<hostOf, alive, idle, expired, tableVars, lockVars, sid, callVars>>

\* record_command -> touch; then the session lock is released.
CommandOk(t) ==
  /\ At(t, "run")
  /\ SetStatus(sid[t], "connected")
  /\ idle' = idle \ {sid[t]}
  /\ Unlock(sid[t])
  /\ EndExec(t)
  /\ UNCHANGED <<hostOf, alive, expired, tableVars, targetLock, callVars>>

\* Fault: a failed command leaves a status the rest of the engine never tests.
MutCommandFail(t) ==
  /\ At(t, "run")
  /\ SetStatus(sid[t], "connection_timeout")
  /\ Stay(t, "evict")
  /\ UNCHANGED <<hostOf, alive, idle, expired, tableVars, lockVars, sid, callVars>>

CommandFail(t) ==
  /\ At(t, "run")
  /\ SetStatus(sid[t], "error")
  /\ Stay(t, "evict")
  /\ UNCHANGED <<hostOf, alive, idle, expired, tableVars, lockVars, sid, callVars>>

\* Fault: a failed session stays in the index.
MutEvictKeeps(t) ==
  /\ At(t, "evict") /\ LockFree(t)
  /\ Unlock(sid[t])
  /\ EndExec(t)
  /\ UNCHANGED <<sessionVars, tableVars, targetLock, callVars>>

\* Fault: the failure path returns with the session lock held.
MutEvictLocked(t) ==
  /\ At(t, "evict") /\ LockFree(t)
  /\ Unindex(sid[t])
  /\ EndExec(t)
  /\ UNCHANGED <<sessionVars, pending, backoff, secrets, sessionLock, targetLock,
                 callVars>>

\* The session lock is still held while this waits for `lock`.
Evict(t) ==
  /\ At(t, "evict") /\ LockFree(t)
  /\ Unindex(sid[t])
  /\ Unlock(sid[t])
  /\ EndExec(t)
  /\ UNCHANGED <<sessionVars, pending, backoff, secrets, targetLock, callVars>>

-----------------------------------------------------------------------------
(* test_target_credentials: `lock` stays held while execute runs *)

Probe(t) ==
  /\ At(t, "probe") /\ LockFree(t)
  /\ LET s == hostIndex[tgt[t]]
         held == s # NULL /\ status[s] # "closed" /\ s \notin expired
     IN  \/ /\ held
            /\ lock' = t
            /\ sid' = [sid EXCEPT ![t] = s]
            /\ Stay(t, "exec")
         \/ ~held /\ Return(t) /\ UNCHANGED lock
  /\ UNCHANGED <<sessionVars, tableVars, sessionLock, targetLock, callVars>>

-----------------------------------------------------------------------------
(* close_connection, for every session of the thread's queue *)

\* Fault: close_connection waits for the session inside `with self._lock`.
MutCloseNext(t) ==
  /\ At(t, "closing") /\ LockFree(t)
  /\ \E s \in queue[t] :
       /\ queue' = [queue EXCEPT ![t] = @ \ {s}]
       /\ IF status[s] = "closed"
          THEN UNCHANGED <<pc, sid, lock>>
          ELSE sid' = [sid EXCEPT ![t] = s] /\ Goto(t, "closewait") /\ lock' = t
  /\ UNCHANGED <<sessionVars, tableVars, sessionLock, targetLock, localVars, calls, stopped>>

CloseNext(t) ==
  /\ At(t, "closing") /\ LockFree(t)
  /\ \E s \in queue[t] :
       /\ queue' = [queue EXCEPT ![t] = @ \ {s}]
       /\ IF status[s] = "closed"
          THEN UNCHANGED <<pc, sid>>
          ELSE sid' = [sid EXCEPT ![t] = s] /\ Goto(t, "closewait")
  /\ UNCHANGED <<sessionVars, tableVars, lockVars, localVars, calls, stopped>>

\* `with lock:`, shell.close() and the status; a closed session has no age.
CloseLocked(t) ==
  /\ At(t, "closewait") /\ sessionLock[sid[t]] = NULL
  /\ SetStatus(sid[t], "closed")
  /\ alive' = alive \ {sid[t]}
  /\ idle' = idle \ {sid[t]}
  /\ expired' = expired \ {sid[t]}
  /\ Stay(t, "closefin")
  /\ UNCHANGED <<hostOf, tableVars, lockVars, sid, callVars>>

\* Fault: the password of a closed session stays in memory.
MutCloseFinish(t) ==
  /\ At(t, "closefin") /\ LockFree(t)
  /\ Unindex(sid[t])
  /\ Stay(t, "closing")
  /\ UNCHANGED <<sessionVars, pending, backoff, secrets, lockVars, sid, callVars>>

CloseFinish(t) ==
  /\ At(t, "closefin") /\ LockFree(t)
  /\ Unindex(sid[t])
  /\ secrets' = secrets \ {sid[t]}
  /\ Stay(t, "closing")
  /\ UNCHANGED <<sessionVars, pending, backoff, lockVars, sid, callVars>>

CloseDone(t) ==
  /\ At(t, "closing") /\ queue[t] = {}
  /\ stopped' = (stopped \/ op[t] = "shutdown")
  /\ Return(t)
  /\ UNCHANGED <<sessionVars, tableVars, lockVars, calls, queue>>

\* Fault: only CONNECTED sessions are candidates.
MutReapable == {s \in Sids : status[s] = "connected" /\ s \in idle \cup expired}

\* _check_idle_sessions picks its candidates in one block; the closes follow
\* later, on sessions that may have been used in between.
Reapable == {s \in Active : status[s] # "busy" /\ s \in idle \cup expired}

MonitorScan ==
  /\ At(Monitor, "idle") /\ ~stopped /\ LockFree(Monitor)
  /\ Reapable # {}                  \* an empty scan changes nothing
  /\ queue' = [queue EXCEPT ![Monitor] = Reapable]
  /\ Stay(Monitor, "closing")
  /\ UNCHANGED <<sessionVars, tableVars, lockVars, sid, calls, stopped>>

-----------------------------------------------------------------------------
(* Time and the network *)

GrowIdle(s) ==
  /\ s \in Active \ idle
  /\ idle' = idle \cup {s}
  /\ UNCHANGED <<status, hostOf, alive, expired, tableVars, lockVars, threadVars>>

GrowOld(s) ==
  /\ s \in Active \ expired
  /\ expired' = expired \cup {s}
  /\ UNCHANGED <<status, hostOf, alive, idle, tableVars, lockVars, threadVars>>

CoolDown(h) ==
  /\ h \in backoff
  /\ backoff' = backoff \ {h}
  /\ UNCHANGED <<sessionVars, hostIndex, pending, secrets, lockVars, threadVars>>

Disconnect(s) ==
  /\ s \in Active \cap alive
  /\ alive' = alive \ {s}
  /\ UNCHANGED <<status, hostOf, idle, expired, tableVars, lockVars, threadVars>>

-----------------------------------------------------------------------------
CloseStep(t) == CloseNext(t) \/ CloseLocked(t) \/ CloseFinish(t) \/ CloseDone(t)

ExecStep(t) ==
  \/ ExecLookup(t) \/ ExecAcquire(t) \/ ReconnectOk(t) \/ ReconnectFail(t)
  \/ CommandOk(t) \/ CommandFail(t) \/ Evict(t)

OpenStep(t) ==
  \/ AcquireTarget(t) \/ OpenBackoff(t) \/ OpenReuse(t) \/ OpenReserve(t)
  \/ ConnectFail(t) \/ ConnectOk(t) \/ Unpend(t)

\* A request thread goes on with the call it is in.
CallStep(t) == Lookup(t) \/ OpenStep(t) \/ ExecStep(t) \/ Probe(t) \/ CloseStep(t)

Next ==
  \/ \E t \in Callers :
       BeginOnHost(t) \/ BeginOnSession(t) \/ BeginClose(t) \/ CallStep(t)
  \/ MonitorScan
  \/ CloseStep(Monitor)
  \/ \E s \in Sids : GrowIdle(s) \/ GrowOld(s) \/ Disconnect(s)
  \/ \E h \in Hosts : CoolDown(h)

Spec == Init /\ [][Next]_vars

\* A started call keeps running, the monitor wakes every 30 s, time passes.
Fairness ==
  /\ \A t \in Callers : WF_vars(CallStep(t))
  /\ WF_vars(MonitorScan) /\ WF_vars(CloseStep(Monitor))
  /\ \A s \in Sids : WF_vars(GrowIdle(s))

FairSpec == Spec /\ Fairness
-----------------------------------------------------------------------------
(* Properties *)

\* Hosts a thread is dialling, with a reserved slot and no session yet.
Connecting == {tgt[t] : t \in {u \in Threads : pc[u] = "connect"}}
Opening == {tgt[t] : t \in {u \in Threads : pc[u] \in {"connect", "unpend"}}}

\* The sessions that are not CLOSED and the slots reserved for sessions still
\* being dialled never exceed MAX_CONCURRENT_SESSIONS together, although the
\* dialling happens outside every lock that counts them.
PoolBound == Cardinality(Active) + Cardinality(Connecting) <= MaxSessions

\* _pending_hosts holds exactly the hosts some thread is opening, and one host
\* is opened by one thread at a time: no reservation leaks on any error path.
ReservationsExact ==
  /\ pending = Opening
  /\ \A t, u \in Threads :
       /\ pc[t] \in {"opencheck", "connect", "unpend"}
       /\ pc[u] \in {"opencheck", "connect", "unpend"}
       /\ tgt[t] = tgt[u]
       => t = u

\* _host_index names a session of that very host, and a CLOSED or ERROR one
\* only while the thread that is to evict it is on its way to do so.
IndexFresh ==
  \A h \in Hosts : hostIndex[h] # NULL =>
    LET s == hostIndex[h] IN
      /\ hostOf[s] = h
      /\ status[s] = "closed" => \E t \in Threads : pc[t] = "closefin" /\ sid[t] = s
      /\ status[s] = "error" =>
           \E t \in Threads : pc[t] \in {"evict", "closefin"} /\ sid[t] = s

\* An entry leaves _host_index only when the session it names is dead: evicting
\* an old session never removes a newer valid session of the same host.
OnlyDeadUnindexed ==
  [][\A h \in Hosts :
       hostIndex[h] # NULL /\ hostIndex'[h] = NULL
         => status[hostIndex[h]] \in {"closed", "error"}]_vars

\* The password of a session opened by hand is there as long as a reconnect can
\* ask for it, and once the session is CLOSED only until its closer erases it.
SecretsSound ==
  /\ \A s \in Active : hostOf[s] \in Manual => s \in secrets
  /\ \A s \in secrets : status[s] = "closed" =>
       \E t \in Threads : pc[t] = "closefin" /\ sid[t] = s

\* Between two steps the table lock is owned by a credential probe that is inside
\* execute, and by nobody else: every way out of the probe releases it.
LockOnlyInProbe ==
  \A t \in Threads : lock = t <=>
    op[t] = "probe" /\ pc[t] \in {"exec", "wait", "reconnect", "run", "evict"}

\* The next step of t needs a lock that u owns.
AtTableLock(t) ==
  \/ pc[t] \in {"lookup", "opencheck", "connect", "unpend", "exec", "evict", "probe",
                "closing", "closefin"}
  \/ pc[t] = "reconnect" /\ hostOf[sid[t]] \in Manual
WaitsFor(t, u) ==
  /\ t # u
  /\ \/ AtTableLock(t) /\ lock = u
     \/ pc[t] \in {"wait", "closewait"} /\ sessionLock[sid[t]] = u
     \/ pc[t] = "target" /\ targetLock[tgt[t]] = u

\* The three levels of locks are ordered but for one path: whoever waits for a
\* thread that waits itself has a credential probe with the table lock before or
\* behind it.  Without probes the owner of a lock never waits, and every cycle
\* has two threads, a probe one of them.
ChainNeedsProbe ==
  \A t, u, v \in Threads : WaitsFor(t, u) /\ WaitsFor(u, v) =>
    \E p \in {u, v} : lock = p /\ op[p] = "probe"

\* Every call returns: no thread waits for ever for a lock.  (Without probes.)
CallsReturn == \A t \in Threads : pc[t] # "idle" ~> pc[t] = "idle"

\* When the requests stop, every session, ERROR ones that left the index
\* included, is reaped and its slot comes back.
PoolDrains == <>[](Active = {} /\ pending = {})

\* FINAL_ACCEPTANCE_AUDIT.md: the table lock is never held while a session lock
\* is awaited, so no two threads wait for each other.
NoLockCycle ==
  ~ \E t, u \in Threads :
      /\ lock = t /\ pc[t] = "wait"
      /\ sessionLock[sid[t]] = u /\ pc[u] = "evict"

\* The pool as its users see it: which sessions exist, which command runs where.
PoolLife == [s \in Sids |-> IF status[s] \in {"unused", "closed"} THEN status[s] ELSE "open"]
PoolRunning == {<<t, sid[t]>> : t \in {u \in Threads : pc[u] = "run"}}

Pool == INSTANCE SessionPool WITH
          Threads <- Threads, life <- PoolLife, running <- PoolRunning

\* The engine implements that pool: bounded, CLOSED for good, one command at a
\* time on a session, never closed under a running command.
ImplementsPool == Pool!Spec
=============================================================================
