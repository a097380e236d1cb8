---------------------- MODULE ConnectionManager_proofs ----------------------
(***************************************************************************)
(* Theorems about the connection engine: type correctness, the bound on    *)
(* the pool, exact reservations, and that the engine implements            *)
(* SessionPool.                                                            *)
(***************************************************************************)
EXTENDS ConnectionManager, FiniteSetTheorems, TLAPS

USE DEF At, Goto, Stay, LockFree, Stale, Usable, Unindex, Unlock, Lock, SetStatus,
        ReleaseTarget, vars, sessionVars, tableVars, lockVars, localVars, closeVars,
        callVars, threadVars

-----------------------------------------------------------------------------
(* Type correctness *)

AtHost == {"lookup", "target", "opencheck", "connect", "unpend", "probe"}
AtSession == {"exec", "wait", "reconnect", "run", "evict", "closewait", "closefin"}

\* The part of TypeOK about the locals of the threads.
LocalsType ==
  /\ pc \in [Threads -> Labels]
  /\ op \in [Threads -> AllOps \cup {NULL}]
  /\ tgt \in [Threads -> Hosts \cup {NULL}]
  /\ sid \in [Threads -> Sids \cup {NULL}]
  /\ retried \in [Threads -> BOOLEAN]

\* The locals a thread is about to use are set.
LocalsSet ==
  \A t \in Threads :
    /\ pc[t] \in AtHost => tgt[t] \in Hosts
    /\ pc[t] \in AtSession => sid[t] \in Sids
    /\ op[t] = "command" => tgt[t] \in Hosts

TypeInv == TypeOK /\ LocalsSet

LEMMA ReturnLocals ==
  ASSUME TypeInv, NEW t \in Threads, Return(t)
  PROVE  LocalsType' /\ LocalsSet'
BY ConfigAssumption DEF TypeInv, TypeOK, LocalsType, LocalsSet, Return, AtHost,
   AtSession, Labels, AllOps

LEMMA StayLocals ==
  ASSUME TypeInv, NEW t \in Threads, NEW label \in Labels, Stay(t, label),
         sid' = sid \/ \E s \in Sids \cup {NULL} : sid' = [sid EXCEPT ![t] = s],
         label \in AtHost => tgt[t] \in Hosts,
         label \in AtSession => sid'[t] \in Sids
  PROVE  LocalsType' /\ LocalsSet'
BY DEF TypeInv, TypeOK, LocalsType, LocalsSet, AtSession

LEMMA UseSessionLocals ==
  ASSUME TypeInv, NEW t \in Threads, NEW s \in Sids, UseSession(t, s)
  PROVE  LocalsType' /\ LocalsSet'
<1>1. CASE op[t] = "command"
  BY <1>1, StayLocals DEF UseSession, TypeInv, TypeOK, Labels, AtHost
<1>2. CASE op[t] # "command"
  BY <1>2, ReturnLocals DEF UseSession
<1> QED BY <1>1, <1>2

LEMMA FoundClosedLocals ==
  ASSUME TypeInv, NEW t \in Threads, FoundClosed(t)
  PROVE  LocalsType' /\ LocalsSet' /\ lock' \in Threads \cup {NULL}
<1>1. CASE op[t] = "command" /\ ~retried[t]
  BY <1>1 DEF FoundClosed, TypeInv, TypeOK, LocalsType, LocalsSet, Labels, AtHost,
     AtSession
<1>2. CASE ~(op[t] = "command" /\ ~retried[t])
  BY <1>2, ReturnLocals DEF FoundClosed, EndExec, TypeInv, TypeOK
<1> QED BY <1>1, <1>2

LEMMA TypeStep ==
  ASSUME TypeInv, [Next]_vars
  PROVE  TypeInv'
<1> USE ConfigAssumption DEF TypeInv, TypeOK, LocalsSet, AtHost, AtSession, Labels,
   Statuses, AllOps, Threads
<1>1. ASSUME NEW t \in Callers, BeginOnHost(t) PROVE TypeInv'
  BY <1>1 DEF BeginOnHost
<1>2. ASSUME NEW t \in Callers, BeginOnSession(t) PROVE TypeInv'
  BY <1>2 DEF BeginOnSession, Known
<1>3. ASSUME NEW t \in Callers, BeginClose(t) PROVE TypeInv'
  BY <1>3 DEF BeginClose, Known
<1>4. ASSUME NEW t \in Callers, Lookup(t) PROVE TypeInv'
<2>1. LocalsType' /\ LocalsSet'
  <3>1. CASE Usable(hostIndex[tgt[t]])
    BY <1>4, <3>1, UseSessionLocals DEF Lookup
  <3>2. CASE ~Usable(hostIndex[tgt[t]])
    BY <1>4, <3>2, StayLocals DEF Lookup
  <3> QED BY <3>1, <3>2
<2> QED BY <1>4, <2>1 DEF Lookup, LocalsType
<1>5. ASSUME NEW t \in Callers, AcquireTarget(t) PROVE TypeInv'
  BY <1>5 DEF AcquireTarget
<1>6. ASSUME NEW t \in Callers, OpenBackoff(t) PROVE TypeInv'
  BY <1>6, ReturnLocals DEF OpenBackoff, LocalsType
<1>7. ASSUME NEW t \in Callers, OpenReuse(t) PROVE TypeInv'
<2>1. LocalsType' /\ LocalsSet'
  BY <1>7, UseSessionLocals DEF OpenReuse
<2> QED BY <1>7, <2>1 DEF OpenReuse, LocalsType
<1>8. ASSUME NEW t \in Callers, OpenReserve(t) PROVE TypeInv'
<2>1. LocalsType' /\ LocalsSet'
  <3>1. CASE Stay(t, "connect") /\ sid' = [sid EXCEPT ![t] = NULL]
    BY <1>8, <3>1, StayLocals DEF OpenReserve
  <3>2. CASE Return(t)
    BY <1>8, <3>2, ReturnLocals DEF OpenReserve
  <3> QED BY <1>8, <3>1, <3>2 DEF OpenReserve
<2> QED BY <1>8, <2>1 DEF OpenReserve, LocalsType
<1>9. ASSUME NEW t \in Callers, ConnectFail(t) PROVE TypeInv'
  BY <1>9 DEF ConnectFail
<1>10. ASSUME NEW t \in Callers, ConnectOk(t) PROVE TypeInv'
  BY <1>10 DEF ConnectOk
<1>11. ASSUME NEW t \in Callers, Unpend(t) PROVE TypeInv'
<2>1. LocalsType' /\ LocalsSet'
  <3>1. CASE sid[t] = NULL
    BY <1>11, <3>1, ReturnLocals DEF Unpend
  <3>2. CASE sid[t] # NULL
    BY <1>11, <3>2, UseSessionLocals DEF Unpend
  <3> QED BY <3>1, <3>2
<2> QED BY <1>11, <2>1 DEF Unpend, LocalsType
<1>12. ASSUME NEW t \in Callers, ExecLookup(t) PROVE TypeInv'
<2>1. LocalsType' /\ LocalsSet' /\ lock' \in Threads \cup {NULL}
  <3>1. CASE FoundClosed(t)
    BY <1>12, <3>1, FoundClosedLocals
  <3>2. CASE Stay(t, "wait") /\ UNCHANGED <<lock, sid>>
    BY <1>12, <3>2, StayLocals DEF ExecLookup
  <3> QED BY <1>12, <3>1, <3>2 DEF ExecLookup
<2> QED BY <1>12, <2>1 DEF ExecLookup, LocalsType
<1>13. ASSUME NEW t \in Callers, ExecAcquire(t) PROVE TypeInv'
<2>1. LocalsType' /\ LocalsSet' /\ lock' \in Threads \cup {NULL}
  <3>1. CASE FoundClosed(t)
    BY <1>13, <3>1, FoundClosedLocals
  <3>2. CASE (Stay(t, "run") \/ Stay(t, "reconnect")) /\ UNCHANGED <<lock, sid>>
    BY <1>13, <3>2, StayLocals DEF ExecAcquire
  <3> QED BY <1>13, <3>1, <3>2 DEF ExecAcquire
<2> QED BY <1>13, <2>1 DEF ExecAcquire, LocalsType
<1>14. ASSUME NEW t \in Callers, ReconnectOk(t) PROVE TypeInv'
  BY <1>14 DEF ReconnectOk
<1>15. ASSUME NEW t \in Callers, ReconnectFail(t) PROVE TypeInv'
  BY <1>15 DEF ReconnectFail
<1>16. ASSUME NEW t \in Callers, CommandOk(t) PROVE TypeInv'
<2>1. LocalsType' /\ LocalsSet'
  BY <1>16, ReturnLocals DEF CommandOk, EndExec
<2> QED BY <1>16, <2>1 DEF CommandOk, EndExec, LocalsType
<1>17. ASSUME NEW t \in Callers, CommandFail(t) PROVE TypeInv'
  BY <1>17 DEF CommandFail
<1>18. ASSUME NEW t \in Callers, Evict(t) PROVE TypeInv'
<2>1. LocalsType' /\ LocalsSet'
  BY <1>18, ReturnLocals DEF Evict, EndExec
<2> QED BY <1>18, <2>1 DEF Evict, EndExec, LocalsType
<1>19. ASSUME NEW t \in Callers, Probe(t) PROVE TypeInv'
<2>1. LocalsType' /\ LocalsSet'
  <3>1. CASE Return(t)
    BY <1>19, <3>1, ReturnLocals
  <3>2. CASE Stay(t, "exec") /\ sid' = [sid EXCEPT ![t] = hostIndex[tgt[t]]] /\ hostIndex[tgt[t]] # NULL
    BY <1>19, <3>2, StayLocals DEF Probe
  <3> QED BY <1>19, <3>1, <3>2 DEF Probe
<2> QED BY <1>19, <2>1 DEF Probe, LocalsType
<1>20. ASSUME NEW t \in Threads, CloseNext(t) PROVE TypeInv'
  BY <1>20 DEF CloseNext
<1>21. ASSUME NEW t \in Threads, CloseLocked(t) PROVE TypeInv'
  BY <1>21 DEF CloseLocked
<1>22. ASSUME NEW t \in Threads, CloseFinish(t) PROVE TypeInv'
  BY <1>22 DEF CloseFinish
<1>23. ASSUME NEW t \in Threads, CloseDone(t) PROVE TypeInv'
  BY <1>23, ReturnLocals DEF CloseDone, LocalsType
<1>24. ASSUME MonitorScan PROVE TypeInv'
  BY <1>24 DEF MonitorScan, Reapable, Active
<1>25. ASSUME NEW s \in Sids, GrowIdle(s) PROVE TypeInv'
  BY <1>25 DEF GrowIdle, Active
<1>26. ASSUME NEW s \in Sids, GrowOld(s) PROVE TypeInv'
  BY <1>26 DEF GrowOld, Active
<1>27. ASSUME NEW s \in Sids, Disconnect(s) PROVE TypeInv'
  BY <1>27 DEF Disconnect, Active
<1>28. ASSUME NEW h \in Hosts, CoolDown(h) PROVE TypeInv'
  BY <1>28 DEF CoolDown
<1>29. CASE UNCHANGED vars
  BY <1>29
<1>30. QED
  BY <1>1, <1>2, <1>3, <1>4, <1>5, <1>6, <1>7, <1>8, <1>9, <1>10, <1>11, <1>12, <1>13,
     <1>14, <1>15, <1>16, <1>17, <1>18, <1>19, <1>20, <1>21, <1>22, <1>23, <1>24,
     <1>25, <1>26, <1>27, <1>28, <1>29 DEF Next, CallStep, OpenStep, ExecStep, CloseStep

LEMMA TypeInit == Init => TypeInv
<1>1. Init => TypeOK
  <2> SUFFICES ASSUME Init PROVE TypeOK
    OBVIOUS
  <2>1. status \in [Sids -> Statuses] /\ pc \in [Threads -> Labels]
    BY DEF Init, Statuses, Labels
  <2>2. calls \in [Callers -> 0..MaxCalls]
    BY ConfigAssumption DEF ConfigAssumption, Init
  <2>3. queue \in [Threads -> SUBSET Sids]
    BY DEF Init
  <2>4. retried \in [Threads -> BOOLEAN] /\ stopped \in BOOLEAN
    BY DEF Init
  <2> QED BY <2>1, <2>2, <2>3, <2>4 DEF Init, TypeOK
<1>2. Init => LocalsSet
  BY ConfigAssumption DEF ConfigAssumption, Init, LocalsSet, AtHost, AtSession, AllOps
<1> QED BY <1>1, <1>2 DEF TypeInv

\* Every variable keeps its type for every set of threads, hosts and sessions.
THEOREM TypeCorrect == Spec => []TypeOK
<1>1. Init => TypeInv
  BY TypeInit
<1>2. TypeInv /\ [Next]_vars => TypeInv'
  BY TypeStep
<1>3. TypeInv => TypeOK
  BY DEF TypeInv
<1>4. QED
  BY <1>1, <1>2, <1>3, PTL DEF Spec

-----------------------------------------------------------------------------
(* Who owns which lock *)

Holding == {"reconnect", "run", "evict"}
InOpen == {"opencheck", "connect", "unpend"}

\* A session lock is owned by the thread that is inside execute on that session.
SessionLockInv ==
  \A t \in Threads, s \in Sids :
    sessionLock[s] = t <=> pc[t] \in Holding /\ sid[t] = s

\* A target lock is owned by the thread that is inside open_connection.
TargetLockInv ==
  \A t \in Threads, h \in Hosts :
    targetLock[h] = t <=> pc[t] \in InOpen /\ tgt[t] = h

LEMMA SessionLockStep ==
  ASSUME TypeInv, SessionLockInv, [Next]_vars
  PROVE  SessionLockInv'
<1> USE ConfigAssumption DEF TypeInv, TypeOK, LocalsSet, AtHost, AtSession, Threads,
   SessionLockInv, Holding
<1>1. ASSUME NEW t \in Callers, BeginOnHost(t) PROVE SessionLockInv'
  BY <1>1 DEF BeginOnHost
<1>2. ASSUME NEW t \in Callers, BeginOnSession(t) PROVE SessionLockInv'
  BY <1>2 DEF BeginOnSession, Known
<1>3. ASSUME NEW t \in Callers, BeginClose(t) PROVE SessionLockInv'
  BY <1>3 DEF BeginClose, Known
<1>4. ASSUME NEW t \in Callers, Lookup(t) PROVE SessionLockInv'
  BY <1>4 DEF Lookup, UseSession, Return
<1>5. ASSUME NEW t \in Callers, AcquireTarget(t) PROVE SessionLockInv'
  BY <1>5 DEF AcquireTarget
<1>6. ASSUME NEW t \in Callers, OpenBackoff(t) PROVE SessionLockInv'
  BY <1>6 DEF OpenBackoff, Return
<1>7. ASSUME NEW t \in Callers, OpenReuse(t) PROVE SessionLockInv'
  BY <1>7 DEF OpenReuse, UseSession, Return
<1>8. ASSUME NEW t \in Callers, OpenReserve(t) PROVE SessionLockInv'
  BY <1>8 DEF OpenReserve, SlotFree, Return
<1>9. ASSUME NEW t \in Callers, ConnectFail(t) PROVE SessionLockInv'
  BY <1>9 DEF ConnectFail
<1>10. ASSUME NEW t \in Callers, ConnectOk(t) PROVE SessionLockInv'
  BY <1>10 DEF ConnectOk
<1>11. ASSUME NEW t \in Callers, Unpend(t) PROVE SessionLockInv'
  BY <1>11 DEF Unpend, UseSession, Return
<1>12. ASSUME NEW t \in Callers, ExecLookup(t) PROVE SessionLockInv'
  BY <1>12 DEF ExecLookup, FoundClosed, EndExec, Return
<1>13. ASSUME NEW t \in Callers, ExecAcquire(t) PROVE SessionLockInv'
  BY <1>13 DEF ExecAcquire, FoundClosed, EndExec, Return
<1>14. ASSUME NEW t \in Callers, ReconnectOk(t) PROVE SessionLockInv'
  BY <1>14 DEF ReconnectOk
<1>15. ASSUME NEW t \in Callers, ReconnectFail(t) PROVE SessionLockInv'
  BY <1>15 DEF ReconnectFail
<1>16. ASSUME NEW t \in Callers, CommandOk(t) PROVE SessionLockInv'
  BY <1>16 DEF CommandOk, EndExec, Return
<1>17. ASSUME NEW t \in Callers, CommandFail(t) PROVE SessionLockInv'
  BY <1>17 DEF CommandFail
<1>18. ASSUME NEW t \in Callers, Evict(t) PROVE SessionLockInv'
  BY <1>18 DEF Evict, EndExec, Return
<1>19. ASSUME NEW t \in Callers, Probe(t) PROVE SessionLockInv'
  BY <1>19 DEF Probe, Return
<1>20. ASSUME NEW t \in Threads, CloseNext(t) PROVE SessionLockInv'
  BY <1>20 DEF CloseNext
<1>21. ASSUME NEW t \in Threads, CloseLocked(t) PROVE SessionLockInv'
  BY <1>21 DEF CloseLocked
<1>22. ASSUME NEW t \in Threads, CloseFinish(t) PROVE SessionLockInv'
  BY <1>22 DEF CloseFinish
<1>23. ASSUME NEW t \in Threads, CloseDone(t) PROVE SessionLockInv'
  BY <1>23 DEF CloseDone, Return
<1>24. ASSUME MonitorScan PROVE SessionLockInv'
  BY <1>24 DEF MonitorScan, Reapable, Active
<1>25. ASSUME NEW s \in Sids, GrowIdle(s) PROVE SessionLockInv'
  BY <1>25 DEF GrowIdle, Active
<1>26. ASSUME NEW s \in Sids, GrowOld(s) PROVE SessionLockInv'
  BY <1>26 DEF GrowOld, Active
<1>27. ASSUME NEW s \in Sids, Disconnect(s) PROVE SessionLockInv'
  BY <1>27 DEF Disconnect, Active
<1>28. ASSUME NEW h \in Hosts, CoolDown(h) PROVE SessionLockInv'
  BY <1>28 DEF CoolDown
<1>29. CASE UNCHANGED vars
  BY <1>29
<1>30. QED
  BY <1>1, <1>2, <1>3, <1>4, <1>5, <1>6, <1>7, <1>8, <1>9, <1>10, <1>11, <1>12, <1>13,
     <1>14, <1>15, <1>16, <1>17, <1>18, <1>19, <1>20, <1>21, <1>22, <1>23, <1>24,
     <1>25, <1>26, <1>27, <1>28, <1>29 DEF Next, CallStep, OpenStep, ExecStep, CloseStep

LEMMA TargetLockStep ==
  ASSUME TypeInv, TargetLockInv, [Next]_vars
  PROVE  TargetLockInv'
<1> USE ConfigAssumption DEF TypeInv, TypeOK, LocalsSet, AtHost, AtSession, Threads,
   TargetLockInv, InOpen
<1>1. ASSUME NEW t \in Callers, BeginOnHost(t) PROVE TargetLockInv'
  BY <1>1 DEF BeginOnHost
<1>2. ASSUME NEW t \in Callers, BeginOnSession(t) PROVE TargetLockInv'
  BY <1>2 DEF BeginOnSession, Known
<1>3. ASSUME NEW t \in Callers, BeginClose(t) PROVE TargetLockInv'
  BY <1>3 DEF BeginClose, Known
<1>4. ASSUME NEW t \in Callers, Lookup(t) PROVE TargetLockInv'
  BY <1>4 DEF Lookup, UseSession, Return
<1>5. ASSUME NEW t \in Callers, AcquireTarget(t) PROVE TargetLockInv'
  BY <1>5 DEF AcquireTarget
<1>6. ASSUME NEW t \in Callers, OpenBackoff(t) PROVE TargetLockInv'
  BY <1>6 DEF OpenBackoff, Return
<1>7. ASSUME NEW t \in Callers, OpenReuse(t) PROVE TargetLockInv'
  BY <1>7 DEF OpenReuse, UseSession, Return
<1>8. ASSUME NEW t \in Callers, OpenReserve(t) PROVE TargetLockInv'
  BY <1>8 DEF OpenReserve, SlotFree, Return
<1>9. ASSUME NEW t \in Callers, ConnectFail(t) PROVE TargetLockInv'
  BY <1>9 DEF ConnectFail
<1>10. ASSUME NEW t \in Callers, ConnectOk(t) PROVE TargetLockInv'
  BY <1>10 DEF ConnectOk
<1>11. ASSUME NEW t \in Callers, Unpend(t) PROVE TargetLockInv'
  BY <1>11 DEF Unpend, UseSession, Return
<1>12. ASSUME NEW t \in Callers, ExecLookup(t) PROVE TargetLockInv'
  BY <1>12 DEF ExecLookup, FoundClosed, EndExec, Return
<1>13. ASSUME NEW t \in Callers, ExecAcquire(t) PROVE TargetLockInv'
  BY <1>13 DEF ExecAcquire, FoundClosed, EndExec, Return
<1>14. ASSUME NEW t \in Callers, ReconnectOk(t) PROVE TargetLockInv'
  BY <1>14 DEF ReconnectOk
<1>15. ASSUME NEW t \in Callers, ReconnectFail(t) PROVE TargetLockInv'
  BY <1>15 DEF ReconnectFail
<1>16. ASSUME NEW t \in Callers, CommandOk(t) PROVE TargetLockInv'
  BY <1>16 DEF CommandOk, EndExec, Return
<1>17. ASSUME NEW t \in Callers, CommandFail(t) PROVE TargetLockInv'
  BY <1>17 DEF CommandFail
<1>18. ASSUME NEW t \in Callers, Evict(t) PROVE TargetLockInv'
  BY <1>18 DEF Evict, EndExec, Return
<1>19. ASSUME NEW t \in Callers, Probe(t) PROVE TargetLockInv'
  BY <1>19 DEF Probe, Return
<1>20. ASSUME NEW t \in Threads, CloseNext(t) PROVE TargetLockInv'
  BY <1>20 DEF CloseNext
<1>21. ASSUME NEW t \in Threads, CloseLocked(t) PROVE TargetLockInv'
  BY <1>21 DEF CloseLocked
<1>22. ASSUME NEW t \in Threads, CloseFinish(t) PROVE TargetLockInv'
  BY <1>22 DEF CloseFinish
<1>23. ASSUME NEW t \in Threads, CloseDone(t) PROVE TargetLockInv'
  BY <1>23 DEF CloseDone, Return
<1>24. ASSUME MonitorScan PROVE TargetLockInv'
  BY <1>24 DEF MonitorScan, Reapable, Active
<1>25. ASSUME NEW s \in Sids, GrowIdle(s) PROVE TargetLockInv'
  BY <1>25 DEF GrowIdle, Active
<1>26. ASSUME NEW s \in Sids, GrowOld(s) PROVE TargetLockInv'
  BY <1>26 DEF GrowOld, Active
<1>27. ASSUME NEW s \in Sids, Disconnect(s) PROVE TargetLockInv'
  BY <1>27 DEF Disconnect, Active
<1>28. ASSUME NEW h \in Hosts, CoolDown(h) PROVE TargetLockInv'
  BY <1>28 DEF CoolDown
<1>29. CASE UNCHANGED vars
  BY <1>29
<1>30. QED
  BY <1>1, <1>2, <1>3, <1>4, <1>5, <1>6, <1>7, <1>8, <1>9, <1>10, <1>11, <1>12, <1>13,
     <1>14, <1>15, <1>16, <1>17, <1>18, <1>19, <1>20, <1>21, <1>22, <1>23, <1>24,
     <1>25, <1>26, <1>27, <1>28, <1>29 DEF Next, CallStep, OpenStep, ExecStep, CloseStep

-----------------------------------------------------------------------------
(* What the threads know about the sessions they handle *)

\* A session that the index, a queue or the locals of a thread name was opened.
KnownInv ==
  /\ \A t \in Threads :
       /\ pc[t] \in AtSession \cup {"connect", "unpend"} /\ sid[t] # NULL => sid[t] \in Known
       /\ queue[t] \subseteq Known
  /\ \A h \in Hosts : hostIndex[h] # NULL => hostIndex[h] \in Known

\* The owner of a session lock finds the session as it left it.
OwnerInv ==
  \A t \in Threads :
    /\ pc[t] = "run" => status[sid[t]] = "busy"
    /\ pc[t] = "reconnect" => status[sid[t]] \notin {"unused", "closed"}
    /\ pc[t] = "evict" => status[sid[t]] = "error"

\* A session status never returns to "unused".
LEMMA KnownGrows ==
  ASSUME TypeInv, [Next]_vars
  PROVE  Known \subseteq Known'
<1> USE ConfigAssumption DEF TypeInv, TypeOK, LocalsSet, AtHost, AtSession, Threads, Known
<1>1. ASSUME NEW t \in Callers, BeginOnHost(t) PROVE Known \subseteq Known'
  BY <1>1 DEF BeginOnHost
<1>2. ASSUME NEW t \in Callers, BeginOnSession(t) PROVE Known \subseteq Known'
  BY <1>2 DEF BeginOnSession
<1>3. ASSUME NEW t \in Callers, BeginClose(t) PROVE Known \subseteq Known'
  BY <1>3 DEF BeginClose
<1>4. ASSUME NEW t \in Callers, Lookup(t) PROVE Known \subseteq Known'
  BY <1>4 DEF Lookup, UseSession, Return
<1>5. ASSUME NEW t \in Callers, AcquireTarget(t) PROVE Known \subseteq Known'
  BY <1>5 DEF AcquireTarget
<1>6. ASSUME NEW t \in Callers, OpenBackoff(t) PROVE Known \subseteq Known'
  BY <1>6 DEF OpenBackoff, Return
<1>7. ASSUME NEW t \in Callers, OpenReuse(t) PROVE Known \subseteq Known'
  BY <1>7 DEF OpenReuse, UseSession, Return
<1>8. ASSUME NEW t \in Callers, OpenReserve(t) PROVE Known \subseteq Known'
  BY <1>8 DEF OpenReserve, SlotFree, Return
<1>9. ASSUME NEW t \in Callers, ConnectFail(t) PROVE Known \subseteq Known'
  BY <1>9 DEF ConnectFail
<1>10. ASSUME NEW t \in Callers, ConnectOk(t) PROVE Known \subseteq Known'
  BY <1>10 DEF ConnectOk
<1>11. ASSUME NEW t \in Callers, Unpend(t) PROVE Known \subseteq Known'
  BY <1>11 DEF Unpend, UseSession, Return
<1>12. ASSUME NEW t \in Callers, ExecLookup(t) PROVE Known \subseteq Known'
  BY <1>12 DEF ExecLookup, FoundClosed, EndExec, Return
<1>13. ASSUME NEW t \in Callers, ExecAcquire(t) PROVE Known \subseteq Known'
  BY <1>13 DEF ExecAcquire, FoundClosed, EndExec, Return
<1>14. ASSUME NEW t \in Callers, ReconnectOk(t) PROVE Known \subseteq Known'
  BY <1>14 DEF ReconnectOk
<1>15. ASSUME NEW t \in Callers, ReconnectFail(t) PROVE Known \subseteq Known'
  BY <1>15 DEF ReconnectFail
<1>16. ASSUME NEW t \in Callers, CommandOk(t) PROVE Known \subseteq Known'
  BY <1>16 DEF CommandOk, EndExec, Return
<1>17. ASSUME NEW t \in Callers, CommandFail(t) PROVE Known \subseteq Known'
  BY <1>17 DEF CommandFail
<1>18. ASSUME NEW t \in Callers, Evict(t) PROVE Known \subseteq Known'
  BY <1>18 DEF Evict, EndExec, Return
<1>19. ASSUME NEW t \in Callers, Probe(t) PROVE Known \subseteq Known'
  BY <1>19 DEF Probe, Return
<1>20. ASSUME NEW t \in Threads, CloseNext(t) PROVE Known \subseteq Known'
  BY <1>20 DEF CloseNext
<1>21. ASSUME NEW t \in Threads, CloseLocked(t) PROVE Known \subseteq Known'
  BY <1>21 DEF CloseLocked
<1>22. ASSUME NEW t \in Threads, CloseFinish(t) PROVE Known \subseteq Known'
  BY <1>22 DEF CloseFinish
<1>23. ASSUME NEW t \in Threads, CloseDone(t) PROVE Known \subseteq Known'
  BY <1>23 DEF CloseDone, Return
<1>24. ASSUME MonitorScan PROVE Known \subseteq Known'
  BY <1>24 DEF MonitorScan, Reapable, Active
<1>25. ASSUME NEW s \in Sids, GrowIdle(s) PROVE Known \subseteq Known'
  BY <1>25 DEF GrowIdle, Active
<1>26. ASSUME NEW s \in Sids, GrowOld(s) PROVE Known \subseteq Known'
  BY <1>26 DEF GrowOld, Active
<1>27. ASSUME NEW s \in Sids, Disconnect(s) PROVE Known \subseteq Known'
  BY <1>27 DEF Disconnect, Active
<1>28. ASSUME NEW h \in Hosts, CoolDown(h) PROVE Known \subseteq Known'
  BY <1>28 DEF CoolDown
<1>29. CASE UNCHANGED vars
  BY <1>29
<1>30. QED
  BY <1>1, <1>2, <1>3, <1>4, <1>5, <1>6, <1>7, <1>8, <1>9, <1>10, <1>11, <1>12, <1>13,
     <1>14, <1>15, <1>16, <1>17, <1>18, <1>19, <1>20, <1>21, <1>22, <1>23, <1>24,
     <1>25, <1>26, <1>27, <1>28, <1>29 DEF Next, CallStep, OpenStep, ExecStep, CloseStep

LEMMA KnownStep ==
  ASSUME TypeInv, KnownInv, [Next]_vars
  PROVE  KnownInv'
<1> USE ConfigAssumption DEF TypeInv, TypeOK, LocalsSet, AtHost, AtSession, Threads,
   KnownInv, Known
<1>1. ASSUME NEW t \in Callers, BeginOnHost(t) PROVE KnownInv'
  BY <1>1 DEF BeginOnHost
<1>2. ASSUME NEW t \in Callers, BeginOnSession(t) PROVE KnownInv'
  BY <1>2 DEF BeginOnSession
<1>3. ASSUME NEW t \in Callers, BeginClose(t) PROVE KnownInv'
  BY <1>3 DEF BeginClose
<1>4. ASSUME NEW t \in Callers, Lookup(t) PROVE KnownInv'
  BY <1>4 DEF Lookup, UseSession, Return
<1>5. ASSUME NEW t \in Callers, AcquireTarget(t) PROVE KnownInv'
  BY <1>5 DEF AcquireTarget
<1>6. ASSUME NEW t \in Callers, OpenBackoff(t) PROVE KnownInv'
  BY <1>6 DEF OpenBackoff, Return
<1>7. ASSUME NEW t \in Callers, OpenReuse(t) PROVE KnownInv'
  BY <1>7 DEF OpenReuse, UseSession, Return
<1>8. ASSUME NEW t \in Callers, OpenReserve(t) PROVE KnownInv'
  BY <1>8 DEF OpenReserve, Return
<1>9. ASSUME NEW t \in Callers, ConnectFail(t) PROVE KnownInv'
  BY <1>9 DEF ConnectFail
<1>10. ASSUME NEW t \in Callers, ConnectOk(t) PROVE KnownInv'
  BY <1>10 DEF ConnectOk
<1>11. ASSUME NEW t \in Callers, Unpend(t) PROVE KnownInv'
  BY <1>11 DEF Unpend, UseSession, Return
<1>12. ASSUME NEW t \in Callers, ExecLookup(t) PROVE KnownInv'
  BY <1>12 DEF ExecLookup, FoundClosed, EndExec, Return
<1>13. ASSUME NEW t \in Callers, ExecAcquire(t) PROVE KnownInv'
  BY <1>13 DEF ExecAcquire, FoundClosed, EndExec, Return
<1>14. ASSUME NEW t \in Callers, ReconnectOk(t) PROVE KnownInv'
  BY <1>14 DEF ReconnectOk
<1>15. ASSUME NEW t \in Callers, ReconnectFail(t) PROVE KnownInv'
  BY <1>15 DEF ReconnectFail
<1>16. ASSUME NEW t \in Callers, CommandOk(t) PROVE KnownInv'
  BY <1>16 DEF CommandOk, EndExec, Return
<1>17. ASSUME NEW t \in Callers, CommandFail(t) PROVE KnownInv'
  BY <1>17 DEF CommandFail
<1>18. ASSUME NEW t \in Callers, Evict(t) PROVE KnownInv'
  BY <1>18 DEF Evict, EndExec, Return
<1>19. ASSUME NEW t \in Callers, Probe(t) PROVE KnownInv'
  BY <1>19 DEF Probe, Return
<1>20. ASSUME NEW t \in Threads, CloseNext(t) PROVE KnownInv'
  BY <1>20 DEF CloseNext
<1>21. ASSUME NEW t \in Threads, CloseLocked(t) PROVE KnownInv'
  BY <1>21 DEF CloseLocked
<1>22. ASSUME NEW t \in Threads, CloseFinish(t) PROVE KnownInv'
  BY <1>22 DEF CloseFinish
<1>23. ASSUME NEW t \in Threads, CloseDone(t) PROVE KnownInv'
  BY <1>23 DEF CloseDone, Return
<1>24. ASSUME MonitorScan PROVE KnownInv'
  BY <1>24 DEF MonitorScan, Reapable, Active
<1>25. ASSUME NEW s \in Sids, GrowIdle(s) PROVE KnownInv'
  BY <1>25 DEF GrowIdle, Active
<1>26. ASSUME NEW s \in Sids, GrowOld(s) PROVE KnownInv'
  BY <1>26 DEF GrowOld, Active
<1>27. ASSUME NEW s \in Sids, Disconnect(s) PROVE KnownInv'
  BY <1>27 DEF Disconnect, Active
<1>28. ASSUME NEW h \in Hosts, CoolDown(h) PROVE KnownInv'
  BY <1>28 DEF CoolDown
<1>29. CASE UNCHANGED vars
  BY <1>29
<1>30. QED
  BY <1>1, <1>2, <1>3, <1>4, <1>5, <1>6, <1>7, <1>8, <1>9, <1>10, <1>11, <1>12, <1>13,
     <1>14, <1>15, <1>16, <1>17, <1>18, <1>19, <1>20, <1>21, <1>22, <1>23, <1>24,
     <1>25, <1>26, <1>27, <1>28, <1>29 DEF Next, CallStep, OpenStep, ExecStep, CloseStep

LEMMA OwnerStep ==
  ASSUME TypeInv, SessionLockInv, KnownInv, OwnerInv, [Next]_vars
  PROVE  OwnerInv'
<1> USE ConfigAssumption DEF TypeInv, TypeOK, LocalsSet, AtHost, AtSession, Threads,
   OwnerInv, SessionLockInv, Holding, KnownInv, Known
<1>1. ASSUME NEW t \in Callers, BeginOnHost(t) PROVE OwnerInv'
  BY <1>1 DEF BeginOnHost
<1>2. ASSUME NEW t \in Callers, BeginOnSession(t) PROVE OwnerInv'
  BY <1>2 DEF BeginOnSession
<1>3. ASSUME NEW t \in Callers, BeginClose(t) PROVE OwnerInv'
  BY <1>3 DEF BeginClose
<1>4. ASSUME NEW t \in Callers, Lookup(t) PROVE OwnerInv'
  BY <1>4 DEF Lookup, UseSession, Return
<1>5. ASSUME NEW t \in Callers, AcquireTarget(t) PROVE OwnerInv'
  BY <1>5 DEF AcquireTarget
<1>6. ASSUME NEW t \in Callers, OpenBackoff(t) PROVE OwnerInv'
  BY <1>6 DEF OpenBackoff, Return
<1>7. ASSUME NEW t \in Callers, OpenReuse(t) PROVE OwnerInv'
  BY <1>7 DEF OpenReuse, UseSession, Return
<1>8. ASSUME NEW t \in Callers, OpenReserve(t) PROVE OwnerInv'
  BY <1>8 DEF OpenReserve, Return
<1>9. ASSUME NEW t \in Callers, ConnectFail(t) PROVE OwnerInv'
  BY <1>9 DEF ConnectFail
<1>10. ASSUME NEW t \in Callers, ConnectOk(t) PROVE OwnerInv'
  BY <1>10 DEF ConnectOk
<1>11. ASSUME NEW t \in Callers, Unpend(t) PROVE OwnerInv'
  BY <1>11 DEF Unpend, UseSession, Return
<1>12. ASSUME NEW t \in Callers, ExecLookup(t) PROVE OwnerInv'
  BY <1>12 DEF ExecLookup, FoundClosed, EndExec, Return
<1>13. ASSUME NEW t \in Callers, ExecAcquire(t) PROVE OwnerInv'
  BY <1>13 DEF ExecAcquire, FoundClosed, EndExec, Return
<1>14. ASSUME NEW t \in Callers, ReconnectOk(t) PROVE OwnerInv'
  BY <1>14 DEF ReconnectOk
<1>15. ASSUME NEW t \in Callers, ReconnectFail(t) PROVE OwnerInv'
  BY <1>15 DEF ReconnectFail
<1>16. ASSUME NEW t \in Callers, CommandOk(t) PROVE OwnerInv'
  BY <1>16 DEF CommandOk, EndExec, Return
<1>17. ASSUME NEW t \in Callers, CommandFail(t) PROVE OwnerInv'
  BY <1>17 DEF CommandFail
<1>18. ASSUME NEW t \in Callers, Evict(t) PROVE OwnerInv'
  BY <1>18 DEF Evict, EndExec, Return
<1>19. ASSUME NEW t \in Callers, Probe(t) PROVE OwnerInv'
  BY <1>19 DEF Probe, Return
<1>20. ASSUME NEW t \in Threads, CloseNext(t) PROVE OwnerInv'
  BY <1>20 DEF CloseNext
<1>21. ASSUME NEW t \in Threads, CloseLocked(t) PROVE OwnerInv'
  BY <1>21 DEF CloseLocked
<1>22. ASSUME NEW t \in Threads, CloseFinish(t) PROVE OwnerInv'
  BY <1>22 DEF CloseFinish
<1>23. ASSUME NEW t \in Threads, CloseDone(t) PROVE OwnerInv'
  BY <1>23 DEF CloseDone, Return
<1>24. ASSUME MonitorScan PROVE OwnerInv'
  BY <1>24 DEF MonitorScan, Reapable, Active
<1>25. ASSUME NEW s \in Sids, GrowIdle(s) PROVE OwnerInv'
  BY <1>25 DEF GrowIdle, Active
<1>26. ASSUME NEW s \in Sids, GrowOld(s) PROVE OwnerInv'
  BY <1>26 DEF GrowOld, Active
<1>27. ASSUME NEW s \in Sids, Disconnect(s) PROVE OwnerInv'
  BY <1>27 DEF Disconnect, Active
<1>28. ASSUME NEW h \in Hosts, CoolDown(h) PROVE OwnerInv'
  BY <1>28 DEF CoolDown
<1>29. CASE UNCHANGED vars
  BY <1>29
<1>30. QED
  BY <1>1, <1>2, <1>3, <1>4, <1>5, <1>6, <1>7, <1>8, <1>9, <1>10, <1>11, <1>12, <1>13,
     <1>14, <1>15, <1>16, <1>17, <1>18, <1>19, <1>20, <1>21, <1>22, <1>23, <1>24,
     <1>25, <1>26, <1>27, <1>28, <1>29 DEF Next, CallStep, OpenStep, ExecStep, CloseStep

-----------------------------------------------------------------------------
(* The reservations *)

\* _pending_hosts holds the hosts whose target lock is owned by a dialling thread.
PendingInv ==
  \A h \in Hosts :
    h \in pending <=> targetLock[h] # NULL /\ pc[targetLock[h]] \in {"connect", "unpend"}

LEMMA PendingStep ==
  ASSUME TypeInv, TargetLockInv, PendingInv, [Next]_vars
  PROVE  PendingInv'
<1> USE ConfigAssumption DEF TypeInv, TypeOK, LocalsSet, AtHost, AtSession, Threads,
   PendingInv, TargetLockInv, InOpen
<1>1. ASSUME NEW t \in Callers, BeginOnHost(t) PROVE PendingInv'
  BY <1>1 DEF BeginOnHost
<1>2. ASSUME NEW t \in Callers, BeginOnSession(t) PROVE PendingInv'
  BY <1>2 DEF BeginOnSession
<1>3. ASSUME NEW t \in Callers, BeginClose(t) PROVE PendingInv'
  BY <1>3 DEF BeginClose
<1>4. ASSUME NEW t \in Callers, Lookup(t) PROVE PendingInv'
  BY <1>4 DEF Lookup, UseSession, Return
<1>5. ASSUME NEW t \in Callers, AcquireTarget(t) PROVE PendingInv'
  BY <1>5 DEF AcquireTarget
<1>6. ASSUME NEW t \in Callers, OpenBackoff(t) PROVE PendingInv'
  BY <1>6 DEF OpenBackoff, Return
<1>7. ASSUME NEW t \in Callers, OpenReuse(t) PROVE PendingInv'
  BY <1>7 DEF OpenReuse, UseSession, Return
<1>8. ASSUME NEW t \in Callers, OpenReserve(t) PROVE PendingInv'
  BY <1>8 DEF OpenReserve, Return
<1>9. ASSUME NEW t \in Callers, ConnectFail(t) PROVE PendingInv'
  BY <1>9 DEF ConnectFail
<1>10. ASSUME NEW t \in Callers, ConnectOk(t) PROVE PendingInv'
  BY <1>10 DEF ConnectOk
<1>11. ASSUME NEW t \in Callers, Unpend(t) PROVE PendingInv'
  BY <1>11 DEF Unpend, UseSession, Return
<1>12. ASSUME NEW t \in Callers, ExecLookup(t) PROVE PendingInv'
  BY <1>12 DEF ExecLookup, FoundClosed, EndExec, Return
<1>13. ASSUME NEW t \in Callers, ExecAcquire(t) PROVE PendingInv'
  BY <1>13 DEF ExecAcquire, FoundClosed, EndExec, Return
<1>14. ASSUME NEW t \in Callers, ReconnectOk(t) PROVE PendingInv'
  BY <1>14 DEF ReconnectOk
<1>15. ASSUME NEW t \in Callers, ReconnectFail(t) PROVE PendingInv'
  BY <1>15 DEF ReconnectFail
<1>16. ASSUME NEW t \in Callers, CommandOk(t) PROVE PendingInv'
  BY <1>16 DEF CommandOk, EndExec, Return
<1>17. ASSUME NEW t \in Callers, CommandFail(t) PROVE PendingInv'
  BY <1>17 DEF CommandFail
<1>18. ASSUME NEW t \in Callers, Evict(t) PROVE PendingInv'
  BY <1>18 DEF Evict, EndExec, Return
<1>19. ASSUME NEW t \in Callers, Probe(t) PROVE PendingInv'
  BY <1>19 DEF Probe, Return
<1>20. ASSUME NEW t \in Threads, CloseNext(t) PROVE PendingInv'
  BY <1>20 DEF CloseNext
<1>21. ASSUME NEW t \in Threads, CloseLocked(t) PROVE PendingInv'
  BY <1>21 DEF CloseLocked
<1>22. ASSUME NEW t \in Threads, CloseFinish(t) PROVE PendingInv'
  BY <1>22 DEF CloseFinish
<1>23. ASSUME NEW t \in Threads, CloseDone(t) PROVE PendingInv'
  BY <1>23 DEF CloseDone, Return
<1>24. ASSUME MonitorScan PROVE PendingInv'
  BY <1>24 DEF MonitorScan, Reapable, Active
<1>25. ASSUME NEW s \in Sids, GrowIdle(s) PROVE PendingInv'
  BY <1>25 DEF GrowIdle, Active
<1>26. ASSUME NEW s \in Sids, GrowOld(s) PROVE PendingInv'
  BY <1>26 DEF GrowOld, Active
<1>27. ASSUME NEW s \in Sids, Disconnect(s) PROVE PendingInv'
  BY <1>27 DEF Disconnect, Active
<1>28. ASSUME NEW h \in Hosts, CoolDown(h) PROVE PendingInv'
  BY <1>28 DEF CoolDown
<1>29. CASE UNCHANGED vars
  BY <1>29
<1>30. QED
  BY <1>1, <1>2, <1>3, <1>4, <1>5, <1>6, <1>7, <1>8, <1>9, <1>10, <1>11, <1>12, <1>13,
     <1>14, <1>15, <1>16, <1>17, <1>18, <1>19, <1>20, <1>21, <1>22, <1>23, <1>24,
     <1>25, <1>26, <1>27, <1>28, <1>29 DEF Next, CallStep, OpenStep, ExecStep, CloseStep

LEMMA PendingIsOpening ==
  ASSUME TypeInv, TargetLockInv, PendingInv
  PROVE  pending = Opening
<1>1. ASSUME NEW h \in pending PROVE h \in Opening
  <2>1. targetLock[h] \in Threads /\ tgt[targetLock[h]] = h
        /\ pc[targetLock[h]] \in {"connect", "unpend"}
    BY ConfigAssumption DEF TypeInv, TypeOK, TargetLockInv, InOpen, PendingInv
  <2> QED BY <2>1 DEF Opening
<1>2. ASSUME NEW t \in Threads, pc[t] \in {"connect", "unpend"}
      PROVE  tgt[t] \in pending
  <2>1. tgt[t] \in Hosts /\ targetLock[tgt[t]] = t
    BY <1>2 DEF TypeInv, LocalsSet, AtHost, TargetLockInv, InOpen
  <2> QED BY <1>2, <2>1, ConfigAssumption DEF PendingInv
<1>3. \A h : h \in Opening => h \in pending
  BY <1>2 DEF Opening
<1> QED BY <1>1, <1>3

LEMMA ReservationsFollow ==
  ASSUME TypeInv, TargetLockInv, PendingInv
  PROVE  ReservationsExact
<1>1. ASSUME NEW t \in Threads, NEW u \in Threads, pc[t] \in InOpen, pc[u] \in InOpen,
             tgt[t] = tgt[u]
      PROVE  t = u
  BY <1>1 DEF TypeInv, LocalsSet, AtHost, TargetLockInv, InOpen
<1> QED BY <1>1, PendingIsOpening, Zenon DEF ReservationsExact, InOpen

-----------------------------------------------------------------------------
(* The bound on the pool *)

PoolInv == IsFiniteSet(pending) /\ IsFiniteSet(Active) /\ PoolBound

LEMMA ConnectingPending ==
  ASSUME TypeInv, TargetLockInv, PendingInv
  PROVE  Connecting \subseteq pending
BY PendingIsOpening DEF Connecting, Opening

\* A step that adds no session, no reservation and no dialling host.
LEMMA PoolShrinks ==
  ASSUME TypeInv, TargetLockInv, PendingInv, PoolInv,
         Active' \subseteq Active, Connecting' \subseteq Connecting,
         pending' \subseteq pending
  PROVE  PoolInv'
<1>1. IsFiniteSet(Connecting)
  BY ConnectingPending, FS_Subset DEF PoolInv
<1>2. /\ IsFiniteSet(pending') /\ IsFiniteSet(Active') /\ IsFiniteSet(Connecting')
      /\ Cardinality(Active') <= Cardinality(Active)
      /\ Cardinality(Connecting') <= Cardinality(Connecting)
  BY <1>1, FS_Subset DEF PoolInv
<1>3. /\ Cardinality(Active) \in Nat /\ Cardinality(Active') \in Nat
      /\ Cardinality(Connecting) \in Nat /\ Cardinality(Connecting') \in Nat
  BY <1>1, <1>2, FS_CardinalityType DEF PoolInv
<1> QED BY <1>2, <1>3, ConfigAssumption DEF PoolInv, PoolBound, ConfigAssumption

\* OpenReserve counts every reservation, its own included, against the maximum.
LEMMA ReservePool ==
  ASSUME TypeInv, TargetLockInv, PendingInv, PoolInv, NEW t \in Callers, OpenReserve(t)
  PROVE  PoolInv'
<1>1. CASE ~SlotFree(tgt[t])
  <2>1. Active' = Active /\ pending' = pending
    BY <1>1 DEF OpenReserve, Active
  <2>2. Connecting' \subseteq Connecting
    BY <1>1 DEF OpenReserve, Connecting, Return, TypeInv, TypeOK
  <2> QED BY <2>1, <2>2, PoolShrinks
<1>2. CASE SlotFree(tgt[t])
  <2>1. tgt[t] \in Hosts /\ targetLock[tgt[t]] = t
    BY DEF OpenReserve, TypeInv, LocalsSet, AtHost, TargetLockInv, InOpen, Threads
  <2>2. tgt[t] \notin pending
    BY <2>1, ConfigAssumption DEF PendingInv, OpenReserve
  <2>3. /\ Active' = Active /\ pending' = pending \cup {tgt[t]}
        /\ Connecting' \subseteq Connecting \cup {tgt[t]}
    BY <1>2 DEF OpenReserve, Active, Connecting, TypeInv, TypeOK
  <2>4. Cardinality(Active) + Cardinality(pending) < MaxSessions
    BY <1>2, <2>2 DEF SlotFree
  <2>5. /\ IsFiniteSet(Connecting) /\ IsFiniteSet(Connecting \cup {tgt[t]})
        /\ Cardinality(Connecting \cup {tgt[t]}) <= Cardinality(Connecting) + 1
        /\ Cardinality(Connecting) <= Cardinality(pending)
        /\ Cardinality(Connecting) \in Nat
    BY ConnectingPending, FS_Subset, FS_AddElement, FS_CardinalityType DEF PoolInv
  <2>6. Cardinality(Connecting') <= Cardinality(Connecting) + 1
    <3>1. Cardinality(Connecting') <= Cardinality(Connecting \cup {tgt[t]})
          /\ Cardinality(Connecting') \in Nat
      BY <2>3, <2>5, FS_Subset, FS_CardinalityType
    <3> QED BY <3>1, <2>5, FS_CardinalityType
  <2>7. IsFiniteSet(pending')
    BY <2>3, FS_AddElement DEF PoolInv
  <2>8. /\ Cardinality(Active) \in Nat /\ Cardinality(pending) \in Nat
        /\ Cardinality(Connecting') \in Nat
    BY <2>3, <2>5, FS_Subset, FS_CardinalityType DEF PoolInv
  <2>9. PoolBound'
    BY <2>3, <2>4, <2>5, <2>6, <2>8, ConfigAssumption DEF PoolBound, ConfigAssumption
  <2> QED BY <2>3, <2>7, <2>9 DEF PoolInv
<1> QED BY <1>1, <1>2

\* ConnectOk turns the thread's own reservation into a session.
LEMMA ConnectPool ==
  ASSUME TypeInv, TargetLockInv, PendingInv, PoolInv, NEW t \in Callers, ConnectOk(t)
  PROVE  PoolInv'
<1>1. PICK s \in Sids : status[s] = "unused" /\ status' = [status EXCEPT ![s] = "connected"]
  BY DEF ConnectOk
<1>2. Active' = Active \cup {s} /\ s \notin Active
  BY <1>1 DEF Active, TypeInv, TypeOK
<1>3. tgt[t] \in Connecting
  BY DEF ConnectOk, Connecting, Threads
<1>4. Connecting' \subseteq Connecting \ {tgt[t]}
  <2> SUFFICES ASSUME NEW u \in Threads, pc'[u] = "connect"
               PROVE  tgt'[u] \in Connecting /\ tgt'[u] # tgt[t]
    BY DEF Connecting
  <2>1. u # t /\ pc[u] = "connect" /\ tgt'[u] = tgt[u]
    BY DEF ConnectOk, TypeInv, TypeOK, Threads
  <2>2. tgt[u] # tgt[t]
    BY <2>1 DEF ConnectOk, TypeInv, LocalsSet, AtHost, TargetLockInv, InOpen, Threads
  <2> QED BY <2>1, <2>2 DEF Connecting
<1>5. pending' = pending
  BY DEF ConnectOk
<1>6. /\ IsFiniteSet(Connecting)
      /\ Cardinality(Connecting \ {tgt[t]}) = Cardinality(Connecting) - 1
      /\ IsFiniteSet(Connecting \ {tgt[t]})
  BY <1>3, ConnectingPending, FS_Subset, FS_RemoveElement DEF PoolInv
<1>7. IsFiniteSet(Active') /\ Cardinality(Active') = Cardinality(Active) + 1
  BY <1>2, FS_AddElement DEF PoolInv
<1>8. /\ Cardinality(Connecting') <= Cardinality(Connecting) - 1
      /\ Cardinality(Connecting') \in Nat
  BY <1>4, <1>6, FS_Subset, FS_CardinalityType
<1>9. Cardinality(Active) \in Nat /\ Cardinality(Connecting) \in Nat
  BY <1>6, FS_CardinalityType DEF PoolInv
<1>10. PoolBound'
  BY <1>7, <1>8, <1>9, ConfigAssumption DEF PoolInv, PoolBound, ConfigAssumption
<1> QED BY <1>5, <1>7, <1>10 DEF PoolInv

LEMMA PoolStep ==
  ASSUME TypeInv, TargetLockInv, KnownInv, OwnerInv, PendingInv, PoolInv, [Next]_vars
  PROVE  PoolInv'
<1> USE ConfigAssumption DEF Threads
<1>1. ASSUME NEW t \in Callers, BeginOnHost(t) PROVE PoolInv'
  <2>1. Active' \subseteq Active /\ pending' \subseteq pending
    BY <1>1 DEF BeginOnHost, Active, TypeInv, TypeOK
  <2>2. Connecting' \subseteq Connecting
    BY <1>1 DEF BeginOnHost, Connecting, Threads, TypeInv, TypeOK
  <2> QED BY <2>1, <2>2, PoolShrinks
<1>2. ASSUME NEW t \in Callers, BeginOnSession(t) PROVE PoolInv'
  <2>1. Active' \subseteq Active /\ pending' \subseteq pending
    BY <1>2 DEF BeginOnSession, Active, TypeInv, TypeOK
  <2>2. Connecting' \subseteq Connecting
    BY <1>2 DEF BeginOnSession, Connecting, Threads, TypeInv, TypeOK
  <2> QED BY <2>1, <2>2, PoolShrinks
<1>3. ASSUME NEW t \in Callers, BeginClose(t) PROVE PoolInv'
  <2>1. Active' \subseteq Active /\ pending' \subseteq pending
    BY <1>3 DEF BeginClose, Active, TypeInv, TypeOK
  <2>2. Connecting' \subseteq Connecting
    BY <1>3 DEF BeginClose, Connecting, Threads, TypeInv, TypeOK
  <2> QED BY <2>1, <2>2, PoolShrinks
<1>4. ASSUME NEW t \in Callers, Lookup(t) PROVE PoolInv'
  <2>1. Active' \subseteq Active /\ pending' \subseteq pending
    BY <1>4 DEF Lookup, UseSession, Return, Active, TypeInv, TypeOK
  <2>2. Connecting' \subseteq Connecting
    BY <1>4 DEF Lookup, UseSession, Return, Connecting, Threads, TypeInv, TypeOK
  <2> QED BY <2>1, <2>2, PoolShrinks
<1>5. ASSUME NEW t \in Callers, AcquireTarget(t) PROVE PoolInv'
  <2>1. Active' \subseteq Active /\ pending' \subseteq pending
    BY <1>5 DEF AcquireTarget, Active, TypeInv, TypeOK
  <2>2. Connecting' \subseteq Connecting
    BY <1>5 DEF AcquireTarget, Connecting, Threads, TypeInv, TypeOK
  <2> QED BY <2>1, <2>2, PoolShrinks
<1>6. ASSUME NEW t \in Callers, OpenBackoff(t) PROVE PoolInv'
  <2>1. Active' \subseteq Active /\ pending' \subseteq pending
    BY <1>6 DEF OpenBackoff, Return, Active, TypeInv, TypeOK
  <2>2. Connecting' \subseteq Connecting
    BY <1>6 DEF OpenBackoff, Return, Connecting, Threads, TypeInv, TypeOK
  <2> QED BY <2>1, <2>2, PoolShrinks
<1>7. ASSUME NEW t \in Callers, OpenReuse(t) PROVE PoolInv'
  <2>1. Active' \subseteq Active /\ pending' \subseteq pending
    BY <1>7 DEF OpenReuse, UseSession, Return, Active, TypeInv, TypeOK
  <2>2. Connecting' \subseteq Connecting
    BY <1>7 DEF OpenReuse, UseSession, Return, Connecting, Threads, TypeInv, TypeOK
  <2> QED BY <2>1, <2>2, PoolShrinks
<1>8. ASSUME NEW t \in Callers, OpenReserve(t) PROVE PoolInv'
  BY <1>8, ReservePool
<1>9. ASSUME NEW t \in Callers, ConnectFail(t) PROVE PoolInv'
  <2>1. Active' \subseteq Active /\ pending' \subseteq pending
    BY <1>9 DEF ConnectFail, Active, TypeInv, TypeOK
  <2>2. Connecting' \subseteq Connecting
    BY <1>9 DEF ConnectFail, Connecting, Threads, TypeInv, TypeOK
  <2> QED BY <2>1, <2>2, PoolShrinks
<1>10. ASSUME NEW t \in Callers, ConnectOk(t) PROVE PoolInv'
  BY <1>10, ConnectPool
<1>11. ASSUME NEW t \in Callers, Unpend(t) PROVE PoolInv'
  <2>1. Active' \subseteq Active /\ pending' \subseteq pending
    BY <1>11 DEF Unpend, UseSession, Return, Active, TypeInv, TypeOK
  <2>2. Connecting' \subseteq Connecting
    BY <1>11 DEF Unpend, UseSession, Return, Connecting, Threads, TypeInv, TypeOK
  <2> QED BY <2>1, <2>2, PoolShrinks
<1>12. ASSUME NEW t \in Callers, ExecLookup(t) PROVE PoolInv'
  <2>1. Active' \subseteq Active /\ pending' \subseteq pending
    BY <1>12 DEF ExecLookup, FoundClosed, EndExec, Return, Active, TypeInv, TypeOK
  <2>2. Connecting' \subseteq Connecting
    BY <1>12 DEF ExecLookup, FoundClosed, EndExec, Return, Connecting, Threads,
       TypeInv, TypeOK
  <2> QED BY <2>1, <2>2, PoolShrinks
<1>13. ASSUME NEW t \in Callers, ExecAcquire(t) PROVE PoolInv'
  <2>1. Active' \subseteq Active /\ pending' \subseteq pending
    BY <1>13 DEF ExecAcquire, FoundClosed, EndExec, Return, Active, TypeInv, TypeOK,
       LocalsSet, AtSession, KnownInv, Known, OwnerInv, Threads
  <2>2. Connecting' \subseteq Connecting
    BY <1>13 DEF ExecAcquire, FoundClosed, EndExec, Return, Connecting, Threads,
       TypeInv, TypeOK
  <2> QED BY <2>1, <2>2, PoolShrinks
<1>14. ASSUME NEW t \in Callers, ReconnectOk(t) PROVE PoolInv'
  <2>1. Active' \subseteq Active /\ pending' \subseteq pending
    BY <1>14 DEF ReconnectOk, Active, TypeInv, TypeOK, LocalsSet, AtSession, KnownInv,
       Known, OwnerInv, Threads
  <2>2. Connecting' \subseteq Connecting
    BY <1>14 DEF ReconnectOk, Connecting, Threads, TypeInv, TypeOK
  <2> QED BY <2>1, <2>2, PoolShrinks
<1>15. ASSUME NEW t \in Callers, ReconnectFail(t) PROVE PoolInv'
  <2>1. Active' \subseteq Active /\ pending' \subseteq pending
    BY <1>15 DEF ReconnectFail, Active, TypeInv, TypeOK, LocalsSet, AtSession,
       KnownInv, Known, OwnerInv, Threads
  <2>2. Connecting' \subseteq Connecting
    BY <1>15 DEF ReconnectFail, Connecting, Threads, TypeInv, TypeOK
  <2> QED BY <2>1, <2>2, PoolShrinks
<1>16. ASSUME NEW t \in Callers, CommandOk(t) PROVE PoolInv'
  <2>1. Active' \subseteq Active /\ pending' \subseteq pending
    BY <1>16 DEF CommandOk, EndExec, Return, Active, TypeInv, TypeOK, LocalsSet,
       AtSession, KnownInv, Known, OwnerInv, Threads
  <2>2. Connecting' \subseteq Connecting
    BY <1>16 DEF CommandOk, EndExec, Return, Connecting, Threads, TypeInv, TypeOK
  <2> QED BY <2>1, <2>2, PoolShrinks
<1>17. ASSUME NEW t \in Callers, CommandFail(t) PROVE PoolInv'
  <2>1. Active' \subseteq Active /\ pending' \subseteq pending
    BY <1>17 DEF CommandFail, Active, TypeInv, TypeOK, LocalsSet, AtSession, KnownInv,
       Known, OwnerInv, Threads
  <2>2. Connecting' \subseteq Connecting
    BY <1>17 DEF CommandFail, Connecting, Threads, TypeInv, TypeOK
  <2> QED BY <2>1, <2>2, PoolShrinks
<1>18. ASSUME NEW t \in Callers, Evict(t) PROVE PoolInv'
  <2>1. Active' \subseteq Active /\ pending' \subseteq pending
    BY <1>18 DEF Evict, EndExec, Return, Active, TypeInv, TypeOK
  <2>2. Connecting' \subseteq Connecting
    BY <1>18 DEF Evict, EndExec, Return, Connecting, Threads, TypeInv, TypeOK
  <2> QED BY <2>1, <2>2, PoolShrinks
<1>19. ASSUME NEW t \in Callers, Probe(t) PROVE PoolInv'
  <2>1. Active' \subseteq Active /\ pending' \subseteq pending
    BY <1>19 DEF Probe, Return, Active, TypeInv, TypeOK
  <2>2. Connecting' \subseteq Connecting
    BY <1>19 DEF Probe, Return, Connecting, Threads, TypeInv, TypeOK
  <2> QED BY <2>1, <2>2, PoolShrinks
<1>20. ASSUME NEW t \in Threads, CloseNext(t) PROVE PoolInv'
  <2>1. Active' \subseteq Active /\ pending' \subseteq pending
    BY <1>20 DEF CloseNext, Active, TypeInv, TypeOK
  <2>2. Connecting' \subseteq Connecting
    BY <1>20 DEF CloseNext, Connecting, Threads, TypeInv, TypeOK
  <2> QED BY <2>1, <2>2, PoolShrinks
<1>21. ASSUME NEW t \in Threads, CloseLocked(t) PROVE PoolInv'
  <2>1. Active' \subseteq Active /\ pending' \subseteq pending
    BY <1>21 DEF CloseLocked, Active, TypeInv, TypeOK
  <2>2. Connecting' \subseteq Connecting
    BY <1>21 DEF CloseLocked, Connecting, Threads, TypeInv, TypeOK
  <2> QED BY <2>1, <2>2, PoolShrinks
<1>22. ASSUME NEW t \in Threads, CloseFinish(t) PROVE PoolInv'
  <2>1. Active' \subseteq Active /\ pending' \subseteq pending
    BY <1>22 DEF CloseFinish, Active, TypeInv, TypeOK
  <2>2. Connecting' \subseteq Connecting
    BY <1>22 DEF CloseFinish, Connecting, Threads, TypeInv, TypeOK
  <2> QED BY <2>1, <2>2, PoolShrinks
<1>23. ASSUME NEW t \in Threads, CloseDone(t) PROVE PoolInv'
  <2>1. Active' \subseteq Active /\ pending' \subseteq pending
    BY <1>23 DEF CloseDone, Return, Active, TypeInv, TypeOK
  <2>2. Connecting' \subseteq Connecting
    BY <1>23 DEF CloseDone, Return, Connecting, Threads, TypeInv, TypeOK
  <2> QED BY <2>1, <2>2, PoolShrinks
<1>24. ASSUME MonitorScan PROVE PoolInv'
  <2>1. Active' \subseteq Active /\ pending' \subseteq pending
    BY <1>24 DEF MonitorScan, Active, TypeInv, TypeOK
  <2>2. Connecting' \subseteq Connecting
    BY <1>24 DEF MonitorScan, Connecting, Threads, TypeInv, TypeOK
  <2> QED BY <2>1, <2>2, PoolShrinks
<1>25. ASSUME NEW s \in Sids, GrowIdle(s) PROVE PoolInv'
  <2>1. Active' \subseteq Active /\ pending' \subseteq pending
    BY <1>25 DEF GrowIdle, Active, TypeInv, TypeOK
  <2>2. Connecting' \subseteq Connecting
    BY <1>25 DEF GrowIdle, Connecting, Threads, TypeInv, TypeOK
  <2> QED BY <2>1, <2>2, PoolShrinks
<1>26. ASSUME NEW s \in Sids, GrowOld(s) PROVE PoolInv'
  <2>1. Active' \subseteq Active /\ pending' \subseteq pending
    BY <1>26 DEF GrowOld, Active, TypeInv, TypeOK
  <2>2. Connecting' \subseteq Connecting
    BY <1>26 DEF GrowOld, Connecting, Threads, TypeInv, TypeOK
  <2> QED BY <2>1, <2>2, PoolShrinks
<1>27. ASSUME NEW s \in Sids, Disconnect(s) PROVE PoolInv'
  <2>1. Active' \subseteq Active /\ pending' \subseteq pending
    BY <1>27 DEF Disconnect, Active, TypeInv, TypeOK
  <2>2. Connecting' \subseteq Connecting
    BY <1>27 DEF Disconnect, Connecting, Threads, TypeInv, TypeOK
  <2> QED BY <2>1, <2>2, PoolShrinks
<1>28. ASSUME NEW h \in Hosts, CoolDown(h) PROVE PoolInv'
  <2>1. Active' \subseteq Active /\ pending' \subseteq pending
    BY <1>28 DEF CoolDown, Active, TypeInv, TypeOK
  <2>2. Connecting' \subseteq Connecting
    BY <1>28 DEF CoolDown, Connecting, Threads, TypeInv, TypeOK
  <2> QED BY <2>1, <2>2, PoolShrinks
<1>29. CASE UNCHANGED vars
  <2>1. Active' = Active /\ pending' = pending /\ Connecting' = Connecting
    BY <1>29 DEF Active, Connecting
  <2> QED BY <2>1, PoolShrinks
<1>30. QED
  BY <1>1, <1>2, <1>3, <1>4, <1>5, <1>6, <1>7, <1>8, <1>9, <1>10, <1>11, <1>12, <1>13,
     <1>14, <1>15, <1>16, <1>17, <1>18, <1>19, <1>20, <1>21, <1>22, <1>23, <1>24,
     <1>25, <1>26, <1>27, <1>28, <1>29 DEF Next, CallStep, OpenStep, ExecStep, CloseStep

-----------------------------------------------------------------------------
(* The inductive invariant, and what follows from it *)

SafeInv ==
  /\ TypeInv /\ SessionLockInv /\ TargetLockInv
  /\ KnownInv /\ OwnerInv /\ PendingInv /\ PoolInv

LEMMA SafeInit == Init => SafeInv
<1> SUFFICES ASSUME Init PROVE SafeInv
  OBVIOUS
<1>1. TypeInv
  BY TypeInit
<1>2. SessionLockInv /\ TargetLockInv
  BY ConfigAssumption DEF ConfigAssumption, Init, SessionLockInv, TargetLockInv,
     Holding, InOpen
<1>3. KnownInv /\ OwnerInv /\ PendingInv
  BY DEF Init, KnownInv, OwnerInv, PendingInv, AtSession, Known
<1>4. Active = {} /\ Connecting = {} /\ pending = {}
  BY DEF Init, Active, Connecting
<1>5. PoolInv
  BY <1>4, FS_EmptySet, ConfigAssumption DEF PoolInv, PoolBound, ConfigAssumption
<1> QED BY <1>1, <1>2, <1>3, <1>5 DEF SafeInv

LEMMA SafeStep == SafeInv /\ [Next]_vars => SafeInv'
<1> SUFFICES ASSUME SafeInv, [Next]_vars PROVE SafeInv'
  OBVIOUS
<1>1. TypeInv' /\ SessionLockInv' /\ TargetLockInv'
  BY TypeStep, SessionLockStep, TargetLockStep DEF SafeInv
<1>2. KnownInv' /\ OwnerInv' /\ PendingInv' /\ PoolInv'
  BY KnownStep, OwnerStep, PendingStep, PoolStep DEF SafeInv
<1> QED BY <1>1, <1>2 DEF SafeInv

LEMMA Safe == Spec => []SafeInv
BY SafeInit, SafeStep, PTL DEF Spec

\* The sessions that are open or being dialled never exceed MaxSessions,
\* whatever the number of threads, hosts and calls.
THEOREM PoolBounded == Spec => []PoolBound
<1>1. SafeInv => PoolBound
  BY DEF SafeInv, PoolInv
<1> QED BY Safe, <1>1, PTL

\* _pending_hosts is exact, and a host is opened by one thread at a time.
THEOREM ReservationsSound == Spec => []ReservationsExact
<1>1. SafeInv => ReservationsExact
  BY ReservationsFollow DEF SafeInv
<1> QED BY Safe, <1>1, PTL

-----------------------------------------------------------------------------
(* The engine implements SessionPool *)

\* A step that starts or ends no command and opens or closes no session.
Quiet ==
  /\ \A u \in Threads : /\ pc'[u] = "run" <=> pc[u] = "run"
                        /\ pc[u] = "run" => sid'[u] = sid[u]
  /\ \A s \in Sids : /\ status'[s] = "unused" <=> status[s] = "unused"
                     /\ status'[s] = "closed" <=> status[s] = "closed"

LEMMA QuietStutters ==
  ASSUME Quiet
  PROVE  UNCHANGED Pool!poolVars
<1>1. PoolLife' = PoolLife
  BY DEF Quiet, PoolLife
<1>2. PoolRunning' = PoolRunning
  BY DEF Quiet, PoolRunning
<1> QED BY <1>1, <1>2 DEF Pool!poolVars

\* A command starts on an open session that runs no other command.
LEMMA StartMaps ==
  ASSUME SafeInv, NEW t \in Threads,
         pc[t] # "run", pc' = [pc EXCEPT ![t] = "run"], sid' = sid, sid[t] \in Sids,
         status[sid[t]] \notin {"unused", "closed"}, SetStatus(sid[t], "busy"),
         sessionLock[sid[t]] \in {NULL, t}
  PROVE  Pool!Next
<1> DEFINE s == sid[t]
<1>1. PoolLife' = PoolLife
  BY DEF PoolLife, SafeInv, TypeInv, TypeOK
<1>2. PoolRunning' = PoolRunning \cup {<<t, s>>}
  BY DEF PoolRunning, SafeInv, TypeInv, TypeOK
<1>3. ASSUME NEW u \in Threads PROVE <<u, s>> \notin PoolRunning
  <2>1. ~ (pc[u] = "run" /\ sid[u] = s)
    BY ConfigAssumption DEF SafeInv, SessionLockInv, Holding, ConfigAssumption
  <2> QED BY <2>1 DEF PoolRunning
<1>4. PoolLife[s] = "open"
  BY DEF PoolLife
<1>5. Pool!Start(t, s)
  BY <1>1, <1>2, <1>3, <1>4 DEF Pool!Start, Pool!Free
<1> QED BY <1>5 DEF Pool!Next

\* A command that ends leaves the session open.
LEMMA FinishMaps ==
  ASSUME SafeInv, NEW t \in Threads, NEW label \in Labels \ {"run"},
         NEW value \in {"connected", "error"},
         pc[t] = "run", pc' = [pc EXCEPT ![t] = label],
         \A u \in Threads \ {t} : sid'[u] = sid[u], SetStatus(sid[t], value)
  PROVE  Pool!Next
<1> DEFINE s == sid[t]
<1>1. s \in Sids /\ status[s] = "busy"
  BY DEF SafeInv, TypeInv, LocalsSet, AtSession, OwnerInv
<1>2. PoolLife' = PoolLife
  BY <1>1 DEF PoolLife, SafeInv, TypeInv, TypeOK
<1>3. <<t, s>> \in PoolRunning
  BY DEF PoolRunning
<1>4. ASSUME NEW u \in Threads PROVE pc'[u] = "run" <=> u # t /\ pc[u] = "run"
  BY DEF SafeInv, TypeInv, TypeOK
<1>5. PoolRunning' = {<<u, sid[u]>> : u \in {v \in Threads \ {t} : pc[v] = "run"}}
  BY <1>4 DEF PoolRunning
<1>6. PoolRunning' = PoolRunning \ {<<t, s>>}
  BY <1>5 DEF PoolRunning
<1>7. Pool!Finish(t, s)
  BY <1>2, <1>3, <1>6 DEF Pool!Finish
<1> QED BY <1>1, <1>7 DEF Pool!Next

LEMMA ConnectMaps ==
  ASSUME SafeInv, NEW t \in Callers, ConnectOk(t)
  PROVE  Pool!Next
<1>1. PICK s \in Sids : status[s] = "unused" /\ status' = [status EXCEPT ![s] = "connected"]
  BY DEF ConnectOk
<1>2. PoolLife' = [PoolLife EXCEPT ![s] = "open"] /\ PoolLife[s] = "unused"
  BY <1>1 DEF PoolLife, SafeInv, TypeInv, TypeOK
<1>3. PoolRunning' = PoolRunning
  BY DEF PoolRunning, ConnectOk, SafeInv, TypeInv, TypeOK, Threads
<1>4. Pool!Open = Active
  BY DEF Pool!Open, PoolLife, Active
<1>5. Connecting # {} /\ Connecting \subseteq pending
  BY ConnectingPending DEF ConnectOk, Connecting, Threads, SafeInv
<1>6. /\ Cardinality(Connecting) \in Nat /\ Cardinality(Connecting) # 0
      /\ Cardinality(Active) \in Nat
  BY <1>5, FS_Subset, FS_CardinalityType, FS_EmptySet DEF SafeInv, PoolInv
<1>7. Cardinality(Active) < MaxSessions
  BY <1>6, ConfigAssumption DEF SafeInv, PoolInv, PoolBound, ConfigAssumption
<1>8. Pool!Cardinality(Pool!Open) = Cardinality(Active)
  BY <1>4, Zenon DEF Pool!Cardinality, Cardinality
<1>9. Pool!OpenSession(s)
  BY <1>2, <1>3, <1>7, <1>8 DEF Pool!OpenSession
<1> QED BY <1>9 DEF Pool!Next

LEMMA CloseMaps ==
  ASSUME SafeInv, NEW t \in Threads, CloseLocked(t)
  PROVE  Pool!Next \/ UNCHANGED Pool!poolVars
<1> DEFINE s == sid[t]
<1>1. s \in Sids /\ status[s] # "unused"
  BY ConfigAssumption DEF CloseLocked, SafeInv, TypeInv, LocalsSet, AtSession,
     KnownInv, Known
<1>2. \A u \in Threads : (pc'[u] = "run" <=> pc[u] = "run") /\ sid'[u] = sid[u]
  BY DEF CloseLocked, SafeInv, TypeInv, TypeOK
<1>3. PoolRunning' = PoolRunning
  BY <1>2 DEF PoolRunning
<1>4. ASSUME NEW u \in Threads PROVE <<u, s>> \notin PoolRunning
  <2>1. ~ (pc[u] = "run" /\ sid[u] = s)
    BY <1>1, ConfigAssumption DEF CloseLocked, SafeInv, SessionLockInv, Holding,
       ConfigAssumption
  <2> QED BY <2>1 DEF PoolRunning
<1>5. CASE status[s] = "closed"
  BY <1>1, <1>2, <1>5, QuietStutters DEF CloseLocked, Quiet, SafeInv, TypeInv, TypeOK
<1>6. CASE status[s] # "closed"
  <2>1. PoolLife' = [PoolLife EXCEPT ![s] = "closed"] /\ PoolLife[s] = "open"
    BY <1>1, <1>6 DEF CloseLocked, PoolLife, SafeInv, TypeInv, TypeOK
  <2>2. Pool!CloseSession(s)
    BY <1>3, <1>4, <2>1 DEF Pool!CloseSession, Pool!Free
  <2> QED BY <1>1, <2>2 DEF Pool!Next
<1> QED BY <1>5, <1>6

LEMMA PoolMaps ==
  ASSUME SafeInv, [Next]_vars
  PROVE  Pool!Next \/ UNCHANGED Pool!poolVars
<1> USE ConfigAssumption DEF Threads
<1>1. ASSUME NEW t \in Callers, BeginOnHost(t) PROVE Pool!Next \/ UNCHANGED Pool!poolVars
  <2>1. Quiet
    BY <1>1 DEF BeginOnHost, Quiet, SafeInv, TypeInv, TypeOK, LocalsSet, AtSession,
       Threads
  <2> QED BY <2>1, QuietStutters
<1>2. ASSUME NEW t \in Callers, BeginOnSession(t) PROVE Pool!Next \/ UNCHANGED Pool!poolVars
  <2>1. Quiet
    BY <1>2 DEF BeginOnSession, Quiet, SafeInv, TypeInv, TypeOK, LocalsSet, AtSession,
       Threads
  <2> QED BY <2>1, QuietStutters
<1>3. ASSUME NEW t \in Callers, BeginClose(t) PROVE Pool!Next \/ UNCHANGED Pool!poolVars
  <2>1. Quiet
    BY <1>3 DEF BeginClose, Quiet, SafeInv, TypeInv, TypeOK, LocalsSet, AtSession, Threads
  <2> QED BY <2>1, QuietStutters
<1>4. ASSUME NEW t \in Callers, Lookup(t) PROVE Pool!Next \/ UNCHANGED Pool!poolVars
  <2>1. Quiet
    BY <1>4 DEF Lookup, UseSession, Return, Quiet, SafeInv, TypeInv, TypeOK, LocalsSet,
       AtSession, Threads
  <2> QED BY <2>1, QuietStutters
<1>5. ASSUME NEW t \in Callers, AcquireTarget(t) PROVE Pool!Next \/ UNCHANGED Pool!poolVars
  <2>1. Quiet
    BY <1>5 DEF AcquireTarget, Quiet, SafeInv, TypeInv, TypeOK, LocalsSet, AtSession,
       Threads
  <2> QED BY <2>1, QuietStutters
<1>6. ASSUME NEW t \in Callers, OpenBackoff(t) PROVE Pool!Next \/ UNCHANGED Pool!poolVars
  <2>1. Quiet
    BY <1>6 DEF OpenBackoff, Return, Quiet, SafeInv, TypeInv, TypeOK, LocalsSet,
       AtSession, Threads
  <2> QED BY <2>1, QuietStutters
<1>7. ASSUME NEW t \in Callers, OpenReuse(t) PROVE Pool!Next \/ UNCHANGED Pool!poolVars
  <2>1. Quiet
    BY <1>7 DEF OpenReuse, UseSession, Return, Quiet, SafeInv, TypeInv, TypeOK,
       LocalsSet, AtSession, Threads
  <2> QED BY <2>1, QuietStutters
<1>8. ASSUME NEW t \in Callers, OpenReserve(t) PROVE Pool!Next \/ UNCHANGED Pool!poolVars
  <2>1. Quiet
    BY <1>8 DEF OpenReserve, Return, Quiet, SafeInv, TypeInv, TypeOK, LocalsSet,
       AtSession, Threads
  <2> QED BY <2>1, QuietStutters
<1>9. ASSUME NEW t \in Callers, ConnectFail(t) PROVE Pool!Next \/ UNCHANGED Pool!poolVars
  <2>1. Quiet
    BY <1>9 DEF ConnectFail, Quiet, SafeInv, TypeInv, TypeOK, LocalsSet, AtSession,
       Threads
  <2> QED BY <2>1, QuietStutters
<1>10. ASSUME NEW t \in Callers, ConnectOk(t) PROVE Pool!Next \/ UNCHANGED Pool!poolVars
  BY <1>10, ConnectMaps
<1>11. ASSUME NEW t \in Callers, Unpend(t) PROVE Pool!Next \/ UNCHANGED Pool!poolVars
  <2>1. Quiet
    BY <1>11 DEF Unpend, UseSession, Return, Quiet, SafeInv, TypeInv, TypeOK,
       LocalsSet, AtSession, Threads
  <2> QED BY <2>1, QuietStutters
<1>12. ASSUME NEW t \in Callers, ExecLookup(t) PROVE Pool!Next \/ UNCHANGED Pool!poolVars
  <2>1. Quiet
    BY <1>12 DEF ExecLookup, FoundClosed, EndExec, Return, Quiet, SafeInv, TypeInv,
       TypeOK, LocalsSet, AtSession, Threads
  <2> QED BY <2>1, QuietStutters
<1>13. ASSUME NEW t \in Callers, ExecAcquire(t) PROVE Pool!Next \/ UNCHANGED Pool!poolVars
  <2>1. sid[t] \in Sids /\ status[sid[t]] # "unused"
    BY <1>13 DEF ExecAcquire, KnownInv, Known, SafeInv, TypeInv, TypeOK, LocalsSet,
       AtSession, Threads
  <2>2. CASE sid[t] \in alive /\ status[sid[t]] # "closed"
    BY <1>13, <2>1, <2>2, StartMaps DEF ExecAcquire, Threads
  <2>3. CASE ~ (sid[t] \in alive /\ status[sid[t]] # "closed")
    <3>1. Quiet
      BY <1>13, <2>3 DEF ExecAcquire, FoundClosed, EndExec, Return, Quiet, SafeInv,
         TypeInv, TypeOK, LocalsSet, AtSession, Threads
    <3> QED BY <3>1, QuietStutters
  <2> QED BY <2>2, <2>3
<1>14. ASSUME NEW t \in Callers, ReconnectOk(t) PROVE Pool!Next \/ UNCHANGED Pool!poolVars
  <2>1. sid[t] \in Sids /\ sessionLock[sid[t]] = t
        /\ status[sid[t]] \notin {"unused", "closed"}
    BY <1>14 DEF ReconnectOk, OwnerInv, SessionLockInv, Holding, SafeInv, TypeInv,
       TypeOK, LocalsSet, AtSession, Threads
  <2> QED BY <1>14, <2>1, StartMaps DEF ReconnectOk, Threads
<1>15. ASSUME NEW t \in Callers, ReconnectFail(t) PROVE Pool!Next \/ UNCHANGED Pool!poolVars
  <2>1. Quiet
    BY <1>15 DEF ReconnectFail, Quiet, OwnerInv, SafeInv, TypeInv, TypeOK, LocalsSet,
       AtSession, Threads
  <2> QED BY <2>1, QuietStutters
<1>16. ASSUME NEW t \in Callers, CommandOk(t) PROVE Pool!Next \/ UNCHANGED Pool!poolVars
  <2>1. \A u \in Threads \ {t} : sid'[u] = sid[u]
    BY <1>16 DEF CommandOk, EndExec, Return, SafeInv, TypeInv, TypeOK
  <2> QED BY <1>16, <2>1, FinishMaps DEF CommandOk, EndExec, Return, Labels, Threads
<1>17. ASSUME NEW t \in Callers, CommandFail(t) PROVE Pool!Next \/ UNCHANGED Pool!poolVars
  BY <1>17, FinishMaps DEF CommandFail, Labels, Threads
<1>18. ASSUME NEW t \in Callers, Evict(t) PROVE Pool!Next \/ UNCHANGED Pool!poolVars
  <2>1. Quiet
    BY <1>18 DEF Evict, EndExec, Return, Quiet, SafeInv, TypeInv, TypeOK, LocalsSet,
       AtSession, Threads
  <2> QED BY <2>1, QuietStutters
<1>19. ASSUME NEW t \in Callers, Probe(t) PROVE Pool!Next \/ UNCHANGED Pool!poolVars
  <2>1. Quiet
    BY <1>19 DEF Probe, Return, Quiet, SafeInv, TypeInv, TypeOK, LocalsSet, AtSession,
       Threads
  <2> QED BY <2>1, QuietStutters
<1>20. ASSUME NEW t \in Threads, CloseNext(t) PROVE Pool!Next \/ UNCHANGED Pool!poolVars
  <2>1. Quiet
    BY <1>20 DEF CloseNext, Quiet, SafeInv, TypeInv, TypeOK, LocalsSet, AtSession, Threads
  <2> QED BY <2>1, QuietStutters
<1>21. ASSUME NEW t \in Threads, CloseLocked(t) PROVE Pool!Next \/ UNCHANGED Pool!poolVars
  BY <1>21, CloseMaps
<1>22. ASSUME NEW t \in Threads, CloseFinish(t) PROVE Pool!Next \/ UNCHANGED Pool!poolVars
  <2>1. Quiet
    BY <1>22 DEF CloseFinish, Quiet, SafeInv, TypeInv, TypeOK, LocalsSet, AtSession,
       Threads
  <2> QED BY <2>1, QuietStutters
<1>23. ASSUME NEW t \in Threads, CloseDone(t) PROVE Pool!Next \/ UNCHANGED Pool!poolVars
  <2>1. Quiet
    BY <1>23 DEF CloseDone, Return, Quiet, SafeInv, TypeInv, TypeOK, LocalsSet,
       AtSession, Threads
  <2> QED BY <2>1, QuietStutters
<1>24. ASSUME MonitorScan PROVE Pool!Next \/ UNCHANGED Pool!poolVars
  <2>1. Quiet
    BY <1>24 DEF MonitorScan, Quiet, SafeInv, TypeInv, TypeOK, LocalsSet, AtSession,
       Threads
  <2> QED BY <2>1, QuietStutters
<1>25. ASSUME NEW s \in Sids, GrowIdle(s) PROVE Pool!Next \/ UNCHANGED Pool!poolVars
  <2>1. Quiet
    BY <1>25 DEF GrowIdle, Quiet, SafeInv, TypeInv, TypeOK, LocalsSet, AtSession, Threads
  <2> QED BY <2>1, QuietStutters
<1>26. ASSUME NEW s \in Sids, GrowOld(s) PROVE Pool!Next \/ UNCHANGED Pool!poolVars
  <2>1. Quiet
    BY <1>26 DEF GrowOld, Quiet, SafeInv, TypeInv, TypeOK, LocalsSet, AtSession, Threads
  <2> QED BY <2>1, QuietStutters
<1>27. ASSUME NEW s \in Sids, Disconnect(s) PROVE Pool!Next \/ UNCHANGED Pool!poolVars
  <2>1. Quiet
    BY <1>27 DEF Disconnect, Quiet, SafeInv, TypeInv, TypeOK, LocalsSet, AtSession,
       Threads
  <2> QED BY <2>1, QuietStutters
<1>28. ASSUME NEW h \in Hosts, CoolDown(h) PROVE Pool!Next \/ UNCHANGED Pool!poolVars
  <2>1. Quiet
    BY <1>28 DEF CoolDown, Quiet, SafeInv, TypeInv, TypeOK, LocalsSet, AtSession, Threads
  <2> QED BY <2>1, QuietStutters
<1>29. CASE UNCHANGED vars
  BY <1>29, QuietStutters DEF Quiet
<1>30. QED
  BY <1>1, <1>2, <1>3, <1>4, <1>5, <1>6, <1>7, <1>8, <1>9, <1>10, <1>11, <1>12, <1>13,
     <1>14, <1>15, <1>16, <1>17, <1>18, <1>19, <1>20, <1>21, <1>22, <1>23, <1>24,
     <1>25, <1>26, <1>27, <1>28, <1>29 DEF Next, CallStep, OpenStep, ExecStep, CloseStep

\* The connection engine implements SessionPool: at most MaxSessions sessions, each
\* running one command at a time, closed only between commands and for good.
THEOREM PoolRefined == Spec => ImplementsPool
<1>1. Init => Pool!Init
  <2> SUFFICES ASSUME Init PROVE Pool!Init
    OBVIOUS
  <2>1. PoolLife = [s \in Sids |-> "unused"]
    BY DEF Init, PoolLife
  <2>2. PoolRunning = {}
    BY DEF Init, PoolRunning
  <2> QED BY <2>1, <2>2 DEF Pool!Init
<1>2. SafeInv /\ [Next]_vars => [Pool!Next]_(Pool!poolVars)
  BY PoolMaps
<1> QED BY <1>1, <1>2, Safe, PTL DEF Spec, ImplementsPool, Pool!Spec

=============================================================================
