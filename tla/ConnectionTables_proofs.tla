----------------------- MODULE ConnectionTables_proofs -----------------------
(***************************************************************************)
(* More about the connection engine, on the invariants of                  *)
(* ConnectionManager_proofs: who owns the table lock, which sessions the   *)
(* index names, when an entry leaves it, which passwords are kept, and who *)
(* may wait for whom.                                                      *)
(*                                                                         *)
(* The argument is one about owners.  A session is in state "error" in the *)
(* index only under the session lock of the thread that is to evict it     *)
(* (SessionLockInv, OwnerInv), and CLOSED is final (ClosedInv), so a       *)
(* closer that reaches its last step still looks at a closed session.      *)
(* The locks are taken in the order host, session, table, but for a probe, *)
(* which waits for a session with the table lock in hand: it is in every   *)
(* chain of waiting threads, and in the only kind of deadlock there is.    *)
(***************************************************************************)
EXTENDS ConnectionManager_proofs

USE DEF At, Goto, Stay, LockFree, Stale, Usable, Unindex, Unlock, Lock, SetStatus,
        ReleaseTarget, vars, sessionVars, tableVars, lockVars, localVars, closeVars,
        callVars, threadVars

-----------------------------------------------------------------------------
(* The table lock *)

\* Only a probe comes to where the probe is.
ProbeInv == \A t \in Threads : pc[t] = "probe" => op[t] = "probe"

\* Every way out of a probe gives the table lock back.
LEMMA TableLockStep ==
  ASSUME TypeInv, ProbeInv, LockOnlyInProbe, [Next]_vars
  PROVE  ProbeInv' /\ LockOnlyInProbe'
<1> USE ConfigAssumption DEF TypeInv, TypeOK, LocalsSet, AtHost, AtSession, Threads,
      ProbeInv, LockOnlyInProbe
<1>1. ASSUME NEW t \in Callers, BeginOnHost(t) PROVE ProbeInv' /\ LockOnlyInProbe'
    BY <1>1 DEF BeginOnHost
<1>2. ASSUME NEW t \in Callers, BeginOnSession(t) PROVE ProbeInv' /\ LockOnlyInProbe'
    BY <1>2 DEF BeginOnSession, Known
<1>3. ASSUME NEW t \in Callers, BeginClose(t) PROVE ProbeInv' /\ LockOnlyInProbe'
    BY <1>3 DEF BeginClose, Known
<1>4. ASSUME NEW t \in Callers, Lookup(t) PROVE ProbeInv' /\ LockOnlyInProbe'
    BY <1>4 DEF Lookup, UseSession, Return, Stale
<1>5. ASSUME NEW t \in Callers, AcquireTarget(t) PROVE ProbeInv' /\ LockOnlyInProbe'
    BY <1>5 DEF AcquireTarget
<1>6. ASSUME NEW t \in Callers, OpenBackoff(t) PROVE ProbeInv' /\ LockOnlyInProbe'
    BY <1>6 DEF OpenBackoff, Return
<1>7. ASSUME NEW t \in Callers, OpenReuse(t) PROVE ProbeInv' /\ LockOnlyInProbe'
    BY <1>7 DEF OpenReuse, UseSession, Return
<1>8. ASSUME NEW t \in Callers, OpenReserve(t) PROVE ProbeInv' /\ LockOnlyInProbe'
    BY <1>8 DEF OpenReserve, Return, Stale
<1>9. ASSUME NEW t \in Callers, ConnectFail(t) PROVE ProbeInv' /\ LockOnlyInProbe'
    BY <1>9 DEF ConnectFail
<1>10. ASSUME NEW t \in Callers, ConnectOk(t) PROVE ProbeInv' /\ LockOnlyInProbe'
    BY <1>10 DEF ConnectOk
<1>11. ASSUME NEW t \in Callers, Unpend(t) PROVE ProbeInv' /\ LockOnlyInProbe'
    BY <1>11 DEF Unpend, UseSession, Return
<1>12. ASSUME NEW t \in Callers, ExecLookup(t) PROVE ProbeInv' /\ LockOnlyInProbe'
    BY <1>12 DEF ExecLookup, FoundClosed, EndExec, Return
<1>13. ASSUME NEW t \in Callers, ExecAcquire(t) PROVE ProbeInv' /\ LockOnlyInProbe'
    BY <1>13 DEF ExecAcquire, FoundClosed, EndExec, Return
<1>14. ASSUME NEW t \in Callers, ReconnectOk(t) PROVE ProbeInv' /\ LockOnlyInProbe'
    BY <1>14 DEF ReconnectOk
<1>15. ASSUME NEW t \in Callers, ReconnectFail(t) PROVE ProbeInv' /\ LockOnlyInProbe'
    BY <1>15 DEF ReconnectFail
<1>16. ASSUME NEW t \in Callers, CommandOk(t) PROVE ProbeInv' /\ LockOnlyInProbe'
    BY <1>16 DEF CommandOk, EndExec, Return
<1>17. ASSUME NEW t \in Callers, CommandFail(t) PROVE ProbeInv' /\ LockOnlyInProbe'
    BY <1>17 DEF CommandFail
<1>18. ASSUME NEW t \in Callers, Evict(t) PROVE ProbeInv' /\ LockOnlyInProbe'
    BY <1>18 DEF Evict, EndExec, Return
<1>19. ASSUME NEW t \in Callers, Probe(t) PROVE ProbeInv' /\ LockOnlyInProbe'
    BY <1>19 DEF Probe, Return
<1>20. ASSUME NEW t \in Threads, CloseNext(t) PROVE ProbeInv' /\ LockOnlyInProbe'
    BY <1>20 DEF CloseNext
<1>21. ASSUME NEW t \in Threads, CloseLocked(t) PROVE ProbeInv' /\ LockOnlyInProbe'
    BY <1>21 DEF CloseLocked
<1>22. ASSUME NEW t \in Threads, CloseFinish(t) PROVE ProbeInv' /\ LockOnlyInProbe'
    BY <1>22 DEF CloseFinish
<1>23. ASSUME NEW t \in Threads, CloseDone(t) PROVE ProbeInv' /\ LockOnlyInProbe'
    BY <1>23 DEF CloseDone, Return
<1>24. ASSUME MonitorScan PROVE ProbeInv' /\ LockOnlyInProbe'
  BY <1>24 DEF MonitorScan
<1>25. ASSUME NEW s \in Sids, GrowIdle(s) PROVE ProbeInv' /\ LockOnlyInProbe'
    BY <1>25 DEF GrowIdle
<1>26. ASSUME NEW s \in Sids, GrowOld(s) PROVE ProbeInv' /\ LockOnlyInProbe'
    BY <1>26 DEF GrowOld
<1>27. ASSUME NEW s \in Sids, Disconnect(s) PROVE ProbeInv' /\ LockOnlyInProbe'
    BY <1>27 DEF Disconnect
<1>28. ASSUME NEW h \in Hosts, CoolDown(h) PROVE ProbeInv' /\ LockOnlyInProbe'
    BY <1>28 DEF CoolDown
<1>29. ASSUME UNCHANGED vars PROVE ProbeInv' /\ LockOnlyInProbe'
  BY <1>29
<1> QED
  BY <1>1, <1>2, <1>3, <1>4, <1>5, <1>6, <1>7, <1>8, <1>9, <1>10, <1>11, <1>12, <1>13,
     <1>14, <1>15, <1>16, <1>17, <1>18, <1>19, <1>20, <1>21, <1>22, <1>23, <1>24, <1>25,
     <1>26, <1>27, <1>28, <1>29 DEF Next, CallStep, OpenStep, ExecStep, CloseStep

\* The table lock outlives a step only in the hands of a probe inside execute.
THEOREM LockInProbe == Spec => []LockOnlyInProbe
<1>1. Init => ProbeInv /\ LockOnlyInProbe
  BY ConfigAssumption DEF ConfigAssumption, Init, ProbeInv, LockOnlyInProbe
<1>2. SafeInv /\ ProbeInv /\ LockOnlyInProbe /\ [Next]_vars => ProbeInv' /\ LockOnlyInProbe'
  BY TableLockStep DEF SafeInv
<1> QED BY <1>1, <1>2, Safe, PTL DEF Spec

-----------------------------------------------------------------------------
(* Closed sessions and the index *)

\* CLOSED is final: a closer finds it when it erases entry and password.
ClosedInv == \A t \in Threads : pc[t] = "closefin" => status[sid[t]] = "closed"

\* No step takes a session out of CLOSED.
LEMMA ClosedStep ==
  ASSUME TypeInv, OwnerInv, ClosedInv, [Next]_vars
  PROVE  ClosedInv'
<1> USE ConfigAssumption DEF TypeInv, TypeOK, LocalsSet, AtHost, AtSession, Threads,
      OwnerInv, ClosedInv
<1>1. ASSUME NEW t \in Callers, BeginOnHost(t) PROVE ClosedInv'
    BY <1>1 DEF BeginOnHost
<1>2. ASSUME NEW t \in Callers, BeginOnSession(t) PROVE ClosedInv'
    BY <1>2 DEF BeginOnSession, Known
<1>3. ASSUME NEW t \in Callers, BeginClose(t) PROVE ClosedInv'
    BY <1>3 DEF BeginClose, Known
<1>4. ASSUME NEW t \in Callers, Lookup(t) PROVE ClosedInv'
    BY <1>4 DEF Lookup, UseSession, Return, Stale
<1>5. ASSUME NEW t \in Callers, AcquireTarget(t) PROVE ClosedInv'
    BY <1>5 DEF AcquireTarget
<1>6. ASSUME NEW t \in Callers, OpenBackoff(t) PROVE ClosedInv'
    BY <1>6 DEF OpenBackoff, Return
<1>7. ASSUME NEW t \in Callers, OpenReuse(t) PROVE ClosedInv'
    BY <1>7 DEF OpenReuse, UseSession, Return
<1>8. ASSUME NEW t \in Callers, OpenReserve(t) PROVE ClosedInv'
    BY <1>8 DEF OpenReserve, Return, Stale
<1>9. ASSUME NEW t \in Callers, ConnectFail(t) PROVE ClosedInv'
    BY <1>9 DEF ConnectFail
<1>10. ASSUME NEW t \in Callers, ConnectOk(t) PROVE ClosedInv'
    BY <1>10 DEF ConnectOk
<1>11. ASSUME NEW t \in Callers, Unpend(t) PROVE ClosedInv'
    BY <1>11 DEF Unpend, UseSession, Return
<1>12. ASSUME NEW t \in Callers, ExecLookup(t) PROVE ClosedInv'
    BY <1>12 DEF ExecLookup, FoundClosed, EndExec, Return
<1>13. ASSUME NEW t \in Callers, ExecAcquire(t) PROVE ClosedInv'
    BY <1>13 DEF ExecAcquire, FoundClosed, EndExec, Return
<1>14. ASSUME NEW t \in Callers, ReconnectOk(t) PROVE ClosedInv'
    BY <1>14 DEF ReconnectOk
<1>15. ASSUME NEW t \in Callers, ReconnectFail(t) PROVE ClosedInv'
    BY <1>15 DEF ReconnectFail
<1>16. ASSUME NEW t \in Callers, CommandOk(t) PROVE ClosedInv'
    BY <1>16 DEF CommandOk, EndExec, Return
<1>17. ASSUME NEW t \in Callers, CommandFail(t) PROVE ClosedInv'
    BY <1>17 DEF CommandFail
<1>18. ASSUME NEW t \in Callers, Evict(t) PROVE ClosedInv'
    BY <1>18 DEF Evict, EndExec, Return
<1>19. ASSUME NEW t \in Callers, Probe(t) PROVE ClosedInv'
    BY <1>19 DEF Probe, Return
<1>20. ASSUME NEW t \in Threads, CloseNext(t) PROVE ClosedInv'
    BY <1>20 DEF CloseNext
<1>21. ASSUME NEW t \in Threads, CloseLocked(t) PROVE ClosedInv'
    BY <1>21 DEF CloseLocked
<1>22. ASSUME NEW t \in Threads, CloseFinish(t) PROVE ClosedInv'
    BY <1>22 DEF CloseFinish
<1>23. ASSUME NEW t \in Threads, CloseDone(t) PROVE ClosedInv'
    BY <1>23 DEF CloseDone, Return
<1>24. ASSUME MonitorScan PROVE ClosedInv'
  BY <1>24 DEF MonitorScan
<1>25. ASSUME NEW s \in Sids, GrowIdle(s) PROVE ClosedInv'
    BY <1>25 DEF GrowIdle
<1>26. ASSUME NEW s \in Sids, GrowOld(s) PROVE ClosedInv'
    BY <1>26 DEF GrowOld
<1>27. ASSUME NEW s \in Sids, Disconnect(s) PROVE ClosedInv'
    BY <1>27 DEF Disconnect
<1>28. ASSUME NEW h \in Hosts, CoolDown(h) PROVE ClosedInv'
    BY <1>28 DEF CoolDown
<1>29. ASSUME UNCHANGED vars PROVE ClosedInv'
  BY <1>29
<1> QED
  BY <1>1, <1>2, <1>3, <1>4, <1>5, <1>6, <1>7, <1>8, <1>9, <1>10, <1>11, <1>12, <1>13,
     <1>14, <1>15, <1>16, <1>17, <1>18, <1>19, <1>20, <1>21, <1>22, <1>23, <1>24, <1>25,
     <1>26, <1>27, <1>28, <1>29 DEF Next, CallStep, OpenStep, ExecStep, CloseStep

\* What IndexFresh needs of a step of a thread that is not removing an entry.
LEMMA IndexKept ==
  ASSUME TypeInv, IndexFresh, NEW t \in Threads, pc[t] \notin {"evict", "closefin"},
         \A u \in Threads \ {t} : pc'[u] = pc[u] /\ sid'[u] = sid[u],
         \A s \in Sids : status'[s] = status[s] \/ status'[s] \notin {"closed", "error"},
         \A h \in Hosts :
           \/ hostIndex'[h] = NULL
           \/ hostIndex'[h] = hostIndex[h] /\ hostOf'[hostIndex[h]] = hostOf[hostIndex[h]]
           \/ hostOf'[hostIndex'[h]] = h /\ status'[hostIndex'[h]] = "connected"
  PROVE  IndexFresh'
BY ConfigAssumption DEF TypeInv, TypeOK, IndexFresh

\* The same for the passwords.
LEMMA SecretsStay ==
  ASSUME TypeInv, SecretsSound, NEW t \in Threads, pc[t] # "closefin",
         \A u \in Threads \ {t} : pc'[u] = pc[u] /\ sid'[u] = sid[u],
         UNCHANGED <<secrets, hostOf>>,
         \A s \in Sids : status[s] \in {"unused", "closed"} \/ status'[s] \in {"unused", "closed"}
                           => status'[s] = status[s]
  PROVE  SecretsSound'
BY ConfigAssumption DEF TypeInv, TypeOK, SecretsSound, Active

\* A session that dies in the index dies in the hands of the one who evicts it.
LEMMA IndexStep ==
  ASSUME TypeInv, SessionLockInv, KnownInv, OwnerInv, ClosedInv, IndexFresh, [Next]_vars
  PROVE  IndexFresh'
<1> USE ConfigAssumption DEF TypeInv, TypeOK, LocalsSet, AtHost, AtSession, Threads,
      SessionLockInv, Holding, KnownInv, Known, OwnerInv, IndexFresh, ClosedInv
<1>1. ASSUME NEW t \in Callers, BeginOnHost(t) PROVE IndexFresh'
    BY <1>1 DEF BeginOnHost
<1>2. ASSUME NEW t \in Callers, BeginOnSession(t) PROVE IndexFresh'
    BY <1>2 DEF BeginOnSession, Known
<1>3. ASSUME NEW t \in Callers, BeginClose(t) PROVE IndexFresh'
    BY <1>3 DEF BeginClose, Known
<1>4. ASSUME NEW t \in Callers, Lookup(t) PROVE IndexFresh'
    BY <1>4, IndexKept DEF Lookup, UseSession, Return
<1>5. ASSUME NEW t \in Callers, AcquireTarget(t) PROVE IndexFresh'
    BY <1>5 DEF AcquireTarget
<1>6. ASSUME NEW t \in Callers, OpenBackoff(t) PROVE IndexFresh'
    BY <1>6 DEF OpenBackoff, Return
<1>7. ASSUME NEW t \in Callers, OpenReuse(t) PROVE IndexFresh'
    BY <1>7, IndexKept DEF OpenReuse, UseSession, Return
<1>8. ASSUME NEW t \in Callers, OpenReserve(t) PROVE IndexFresh'
    BY <1>8 DEF OpenReserve, Return, Stale
<1>9. ASSUME NEW t \in Callers, ConnectFail(t) PROVE IndexFresh'
    BY <1>9 DEF ConnectFail
<1>10. ASSUME NEW t \in Callers, ConnectOk(t) PROVE IndexFresh'
    BY <1>10, IndexKept DEF ConnectOk
<1>11. ASSUME NEW t \in Callers, Unpend(t) PROVE IndexFresh'
    BY <1>11, IndexKept DEF Unpend, UseSession, Return
<1>12. ASSUME NEW t \in Callers, ExecLookup(t) PROVE IndexFresh'
    BY <1>12, IndexKept DEF ExecLookup, FoundClosed, EndExec, Return
<1>13. ASSUME NEW t \in Callers, ExecAcquire(t) PROVE IndexFresh'
    BY <1>13, IndexKept DEF ExecAcquire, FoundClosed, EndExec, Return
<1>14. ASSUME NEW t \in Callers, ReconnectOk(t) PROVE IndexFresh'
    BY <1>14 DEF ReconnectOk
<1>15. ASSUME NEW t \in Callers, ReconnectFail(t) PROVE IndexFresh'
    BY <1>15 DEF ReconnectFail
<1>16. ASSUME NEW t \in Callers, CommandOk(t) PROVE IndexFresh'
    BY <1>16 DEF CommandOk, EndExec, Return
<1>17. ASSUME NEW t \in Callers, CommandFail(t) PROVE IndexFresh'
    BY <1>17 DEF CommandFail
<1>18. ASSUME NEW t \in Callers, Evict(t) PROVE IndexFresh'
    BY <1>18 DEF Evict, EndExec, Return
<1>19. ASSUME NEW t \in Callers, Probe(t) PROVE IndexFresh'
    BY <1>19, IndexKept DEF Probe, Return
<1>20. ASSUME NEW t \in Threads, CloseNext(t) PROVE IndexFresh'
    BY <1>20 DEF CloseNext
<1>21. ASSUME NEW t \in Threads, CloseLocked(t) PROVE IndexFresh'
    BY <1>21 DEF CloseLocked
<1>22. ASSUME NEW t \in Threads, CloseFinish(t) PROVE IndexFresh'
    BY <1>22 DEF CloseFinish
<1>23. ASSUME NEW t \in Threads, CloseDone(t) PROVE IndexFresh'
    BY <1>23 DEF CloseDone, Return
<1>24. ASSUME MonitorScan PROVE IndexFresh'
  BY <1>24 DEF MonitorScan
<1>25. ASSUME NEW s \in Sids, GrowIdle(s) PROVE IndexFresh'
    BY <1>25 DEF GrowIdle
<1>26. ASSUME NEW s \in Sids, GrowOld(s) PROVE IndexFresh'
    BY <1>26 DEF GrowOld
<1>27. ASSUME NEW s \in Sids, Disconnect(s) PROVE IndexFresh'
    BY <1>27 DEF Disconnect
<1>28. ASSUME NEW h \in Hosts, CoolDown(h) PROVE IndexFresh'
    BY <1>28 DEF CoolDown
<1>29. ASSUME UNCHANGED vars PROVE IndexFresh'
  BY <1>29
<1> QED
  BY <1>1, <1>2, <1>3, <1>4, <1>5, <1>6, <1>7, <1>8, <1>9, <1>10, <1>11, <1>12, <1>13,
     <1>14, <1>15, <1>16, <1>17, <1>18, <1>19, <1>20, <1>21, <1>22, <1>23, <1>24, <1>25,
     <1>26, <1>27, <1>28, <1>29 DEF Next, CallStep, OpenStep, ExecStep, CloseStep

\* The index names live sessions of the right host, and dead ones only while
\* the thread that removes them is on its way.
THEOREM IndexIsFresh == Spec => []IndexFresh
<1>1. Init => ClosedInv /\ IndexFresh
  BY DEF Init, ClosedInv, IndexFresh
<1>2. SafeInv /\ ClosedInv /\ IndexFresh /\ [Next]_vars => ClosedInv' /\ IndexFresh'
  BY ClosedStep, IndexStep DEF SafeInv
<1> QED BY <1>1, <1>2, Safe, PTL DEF Spec

\* The step behind OnlyDeadUnindexed.
DeadOnly ==
  \A h \in Hosts :
    hostIndex[h] # NULL /\ hostIndex'[h] = NULL => status[hostIndex[h]] \in {"closed", "error"}

\* What removes an entry has looked at the session it names, or owns it.
LEMMA UnindexStep ==
  ASSUME TypeInv, OwnerInv, ClosedInv, [Next]_vars
  PROVE  DeadOnly
<1> USE ConfigAssumption DEF TypeInv, TypeOK, LocalsSet, AtHost, AtSession, Threads,
      OwnerInv, ClosedInv, DeadOnly
<1>1. ASSUME NEW t \in Callers, BeginOnHost(t) PROVE DeadOnly
    BY <1>1 DEF BeginOnHost
<1>2. ASSUME NEW t \in Callers, BeginOnSession(t) PROVE DeadOnly
    BY <1>2 DEF BeginOnSession, Known
<1>3. ASSUME NEW t \in Callers, BeginClose(t) PROVE DeadOnly
    BY <1>3 DEF BeginClose, Known
<1>4. ASSUME NEW t \in Callers, Lookup(t) PROVE DeadOnly
    BY <1>4 DEF Lookup, UseSession, Return, Stale
<1>5. ASSUME NEW t \in Callers, AcquireTarget(t) PROVE DeadOnly
    BY <1>5 DEF AcquireTarget
<1>6. ASSUME NEW t \in Callers, OpenBackoff(t) PROVE DeadOnly
    BY <1>6 DEF OpenBackoff, Return
<1>7. ASSUME NEW t \in Callers, OpenReuse(t) PROVE DeadOnly
    BY <1>7 DEF OpenReuse, UseSession, Return
<1>8. ASSUME NEW t \in Callers, OpenReserve(t) PROVE DeadOnly
    BY <1>8 DEF OpenReserve, Return, Stale
<1>9. ASSUME NEW t \in Callers, ConnectFail(t) PROVE DeadOnly
    BY <1>9 DEF ConnectFail
<1>10. ASSUME NEW t \in Callers, ConnectOk(t) PROVE DeadOnly
    BY <1>10 DEF ConnectOk
<1>11. ASSUME NEW t \in Callers, Unpend(t) PROVE DeadOnly
    BY <1>11 DEF Unpend, UseSession, Return
<1>12. ASSUME NEW t \in Callers, ExecLookup(t) PROVE DeadOnly
    BY <1>12 DEF ExecLookup, FoundClosed, EndExec, Return
<1>13. ASSUME NEW t \in Callers, ExecAcquire(t) PROVE DeadOnly
    BY <1>13 DEF ExecAcquire, FoundClosed, EndExec, Return
<1>14. ASSUME NEW t \in Callers, ReconnectOk(t) PROVE DeadOnly
    BY <1>14 DEF ReconnectOk
<1>15. ASSUME NEW t \in Callers, ReconnectFail(t) PROVE DeadOnly
    BY <1>15 DEF ReconnectFail
<1>16. ASSUME NEW t \in Callers, CommandOk(t) PROVE DeadOnly
    BY <1>16 DEF CommandOk, EndExec, Return
<1>17. ASSUME NEW t \in Callers, CommandFail(t) PROVE DeadOnly
    BY <1>17 DEF CommandFail
<1>18. ASSUME NEW t \in Callers, Evict(t) PROVE DeadOnly
    BY <1>18 DEF Evict, EndExec, Return
<1>19. ASSUME NEW t \in Callers, Probe(t) PROVE DeadOnly
    BY <1>19 DEF Probe, Return
<1>20. ASSUME NEW t \in Threads, CloseNext(t) PROVE DeadOnly
    BY <1>20 DEF CloseNext
<1>21. ASSUME NEW t \in Threads, CloseLocked(t) PROVE DeadOnly
    BY <1>21 DEF CloseLocked
<1>22. ASSUME NEW t \in Threads, CloseFinish(t) PROVE DeadOnly
    BY <1>22 DEF CloseFinish
<1>23. ASSUME NEW t \in Threads, CloseDone(t) PROVE DeadOnly
    BY <1>23 DEF CloseDone, Return
<1>24. ASSUME MonitorScan PROVE DeadOnly
  BY <1>24 DEF MonitorScan
<1>25. ASSUME NEW s \in Sids, GrowIdle(s) PROVE DeadOnly
    BY <1>25 DEF GrowIdle
<1>26. ASSUME NEW s \in Sids, GrowOld(s) PROVE DeadOnly
    BY <1>26 DEF GrowOld
<1>27. ASSUME NEW s \in Sids, Disconnect(s) PROVE DeadOnly
    BY <1>27 DEF Disconnect
<1>28. ASSUME NEW h \in Hosts, CoolDown(h) PROVE DeadOnly
    BY <1>28 DEF CoolDown
<1>29. ASSUME UNCHANGED vars PROVE DeadOnly
  BY <1>29
<1> QED
  BY <1>1, <1>2, <1>3, <1>4, <1>5, <1>6, <1>7, <1>8, <1>9, <1>10, <1>11, <1>12, <1>13,
     <1>14, <1>15, <1>16, <1>17, <1>18, <1>19, <1>20, <1>21, <1>22, <1>23, <1>24, <1>25,
     <1>26, <1>27, <1>28, <1>29 DEF Next, CallStep, OpenStep, ExecStep, CloseStep

\* Evicting an old session never takes a newer valid one of its host along.
THEOREM OnlyDeadEvicted == Spec => OnlyDeadUnindexed
<1>1. Init => ClosedInv
  BY DEF Init, ClosedInv
<1>2. SafeInv /\ ClosedInv /\ [Next]_vars => ClosedInv'
  BY ClosedStep DEF SafeInv
<1>3. SafeInv /\ ClosedInv /\ [Next]_vars =>
        [\A h \in Hosts :
           hostIndex[h] # NULL /\ hostIndex'[h] = NULL
             => status[hostIndex[h]] \in {"closed", "error"}]_vars
  BY UnindexStep DEF SafeInv, DeadOnly
<1> QED BY <1>1, <1>2, <1>3, Safe, PTL DEF Spec, OnlyDeadUnindexed

-----------------------------------------------------------------------------
(* Passwords *)

\* Passwords come with the session and go with its closer.
LEMMA SecretsStep ==
  ASSUME TypeInv, SessionLockInv, KnownInv, OwnerInv, ClosedInv, SecretsSound, [Next]_vars
  PROVE  SecretsSound'
<1> USE ConfigAssumption DEF TypeInv, TypeOK, LocalsSet, AtHost, AtSession, Threads,
      SessionLockInv, Holding, OwnerInv, ClosedInv, SecretsSound, Active
<1>1. ASSUME NEW t \in Callers, BeginOnHost(t) PROVE SecretsSound'
    BY <1>1 DEF BeginOnHost
<1>2. ASSUME NEW t \in Callers, BeginOnSession(t) PROVE SecretsSound'
    BY <1>2 DEF BeginOnSession, Known
<1>3. ASSUME NEW t \in Callers, BeginClose(t) PROVE SecretsSound'
    BY <1>3 DEF BeginClose, Known
<1>4. ASSUME NEW t \in Callers, Lookup(t) PROVE SecretsSound'
    BY <1>4 DEF Lookup, UseSession, Return, Stale
<1>5. ASSUME NEW t \in Callers, AcquireTarget(t) PROVE SecretsSound'
    BY <1>5 DEF AcquireTarget
<1>6. ASSUME NEW t \in Callers, OpenBackoff(t) PROVE SecretsSound'
    BY <1>6 DEF OpenBackoff, Return
<1>7. ASSUME NEW t \in Callers, OpenReuse(t) PROVE SecretsSound'
    BY <1>7 DEF OpenReuse, UseSession, Return
<1>8. ASSUME NEW t \in Callers, OpenReserve(t) PROVE SecretsSound'
    BY <1>8 DEF OpenReserve, Return, Stale
<1>9. ASSUME NEW t \in Callers, ConnectFail(t) PROVE SecretsSound'
    BY <1>9 DEF ConnectFail
<1>10. ASSUME NEW t \in Callers, ConnectOk(t) PROVE SecretsSound'
    BY <1>10 DEF ConnectOk
<1>11. ASSUME NEW t \in Callers, Unpend(t) PROVE SecretsSound'
    BY <1>11 DEF Unpend, UseSession, Return
<1>12. ASSUME NEW t \in Callers, ExecLookup(t) PROVE SecretsSound'
    BY <1>12 DEF ExecLookup, FoundClosed, EndExec, Return
<1>13. ASSUME NEW t \in Callers, ExecAcquire(t) PROVE SecretsSound'
    <2>1. status[sid[t]] \notin {"unused", "closed"} \/ status' = status
      BY <1>13 DEF ExecAcquire, KnownInv, Known
    <2>2. \A s \in Sids : status[s] \in {"unused", "closed"} \/ status'[s] \in {"unused", "closed"}
                           => status'[s] = status[s]
      BY <1>13, <2>1 DEF ExecAcquire
    <2>3. pc[t] # "closefin" /\ UNCHANGED <<secrets, hostOf>>
      BY <1>13 DEF ExecAcquire
    <2>4. \A u \in Threads \ {t} : pc'[u] = pc[u] /\ sid'[u] = sid[u]
      BY <1>13 DEF ExecAcquire, FoundClosed, EndExec, Return
    <2> QED BY <2>2, <2>3, <2>4, SecretsStay
<1>14. ASSUME NEW t \in Callers, ReconnectOk(t) PROVE SecretsSound'
    BY <1>14 DEF ReconnectOk
<1>15. ASSUME NEW t \in Callers, ReconnectFail(t) PROVE SecretsSound'
    BY <1>15 DEF ReconnectFail
<1>16. ASSUME NEW t \in Callers, CommandOk(t) PROVE SecretsSound'
    BY <1>16 DEF CommandOk, EndExec, Return
<1>17. ASSUME NEW t \in Callers, CommandFail(t) PROVE SecretsSound'
    BY <1>17 DEF CommandFail
<1>18. ASSUME NEW t \in Callers, Evict(t) PROVE SecretsSound'
    BY <1>18 DEF Evict, EndExec, Return
<1>19. ASSUME NEW t \in Callers, Probe(t) PROVE SecretsSound'
    BY <1>19 DEF Probe, Return
<1>20. ASSUME NEW t \in Threads, CloseNext(t) PROVE SecretsSound'
    BY <1>20 DEF CloseNext
<1>21. ASSUME NEW t \in Threads, CloseLocked(t) PROVE SecretsSound'
    BY <1>21 DEF CloseLocked
<1>22. ASSUME NEW t \in Threads, CloseFinish(t) PROVE SecretsSound'
    BY <1>22 DEF CloseFinish
<1>23. ASSUME NEW t \in Threads, CloseDone(t) PROVE SecretsSound'
    BY <1>23 DEF CloseDone, Return
<1>24. ASSUME MonitorScan PROVE SecretsSound'
  BY <1>24 DEF MonitorScan
<1>25. ASSUME NEW s \in Sids, GrowIdle(s) PROVE SecretsSound'
    BY <1>25 DEF GrowIdle
<1>26. ASSUME NEW s \in Sids, GrowOld(s) PROVE SecretsSound'
    BY <1>26 DEF GrowOld
<1>27. ASSUME NEW s \in Sids, Disconnect(s) PROVE SecretsSound'
    BY <1>27 DEF Disconnect
<1>28. ASSUME NEW h \in Hosts, CoolDown(h) PROVE SecretsSound'
    BY <1>28 DEF CoolDown
<1>29. ASSUME UNCHANGED vars PROVE SecretsSound'
  BY <1>29
<1> QED
  BY <1>1, <1>2, <1>3, <1>4, <1>5, <1>6, <1>7, <1>8, <1>9, <1>10, <1>11, <1>12, <1>13,
     <1>14, <1>15, <1>16, <1>17, <1>18, <1>19, <1>20, <1>21, <1>22, <1>23, <1>24, <1>25,
     <1>26, <1>27, <1>28, <1>29 DEF Next, CallStep, OpenStep, ExecStep, CloseStep

\* A reconnect finds the password it may ask for, and a closed session loses it.
THEOREM SecretsKept == Spec => []SecretsSound
<1>1. Init => ClosedInv /\ SecretsSound
  BY DEF Init, ClosedInv, SecretsSound, Active
<1>2. SafeInv /\ ClosedInv /\ SecretsSound /\ [Next]_vars => ClosedInv' /\ SecretsSound'
  BY ClosedStep, SecretsStep DEF SafeInv
<1> QED BY <1>1, <1>2, Safe, PTL DEF Spec

-----------------------------------------------------------------------------
(* Who waits for whom *)

\* The owner of a session lock or of a target lock waits for the table lock only.
LEMMA OwnersWaitForTable ==
  ASSUME TypeInv, SessionLockInv, TargetLockInv, LockOnlyInProbe,
         NEW t \in Threads, NEW u \in Threads, NEW v \in Threads,
         WaitsFor(t, u), lock # u, WaitsFor(u, v)
  PROVE  lock = v
<1> USE ConfigAssumption DEF TypeInv, TypeOK, LocalsSet, AtHost, AtSession, Threads
<1>1. pc[u] \in Holding \cup InOpen
  <2>1. CASE pc[t] \in {"wait", "closewait"} /\ sessionLock[sid[t]] = u
    BY <2>1 DEF SessionLockInv
  <2>2. CASE pc[t] = "target" /\ targetLock[tgt[t]] = u
    BY <2>2 DEF TargetLockInv
  <2> QED BY <2>1, <2>2 DEF WaitsFor
<1>2. pc[u] \notin {"wait", "closewait", "target"}
  BY <1>1 DEF Holding, InOpen
<1> QED BY <1>2 DEF WaitsFor

\* So in every chain of two waits a probe owns the table lock.
LEMMA ChainFollows ==
  ASSUME TypeInv, SessionLockInv, TargetLockInv, LockOnlyInProbe
  PROVE  ChainNeedsProbe
<1> SUFFICES ASSUME NEW t \in Threads, NEW u \in Threads, NEW v \in Threads,
                    WaitsFor(t, u), WaitsFor(u, v)
             PROVE  \E p \in {u, v} : lock = p /\ op[p] = "probe"
  BY DEF ChainNeedsProbe
<1>1. lock \in {u, v}
  BY OwnersWaitForTable
<1>2. \A p \in {u, v} : lock = p => op[p] = "probe"
  BY DEF LockOnlyInProbe
<1> QED BY <1>1, <1>2

LEMMA LocksKept == Spec => [](SafeInv /\ LockOnlyInProbe)
  BY Safe, LockInProbe, PTL

\* Whatever the threads call, a chain of two waits has a probe in it.
THEOREM ChainsNeedProbe == Spec => []ChainNeedsProbe
<1>1. SafeInv /\ LockOnlyInProbe => ChainNeedsProbe
  BY ChainFollows DEF SafeInv
<1> QED BY <1>1, LocksKept, PTL

\* A probe waits for a session, and the owner of the session for the table lock the
\* probe keeps: to evict the session after a failure, or to read the password of a
\* session opened by hand before it reconnects.
ProbeDeadlock(p, e) ==
  /\ lock = p /\ op[p] = "probe" /\ pc[p] = "wait"
  /\ sessionLock[sid[p]] = e /\ sid[e] = sid[p]
  /\ \/ pc[e] = "evict"
     \/ pc[e] = "reconnect" /\ hostOf[sid[e]] \in Manual

\* Threads of which each waits for another one of them, be they in a cycle of any
\* length or behind one: they cannot go on.
Stuck(C) == C # {} /\ \A t \in C : \E u \in C : WaitsFor(t, u)

\* However many threads are stuck, a probe and the owner of its session are among
\* them: there is no other deadlock in the engine.
DeadlockShape ==
  \A C \in SUBSET Threads : Stuck(C) => \E p, e \in C : ProbeDeadlock(p, e)

LEMMA ShapeFollows ==
  ASSUME TypeInv, SessionLockInv, TargetLockInv, LockOnlyInProbe
  PROVE  DeadlockShape
<1> USE ConfigAssumption DEF TypeInv, TypeOK, LocalsSet, AtHost, AtSession, Threads
<1>1. ASSUME NEW p \in Threads, NEW e \in Threads,
             lock = p, WaitsFor(p, e), WaitsFor(e, p)
      PROVE  ProbeDeadlock(p, e)
  <2>1. op[p] = "probe" /\ pc[p] \in {"exec", "wait", "reconnect", "run", "evict"}
    BY <1>1 DEF LockOnlyInProbe
  <2>2. p # e /\ pc[p] = "wait" /\ sessionLock[sid[p]] = e
    BY <1>1, <2>1 DEF WaitsFor
  <2>3. pc[e] \in Holding /\ sid[e] = sid[p]
    BY <2>2 DEF SessionLockInv
  <2>4. AtTableLock(e)
    BY <1>1, <2>3 DEF WaitsFor, Holding
  <2>5. \/ pc[e] = "evict"
        \/ pc[e] = "reconnect" /\ hostOf[sid[e]] \in Manual
    BY <2>3, <2>4 DEF AtTableLock, Holding
  <2> QED BY <1>1, <2>1, <2>2, <2>3, <2>5 DEF ProbeDeadlock
<1> SUFFICES ASSUME NEW C \in SUBSET Threads, Stuck(C)
             PROVE  \E p, e \in C : ProbeDeadlock(p, e)
  BY DEF DeadlockShape
<1>2. \A t \in C : t \in Threads /\ \E u \in C : WaitsFor(t, u)
  BY DEF Stuck
<1>3. PICK p \in C : lock = p
  <2>1. PICK t \in C : TRUE
    BY DEF Stuck
  <2>2. PICK u \in C : WaitsFor(t, u)
    BY <1>2
  <2>3. PICK v \in C : WaitsFor(u, v)
    BY <1>2
  <2>4. lock \in {u, v}
    BY <1>2, <2>2, <2>3, OwnersWaitForTable
  <2> QED BY <2>4
<1>4. PICK e \in C : WaitsFor(p, e)
  BY <1>2
<1>5. PICK f \in C : WaitsFor(e, f)
  BY <1>2
<1>6. f = p
  <2>1. lock # e
    BY <1>3, <1>4 DEF WaitsFor
  <2> QED BY <1>2, <1>3, <1>4, <1>5, <2>1, OwnersWaitForTable
<1> QED BY <1>1, <1>2, <1>3, <1>4, <1>5, <1>6

\* Threads get stuck in one way only: with a probe among them that keeps the table
\* lock while it waits for a session whose owner needs the table lock.
THEOREM OnlyDeadlock == Spec => []DeadlockShape
<1>1. SafeInv /\ LockOnlyInProbe => DeadlockShape
  BY ShapeFollows DEF SafeInv
<1> QED BY <1>1, LocksKept, PTL

\* A call is of one of the kinds the request threads make.
OpsInv == \A t \in Threads : op[t] \in Ops \cup {NULL}

LEMMA OpsStep ==
  ASSUME TypeInv, OpsInv, [Next]_vars
  PROVE  OpsInv'
<1> USE ConfigAssumption DEF TypeInv, TypeOK, Threads, OpsInv, Return
<1>1. ASSUME NEW t \in Callers, BeginOnHost(t) PROVE OpsInv'
  BY <1>1 DEF BeginOnHost
<1>2. ASSUME NEW t \in Callers, BeginOnSession(t) PROVE OpsInv'
  BY <1>2 DEF BeginOnSession
<1>3. ASSUME NEW t \in Callers, BeginClose(t) PROVE OpsInv'
  BY <1>3 DEF BeginClose
<1>4. ASSUME NEW t \in Callers, Lookup(t) \/ Probe(t) PROVE OpsInv'
  BY <1>4 DEF Lookup, Probe, UseSession
<1>5. ASSUME NEW t \in Callers, OpenStep(t) PROVE OpsInv'
  BY <1>5 DEF OpenStep, AcquireTarget, OpenBackoff, OpenReuse, OpenReserve, ConnectFail,
      ConnectOk, Unpend, UseSession
<1>6. ASSUME NEW t \in Callers, ExecStep(t) PROVE OpsInv'
  BY <1>6 DEF ExecStep, ExecLookup, ExecAcquire, ReconnectOk, ReconnectFail, CommandOk,
      CommandFail, Evict, FoundClosed, EndExec
<1>7. ASSUME NEW t \in Threads, CloseStep(t) PROVE OpsInv'
  BY <1>7 DEF CloseStep, CloseNext, CloseLocked, CloseFinish, CloseDone
<1>8. ASSUME MonitorScan PROVE OpsInv'
  BY <1>8 DEF MonitorScan
<1>9. ASSUME NEW s \in Sids, GrowIdle(s) \/ GrowOld(s) \/ Disconnect(s) PROVE OpsInv'
  BY <1>9 DEF GrowIdle, GrowOld, Disconnect
<1>10. ASSUME NEW h \in Hosts, CoolDown(h) PROVE OpsInv'
  BY <1>10 DEF CoolDown
<1>11. ASSUME UNCHANGED vars PROVE OpsInv'
  BY <1>11
<1> QED
  BY <1>1, <1>2, <1>3, <1>4, <1>5, <1>6, <1>7, <1>8, <1>9, <1>10, <1>11
     DEF Next, CallStep

\* The owner of a lock waits for nobody: every thread that waits, waits for one
\* that can go on.
OwnersRun == \A t, u, v \in Threads : WaitsFor(t, u) => ~WaitsFor(u, v)

\* Where no credential probe is called, no owner of a lock ever waits: the lock
\* order the audit describes holds for everything else the engine does.
THEOREM OwnersRunWithoutProbes ==
  ASSUME "probe" \notin Ops
  PROVE  Spec => []OwnersRun
<1>1. Init => OpsInv
  BY DEF Init, OpsInv
<1>2. SafeInv /\ OpsInv /\ [Next]_vars => OpsInv'
  BY OpsStep DEF SafeInv
<1>3. OpsInv /\ ChainNeedsProbe => OwnersRun
  BY ConfigAssumption DEF OpsInv, ChainNeedsProbe, OwnersRun, AllOps
<1> QED BY <1>1, <1>2, <1>3, Safe, ChainsNeedProbe, PTL DEF Spec
=============================================================================
