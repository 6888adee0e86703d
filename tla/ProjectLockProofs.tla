-------------------------- MODULE ProjectLockProofs --------------------------
(* Proofs about ProjectLock, for any number of tasks and processes and any  *)
(* way of distributing the tasks over them.                                 *)
EXTENDS ProjectLock, TLAPS

\* The calls that hold the file lock, and those that hold the mutex.
WithFile == {"locked", "beat", "held", "dropping"}
WithMutex == {"poll", "locked", "beat", "held", "dropping", "unlocked"}

FileOwner == \A t \in Tasks : pc[t] \in WithFile => flock = t

LocalOwner ==
    \A t \in Tasks : pc[t] \in WithMutex => mutex[t] \in Tasks /\ owner[mutex[t]] = t

Waiters == \A t \in Tasks : pc[t] = "wait" => mutex[t] \in Tasks

\* The registry refers to the mutex of whoever has one.
Registry ==
    \A t \in Tasks : mutex[t] # Nobody => registry[ProcessOf[t]] = mutex[t]

IInv ==
    /\ TypeOK
    /\ FileOwner
    /\ LocalOwner
    /\ Waiters
    /\ Registry
    /\ HeartbeatWhileHeld

LEMMA TaskIsNot ==
    ASSUME NEW t \in Tasks
    PROVE  t # Nobody /\ t \notin Processes /\ ProcessOf[t] \in Processes
BY ConstantsAssumption

\* The variables keep their types.
LEMMA TypeStep == IInv /\ [Next]_vars => TypeOK'
<1> SUFFICES ASSUME IInv, [Next]_vars PROVE TypeOK'
  OBVIOUS
<1>i. TypeOK /\ LocalOwner /\ Waiters
  BY DEF IInv
<1>1. ASSUME NEW t \in Tasks, Call(t) PROVE TypeOK'
  BY <1>i, <1>1, TaskIsNot, ConstantsAssumption
  DEF Call, TypeOK, PCs, LocalOwner, Waiters, WithMutex, GoTo, Return, LeaveMutex, files
<1>2. ASSUME NEW t \in Tasks, LockLocal(t) PROVE TypeOK'
  BY <1>i, <1>2, TaskIsNot, ConstantsAssumption
  DEF LockLocal, TypeOK, PCs, LocalOwner, Waiters, WithMutex, GoTo, Return, LeaveMutex, files
<1>3. ASSUME NEW t \in Tasks, LocalBusy(t) PROVE TypeOK'
  BY <1>i, <1>3, TaskIsNot, ConstantsAssumption
  DEF LocalBusy, TypeOK, PCs, LocalOwner, Waiters, WithMutex, GoTo, Return, LeaveMutex, files
<1>4. ASSUME NEW t \in Tasks, TryLock(t) PROVE TypeOK'
  BY <1>i, <1>4, TaskIsNot, ConstantsAssumption
  DEF TryLock, TypeOK, PCs, LocalOwner, Waiters, WithMutex, GoTo, Return, LeaveMutex, files
<1>5. ASSUME NEW t \in Tasks, FileBusy(t) PROVE TypeOK'
  BY <1>i, <1>5, TaskIsNot, ConstantsAssumption
  DEF FileBusy, TypeOK, PCs, LocalOwner, Waiters, WithMutex, GoTo, Return, LeaveMutex, files
<1>6. ASSUME NEW t \in Tasks, FirstBeat(t) PROVE TypeOK'
  BY <1>i, <1>6, TaskIsNot, ConstantsAssumption
  DEF FirstBeat, TypeOK, PCs, LocalOwner, Waiters, WithMutex, GoTo, Return, LeaveMutex, files
<1>7. ASSUME NEW t \in Tasks, Acquired(t) PROVE TypeOK'
  BY <1>i, <1>7, TaskIsNot, ConstantsAssumption
  DEF Acquired, TypeOK, PCs, LocalOwner, Waiters, WithMutex, GoTo, Return, LeaveMutex, files
<1>8. ASSUME NEW t \in Tasks, BeatFails(t) PROVE TypeOK'
  BY <1>i, <1>8, TaskIsNot, ConstantsAssumption
  DEF BeatFails, TypeOK, PCs, LocalOwner, Waiters, WithMutex, GoTo, Return, LeaveMutex, files
<1>9. ASSUME NEW t \in Tasks, Tick(t) PROVE TypeOK'
  BY <1>i, <1>9, TaskIsNot, ConstantsAssumption
  DEF Tick, TypeOK, PCs, LocalOwner, Waiters, WithMutex, GoTo, Return, LeaveMutex, files
<1>10. ASSUME NEW t \in Tasks, BeatLands(t) PROVE TypeOK'
  BY <1>i, <1>10, TaskIsNot, ConstantsAssumption
  DEF BeatLands, TypeOK, PCs, LocalOwner, Waiters, WithMutex, GoTo, Return, LeaveMutex, files
<1>11. ASSUME NEW t \in Tasks, StartWrite(t) PROVE TypeOK'
  BY <1>i, <1>11, TaskIsNot, ConstantsAssumption
  DEF StartWrite, TypeOK, PCs, LocalOwner, Waiters, WithMutex, GoTo, Return, LeaveMutex, files
<1>12. ASSUME NEW t \in Tasks, WriteLands(t) PROVE TypeOK'
  BY <1>i, <1>12, TaskIsNot, ConstantsAssumption
  DEF WriteLands, TypeOK, PCs, LocalOwner, Waiters, WithMutex, GoTo, Return, LeaveMutex, files
<1>13. ASSUME NEW t \in Tasks, DropBeat(t) PROVE TypeOK'
  BY <1>i, <1>13, TaskIsNot, ConstantsAssumption
  DEF DropBeat, TypeOK, PCs, LocalOwner, Waiters, WithMutex, GoTo, Return, LeaveMutex, files
<1>14. ASSUME NEW t \in Tasks, DropFile(t) PROVE TypeOK'
  BY <1>i, <1>14, TaskIsNot, ConstantsAssumption
  DEF DropFile, TypeOK, PCs, LocalOwner, Waiters, WithMutex, GoTo, Return, LeaveMutex, files
<1>15. ASSUME NEW t \in Tasks, DropLocal(t) PROVE TypeOK'
  BY <1>i, <1>15, TaskIsNot, ConstantsAssumption
  DEF DropLocal, TypeOK, PCs, LocalOwner, Waiters, WithMutex, GoTo, Return, LeaveMutex, files
<1>16. ASSUME NEW t \in Tasks, GiveUpWaiting(t) PROVE TypeOK'
  BY <1>i, <1>16, TaskIsNot, ConstantsAssumption
  DEF GiveUpWaiting, TypeOK, PCs, LocalOwner, Waiters, WithMutex, GoTo, Return, LeaveMutex, files
<1>17. ASSUME NEW t \in Tasks, GiveUpPolling(t) PROVE TypeOK'
  BY <1>i, <1>17, TaskIsNot, ConstantsAssumption
  DEF GiveUpPolling, TypeOK, PCs, LocalOwner, Waiters, WithMutex, GoTo, Return, LeaveMutex, files
<1>18. ASSUME NEW t \in Tasks, GiveUpLocked(t) PROVE TypeOK'
  BY <1>i, <1>18, TaskIsNot, ConstantsAssumption
  DEF GiveUpLocked, TypeOK, PCs, LocalOwner, Waiters, WithMutex, GoTo, Return, LeaveMutex, files
<1>19. ASSUME NEW p \in Processes, OrphanLocks(p) PROVE TypeOK'
  BY <1>i, <1>19, TaskIsNot, ConstantsAssumption DEF OrphanLocks, TypeOK, PCs, LocalOwner, Waiters, WithMutex, files
<1>20. ASSUME NEW p \in Processes, OrphanUnlocks(p) PROVE TypeOK'
  BY <1>i, <1>20, TaskIsNot, ConstantsAssumption DEF OrphanUnlocks, TypeOK, PCs, LocalOwner, Waiters, WithMutex, files
<1>21. ASSUME NEW p \in Processes, OrphanBusy(p) PROVE TypeOK'
  BY <1>i, <1>21, TaskIsNot, ConstantsAssumption DEF OrphanBusy, TypeOK, PCs, LocalOwner, Waiters, WithMutex, files
<1>22. ASSUME NEW p \in Processes, LateBeat(p) PROVE TypeOK'
  BY <1>i, <1>22, TaskIsNot, ConstantsAssumption DEF LateBeat, TypeOK, PCs, LocalOwner, Waiters, WithMutex, files
<1>23. ASSUME NEW p \in Processes, LateWrite(p) PROVE TypeOK'
  BY <1>i, <1>23, TaskIsNot, ConstantsAssumption DEF LateWrite, TypeOK, PCs, LocalOwner, Waiters, WithMutex, files
<1>24. ASSUME NEW p \in Processes, Crash(p) PROVE TypeOK'
  BY <1>i, <1>24, TaskIsNot, ConstantsAssumption DEF Crash, TypeOK, PCs, LocalOwner, Waiters, WithMutex, files
<1>25. CASE UNCHANGED vars
  BY <1>i, <1>25 DEF vars, TypeOK, PCs, LocalOwner, Waiters, WithMutex
<1> QED
  BY <1>1, <1>2, <1>3, <1>4, <1>5, <1>6, <1>7, <1>8, <1>9, <1>10, <1>11, <1>12, <1>13, <1>14, <1>15, <1>16, <1>17, <1>18, <1>19, <1>20, <1>21, <1>22, <1>23, <1>24, <1>25 DEF Next, Progress, Background

\* Whoever is past the file lock holds it.
LEMMA FileStep == IInv /\ [Next]_vars => FileOwner'
<1> SUFFICES ASSUME IInv, [Next]_vars PROVE FileOwner'
  OBVIOUS
<1>i. TypeOK /\ FileOwner
  BY DEF IInv
<1>1. ASSUME NEW t \in Tasks, Call(t) PROVE FileOwner'
  BY <1>i, <1>1, TaskIsNot, ConstantsAssumption
  DEF Call, TypeOK, FileOwner, WithFile, GoTo, Return, LeaveMutex, files
<1>2. ASSUME NEW t \in Tasks, LockLocal(t) PROVE FileOwner'
  BY <1>i, <1>2, TaskIsNot, ConstantsAssumption
  DEF LockLocal, TypeOK, FileOwner, WithFile, GoTo, Return, LeaveMutex, files
<1>3. ASSUME NEW t \in Tasks, LocalBusy(t) PROVE FileOwner'
  BY <1>i, <1>3, TaskIsNot, ConstantsAssumption
  DEF LocalBusy, TypeOK, FileOwner, WithFile, GoTo, Return, LeaveMutex, files
<1>4. ASSUME NEW t \in Tasks, TryLock(t) PROVE FileOwner'
  BY <1>i, <1>4, TaskIsNot, ConstantsAssumption
  DEF TryLock, TypeOK, FileOwner, WithFile, GoTo, Return, LeaveMutex, files
<1>5. ASSUME NEW t \in Tasks, FileBusy(t) PROVE FileOwner'
  BY <1>i, <1>5, TaskIsNot, ConstantsAssumption
  DEF FileBusy, TypeOK, FileOwner, WithFile, GoTo, Return, LeaveMutex, files
<1>6. ASSUME NEW t \in Tasks, FirstBeat(t) PROVE FileOwner'
  BY <1>i, <1>6, TaskIsNot, ConstantsAssumption
  DEF FirstBeat, TypeOK, FileOwner, WithFile, GoTo, Return, LeaveMutex, files
<1>7. ASSUME NEW t \in Tasks, Acquired(t) PROVE FileOwner'
  BY <1>i, <1>7, TaskIsNot, ConstantsAssumption
  DEF Acquired, TypeOK, FileOwner, WithFile, GoTo, Return, LeaveMutex, files
<1>8. ASSUME NEW t \in Tasks, BeatFails(t) PROVE FileOwner'
  BY <1>i, <1>8, TaskIsNot, ConstantsAssumption
  DEF BeatFails, TypeOK, FileOwner, WithFile, GoTo, Return, LeaveMutex, files
<1>9. ASSUME NEW t \in Tasks, Tick(t) PROVE FileOwner'
  BY <1>i, <1>9, TaskIsNot, ConstantsAssumption
  DEF Tick, TypeOK, FileOwner, WithFile, GoTo, Return, LeaveMutex, files
<1>10. ASSUME NEW t \in Tasks, BeatLands(t) PROVE FileOwner'
  BY <1>i, <1>10, TaskIsNot, ConstantsAssumption
  DEF BeatLands, TypeOK, FileOwner, WithFile, GoTo, Return, LeaveMutex, files
<1>11. ASSUME NEW t \in Tasks, StartWrite(t) PROVE FileOwner'
  BY <1>i, <1>11, TaskIsNot, ConstantsAssumption
  DEF StartWrite, TypeOK, FileOwner, WithFile, GoTo, Return, LeaveMutex, files
<1>12. ASSUME NEW t \in Tasks, WriteLands(t) PROVE FileOwner'
  BY <1>i, <1>12, TaskIsNot, ConstantsAssumption
  DEF WriteLands, TypeOK, FileOwner, WithFile, GoTo, Return, LeaveMutex, files
<1>13. ASSUME NEW t \in Tasks, DropBeat(t) PROVE FileOwner'
  BY <1>i, <1>13, TaskIsNot, ConstantsAssumption
  DEF DropBeat, TypeOK, FileOwner, WithFile, GoTo, Return, LeaveMutex, files
<1>14. ASSUME NEW t \in Tasks, DropFile(t) PROVE FileOwner'
  BY <1>i, <1>14, TaskIsNot, ConstantsAssumption
  DEF DropFile, TypeOK, FileOwner, WithFile, GoTo, Return, LeaveMutex, files
<1>15. ASSUME NEW t \in Tasks, DropLocal(t) PROVE FileOwner'
  BY <1>i, <1>15, TaskIsNot, ConstantsAssumption
  DEF DropLocal, TypeOK, FileOwner, WithFile, GoTo, Return, LeaveMutex, files
<1>16. ASSUME NEW t \in Tasks, GiveUpWaiting(t) PROVE FileOwner'
  BY <1>i, <1>16, TaskIsNot, ConstantsAssumption
  DEF GiveUpWaiting, TypeOK, FileOwner, WithFile, GoTo, Return, LeaveMutex, files
<1>17. ASSUME NEW t \in Tasks, GiveUpPolling(t) PROVE FileOwner'
  BY <1>i, <1>17, TaskIsNot, ConstantsAssumption
  DEF GiveUpPolling, TypeOK, FileOwner, WithFile, GoTo, Return, LeaveMutex, files
<1>18. ASSUME NEW t \in Tasks, GiveUpLocked(t) PROVE FileOwner'
  BY <1>i, <1>18, TaskIsNot, ConstantsAssumption
  DEF GiveUpLocked, TypeOK, FileOwner, WithFile, GoTo, Return, LeaveMutex, files
<1>19. ASSUME NEW p \in Processes, OrphanLocks(p) PROVE FileOwner'
  BY <1>i, <1>19, TaskIsNot, ConstantsAssumption DEF OrphanLocks, TypeOK, FileOwner, WithFile, files
<1>20. ASSUME NEW p \in Processes, OrphanUnlocks(p) PROVE FileOwner'
  BY <1>i, <1>20, TaskIsNot, ConstantsAssumption DEF OrphanUnlocks, TypeOK, FileOwner, WithFile, files
<1>21. ASSUME NEW p \in Processes, OrphanBusy(p) PROVE FileOwner'
  BY <1>i, <1>21, TaskIsNot, ConstantsAssumption DEF OrphanBusy, TypeOK, FileOwner, WithFile, files
<1>22. ASSUME NEW p \in Processes, LateBeat(p) PROVE FileOwner'
  BY <1>i, <1>22, TaskIsNot, ConstantsAssumption DEF LateBeat, TypeOK, FileOwner, WithFile, files
<1>23. ASSUME NEW p \in Processes, LateWrite(p) PROVE FileOwner'
  BY <1>i, <1>23, TaskIsNot, ConstantsAssumption DEF LateWrite, TypeOK, FileOwner, WithFile, files
<1>24. ASSUME NEW p \in Processes, Crash(p) PROVE FileOwner'
  BY <1>i, <1>24, TaskIsNot, ConstantsAssumption DEF Crash, TypeOK, FileOwner, WithFile, files
<1>25. CASE UNCHANGED vars
  BY <1>i, <1>25 DEF vars, TypeOK, FileOwner, WithFile
<1> QED
  BY <1>1, <1>2, <1>3, <1>4, <1>5, <1>6, <1>7, <1>8, <1>9, <1>10, <1>11, <1>12, <1>13, <1>14, <1>15, <1>16, <1>17, <1>18, <1>19, <1>20, <1>21, <1>22, <1>23, <1>24, <1>25 DEF Next, Progress, Background

\* Whoever is past the mutex holds it.
LEMMA LocalStep == IInv /\ [Next]_vars => (LocalOwner /\ Waiters)'
<1> SUFFICES ASSUME IInv, [Next]_vars PROVE (LocalOwner /\ Waiters)'
  OBVIOUS
<1>i. TypeOK /\ LocalOwner /\ Waiters
  BY DEF IInv
<1>1. ASSUME NEW t \in Tasks, Call(t) PROVE (LocalOwner /\ Waiters)'
  BY <1>i, <1>1, TaskIsNot, ConstantsAssumption
  DEF Call, TypeOK, LocalOwner, Waiters, WithMutex, GoTo, Return, LeaveMutex, files
<1>2. ASSUME NEW t \in Tasks, LockLocal(t) PROVE (LocalOwner /\ Waiters)'
  BY <1>i, <1>2, TaskIsNot, ConstantsAssumption
  DEF LockLocal, TypeOK, LocalOwner, Waiters, WithMutex, GoTo, Return, LeaveMutex, files
<1>3. ASSUME NEW t \in Tasks, LocalBusy(t) PROVE (LocalOwner /\ Waiters)'
  BY <1>i, <1>3, TaskIsNot, ConstantsAssumption
  DEF LocalBusy, TypeOK, LocalOwner, Waiters, WithMutex, GoTo, Return, LeaveMutex, files
<1>4. ASSUME NEW t \in Tasks, TryLock(t) PROVE (LocalOwner /\ Waiters)'
  BY <1>i, <1>4, TaskIsNot, ConstantsAssumption
  DEF TryLock, TypeOK, LocalOwner, Waiters, WithMutex, GoTo, Return, LeaveMutex, files
<1>5. ASSUME NEW t \in Tasks, FileBusy(t) PROVE (LocalOwner /\ Waiters)'
  BY <1>i, <1>5, TaskIsNot, ConstantsAssumption
  DEF FileBusy, TypeOK, LocalOwner, Waiters, WithMutex, GoTo, Return, LeaveMutex, files
<1>6. ASSUME NEW t \in Tasks, FirstBeat(t) PROVE (LocalOwner /\ Waiters)'
  BY <1>i, <1>6, TaskIsNot, ConstantsAssumption
  DEF FirstBeat, TypeOK, LocalOwner, Waiters, WithMutex, GoTo, Return, LeaveMutex, files
<1>7. ASSUME NEW t \in Tasks, Acquired(t) PROVE (LocalOwner /\ Waiters)'
  BY <1>i, <1>7, TaskIsNot, ConstantsAssumption
  DEF Acquired, TypeOK, LocalOwner, Waiters, WithMutex, GoTo, Return, LeaveMutex, files
<1>8. ASSUME NEW t \in Tasks, BeatFails(t) PROVE (LocalOwner /\ Waiters)'
  BY <1>i, <1>8, TaskIsNot, ConstantsAssumption
  DEF BeatFails, TypeOK, LocalOwner, Waiters, WithMutex, GoTo, Return, LeaveMutex, files
<1>9. ASSUME NEW t \in Tasks, Tick(t) PROVE (LocalOwner /\ Waiters)'
  BY <1>i, <1>9, TaskIsNot, ConstantsAssumption
  DEF Tick, TypeOK, LocalOwner, Waiters, WithMutex, GoTo, Return, LeaveMutex, files
<1>10. ASSUME NEW t \in Tasks, BeatLands(t) PROVE (LocalOwner /\ Waiters)'
  BY <1>i, <1>10, TaskIsNot, ConstantsAssumption
  DEF BeatLands, TypeOK, LocalOwner, Waiters, WithMutex, GoTo, Return, LeaveMutex, files
<1>11. ASSUME NEW t \in Tasks, StartWrite(t) PROVE (LocalOwner /\ Waiters)'
  BY <1>i, <1>11, TaskIsNot, ConstantsAssumption
  DEF StartWrite, TypeOK, LocalOwner, Waiters, WithMutex, GoTo, Return, LeaveMutex, files
<1>12. ASSUME NEW t \in Tasks, WriteLands(t) PROVE (LocalOwner /\ Waiters)'
  BY <1>i, <1>12, TaskIsNot, ConstantsAssumption
  DEF WriteLands, TypeOK, LocalOwner, Waiters, WithMutex, GoTo, Return, LeaveMutex, files
<1>13. ASSUME NEW t \in Tasks, DropBeat(t) PROVE (LocalOwner /\ Waiters)'
  BY <1>i, <1>13, TaskIsNot, ConstantsAssumption
  DEF DropBeat, TypeOK, LocalOwner, Waiters, WithMutex, GoTo, Return, LeaveMutex, files
<1>14. ASSUME NEW t \in Tasks, DropFile(t) PROVE (LocalOwner /\ Waiters)'
  BY <1>i, <1>14, TaskIsNot, ConstantsAssumption
  DEF DropFile, TypeOK, LocalOwner, Waiters, WithMutex, GoTo, Return, LeaveMutex, files
<1>15. ASSUME NEW t \in Tasks, DropLocal(t) PROVE (LocalOwner /\ Waiters)'
  BY <1>i, <1>15, TaskIsNot, ConstantsAssumption
  DEF DropLocal, TypeOK, LocalOwner, Waiters, WithMutex, GoTo, Return, LeaveMutex, files
<1>16. ASSUME NEW t \in Tasks, GiveUpWaiting(t) PROVE (LocalOwner /\ Waiters)'
  BY <1>i, <1>16, TaskIsNot, ConstantsAssumption
  DEF GiveUpWaiting, TypeOK, LocalOwner, Waiters, WithMutex, GoTo, Return, LeaveMutex, files
<1>17. ASSUME NEW t \in Tasks, GiveUpPolling(t) PROVE (LocalOwner /\ Waiters)'
  BY <1>i, <1>17, TaskIsNot, ConstantsAssumption
  DEF GiveUpPolling, TypeOK, LocalOwner, Waiters, WithMutex, GoTo, Return, LeaveMutex, files
<1>18. ASSUME NEW t \in Tasks, GiveUpLocked(t) PROVE (LocalOwner /\ Waiters)'
  BY <1>i, <1>18, TaskIsNot, ConstantsAssumption
  DEF GiveUpLocked, TypeOK, LocalOwner, Waiters, WithMutex, GoTo, Return, LeaveMutex, files
<1>19. ASSUME NEW p \in Processes, OrphanLocks(p) PROVE (LocalOwner /\ Waiters)'
  BY <1>i, <1>19, TaskIsNot, ConstantsAssumption DEF OrphanLocks, TypeOK, LocalOwner, Waiters, WithMutex, files
<1>20. ASSUME NEW p \in Processes, OrphanUnlocks(p) PROVE (LocalOwner /\ Waiters)'
  BY <1>i, <1>20, TaskIsNot, ConstantsAssumption DEF OrphanUnlocks, TypeOK, LocalOwner, Waiters, WithMutex, files
<1>21. ASSUME NEW p \in Processes, OrphanBusy(p) PROVE (LocalOwner /\ Waiters)'
  BY <1>i, <1>21, TaskIsNot, ConstantsAssumption DEF OrphanBusy, TypeOK, LocalOwner, Waiters, WithMutex, files
<1>22. ASSUME NEW p \in Processes, LateBeat(p) PROVE (LocalOwner /\ Waiters)'
  BY <1>i, <1>22, TaskIsNot, ConstantsAssumption DEF LateBeat, TypeOK, LocalOwner, Waiters, WithMutex, files
<1>23. ASSUME NEW p \in Processes, LateWrite(p) PROVE (LocalOwner /\ Waiters)'
  BY <1>i, <1>23, TaskIsNot, ConstantsAssumption DEF LateWrite, TypeOK, LocalOwner, Waiters, WithMutex, files
<1>24. ASSUME NEW p \in Processes, Crash(p) PROVE (LocalOwner /\ Waiters)'
  BY <1>i, <1>24, TaskIsNot, ConstantsAssumption DEF Crash, TypeOK, LocalOwner, Waiters, WithMutex, files
<1>25. CASE UNCHANGED vars
  BY <1>i, <1>25 DEF vars, TypeOK, LocalOwner, Waiters, WithMutex
<1> QED
  BY <1>1, <1>2, <1>3, <1>4, <1>5, <1>6, <1>7, <1>8, <1>9, <1>10, <1>11, <1>12, <1>13, <1>14, <1>15, <1>16, <1>17, <1>18, <1>19, <1>20, <1>21, <1>22, <1>23, <1>24, <1>25 DEF Next, Progress, Background

\* The tasks of a process share one mutex.
LEMMA RegistryStep == IInv /\ [Next]_vars => Registry'
<1> SUFFICES ASSUME IInv, [Next]_vars PROVE Registry'
  OBVIOUS
<1>i. TypeOK /\ Registry /\ LocalOwner /\ Waiters
  BY DEF IInv
<1>1. ASSUME NEW t \in Tasks, Call(t) PROVE Registry'
  BY <1>i, <1>1, TaskIsNot, ConstantsAssumption
  DEF Call, TypeOK, Registry, GoTo, Return, LeaveMutex, files
<1>2. ASSUME NEW t \in Tasks, LockLocal(t) PROVE Registry'
  BY <1>i, <1>2, TaskIsNot, ConstantsAssumption
  DEF LockLocal, TypeOK, Registry, GoTo, Return, LeaveMutex, files
<1>3. ASSUME NEW t \in Tasks, LocalBusy(t) PROVE Registry'
  BY <1>i, <1>3, TaskIsNot, ConstantsAssumption
  DEF LocalBusy, TypeOK, Registry, GoTo, Return, LeaveMutex, files
<1>4. ASSUME NEW t \in Tasks, TryLock(t) PROVE Registry'
  BY <1>i, <1>4, TaskIsNot, ConstantsAssumption
  DEF TryLock, TypeOK, Registry, GoTo, Return, LeaveMutex, files
<1>5. ASSUME NEW t \in Tasks, FileBusy(t) PROVE Registry'
  BY <1>i, <1>5, TaskIsNot, ConstantsAssumption
  DEF FileBusy, TypeOK, Registry, GoTo, Return, LeaveMutex, files
<1>6. ASSUME NEW t \in Tasks, FirstBeat(t) PROVE Registry'
  BY <1>i, <1>6, TaskIsNot, ConstantsAssumption
  DEF FirstBeat, TypeOK, Registry, GoTo, Return, LeaveMutex, files
<1>7. ASSUME NEW t \in Tasks, Acquired(t) PROVE Registry'
  BY <1>i, <1>7, TaskIsNot, ConstantsAssumption
  DEF Acquired, TypeOK, Registry, GoTo, Return, LeaveMutex, files
<1>8. ASSUME NEW t \in Tasks, BeatFails(t) PROVE Registry'
  BY <1>i, <1>8, TaskIsNot, ConstantsAssumption
  DEF BeatFails, TypeOK, Registry, GoTo, Return, LeaveMutex, files
<1>9. ASSUME NEW t \in Tasks, Tick(t) PROVE Registry'
  BY <1>i, <1>9, TaskIsNot, ConstantsAssumption
  DEF Tick, TypeOK, Registry, GoTo, Return, LeaveMutex, files
<1>10. ASSUME NEW t \in Tasks, BeatLands(t) PROVE Registry'
  BY <1>i, <1>10, TaskIsNot, ConstantsAssumption
  DEF BeatLands, TypeOK, Registry, GoTo, Return, LeaveMutex, files
<1>11. ASSUME NEW t \in Tasks, StartWrite(t) PROVE Registry'
  BY <1>i, <1>11, TaskIsNot, ConstantsAssumption
  DEF StartWrite, TypeOK, Registry, GoTo, Return, LeaveMutex, files
<1>12. ASSUME NEW t \in Tasks, WriteLands(t) PROVE Registry'
  BY <1>i, <1>12, TaskIsNot, ConstantsAssumption
  DEF WriteLands, TypeOK, Registry, GoTo, Return, LeaveMutex, files
<1>13. ASSUME NEW t \in Tasks, DropBeat(t) PROVE Registry'
  BY <1>i, <1>13, TaskIsNot, ConstantsAssumption
  DEF DropBeat, TypeOK, Registry, GoTo, Return, LeaveMutex, files
<1>14. ASSUME NEW t \in Tasks, DropFile(t) PROVE Registry'
  BY <1>i, <1>14, TaskIsNot, ConstantsAssumption
  DEF DropFile, TypeOK, Registry, GoTo, Return, LeaveMutex, files
<1>15. ASSUME NEW t \in Tasks, DropLocal(t) PROVE Registry'
  BY <1>i, <1>15, TaskIsNot, ConstantsAssumption
  DEF DropLocal, TypeOK, Registry, GoTo, Return, LeaveMutex, files
<1>16. ASSUME NEW t \in Tasks, GiveUpWaiting(t) PROVE Registry'
  BY <1>i, <1>16, TaskIsNot, ConstantsAssumption
  DEF GiveUpWaiting, TypeOK, Registry, GoTo, Return, LeaveMutex, files
<1>17. ASSUME NEW t \in Tasks, GiveUpPolling(t) PROVE Registry'
  BY <1>i, <1>17, TaskIsNot, ConstantsAssumption
  DEF GiveUpPolling, TypeOK, Registry, GoTo, Return, LeaveMutex, files
<1>18. ASSUME NEW t \in Tasks, GiveUpLocked(t) PROVE Registry'
  BY <1>i, <1>18, TaskIsNot, ConstantsAssumption
  DEF GiveUpLocked, TypeOK, Registry, GoTo, Return, LeaveMutex, files
<1>19. ASSUME NEW p \in Processes, OrphanLocks(p) PROVE Registry'
  BY <1>i, <1>19, TaskIsNot, ConstantsAssumption DEF OrphanLocks, TypeOK, Registry, files
<1>20. ASSUME NEW p \in Processes, OrphanUnlocks(p) PROVE Registry'
  BY <1>i, <1>20, TaskIsNot, ConstantsAssumption DEF OrphanUnlocks, TypeOK, Registry, files
<1>21. ASSUME NEW p \in Processes, OrphanBusy(p) PROVE Registry'
  BY <1>i, <1>21, TaskIsNot, ConstantsAssumption DEF OrphanBusy, TypeOK, Registry, files
<1>22. ASSUME NEW p \in Processes, LateBeat(p) PROVE Registry'
  BY <1>i, <1>22, TaskIsNot, ConstantsAssumption DEF LateBeat, TypeOK, Registry, files
<1>23. ASSUME NEW p \in Processes, LateWrite(p) PROVE Registry'
  BY <1>i, <1>23, TaskIsNot, ConstantsAssumption DEF LateWrite, TypeOK, Registry, files
<1>24. ASSUME NEW p \in Processes, Crash(p) PROVE Registry'
  BY <1>i, <1>24, TaskIsNot, ConstantsAssumption DEF Crash, TypeOK, Registry, files
<1>25. CASE UNCHANGED vars
  BY <1>i, <1>25 DEF vars, TypeOK, Registry
<1> QED
  BY <1>1, <1>2, <1>3, <1>4, <1>5, <1>6, <1>7, <1>8, <1>9, <1>10, <1>11, <1>12, <1>13, <1>14, <1>15, <1>16, <1>17, <1>18, <1>19, <1>20, <1>21, <1>22, <1>23, <1>24, <1>25 DEF Next, Progress, Background

\* The holder keeps its heartbeat.
LEMMA HeartbeatStep == IInv /\ [Next]_vars => HeartbeatWhileHeld'
<1> SUFFICES ASSUME IInv, [Next]_vars PROVE HeartbeatWhileHeld'
  OBVIOUS
<1>i. TypeOK /\ FileOwner /\ HeartbeatWhileHeld
  BY DEF IInv
<1>1. ASSUME NEW t \in Tasks, Call(t) PROVE HeartbeatWhileHeld'
  BY <1>i, <1>1, TaskIsNot, ConstantsAssumption
  DEF Call, TypeOK, FileOwner, WithFile, HeartbeatWhileHeld, GoTo, Return, LeaveMutex, files
<1>2. ASSUME NEW t \in Tasks, LockLocal(t) PROVE HeartbeatWhileHeld'
  BY <1>i, <1>2, TaskIsNot, ConstantsAssumption
  DEF LockLocal, TypeOK, FileOwner, WithFile, HeartbeatWhileHeld, GoTo, Return, LeaveMutex, files
<1>3. ASSUME NEW t \in Tasks, LocalBusy(t) PROVE HeartbeatWhileHeld'
  BY <1>i, <1>3, TaskIsNot, ConstantsAssumption
  DEF LocalBusy, TypeOK, FileOwner, WithFile, HeartbeatWhileHeld, GoTo, Return, LeaveMutex, files
<1>4. ASSUME NEW t \in Tasks, TryLock(t) PROVE HeartbeatWhileHeld'
  BY <1>i, <1>4, TaskIsNot, ConstantsAssumption
  DEF TryLock, TypeOK, FileOwner, WithFile, HeartbeatWhileHeld, GoTo, Return, LeaveMutex, files
<1>5. ASSUME NEW t \in Tasks, FileBusy(t) PROVE HeartbeatWhileHeld'
  BY <1>i, <1>5, TaskIsNot, ConstantsAssumption
  DEF FileBusy, TypeOK, FileOwner, WithFile, HeartbeatWhileHeld, GoTo, Return, LeaveMutex, files
<1>6. ASSUME NEW t \in Tasks, FirstBeat(t) PROVE HeartbeatWhileHeld'
  BY <1>i, <1>6, TaskIsNot, ConstantsAssumption
  DEF FirstBeat, TypeOK, FileOwner, WithFile, HeartbeatWhileHeld, GoTo, Return, LeaveMutex, files
<1>7. ASSUME NEW t \in Tasks, Acquired(t) PROVE HeartbeatWhileHeld'
  BY <1>i, <1>7, TaskIsNot, ConstantsAssumption
  DEF Acquired, TypeOK, FileOwner, WithFile, HeartbeatWhileHeld, GoTo, Return, LeaveMutex, files
<1>8. ASSUME NEW t \in Tasks, BeatFails(t) PROVE HeartbeatWhileHeld'
  BY <1>i, <1>8, TaskIsNot, ConstantsAssumption
  DEF BeatFails, TypeOK, FileOwner, WithFile, HeartbeatWhileHeld, GoTo, Return, LeaveMutex, files
<1>9. ASSUME NEW t \in Tasks, Tick(t) PROVE HeartbeatWhileHeld'
  BY <1>i, <1>9, TaskIsNot, ConstantsAssumption
  DEF Tick, TypeOK, FileOwner, WithFile, HeartbeatWhileHeld, GoTo, Return, LeaveMutex, files
<1>10. ASSUME NEW t \in Tasks, BeatLands(t) PROVE HeartbeatWhileHeld'
  BY <1>i, <1>10, TaskIsNot, ConstantsAssumption
  DEF BeatLands, TypeOK, FileOwner, WithFile, HeartbeatWhileHeld, GoTo, Return, LeaveMutex, files
<1>11. ASSUME NEW t \in Tasks, StartWrite(t) PROVE HeartbeatWhileHeld'
  BY <1>i, <1>11, TaskIsNot, ConstantsAssumption
  DEF StartWrite, TypeOK, FileOwner, WithFile, HeartbeatWhileHeld, GoTo, Return, LeaveMutex, files
<1>12. ASSUME NEW t \in Tasks, WriteLands(t) PROVE HeartbeatWhileHeld'
  BY <1>i, <1>12, TaskIsNot, ConstantsAssumption
  DEF WriteLands, TypeOK, FileOwner, WithFile, HeartbeatWhileHeld, GoTo, Return, LeaveMutex, files
<1>13. ASSUME NEW t \in Tasks, DropBeat(t) PROVE HeartbeatWhileHeld'
  BY <1>i, <1>13, TaskIsNot, ConstantsAssumption
  DEF DropBeat, TypeOK, FileOwner, WithFile, HeartbeatWhileHeld, GoTo, Return, LeaveMutex, files
<1>14. ASSUME NEW t \in Tasks, DropFile(t) PROVE HeartbeatWhileHeld'
  BY <1>i, <1>14, TaskIsNot, ConstantsAssumption
  DEF DropFile, TypeOK, FileOwner, WithFile, HeartbeatWhileHeld, GoTo, Return, LeaveMutex, files
<1>15. ASSUME NEW t \in Tasks, DropLocal(t) PROVE HeartbeatWhileHeld'
  BY <1>i, <1>15, TaskIsNot, ConstantsAssumption
  DEF DropLocal, TypeOK, FileOwner, WithFile, HeartbeatWhileHeld, GoTo, Return, LeaveMutex, files
<1>16. ASSUME NEW t \in Tasks, GiveUpWaiting(t) PROVE HeartbeatWhileHeld'
  BY <1>i, <1>16, TaskIsNot, ConstantsAssumption
  DEF GiveUpWaiting, TypeOK, FileOwner, WithFile, HeartbeatWhileHeld, GoTo, Return, LeaveMutex, files
<1>17. ASSUME NEW t \in Tasks, GiveUpPolling(t) PROVE HeartbeatWhileHeld'
  BY <1>i, <1>17, TaskIsNot, ConstantsAssumption
  DEF GiveUpPolling, TypeOK, FileOwner, WithFile, HeartbeatWhileHeld, GoTo, Return, LeaveMutex, files
<1>18. ASSUME NEW t \in Tasks, GiveUpLocked(t) PROVE HeartbeatWhileHeld'
  BY <1>i, <1>18, TaskIsNot, ConstantsAssumption
  DEF GiveUpLocked, TypeOK, FileOwner, WithFile, HeartbeatWhileHeld, GoTo, Return, LeaveMutex, files
<1>19. ASSUME NEW p \in Processes, OrphanLocks(p) PROVE HeartbeatWhileHeld'
  BY <1>i, <1>19, TaskIsNot, ConstantsAssumption DEF OrphanLocks, TypeOK, FileOwner, WithFile, HeartbeatWhileHeld, files
<1>20. ASSUME NEW p \in Processes, OrphanUnlocks(p) PROVE HeartbeatWhileHeld'
  BY <1>i, <1>20, TaskIsNot, ConstantsAssumption DEF OrphanUnlocks, TypeOK, FileOwner, WithFile, HeartbeatWhileHeld, files
<1>21. ASSUME NEW p \in Processes, OrphanBusy(p) PROVE HeartbeatWhileHeld'
  BY <1>i, <1>21, TaskIsNot, ConstantsAssumption DEF OrphanBusy, TypeOK, FileOwner, WithFile, HeartbeatWhileHeld, files
<1>22. ASSUME NEW p \in Processes, LateBeat(p) PROVE HeartbeatWhileHeld'
  BY <1>i, <1>22, TaskIsNot, ConstantsAssumption DEF LateBeat, TypeOK, FileOwner, WithFile, HeartbeatWhileHeld, files
<1>23. ASSUME NEW p \in Processes, LateWrite(p) PROVE HeartbeatWhileHeld'
  BY <1>i, <1>23, TaskIsNot, ConstantsAssumption DEF LateWrite, TypeOK, FileOwner, WithFile, HeartbeatWhileHeld, files
<1>24. ASSUME NEW p \in Processes, Crash(p) PROVE HeartbeatWhileHeld'
  BY <1>i, <1>24, TaskIsNot, ConstantsAssumption DEF Crash, TypeOK, FileOwner, WithFile, HeartbeatWhileHeld, files
<1>25. CASE UNCHANGED vars
  BY <1>i, <1>25 DEF vars, TypeOK, FileOwner, WithFile, HeartbeatWhileHeld
<1> QED
  BY <1>1, <1>2, <1>3, <1>4, <1>5, <1>6, <1>7, <1>8, <1>9, <1>10, <1>11, <1>12, <1>13, <1>14, <1>15, <1>16, <1>17, <1>18, <1>19, <1>20, <1>21, <1>22, <1>23, <1>24, <1>25 DEF Next, Progress, Background

LEMMA Invariance == Spec => []IInv
<1>1. Init => IInv
  <2>1. Init => TypeOK
    BY ConstantsAssumption DEF Init, TypeOK, PCs
  <2> QED
    BY <2>1 DEF Init, IInv, FileOwner, LocalOwner, Waiters, Registry, HeartbeatWhileHeld,
       WithFile, WithMutex
<1>2. IInv /\ [Next]_vars => IInv'
  BY TypeStep, FileStep, LocalStep, RegistryStep, HeartbeatStep DEF IInv
<1> QED
  BY <1>1, <1>2, PTL DEF Spec

\* The calls, mutexes, locks and abandoned writes keep their types.
THEOREM TypeCorrect == Spec => []TypeOK
<1>1. IInv => TypeOK
  BY DEF IInv
<1> QED
  BY <1>1, Invariance, PTL

\* At most one operation on the project runs, for any number of tasks and
\* processes and whatever is given up or crashes.
THEOREM Exclusion == Spec => []MutualExclusion
<1>1. IInv => MutualExclusion
  BY DEF IInv, FileOwner, WithFile, MutualExclusion
<1> QED
  BY <1>1, Invariance, PTL

\* At most one task of a process is past the mutex.
THEOREM LocalExclusion == Spec => []OnePerProcess
<1>1. IInv => OnePerProcess
  <2> SUFFICES ASSUME IInv, NEW t \in Tasks, NEW u \in Tasks, ProcessOf[t] = ProcessOf[u],
                      pc[t] \notin {"idle", "wait"}, pc[u] \notin {"idle", "wait"}
               PROVE  t = u
    BY DEF OnePerProcess
  <2>1. pc[t] \in WithMutex /\ pc[u] \in WithMutex
    BY DEF IInv, TypeOK, PCs, WithMutex
  <2>2. mutex[t] = mutex[u]
    BY <2>1, TaskIsNot DEF IInv, LocalOwner, Registry
  <2> QED
    BY <2>1, <2>2 DEF IInv, LocalOwner
<1> QED
  BY <1>1, Invariance, PTL

\* The drop of a guard never removes the heartbeat of its successor.
THEOREM HeartbeatKept == Spec => []HeartbeatWhileHeld
<1>1. IInv => HeartbeatWhileHeld
  BY DEF IInv
<1> QED
  BY <1>1, Invariance, PTL
=============================================================================
