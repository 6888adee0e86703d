----------------------------- MODULE ProjectLock -----------------------------
(***************************************************************************)
(* The lock that makes the operations on a novel project exclude each      *)
(* other (crates/builtin-tools/src/tool/writing/novel_studio/              *)
(* project_lock.rs), for one key: a mutex shared by the tasks of a process *)
(* through a registry of weak references, an exclusive lock on a file      *)
(* between processes, and a heartbeat file beside it.                      *)
(*                                                                         *)
(* A task may be given up at any await (a tool call that times out): its   *)
(* future is dropped, but what it has handed to a blocking thread (the     *)
(* poll of the file lock, the write of the heartbeat or of a file of the   *)
(* project) goes on.  A process may crash: the system then frees the file  *)
(* lock, and the heartbeat stays.  The waits of 30 seconds may run out     *)
(* whenever the lock that is waited for is taken.                          *)
(***************************************************************************)
EXTENDS Naturals, FiniteSets

CONSTANTS Tasks,       \* the callers of acquire_project_lock
          Processes,   \* the processes that they run in
          ProcessOf,   \* the process of each task
          Nobody,      \* no task, no process, no heartbeat
          MaxOrphans,  \* bounds the abandoned polls of a process
          MaxCrashes   \* bounds the crashes

ASSUME ConstantsAssumption ==
    /\ ProcessOf \in [Tasks -> Processes]
    /\ Nobody \notin Tasks \union Processes
    /\ Tasks \intersect Processes = {}
    /\ MaxOrphans \in Nat /\ MaxCrashes \in Nat

VARIABLES
    pc,         \* where the call of each task stands
    registry,   \* the live mutex that the registry of each process refers to
    mutex,      \* the mutex that each task has a strong reference to
    owner,      \* the task that holds each mutex; a mutex is named after its maker
    flock,      \* who holds the file lock: a task, or an abandoned poll of a process
    orphans,    \* abandoned polls of each process
    heartbeat,  \* the process that the heartbeat file names, or Nobody
    beating,    \* a periodic heartbeat of the task is being written
    lateBeats,  \* processes with an abandoned heartbeat write
    writing,    \* the operation of the task is writing a file of the project
    lateWrites, \* processes with an abandoned write of a project file
    crashes     \* crashes so far

vars == <<pc, registry, mutex, owner, flock, orphans, heartbeat, beating,
          lateBeats, writing, lateWrites, crashes>>

\* What only the holder of the lock and its abandoned writes change.
files == <<heartbeat, beating, lateBeats, writing, lateWrites>>

PCs == {"idle", "wait", "poll", "locked", "beat", "held", "dropping", "unlocked"}

TypeOK ==
    /\ pc \in [Tasks -> PCs]
    /\ registry \in [Processes -> Tasks \union {Nobody}]
    /\ mutex \in [Tasks -> Tasks \union {Nobody}]
    /\ owner \in [Tasks -> Tasks \union {Nobody}]
    /\ flock \in Tasks \union Processes \union {Nobody}
    /\ orphans \in [Processes -> 0..MaxOrphans]
    /\ heartbeat \in Processes \union {Nobody}
    /\ beating \in [Tasks -> BOOLEAN] /\ lateBeats \subseteq Processes
    /\ writing \in [Tasks -> BOOLEAN] /\ lateWrites \subseteq Processes
    /\ crashes \in 0..MaxCrashes

Init ==
    /\ pc = [t \in Tasks |-> "idle"]
    /\ registry = [p \in Processes |-> Nobody]
    /\ mutex = [t \in Tasks |-> Nobody]
    /\ owner = [m \in Tasks |-> Nobody]
    /\ flock = Nobody
    /\ orphans = [p \in Processes |-> 0]
    /\ heartbeat = Nobody
    /\ beating = [t \in Tasks |-> FALSE] /\ lateBeats = {}
    /\ writing = [t \in Tasks |-> FALSE] /\ lateWrites = {}
    /\ crashes = 0

-----------------------------------------------------------------------------
(* Helpers *)

GoTo(t, p) == pc' = [pc EXCEPT ![t] = p]

\* The task drops its guard of the mutex, if it has one, and its reference; the
\* weak reference of the registry is worth nothing after the last one.
LeaveMutex(t) ==
    /\ owner' = [m \in Tasks |-> IF owner[m] = t THEN Nobody ELSE owner[m]]
    /\ mutex' = [mutex EXCEPT ![t] = Nobody]
    /\ registry' = [p \in Processes |->
                       IF \E u \in Tasks \ {t} : mutex[u] = registry[p]
                         THEN registry[p] ELSE Nobody]

\* The call is over and has left the mutex.
Return(t) == GoTo(t, "idle") /\ LeaveMutex(t)

-----------------------------------------------------------------------------
(* acquire_project_lock *)

\* Mutant: a mutex of its own for every call.
CallAlone(t) ==
    /\ pc[t] = "idle"
    /\ registry' = [registry EXCEPT ![ProcessOf[t]] = t]
    /\ mutex' = [mutex EXCEPT ![t] = t]
    /\ GoTo(t, "wait")
    /\ UNCHANGED <<owner, flock, orphans, files, crashes>>

\* The mutex of the registry, or a new one.
Call(t) ==
    /\ pc[t] = "idle"
    /\ IF registry[ProcessOf[t]] # Nobody
         THEN /\ mutex' = [mutex EXCEPT ![t] = registry[ProcessOf[t]]]
              /\ UNCHANGED registry
         ELSE /\ mutex' = [mutex EXCEPT ![t] = t]
              /\ registry' = [registry EXCEPT ![ProcessOf[t]] = t]
    /\ GoTo(t, "wait")
    /\ UNCHANGED <<owner, flock, orphans, files, crashes>>

\* lock_owned; a blocking thread starts to poll the file lock.
LockLocal(t) ==
    /\ pc[t] = "wait"
    /\ owner[mutex[t]] = Nobody
    /\ owner' = [owner EXCEPT ![mutex[t]] = t]
    /\ GoTo(t, "poll")
    /\ UNCHANGED <<registry, mutex, flock, orphans, files, crashes>>

\* project_busy: the mutex has not come free within 30 seconds.
LocalBusy(t) ==
    /\ pc[t] = "wait"
    /\ owner[mutex[t]] # Nobody
    /\ Return(t)
    /\ UNCHANGED <<flock, orphans, files, crashes>>

\* Mutant: a lock that can be shared.
TryLockShared(t) ==
    /\ pc[t] = "poll"
    /\ flock' = t
    /\ GoTo(t, "locked")
    /\ UNCHANGED <<registry, mutex, owner, orphans, files, crashes>>

\* try_lock_exclusive
TryLock(t) ==
    /\ pc[t] = "poll"
    /\ flock = Nobody
    /\ flock' = t
    /\ GoTo(t, "locked")
    /\ UNCHANGED <<registry, mutex, owner, orphans, files, crashes>>

\* project_busy: the file lock has not come free within 30 seconds.
FileBusy(t) ==
    /\ pc[t] = "poll"
    /\ flock # Nobody
    /\ Return(t)
    /\ UNCHANGED <<flock, orphans, files, crashes>>

\* The first heartbeat, which says whether a stale one was there (left out), is
\* handed to a blocking thread.
FirstBeat(t) ==
    /\ pc[t] = "locked"
    /\ GoTo(t, "beat")
    /\ UNCHANGED <<registry, mutex, owner, flock, orphans, files, crashes>>

\* The heartbeat has been written and the guard is handed out.
Acquired(t) ==
    /\ pc[t] = "beat"
    /\ heartbeat' = ProcessOf[t]
    /\ GoTo(t, "held")
    /\ UNCHANGED <<registry, mutex, owner, flock, orphans, beating, lateBeats,
                   writing, lateWrites, crashes>>

\* Mutant: the file stays locked when the heartbeat cannot be written.
BeatFailsLocked(t) ==
    /\ pc[t] = "beat"
    /\ Return(t)
    /\ UNCHANGED <<flock, orphans, files, crashes>>

\* The heartbeat cannot be written: the file is closed and the mutex left.
BeatFails(t) ==
    /\ pc[t] = "beat"
    /\ flock' = Nobody
    /\ Return(t)
    /\ UNCHANGED <<orphans, files, crashes>>

-----------------------------------------------------------------------------
(* While the guard is held *)

\* The heartbeat task hands a write to a blocking thread every 10 seconds.
Tick(t) ==
    /\ pc[t] = "held" /\ ~beating[t]
    /\ beating' = [beating EXCEPT ![t] = TRUE]
    /\ UNCHANGED <<pc, registry, mutex, owner, flock, orphans, heartbeat,
                   lateBeats, writing, lateWrites, crashes>>

BeatLands(t) ==
    /\ pc[t] = "held" /\ beating[t]
    /\ beating' = [beating EXCEPT ![t] = FALSE]
    /\ heartbeat' = ProcessOf[t]
    /\ UNCHANGED <<pc, registry, mutex, owner, flock, orphans, lateBeats,
                   writing, lateWrites, crashes>>

\* The operation writes a file of the project (atomic_write_file).
StartWrite(t) ==
    /\ pc[t] = "held" /\ ~writing[t]
    /\ writing' = [writing EXCEPT ![t] = TRUE]
    /\ UNCHANGED <<pc, registry, mutex, owner, flock, orphans, heartbeat, beating,
                   lateBeats, lateWrites, crashes>>

WriteLands(t) ==
    /\ pc[t] = "held" /\ writing[t]
    /\ writing' = [writing EXCEPT ![t] = FALSE]
    /\ UNCHANGED <<pc, registry, mutex, owner, flock, orphans, heartbeat, beating,
                   lateBeats, lateWrites, crashes>>

-----------------------------------------------------------------------------
(* Drop of the guard: the heartbeat task is stopped, the heartbeat removed, *)
(* the file unlocked, the mutex left.                                       *)

\* The operation has ended, or is given up with a write under way.
DropBeat(t) ==
    /\ pc[t] = "held"
    /\ heartbeat' = Nobody
    /\ beating' = [beating EXCEPT ![t] = FALSE]
    /\ lateBeats' = IF beating[t] THEN lateBeats \union {ProcessOf[t]} ELSE lateBeats
    /\ writing' = [writing EXCEPT ![t] = FALSE]
    /\ lateWrites' = IF writing[t] THEN lateWrites \union {ProcessOf[t]} ELSE lateWrites
    /\ GoTo(t, "dropping")
    /\ UNCHANGED <<registry, mutex, owner, flock, orphans, crashes>>

\* Mutant: the file is unlocked before the heartbeat is removed.
UnlockThenRemove(t) ==
    /\ \/ pc[t] = "dropping" /\ flock' = Nobody /\ GoTo(t, "unlocked") /\ UNCHANGED heartbeat
       \/ pc[t] = "unlocked" /\ flock # t /\ heartbeat' = Nobody /\ UNCHANGED <<pc, flock>>
    /\ UNCHANGED <<registry, mutex, owner, orphans, beating, lateBeats, writing,
                   lateWrites, crashes>>

DropFile(t) ==
    /\ pc[t] = "dropping"
    /\ flock' = Nobody
    /\ GoTo(t, "unlocked")
    /\ UNCHANGED <<registry, mutex, owner, orphans, files, crashes>>

DropLocal(t) ==
    /\ pc[t] = "unlocked"
    /\ Return(t)
    /\ UNCHANGED <<flock, orphans, files, crashes>>

-----------------------------------------------------------------------------
(* The call is given up while it waits *)

GiveUpWaiting(t) ==
    /\ pc[t] = "wait"
    /\ Return(t)
    /\ UNCHANGED <<flock, orphans, files, crashes>>

\* The poll goes on without anybody to take the file.
GiveUpPolling(t) ==
    /\ pc[t] = "poll"
    /\ orphans[ProcessOf[t]] < MaxOrphans
    /\ orphans' = [orphans EXCEPT ![ProcessOf[t]] = @ + 1]
    /\ Return(t)
    /\ UNCHANGED <<flock, files, crashes>>

\* The file is dropped and so unlocked; the first heartbeat is still written.
GiveUpLocked(t) ==
    /\ pc[t] \in {"locked", "beat"}
    /\ flock' = Nobody
    /\ lateBeats' = IF pc[t] = "beat" THEN lateBeats \union {ProcessOf[t]} ELSE lateBeats
    /\ Return(t)
    /\ UNCHANGED <<orphans, heartbeat, beating, writing, lateWrites, crashes>>

-----------------------------------------------------------------------------
(* What goes on without its caller *)

OrphanLocks(p) ==
    /\ orphans[p] > 0
    /\ flock = Nobody
    /\ flock' = p
    /\ orphans' = [orphans EXCEPT ![p] = @ - 1]
    /\ UNCHANGED <<pc, registry, mutex, owner, files, crashes>>

\* Mutant: the poll is counted twice.
OrphanUnlocksTwice(p) ==
    /\ flock = p
    /\ flock' = Nobody
    /\ orphans' = [orphans EXCEPT ![p] = @ - 1]
    /\ UNCHANGED <<pc, registry, mutex, owner, files, crashes>>

\* The file that nobody awaits is dropped.
OrphanUnlocks(p) ==
    /\ flock = p
    /\ flock' = Nobody
    /\ UNCHANGED <<pc, registry, mutex, owner, orphans, files, crashes>>

OrphanBusy(p) ==
    /\ orphans[p] > 0
    /\ flock # Nobody
    /\ orphans' = [orphans EXCEPT ![p] = @ - 1]
    /\ UNCHANGED <<pc, registry, mutex, owner, flock, files, crashes>>

LateBeat(p) ==
    /\ p \in lateBeats
    /\ heartbeat' = p
    /\ lateBeats' = lateBeats \ {p}
    /\ UNCHANGED <<pc, registry, mutex, owner, flock, orphans, beating, writing,
                   lateWrites, crashes>>

LateWrite(p) ==
    /\ p \in lateWrites
    /\ lateWrites' = lateWrites \ {p}
    /\ UNCHANGED <<pc, registry, mutex, owner, flock, orphans, heartbeat, beating,
                   lateBeats, writing, crashes>>

\* A process crashes: the system closes its files and the heartbeat stays.
Crash(p) ==
    LET dead == {t \in Tasks : ProcessOf[t] = p} IN
    /\ crashes < MaxCrashes /\ crashes' = crashes + 1
    /\ pc' = [t \in Tasks |-> IF t \in dead THEN "idle" ELSE pc[t]]
    /\ registry' = [registry EXCEPT ![p] = Nobody]
    /\ mutex' = [t \in Tasks |-> IF t \in dead THEN Nobody ELSE mutex[t]]
    /\ owner' = [m \in Tasks |-> IF owner[m] \in dead THEN Nobody ELSE owner[m]]
    /\ flock' = IF flock \in dead \union {p} THEN Nobody ELSE flock
    /\ orphans' = [orphans EXCEPT ![p] = 0]
    /\ beating' = [t \in Tasks |-> t \notin dead /\ beating[t]]
    /\ writing' = [t \in Tasks |-> t \notin dead /\ writing[t]]
    /\ lateBeats' = lateBeats \ {p}
    /\ lateWrites' = lateWrites \ {p}
    /\ UNCHANGED heartbeat

-----------------------------------------------------------------------------

\* What a call, its guard and its blocking threads do when they are not given up.
Progress(t) ==
    \/ LockLocal(t) \/ TryLock(t) \/ FirstBeat(t) \/ Acquired(t) \/ BeatFails(t)
    \/ BeatLands(t) \/ WriteLands(t) \/ DropBeat(t) \/ DropFile(t) \/ DropLocal(t)

Background(p) == OrphanLocks(p) \/ OrphanUnlocks(p) \/ OrphanBusy(p) \/ LateBeat(p) \/ LateWrite(p)

Next ==
    \/ \E t \in Tasks :
          \/ Call(t) \/ Progress(t) \/ LocalBusy(t) \/ FileBusy(t) \/ Tick(t)
          \/ StartWrite(t) \/ GiveUpWaiting(t) \/ GiveUpPolling(t) \/ GiveUpLocked(t)
    \/ \E p \in Processes : Background(p) \/ Crash(p)

Spec == Init /\ [][Next]_vars

\* Threads run, files are written and an operation ends some time; nobody has to
\* call, to give up or to crash.
FairSpec ==
    /\ Spec
    /\ \A t \in Tasks : WF_vars(FirstBeat(t)) /\ WF_vars(Acquired(t) \/ BeatFails(t))
                        /\ WF_vars(DropBeat(t)) /\ WF_vars(DropFile(t))
                        /\ WF_vars(DropLocal(t))
    /\ \A p \in Processes : WF_vars(OrphanUnlocks(p))

-----------------------------------------------------------------------------
(* Properties *)

\* Two operations on the project never run at the same time, in one process or
\* in two, whoever gives up or crashes.
MutualExclusion ==
    \A t, u \in Tasks : pc[t] = "held" /\ pc[u] = "held" => t = u

\* The weak registry gives the tasks of a process one mutex: at most one of them
\* is past it and keeps a blocking thread busy with the file lock.
OnePerProcess ==
    \A t, u \in Tasks :
        /\ ProcessOf[t] = ProcessOf[u]
        /\ pc[t] \notin {"idle", "wait"} /\ pc[u] \notin {"idle", "wait"}
        => t = u

\* A project that is being worked on has a heartbeat: the drop of an earlier
\* guard never removes the heartbeat of its successor.
HeartbeatWhileHeld == \A t \in Tasks : pc[t] = "held" => heartbeat # Nobody

\* The file lock always comes free again, whatever is given up half way.
LockComesFree == flock # Nobody ~> flock = Nobody

-----------------------------------------------------------------------------
(* Statements that the code does not meet: TLC finds a counterexample to    *)
(* each (see README.md).                                                     *)

\* The studio serialises the mutations of the project's files: while one
\* operation holds the lock, no write of another is under way.
StudioSerializes == (\E t \in Tasks : pc[t] = "held") => lateWrites = {}

\* A dropped guard cannot bring the heartbeat back: one appears only while a call
\* takes or holds the lock.
DropRemovesHeartbeat ==
    [][heartbeat = Nobody /\ heartbeat' # Nobody =>
          \E t \in Tasks : pc[t] \in {"beat", "held"}]_vars

\* The heartbeat names the process that holds the lock.
HeartbeatNamesHolder == \A t \in Tasks : pc[t] = "held" => heartbeat = ProcessOf[t]
=============================================================================
