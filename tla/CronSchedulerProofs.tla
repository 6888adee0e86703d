------------------------ MODULE CronSchedulerProofs ------------------------
(***************************************************************************)
(* Proofs about the scheduler, in layers.                                  *)
(*                                                                         *)
(* ScheduledJobsKnown is not inductive: that an entry of `jobs' is removed *)
(* only when its id has left the runtime needs the owner of the Mutex      *)
(* (MutexOwned), that ids are given out once (IdsFresh), what is known of  *)
(* the id that a registration replaces (RegisteringSound) or a removal     *)
(* takes (RemovingSound), and that a one-shot job under execution has left *)
(* the runtime (ExecutingSound).                                           *)
(*                                                                         *)
(* DisabledJobOff needs SoleExecution and EnabledUntilCounted on top, and  *)
(* OneShotOnce the statement OneShotsSound about where a one-shot job may  *)
(* still come to a successful execution from, in memory and in the store.  *)
(* CanceledRepeatStaysGone needs that a repeating job is registered once,  *)
(* until a restart (RepeatsKeepIds).                                       *)
(***************************************************************************)
EXTENDS CronScheduler, TLAPS

IInv ==
    /\ TypeOK /\ MutexOwned /\ IdsFresh /\ RegisteringSound /\ RemovingSound
    /\ ExecutingSound /\ ScheduledJobsKnown

-----------------------------------------------------------------------------
(* Records *)

\* What update_job_status makes of a CronJob is a CronJob of the same kind.
LEMMA RecordFacts ==
    \A r \in Records :
        /\ r # NoJob /\ r.job \in Users
        /\ \A success \in BOOLEAN :
              Counted(r, success) \in Records /\ Counted(r, success).kind = r.kind
        /\ \A t \in Times : [r EXCEPT !.at = t] \in Records /\ [r EXCEPT !.at = t].kind = r.kind
<1> TAKE r \in Records
<1>1. r # NoJob
  BY NoJobAssumption
<1>2. /\ r.job \in Users /\ r.kind \in {"at", "repeat"} /\ r.at \in Times
      /\ r.errors \in Nat /\ r.enabled \in BOOLEAN
  BY DEF Records
<1>3. ASSUME NEW success \in BOOLEAN
      PROVE  Counted(r, success) \in Records /\ Counted(r, success).kind = r.kind
  <2> DEFINE errors == IF success THEN 0 ELSE r.errors + 1
             enabled == r.enabled /\ ~Exhausted(r, success)
  <2>1. errors \in Nat
    BY <1>2
  <2>2. enabled \in BOOLEAN
    BY <1>2
  <2>3. Counted(r, success) = [r EXCEPT !.errors = errors, !.enabled = enabled]
    BY DEF Counted
  <2> HIDE DEF errors, enabled
  <2> QED
    BY <1>2, <2>1, <2>2, <2>3 DEF Records
<1>4. ASSUME NEW t \in Times
      PROVE  [r EXCEPT !.at = t] \in Records /\ [r EXCEPT !.at = t].kind = r.kind
  BY <1>2 DEF Records
<1> QED
  BY <1>1, <1>2, <1>3, <1>4

\* add_job builds a CronJob.
LEMMA NewRecord ==
    \A u \in Users : \A kind \in {"at", "repeat"} : \A at \in 0..MaxTime :
        [job |-> u, kind |-> kind, at |-> at, errors |-> 0, enabled |-> TRUE] \in Records
BY BoundsAssumption DEF Records, Times

-----------------------------------------------------------------------------
(* Every action preserves the invariant *)

LEMMA RegisterCheckStep ==
    ASSUME IInv, NEW p \in Procs, RegisterCheck(p)
    PROVE  IInv'
<1>1. TypeOK'
  <2>1. rec[p] \in Records
    BY DEF IInv, RegisteringSound, Registering, RegisterCheck
  <2>2. rec[p].job \in Users
    BY <2>1, RecordFacts
  <2>3. pc' \in [Procs -> UserStates \union ExecStates \union BootStates]
    BY DEF IInv, TypeOK, RegisterCheck, Goto, Caller, UserStates, ExecStates, BootStates, Registering
  <2> QED
    BY <2>2, <2>3 DEF IInv, TypeOK, RegisterCheck, procVars, histVars
<1>2. MutexOwned'
  BY DistinctAssumption, BoundsAssumption, NoJobAssumption, RecordFacts
     DEF IInv, TypeOK, MutexOwned, Owning, Procs, RegisterCheck, Goto, Caller, procVars,
         histVars
<1>3. IdsFresh'
  BY DistinctAssumption, BoundsAssumption, NoJobAssumption, RecordFacts
     DEF IInv, TypeOK, IdsFresh, RegisteringSound, ExecutingSound, Registering,
         RegisterCheck, Goto, Caller, procVars, histVars
<1>4. RegisteringSound'
  BY DistinctAssumption, BoundsAssumption, NoJobAssumption, RecordFacts
     DEF IInv, TypeOK, MutexOwned, IdsFresh, RegisteringSound, ExecutingSound,
         Registering, Owning, Active, Guarding, Procs, RegisterCheck, Goto, Caller,
         procVars, histVars
<1>5. RemovingSound'
  BY DistinctAssumption, BoundsAssumption, NoJobAssumption, RecordFacts
     DEF IInv, TypeOK, IdsFresh, RemovingSound, Procs, RegisterCheck, Goto, Caller,
         procVars, histVars
<1>6. ExecutingSound'
  BY DistinctAssumption, BoundsAssumption, NoJobAssumption, RecordFacts
     DEF IInv, TypeOK, MutexOwned, IdsFresh, RegisteringSound, ExecutingSound, Active,
         Guarding, Owning, Registering, Procs, RegisterCheck, Goto, Caller, procVars,
         histVars
<1>7. ScheduledJobsKnown'
  BY DistinctAssumption, BoundsAssumption, NoJobAssumption, RecordFacts
     DEF IInv, TypeOK, MutexOwned, RegisteringSound, RemovingSound, ScheduledJobsKnown,
         BeingInserted, Owning, Registering, Procs, RegisterCheck, Goto, Caller,
         procVars, histVars
<1> QED
  BY <1>1, <1>2, <1>3, <1>4, <1>5, <1>6, <1>7 DEF IInv

LEMMA RegisterAddStep ==
    ASSUME IInv, NEW p \in Procs, RegisterAdd(p)
    PROVE  IInv'
<1>1. TypeOK'
  BY DistinctAssumption, BoundsAssumption, NoJobAssumption, RecordFacts
     DEF IInv, TypeOK, RegisteringSound, ExecutingSound, UserStates, ExecStates,
         BootStates, Registering, Procs, RegisterAdd, Goto, procVars, histVars
<1>2. MutexOwned'
  BY DistinctAssumption, BoundsAssumption, NoJobAssumption, RecordFacts
     DEF IInv, TypeOK, MutexOwned, Owning, Procs, RegisterAdd, Goto, procVars, histVars
<1>3. IdsFresh'
  BY DistinctAssumption, BoundsAssumption, NoJobAssumption, RecordFacts
     DEF IInv, TypeOK, IdsFresh, RegisteringSound, ExecutingSound, Registering,
         RegisterAdd, Goto, procVars, histVars
<1>4. RegisteringSound'
  BY DistinctAssumption, BoundsAssumption, NoJobAssumption, RecordFacts
     DEF IInv, TypeOK, MutexOwned, IdsFresh, RegisteringSound, ExecutingSound,
         Registering, Owning, Active, Guarding, Procs, RegisterAdd, Goto, procVars,
         histVars
<1>5. RemovingSound'
  BY DistinctAssumption, BoundsAssumption, NoJobAssumption, RecordFacts
     DEF IInv, TypeOK, IdsFresh, RemovingSound, Procs, RegisterAdd, Goto, procVars,
         histVars
<1>6. ExecutingSound'
  BY DistinctAssumption, BoundsAssumption, NoJobAssumption, RecordFacts
     DEF IInv, TypeOK, MutexOwned, IdsFresh, RegisteringSound, ExecutingSound, Active,
         Guarding, Owning, Registering, Procs, RegisterAdd, Goto, procVars, histVars
<1>7. ScheduledJobsKnown'
  BY DistinctAssumption, BoundsAssumption, NoJobAssumption, RecordFacts
     DEF IInv, TypeOK, MutexOwned, RegisteringSound, RemovingSound, ScheduledJobsKnown,
         BeingInserted, Owning, Registering, Procs, RegisterAdd, Goto, procVars, histVars
<1> QED
  BY <1>1, <1>2, <1>3, <1>4, <1>5, <1>6, <1>7 DEF IInv

LEMMA RegisterInsertStep ==
    ASSUME IInv, NEW p \in Procs, RegisterInsert(p)
    PROVE  IInv'
<1>1. TypeOK'
  BY DistinctAssumption, BoundsAssumption, NoJobAssumption, RecordFacts
     DEF IInv, TypeOK, RegisteringSound, ExecutingSound, UserStates, ExecStates,
         BootStates, Registering, Procs, RegisterInsert, Goto, ShardFree, procVars,
         histVars
<1>2. MutexOwned'
  BY DistinctAssumption, BoundsAssumption, NoJobAssumption, RecordFacts
     DEF IInv, TypeOK, MutexOwned, Owning, Procs, RegisterInsert, Goto, ShardFree,
         procVars, histVars
<1>3. IdsFresh'
  BY DistinctAssumption, BoundsAssumption, NoJobAssumption, RecordFacts
     DEF IInv, TypeOK, IdsFresh, RegisteringSound, ExecutingSound, Registering,
         RegisterInsert, Goto, ShardFree, procVars, histVars
<1>4. RegisteringSound'
  BY DistinctAssumption, BoundsAssumption, NoJobAssumption, RecordFacts
     DEF IInv, TypeOK, MutexOwned, IdsFresh, RegisteringSound, ExecutingSound,
         Registering, Owning, Active, Guarding, Procs, RegisterInsert, Goto, ShardFree,
         procVars, histVars
<1>5. RemovingSound'
  BY DistinctAssumption, BoundsAssumption, NoJobAssumption, RecordFacts
     DEF IInv, TypeOK, IdsFresh, RemovingSound, Procs, RegisterInsert, Goto, ShardFree,
         procVars, histVars
<1>6. ExecutingSound'
  BY DistinctAssumption, BoundsAssumption, NoJobAssumption, RecordFacts
     DEF IInv, TypeOK, MutexOwned, IdsFresh, RegisteringSound, ExecutingSound, Active,
         Guarding, Owning, Registering, Procs, RegisterInsert, Goto, ShardFree, procVars,
         histVars
<1>7. ScheduledJobsKnown'
  BY DistinctAssumption, BoundsAssumption, NoJobAssumption, RecordFacts
     DEF IInv, TypeOK, MutexOwned, RegisteringSound, RemovingSound, ScheduledJobsKnown,
         BeingInserted, Owning, Registering, Procs, RegisterInsert, Goto, ShardFree,
         procVars, histVars
<1> QED
  BY <1>1, <1>2, <1>3, <1>4, <1>5, <1>6, <1>7 DEF IInv

LEMMA RegisterDropStep ==
    ASSUME IInv, NEW p \in Procs, RegisterDrop(p)
    PROVE  IInv'
<1>1. TypeOK'
  BY DistinctAssumption, BoundsAssumption, NoJobAssumption, RecordFacts
     DEF IInv, TypeOK, RegisteringSound, ExecutingSound, UserStates, ExecStates,
         BootStates, Registering, Procs, RegisterDrop, Goto, ShardFree, procVars,
         histVars
<1>2. MutexOwned'
  BY DistinctAssumption, BoundsAssumption, NoJobAssumption, RecordFacts
     DEF IInv, TypeOK, MutexOwned, Owning, Procs, RegisterDrop, Goto, ShardFree,
         procVars, histVars
<1>3. IdsFresh'
  BY DistinctAssumption, BoundsAssumption, NoJobAssumption, RecordFacts
     DEF IInv, TypeOK, IdsFresh, RegisteringSound, ExecutingSound, Registering,
         RegisterDrop, Goto, ShardFree, procVars, histVars
<1>4. RegisteringSound'
  BY DistinctAssumption, BoundsAssumption, NoJobAssumption, RecordFacts
     DEF IInv, TypeOK, MutexOwned, IdsFresh, RegisteringSound, ExecutingSound,
         Registering, Owning, Active, Guarding, Procs, RegisterDrop, Goto, ShardFree,
         procVars, histVars
<1>5. RemovingSound'
  BY DistinctAssumption, BoundsAssumption, NoJobAssumption, RecordFacts
     DEF IInv, TypeOK, IdsFresh, RemovingSound, Procs, RegisterDrop, Goto, ShardFree,
         procVars, histVars
<1>6. ExecutingSound'
  BY DistinctAssumption, BoundsAssumption, NoJobAssumption, RecordFacts
     DEF IInv, TypeOK, MutexOwned, IdsFresh, RegisteringSound, ExecutingSound, Active,
         Guarding, Owning, Registering, Procs, RegisterDrop, Goto, ShardFree, procVars,
         histVars
<1>7. ScheduledJobsKnown'
  BY DistinctAssumption, BoundsAssumption, NoJobAssumption, RecordFacts
     DEF IInv, TypeOK, MutexOwned, RegisteringSound, RemovingSound, ScheduledJobsKnown,
         BeingInserted, Owning, Registering, Procs, RegisterDrop, Goto, ShardFree,
         procVars, histVars
<1> QED
  BY <1>1, <1>2, <1>3, <1>4, <1>5, <1>6, <1>7 DEF IInv

LEMMA RegisterStoreDropStep ==
    ASSUME IInv, NEW p \in Procs, RegisterStoreDrop(p)
    PROVE  IInv'
<1>1. TypeOK'
  BY DistinctAssumption, BoundsAssumption, NoJobAssumption, RecordFacts
     DEF IInv, TypeOK, RegisteringSound, ExecutingSound, UserStates, ExecStates,
         BootStates, Registering, Procs, RegisterStoreDrop, Goto, procVars, histVars
<1>2. MutexOwned'
  BY DistinctAssumption, BoundsAssumption, NoJobAssumption, RecordFacts
     DEF IInv, TypeOK, MutexOwned, Owning, Procs, RegisterStoreDrop, Goto, procVars,
         histVars
<1>3. IdsFresh'
  BY DistinctAssumption, BoundsAssumption, NoJobAssumption, RecordFacts
     DEF IInv, TypeOK, IdsFresh, RegisteringSound, ExecutingSound, Registering,
         RegisterStoreDrop, Goto, procVars, histVars
<1>4. RegisteringSound'
  BY DistinctAssumption, BoundsAssumption, NoJobAssumption, RecordFacts
     DEF IInv, TypeOK, MutexOwned, IdsFresh, RegisteringSound, ExecutingSound,
         Registering, Owning, Active, Guarding, Procs, RegisterStoreDrop, Goto, procVars,
         histVars
<1>5. RemovingSound'
  BY DistinctAssumption, BoundsAssumption, NoJobAssumption, RecordFacts
     DEF IInv, TypeOK, IdsFresh, RemovingSound, Procs, RegisterStoreDrop, Goto, procVars,
         histVars
<1>6. ExecutingSound'
  BY DistinctAssumption, BoundsAssumption, NoJobAssumption, RecordFacts
     DEF IInv, TypeOK, MutexOwned, IdsFresh, RegisteringSound, ExecutingSound, Active,
         Guarding, Owning, Registering, Procs, RegisterStoreDrop, Goto, procVars,
         histVars
<1>7. ScheduledJobsKnown'
  BY DistinctAssumption, BoundsAssumption, NoJobAssumption, RecordFacts
     DEF IInv, TypeOK, MutexOwned, RegisteringSound, RemovingSound, ScheduledJobsKnown,
         BeingInserted, Owning, Registering, Procs, RegisterStoreDrop, Goto, procVars,
         histVars
<1> QED
  BY <1>1, <1>2, <1>3, <1>4, <1>5, <1>6, <1>7 DEF IInv

LEMMA RegisterStoreSaveStep ==
    ASSUME IInv, NEW p \in Procs, RegisterStoreSave(p)
    PROVE  IInv'
<1>1. TypeOK'
  BY DistinctAssumption, BoundsAssumption, NoJobAssumption, RecordFacts
     DEF IInv, TypeOK, RegisteringSound, ExecutingSound, UserStates, ExecStates,
         BootStates, Registering, Procs, RegisterStoreSave, Goto, Caller, procVars,
         histVars
<1>2. MutexOwned'
  BY DistinctAssumption, BoundsAssumption, NoJobAssumption, RecordFacts
     DEF IInv, TypeOK, MutexOwned, Owning, Procs, RegisterStoreSave, Goto, Caller,
         procVars, histVars
<1>3. IdsFresh'
  BY DistinctAssumption, BoundsAssumption, NoJobAssumption, RecordFacts
     DEF IInv, TypeOK, IdsFresh, RegisteringSound, ExecutingSound, Registering,
         RegisterStoreSave, Goto, Caller, procVars, histVars
<1>4. RegisteringSound'
  BY DistinctAssumption, BoundsAssumption, NoJobAssumption, RecordFacts
     DEF IInv, TypeOK, MutexOwned, IdsFresh, RegisteringSound, ExecutingSound,
         Registering, Owning, Active, Guarding, Procs, RegisterStoreSave, Goto, Caller,
         procVars, histVars
<1>5. RemovingSound'
  BY DistinctAssumption, BoundsAssumption, NoJobAssumption, RecordFacts
     DEF IInv, TypeOK, IdsFresh, RemovingSound, Procs, RegisterStoreSave, Goto, Caller,
         procVars, histVars
<1>6. ExecutingSound'
  BY DistinctAssumption, BoundsAssumption, NoJobAssumption, RecordFacts
     DEF IInv, TypeOK, MutexOwned, IdsFresh, RegisteringSound, ExecutingSound, Active,
         Guarding, Owning, Registering, Procs, RegisterStoreSave, Goto, Caller, procVars,
         histVars
<1>7. ScheduledJobsKnown'
  BY DistinctAssumption, BoundsAssumption, NoJobAssumption, RecordFacts
     DEF IInv, TypeOK, MutexOwned, RegisteringSound, RemovingSound, ScheduledJobsKnown,
         BeingInserted, Owning, Registering, Procs, RegisterStoreSave, Goto, Caller,
         procVars, histVars
<1> QED
  BY <1>1, <1>2, <1>3, <1>4, <1>5, <1>6, <1>7 DEF IInv

LEMMA AddJobStep ==
    ASSUME IInv, NEW u \in Users, AddJob(u)
    PROVE  IInv'
<1>1. TypeOK'
  <2>1. PICK r \in Records : rec' = [rec EXCEPT ![u] = r]
    BY NewRecord DEF AddJob
  <2>2. pc' \in [Procs -> UserStates \union ExecStates \union BootStates]
    BY DEF IInv, TypeOK, AddJob, Goto, UserStates, ExecStates, BootStates, Registering
  <2> QED
    BY <2>1, <2>2 DEF IInv, TypeOK, AddJob, histVars, Procs
<1>2. MutexOwned'
  BY DistinctAssumption, BoundsAssumption, NoJobAssumption, RecordFacts
     DEF IInv, TypeOK, MutexOwned, Owning, Procs, AddJob, Goto, Started, histVars
<1>3. IdsFresh'
  BY DistinctAssumption, BoundsAssumption, NoJobAssumption, RecordFacts
     DEF IInv, TypeOK, IdsFresh, RegisteringSound, ExecutingSound, Registering, AddJob,
         Goto, Started, histVars
<1>4. RegisteringSound'
  <2>1. PICK r \in Records : rec' = [rec EXCEPT ![u] = r]
    BY NewRecord DEF AddJob
  <2> QED
    BY <1>1, <2>1 DEF IInv, TypeOK, RegisteringSound, Registering, AddJob, Goto, Procs
<1>5. RemovingSound'
  BY DistinctAssumption, BoundsAssumption, NoJobAssumption, RecordFacts
     DEF IInv, TypeOK, IdsFresh, RemovingSound, Procs, AddJob, Goto, Started, histVars
<1>6. ExecutingSound'
  BY DistinctAssumption, BoundsAssumption, NoJobAssumption, RecordFacts
     DEF IInv, TypeOK, MutexOwned, IdsFresh, RegisteringSound, ExecutingSound, Active,
         Guarding, Owning, Registering, Procs, AddJob, Goto, Started, histVars
<1>7. ScheduledJobsKnown'
  BY DistinctAssumption, BoundsAssumption, NoJobAssumption, RecordFacts
     DEF IInv, TypeOK, MutexOwned, RegisteringSound, RemovingSound, ScheduledJobsKnown,
         BeingInserted, Owning, Registering, Procs, AddJob, Goto, Started, histVars
<1> QED
  BY <1>1, <1>2, <1>3, <1>4, <1>5, <1>6, <1>7 DEF IInv

LEMMA RemoveJobStep ==
    ASSUME IInv, NEW u \in Users, RemoveJob(u)
    PROVE  IInv'
<1>1. TypeOK'
  BY DistinctAssumption, BoundsAssumption, NoJobAssumption, RecordFacts
     DEF IInv, TypeOK, RegisteringSound, ExecutingSound, UserStates, ExecStates,
         BootStates, Registering, Procs, RemoveJob, Goto, Started, histVars
<1>2. MutexOwned'
  BY DistinctAssumption, BoundsAssumption, NoJobAssumption, RecordFacts
     DEF IInv, TypeOK, MutexOwned, Owning, Procs, RemoveJob, Goto, Started, histVars
<1>3. IdsFresh'
  BY DistinctAssumption, BoundsAssumption, NoJobAssumption, RecordFacts
     DEF IInv, TypeOK, IdsFresh, RegisteringSound, ExecutingSound, Registering,
         RemoveJob, Goto, Started, histVars
<1>4. RegisteringSound'
  BY DistinctAssumption, BoundsAssumption, NoJobAssumption, RecordFacts
     DEF IInv, TypeOK, MutexOwned, IdsFresh, RegisteringSound, ExecutingSound,
         Registering, Owning, Active, Guarding, Procs, RemoveJob, Goto, Started, histVars
<1>5. RemovingSound'
  BY DistinctAssumption, BoundsAssumption, NoJobAssumption, RecordFacts
     DEF IInv, TypeOK, IdsFresh, RemovingSound, Procs, RemoveJob, Goto, Started, histVars
<1>6. ExecutingSound'
  BY DistinctAssumption, BoundsAssumption, NoJobAssumption, RecordFacts
     DEF IInv, TypeOK, MutexOwned, IdsFresh, RegisteringSound, ExecutingSound, Active,
         Guarding, Owning, Registering, Procs, RemoveJob, Goto, Started, histVars
<1>7. ScheduledJobsKnown'
  BY DistinctAssumption, BoundsAssumption, NoJobAssumption, RecordFacts
     DEF IInv, TypeOK, MutexOwned, RegisteringSound, RemovingSound, ScheduledJobsKnown,
         BeingInserted, Owning, Registering, Procs, RemoveJob, Goto, Started, histVars
<1> QED
  BY <1>1, <1>2, <1>3, <1>4, <1>5, <1>6, <1>7 DEF IInv

LEMMA RemoveRuntimeStep ==
    ASSUME IInv, NEW u \in Users, RemoveRuntime(u)
    PROVE  IInv'
<1>1. TypeOK'
  BY DistinctAssumption, BoundsAssumption, NoJobAssumption, RecordFacts
     DEF IInv, TypeOK, RegisteringSound, ExecutingSound, UserStates, ExecStates,
         BootStates, Registering, Procs, RemoveRuntime, Goto, procVars, histVars
<1>2. MutexOwned'
  BY DistinctAssumption, BoundsAssumption, NoJobAssumption, RecordFacts
     DEF IInv, TypeOK, MutexOwned, Owning, Procs, RemoveRuntime, Goto, procVars, histVars
<1>3. IdsFresh'
  BY DistinctAssumption, BoundsAssumption, NoJobAssumption, RecordFacts
     DEF IInv, TypeOK, IdsFresh, RegisteringSound, ExecutingSound, Registering,
         RemoveRuntime, Goto, procVars, histVars
<1>4. RegisteringSound'
  BY DistinctAssumption, BoundsAssumption, NoJobAssumption, RecordFacts
     DEF IInv, TypeOK, MutexOwned, IdsFresh, RegisteringSound, ExecutingSound,
         Registering, Owning, Active, Guarding, Procs, RemoveRuntime, Goto, procVars,
         histVars
<1>5. RemovingSound'
  BY DistinctAssumption, BoundsAssumption, NoJobAssumption, RecordFacts
     DEF IInv, TypeOK, IdsFresh, RemovingSound, Procs, RemoveRuntime, Goto, procVars,
         histVars
<1>6. ExecutingSound'
  BY DistinctAssumption, BoundsAssumption, NoJobAssumption, RecordFacts
     DEF IInv, TypeOK, MutexOwned, IdsFresh, RegisteringSound, ExecutingSound, Active,
         Guarding, Owning, Registering, Procs, RemoveRuntime, Goto, procVars, histVars
<1>7. ScheduledJobsKnown'
  BY DistinctAssumption, BoundsAssumption, NoJobAssumption, RecordFacts
     DEF IInv, TypeOK, MutexOwned, RegisteringSound, RemovingSound, ScheduledJobsKnown,
         BeingInserted, Owning, Registering, Procs, RemoveRuntime, Goto, procVars,
         histVars
<1> QED
  BY <1>1, <1>2, <1>3, <1>4, <1>5, <1>6, <1>7 DEF IInv

LEMMA RemoveStoreStep ==
    ASSUME IInv, NEW u \in Users, RemoveStore(u)
    PROVE  IInv'
<1>1. TypeOK'
  BY DistinctAssumption, BoundsAssumption, NoJobAssumption, RecordFacts
     DEF IInv, TypeOK, RegisteringSound, ExecutingSound, UserStates, ExecStates,
         BootStates, Registering, Procs, RemoveStore, Goto, procVars, histVars
<1>2. MutexOwned'
  BY DistinctAssumption, BoundsAssumption, NoJobAssumption, RecordFacts
     DEF IInv, TypeOK, MutexOwned, Owning, Procs, RemoveStore, Goto, procVars, histVars
<1>3. IdsFresh'
  BY DistinctAssumption, BoundsAssumption, NoJobAssumption, RecordFacts
     DEF IInv, TypeOK, IdsFresh, RegisteringSound, ExecutingSound, Registering,
         RemoveStore, Goto, procVars, histVars
<1>4. RegisteringSound'
  BY DistinctAssumption, BoundsAssumption, NoJobAssumption, RecordFacts
     DEF IInv, TypeOK, MutexOwned, IdsFresh, RegisteringSound, ExecutingSound,
         Registering, Owning, Active, Guarding, Procs, RemoveStore, Goto, procVars,
         histVars
<1>5. RemovingSound'
  BY DistinctAssumption, BoundsAssumption, NoJobAssumption, RecordFacts
     DEF IInv, TypeOK, IdsFresh, RemovingSound, Procs, RemoveStore, Goto, procVars,
         histVars
<1>6. ExecutingSound'
  BY DistinctAssumption, BoundsAssumption, NoJobAssumption, RecordFacts
     DEF IInv, TypeOK, MutexOwned, IdsFresh, RegisteringSound, ExecutingSound, Active,
         Guarding, Owning, Registering, Procs, RemoveStore, Goto, procVars, histVars
<1>7. ScheduledJobsKnown'
  BY DistinctAssumption, BoundsAssumption, NoJobAssumption, RecordFacts
     DEF IInv, TypeOK, MutexOwned, RegisteringSound, RemovingSound, ScheduledJobsKnown,
         BeingInserted, Owning, Registering, Procs, RemoveStore, Goto, procVars, histVars
<1> QED
  BY <1>1, <1>2, <1>3, <1>4, <1>5, <1>6, <1>7 DEF IInv

LEMMA RemoveEntryStep ==
    ASSUME IInv, NEW u \in Users, RemoveEntry(u)
    PROVE  IInv'
<1>1. TypeOK'
  <2>1. id[u] \in Ids
    BY DEF IInv, TypeOK, RemovingSound, RemoveEntry
  <2>2. jobs[id[u]] # NoJob => jobs[id[u]].job \in Users
    BY <2>1, RecordFacts DEF IInv, TypeOK
  <2>3. pc' \in [Procs -> UserStates \union ExecStates \union BootStates]
    BY DEF IInv, TypeOK, RemoveEntry, Goto, UserStates
  <2> QED
    BY <2>1, <2>2, <2>3 DEF IInv, TypeOK, RemoveEntry, procVars, Procs
<1>2. MutexOwned'
  BY DistinctAssumption, BoundsAssumption, NoJobAssumption, RecordFacts
     DEF IInv, TypeOK, MutexOwned, Owning, Procs, RemoveEntry, Goto, ShardFree, procVars,
         histVars
<1>3. IdsFresh'
  BY DistinctAssumption, BoundsAssumption, NoJobAssumption, RecordFacts
     DEF IInv, TypeOK, IdsFresh, RegisteringSound, ExecutingSound, Registering,
         RemoveEntry, Goto, ShardFree, procVars, histVars
<1>4. RegisteringSound'
  BY DistinctAssumption, BoundsAssumption, NoJobAssumption, RecordFacts
     DEF IInv, TypeOK, MutexOwned, IdsFresh, RegisteringSound, ExecutingSound,
         Registering, Owning, Active, Guarding, Procs, RemoveEntry, Goto, ShardFree,
         procVars, histVars
<1>5. RemovingSound'
  BY DistinctAssumption, BoundsAssumption, NoJobAssumption, RecordFacts
     DEF IInv, TypeOK, IdsFresh, RemovingSound, Procs, RemoveEntry, Goto, ShardFree,
         procVars, histVars
<1>6. ExecutingSound'
  BY DistinctAssumption, BoundsAssumption, NoJobAssumption, RecordFacts
     DEF IInv, TypeOK, MutexOwned, IdsFresh, RegisteringSound, ExecutingSound, Active,
         Guarding, Owning, Registering, Procs, RemoveEntry, Goto, ShardFree, procVars,
         histVars
<1>7. ScheduledJobsKnown'
  BY DistinctAssumption, BoundsAssumption, NoJobAssumption, RecordFacts
     DEF IInv, TypeOK, MutexOwned, RegisteringSound, RemovingSound, ScheduledJobsKnown,
         BeingInserted, Owning, Registering, Procs, RemoveEntry, Goto, ShardFree,
         procVars, histVars
<1> QED
  BY <1>1, <1>2, <1>3, <1>4, <1>5, <1>6, <1>7 DEF IInv

LEMMA FireStep ==
    ASSUME IInv, NEW e \in Execs, Fire(e)
    PROVE  IInv'
<1>1. TypeOK'
  BY DistinctAssumption, BoundsAssumption, NoJobAssumption, RecordFacts
     DEF IInv, TypeOK, RegisteringSound, ExecutingSound, UserStates, ExecStates,
         BootStates, Registering, Procs, Fire, Goto, Started, Scheduled, histVars
<1>2. MutexOwned'
  BY DistinctAssumption, BoundsAssumption, NoJobAssumption, RecordFacts
     DEF IInv, TypeOK, MutexOwned, Owning, Procs, Fire, Goto, Started, Scheduled,
         histVars
<1>3. IdsFresh'
  BY DistinctAssumption, BoundsAssumption, NoJobAssumption, RecordFacts
     DEF IInv, TypeOK, IdsFresh, RegisteringSound, ExecutingSound, Registering, Fire,
         Goto, Started, Scheduled, histVars
<1>4. RegisteringSound'
  BY DistinctAssumption, BoundsAssumption, NoJobAssumption, RecordFacts
     DEF IInv, TypeOK, MutexOwned, IdsFresh, RegisteringSound, ExecutingSound,
         Registering, Owning, Active, Guarding, Procs, Fire, Goto, Started, Scheduled,
         histVars
<1>5. RemovingSound'
  BY DistinctAssumption, BoundsAssumption, NoJobAssumption, RecordFacts
     DEF IInv, TypeOK, IdsFresh, RemovingSound, Procs, Fire, Goto, Started, Scheduled,
         histVars
<1>6. ExecutingSound'
  BY DistinctAssumption, BoundsAssumption, NoJobAssumption, RecordFacts
     DEF IInv, TypeOK, MutexOwned, IdsFresh, RegisteringSound, ExecutingSound, Active,
         Guarding, Owning, Registering, Procs, Fire, Goto, Started, Scheduled, histVars
<1>7. ScheduledJobsKnown'
  BY DistinctAssumption, BoundsAssumption, NoJobAssumption, RecordFacts
     DEF IInv, TypeOK, MutexOwned, RegisteringSound, RemovingSound, ScheduledJobsKnown,
         BeingInserted, Owning, Registering, Procs, Fire, Goto, Started, Scheduled,
         histVars
<1> QED
  BY <1>1, <1>2, <1>3, <1>4, <1>5, <1>6, <1>7 DEF IInv

LEMMA ExecuteEndsStep ==
    ASSUME IInv, NEW e \in Execs, ExecuteEnds(e)
    PROVE  IInv'
<1>1. TypeOK'
  <2>1. rec[e] \in Records
    BY DEF IInv, ExecutingSound, Active, ExecuteEnds
  <2>2. rec[e].job \in Users
    BY <2>1, RecordFacts
  <2>3. pc' \in [Procs -> UserStates \union ExecStates \union BootStates]
    BY DEF IInv, TypeOK, ExecuteEnds, Goto, ExecStates
  <2>4. PICK success \in BOOLEAN :
          /\ ok' = [ok EXCEPT ![e] = success]
          /\ runs' = [runs EXCEPT ![rec[e].job] = IF success THEN @ + 1 ELSE @]
    BY DEF ExecuteEnds
  <2>5. ok' \in [Execs -> BOOLEAN]
    BY <2>4 DEF IInv, TypeOK
  <2>6. runs' \in [Users -> Nat]
    BY <2>2, <2>4 DEF IInv, TypeOK
  <2> QED
    BY <2>3, <2>5, <2>6 DEF IInv, TypeOK, ExecuteEnds, Procs
<1>2. MutexOwned'
  BY DistinctAssumption, BoundsAssumption, NoJobAssumption, RecordFacts
     DEF IInv, TypeOK, MutexOwned, Owning, Procs, ExecuteEnds, Goto, histVars
<1>3. IdsFresh'
  BY DistinctAssumption, BoundsAssumption, NoJobAssumption, RecordFacts
     DEF IInv, TypeOK, IdsFresh, RegisteringSound, ExecutingSound, Registering,
         ExecuteEnds, Goto, histVars
<1>4. RegisteringSound'
  BY DistinctAssumption, BoundsAssumption, NoJobAssumption, RecordFacts
     DEF IInv, TypeOK, MutexOwned, IdsFresh, RegisteringSound, ExecutingSound,
         Registering, Owning, Active, Guarding, Procs, ExecuteEnds, Goto, histVars
<1>5. RemovingSound'
  BY DistinctAssumption, BoundsAssumption, NoJobAssumption, RecordFacts
     DEF IInv, TypeOK, IdsFresh, RemovingSound, Procs, ExecuteEnds, Goto, histVars
<1>6. ExecutingSound'
  BY DistinctAssumption, BoundsAssumption, NoJobAssumption, RecordFacts
     DEF IInv, TypeOK, MutexOwned, IdsFresh, RegisteringSound, ExecutingSound, Active,
         Guarding, Owning, Registering, Procs, ExecuteEnds, Goto, histVars
<1>7. ScheduledJobsKnown'
  BY DistinctAssumption, BoundsAssumption, NoJobAssumption, RecordFacts
     DEF IInv, TypeOK, MutexOwned, RegisteringSound, RemovingSound, ScheduledJobsKnown,
         BeingInserted, Owning, Registering, Procs, ExecuteEnds, Goto, histVars
<1> QED
  BY <1>1, <1>2, <1>3, <1>4, <1>5, <1>6, <1>7 DEF IInv

LEMMA UpdateStatusStep ==
    ASSUME IInv, NEW e \in Execs, UpdateStatus(e)
    PROVE  IInv'
<1>a. id[e] \in Ids /\ id[e] \in used /\ jobs[id[e]] \in Records \union {NoJob} /\ ok[e] \in BOOLEAN
  BY DEF IInv, TypeOK, ExecutingSound, Active, UpdateStatus
<1>b. jobs[id[e]] # NoJob =>
        /\ Counted(jobs[id[e]], ok[e]) \in Records
        /\ Counted(jobs[id[e]], ok[e]) # NoJob
        /\ Counted(jobs[id[e]], ok[e]).kind = jobs[id[e]].kind
  BY <1>a, RecordFacts
<1>1. TypeOK'
  <2>1. pc' \in [Procs -> UserStates \union ExecStates \union BootStates]
    BY DEF IInv, TypeOK, UpdateStatus, Goto, ExecStates
  <2>2. jobs' \in [Ids -> Records \union {NoJob}] /\ guard' \in [Shards -> Execs \union {NoProc}]
    BY <1>a, <1>b DEF IInv, TypeOK, UpdateStatus
  <2> QED
    BY <2>1, <2>2 DEF IInv, TypeOK, UpdateStatus, procVars, histVars
<1>2. MutexOwned'
  BY DistinctAssumption, BoundsAssumption, NoJobAssumption, RecordFacts
     DEF IInv, TypeOK, MutexOwned, Owning, Procs, UpdateStatus, Goto, ShardFree,
         procVars, histVars
<1>3. IdsFresh'
  BY DistinctAssumption, BoundsAssumption, NoJobAssumption, RecordFacts
     DEF IInv, TypeOK, IdsFresh, RegisteringSound, ExecutingSound, Registering,
         UpdateStatus, Goto, ShardFree, procVars, histVars
<1>4. RegisteringSound'
  BY DistinctAssumption, BoundsAssumption, NoJobAssumption, RecordFacts
     DEF IInv, TypeOK, MutexOwned, IdsFresh, RegisteringSound, ExecutingSound,
         Registering, Owning, Active, Guarding, Procs, UpdateStatus, Goto, ShardFree,
         procVars, histVars
<1>5. RemovingSound'
  BY DistinctAssumption, BoundsAssumption, NoJobAssumption, RecordFacts
     DEF IInv, TypeOK, IdsFresh, RemovingSound, Procs, UpdateStatus, Goto, ShardFree,
         procVars, histVars
<1>6. ExecutingSound'
  <2>1. CASE jobs[id[e]] = NoJob
    BY <1>a, <2>1
       DEF IInv, TypeOK, ExecutingSound, Active, Guarding, UpdateStatus, Goto, procVars, Procs
  <2>2. CASE jobs[id[e]] # NoJob
    <3>1. /\ jobs' = [jobs EXCEPT ![id[e]] = Counted(jobs[id[e]], ok[e])]
          /\ guard' = [guard EXCEPT ![ShardOf[id[e]]] = e]
          /\ guard[ShardOf[id[e]]] = NoProc
          /\ pc[e] = "status" /\ \E s \in Guarding : pc' = [pc EXCEPT ![e] = s]
          /\ pc'[e] = "saveRetry" => jobs[id[e]].kind = "at"
          /\ UNCHANGED <<used, runtime, rec, id>>
      BY <2>2 DEF IInv, TypeOK, UpdateStatus, Goto, ShardFree, Guarding, procVars, Procs
    <3>2. ShardOf[id[e]] \in Shards
      BY <1>a DEF Shards
    <3>3. \A x \in Execs : pc[x] \in Guarding => guard[ShardOf[id[x]]] = x
      BY DEF IInv, ExecutingSound, Active, Guarding
    <3>4. \A x \in Execs : pc[x] \in Guarding => ShardOf[id[x]] # ShardOf[id[e]]
      BY <3>1, <3>3, DistinctAssumption
    <3> QED
      BY <1>a, <1>b, <2>2, <3>1, <3>2, <3>4
         DEF IInv, TypeOK, ExecutingSound, Active, Guarding, Procs
  <2> QED
    BY <2>1, <2>2
<1>7. ScheduledJobsKnown'
  BY DistinctAssumption, BoundsAssumption, NoJobAssumption, RecordFacts
     DEF IInv, TypeOK, MutexOwned, RegisteringSound, RemovingSound, ScheduledJobsKnown,
         BeingInserted, Owning, Registering, Procs, UpdateStatus, Goto, ShardFree,
         procVars, histVars
<1> QED
  BY <1>1, <1>2, <1>3, <1>4, <1>5, <1>6, <1>7 DEF IInv

LEMMA DisableStep ==
    ASSUME IInv, NEW e \in Execs, Disable(e)
    PROVE  IInv'
<1>1. TypeOK'
  BY DistinctAssumption, BoundsAssumption, NoJobAssumption, RecordFacts
     DEF IInv, TypeOK, RegisteringSound, ExecutingSound, UserStates, ExecStates,
         BootStates, Registering, Procs, Disable, Goto, procVars, histVars
<1>2. MutexOwned'
  BY DistinctAssumption, BoundsAssumption, NoJobAssumption, RecordFacts
     DEF IInv, TypeOK, MutexOwned, Owning, Procs, Disable, Goto, procVars, histVars
<1>3. IdsFresh'
  BY DistinctAssumption, BoundsAssumption, NoJobAssumption, RecordFacts
     DEF IInv, TypeOK, IdsFresh, RegisteringSound, ExecutingSound, Registering, Disable,
         Goto, procVars, histVars
<1>4. RegisteringSound'
  BY DistinctAssumption, BoundsAssumption, NoJobAssumption, RecordFacts
     DEF IInv, TypeOK, MutexOwned, IdsFresh, RegisteringSound, ExecutingSound,
         Registering, Owning, Active, Guarding, Procs, Disable, Goto, procVars, histVars
<1>5. RemovingSound'
  BY DistinctAssumption, BoundsAssumption, NoJobAssumption, RecordFacts
     DEF IInv, TypeOK, IdsFresh, RemovingSound, Procs, Disable, Goto, procVars, histVars
<1>6. ExecutingSound'
  BY DistinctAssumption, BoundsAssumption, NoJobAssumption, RecordFacts
     DEF IInv, TypeOK, MutexOwned, IdsFresh, RegisteringSound, ExecutingSound, Active,
         Guarding, Owning, Registering, Procs, Disable, Goto, procVars, histVars
<1>7. ScheduledJobsKnown'
  BY DistinctAssumption, BoundsAssumption, NoJobAssumption, RecordFacts
     DEF IInv, TypeOK, MutexOwned, RegisteringSound, RemovingSound, ScheduledJobsKnown,
         BeingInserted, Owning, Registering, Procs, Disable, Goto, procVars, histVars
<1> QED
  BY <1>1, <1>2, <1>3, <1>4, <1>5, <1>6, <1>7 DEF IInv

LEMMA SaveStatusStep ==
    ASSUME IInv, NEW e \in Execs, SaveStatus(e)
    PROVE  IInv'
<1>a. id[e] \in Ids /\ id[e] \in used /\ jobs[id[e]] \in Records
  BY DEF IInv, TypeOK, ExecutingSound, Active, Guarding, SaveStatus
<1>b. [jobs[id[e]] EXCEPT !.at = now + 1] \in Records
  <2>1. now + 1 \in Times
    BY BoundsAssumption DEF IInv, TypeOK, Times
  <2> QED
    BY <1>a, <2>1, RecordFacts
<1>c. pc[e] = "saveRetry" => id[e] \notin runtime
  BY DEF IInv, ExecutingSound, Active
<1>1. TypeOK'
  <2>1. pc' \in [Procs -> UserStates \union ExecStates \union BootStates]
    BY DEF IInv, TypeOK, SaveStatus, Goto, UserStates, ExecStates, BootStates, Registering
  <2>2. /\ store' \in [Ids -> Records \union {NoJob}]
        /\ guard' \in [Shards -> Execs \union {NoProc}]
    BY <1>a DEF IInv, TypeOK, SaveStatus
  <2>3. /\ rec' \in [Procs -> Records \union {NoJob}]
        /\ old' \in [Procs -> Ids \union {NoId}]
    BY <1>a, <1>b DEF IInv, TypeOK, SaveStatus
  <2> QED
    BY <2>1, <2>2, <2>3 DEF IInv, TypeOK, SaveStatus, histVars
<1>2. MutexOwned'
  BY DistinctAssumption, BoundsAssumption, NoJobAssumption, RecordFacts
     DEF IInv, TypeOK, MutexOwned, Owning, Procs, SaveStatus, Goto, histVars
<1>3. IdsFresh'
  BY DistinctAssumption, BoundsAssumption, NoJobAssumption, RecordFacts
     DEF IInv, TypeOK, IdsFresh, RegisteringSound, ExecutingSound, Registering,
         SaveStatus, Goto, histVars
<1>4. RegisteringSound'
  <2>1. CASE pc[e] = "save"
    BY <2>1 DEF IInv, TypeOK, RegisteringSound, Registering, SaveStatus, Goto, Procs
  <2>2. CASE pc[e] = "saveRetry"
    <3>1. PICK r \in Records : rec' = [rec EXCEPT ![e] = r]
      BY <1>b, <2>2 DEF SaveStatus
    <3>2. /\ pc' = [pc EXCEPT ![e] = "register"]
          /\ old' = [old EXCEPT ![e] = id[e]]
          /\ UNCHANGED <<id, used, runtime, jobs>>
      BY <2>2 DEF SaveStatus, Goto
    <3> QED
      BY <1>a, <1>c, <2>2, <3>1, <3>2, DistinctAssumption
         DEF IInv, TypeOK, RegisteringSound, Registering, Procs
  <2> QED
    BY <2>1, <2>2 DEF SaveStatus
<1>5. RemovingSound'
  BY DistinctAssumption, BoundsAssumption, NoJobAssumption, RecordFacts
     DEF IInv, TypeOK, IdsFresh, RemovingSound, Procs, SaveStatus, Goto, histVars
<1>6. ExecutingSound'
  <2>1. /\ pc' = [pc EXCEPT ![e] = "done"] \/ pc' = [pc EXCEPT ![e] = "register"]
        /\ guard' = [guard EXCEPT ![ShardOf[id[e]]] = NoProc]
        /\ UNCHANGED <<id, used, runtime, jobs>>
        /\ \A p \in Procs \ {e} : rec'[p] = rec[p]
    BY DEF IInv, TypeOK, SaveStatus, Goto
  <2>2. ASSUME NEW x \in Execs, x # e, pc[x] \in Guarding
        PROVE  guard'[ShardOf[id[x]]] = x
    <3>1. guard[ShardOf[id[x]]] = x /\ guard[ShardOf[id[e]]] = e
      BY <2>2 DEF IInv, ExecutingSound, Active, Guarding, SaveStatus
    <3>2. ShardOf[id[x]] # ShardOf[id[e]]
      BY <2>2, <3>1
    <3>3. ShardOf[id[x]] \in Shards
      BY <2>2 DEF Shards, IInv, TypeOK, ExecutingSound, Active, Guarding
    <3> QED
      BY <2>1, <3>1, <3>2, <3>3 DEF IInv, TypeOK
  <2> QED
    BY <2>1, <2>2 DEF IInv, TypeOK, ExecutingSound, Active, Guarding, Procs
<1>7. ScheduledJobsKnown'
  BY DistinctAssumption, BoundsAssumption, NoJobAssumption, RecordFacts
     DEF IInv, TypeOK, MutexOwned, RegisteringSound, RemovingSound, ScheduledJobsKnown,
         BeingInserted, Owning, Registering, Procs, SaveStatus, Goto, histVars
<1> QED
  BY <1>1, <1>2, <1>3, <1>4, <1>5, <1>6, <1>7 DEF IInv

LEMMA TickStep ==
    ASSUME IInv, Tick
    PROVE  IInv'
<1>1. TypeOK'
  BY DistinctAssumption, BoundsAssumption, NoJobAssumption, RecordFacts
     DEF IInv, TypeOK, RegisteringSound, ExecutingSound, UserStates, ExecStates,
         BootStates, Registering, Procs, Tick, procVars, histVars
<1>2. MutexOwned'
  BY DistinctAssumption, BoundsAssumption, NoJobAssumption, RecordFacts
     DEF IInv, TypeOK, MutexOwned, Owning, Procs, Tick, procVars, histVars
<1>3. IdsFresh'
  BY DistinctAssumption, BoundsAssumption, NoJobAssumption, RecordFacts
     DEF IInv, TypeOK, IdsFresh, RegisteringSound, ExecutingSound, Registering, Tick,
         procVars, histVars
<1>4. RegisteringSound'
  BY DistinctAssumption, BoundsAssumption, NoJobAssumption, RecordFacts
     DEF IInv, TypeOK, MutexOwned, IdsFresh, RegisteringSound, ExecutingSound,
         Registering, Owning, Active, Guarding, Procs, Tick, procVars, histVars
<1>5. RemovingSound'
  BY DistinctAssumption, BoundsAssumption, NoJobAssumption, RecordFacts
     DEF IInv, TypeOK, IdsFresh, RemovingSound, Procs, Tick, procVars, histVars
<1>6. ExecutingSound'
  BY DistinctAssumption, BoundsAssumption, NoJobAssumption, RecordFacts
     DEF IInv, TypeOK, MutexOwned, IdsFresh, RegisteringSound, ExecutingSound, Active,
         Guarding, Owning, Registering, Procs, Tick, procVars, histVars
<1>7. ScheduledJobsKnown'
  BY DistinctAssumption, BoundsAssumption, NoJobAssumption, RecordFacts
     DEF IInv, TypeOK, MutexOwned, RegisteringSound, RemovingSound, ScheduledJobsKnown,
         BeingInserted, Owning, Registering, Procs, Tick, procVars, histVars
<1> QED
  BY <1>1, <1>2, <1>3, <1>4, <1>5, <1>6, <1>7 DEF IInv

LEMMA CrashStep ==
    ASSUME IInv, Crash
    PROVE  IInv'
<1>1. TypeOK'
  BY DistinctAssumption, BoundsAssumption, NoJobAssumption, RecordFacts
     DEF IInv, TypeOK, RegisteringSound, ExecutingSound, UserStates, ExecStates,
         BootStates, Registering, Procs, Crash, procVars, histVars
<1>2. MutexOwned'
  BY DistinctAssumption, BoundsAssumption, NoJobAssumption, RecordFacts
     DEF IInv, TypeOK, MutexOwned, Owning, Procs, Crash, procVars, histVars
<1>3. IdsFresh'
  BY DistinctAssumption, BoundsAssumption, NoJobAssumption, RecordFacts
     DEF IInv, TypeOK, IdsFresh, RegisteringSound, ExecutingSound, Registering, Crash,
         procVars, histVars
<1>4. RegisteringSound'
  BY DistinctAssumption, BoundsAssumption, NoJobAssumption, RecordFacts
     DEF IInv, TypeOK, MutexOwned, IdsFresh, RegisteringSound, ExecutingSound,
         Registering, Owning, Active, Guarding, Procs, Crash, procVars, histVars
<1>5. RemovingSound'
  BY DistinctAssumption, BoundsAssumption, NoJobAssumption, RecordFacts
     DEF IInv, TypeOK, IdsFresh, RemovingSound, Procs, Crash, procVars, histVars
<1>6. ExecutingSound'
  BY DistinctAssumption, BoundsAssumption, NoJobAssumption, RecordFacts
     DEF IInv, TypeOK, MutexOwned, IdsFresh, RegisteringSound, ExecutingSound, Active,
         Guarding, Owning, Registering, Procs, Crash, procVars, histVars
<1>7. ScheduledJobsKnown'
  BY DistinctAssumption, BoundsAssumption, NoJobAssumption, RecordFacts
     DEF IInv, TypeOK, MutexOwned, RegisteringSound, RemovingSound, ScheduledJobsKnown,
         BeingInserted, Owning, Registering, Procs, Crash, procVars, histVars
<1> QED
  BY <1>1, <1>2, <1>3, <1>4, <1>5, <1>6, <1>7 DEF IInv

LEMMA LoadNextStep ==
    ASSUME IInv, LoadNext
    PROVE  IInv'
<1>1. TypeOK'
  <2>1. pc' \in [Procs -> UserStates \union ExecStates \union BootStates]
    BY DEF IInv, TypeOK, LoadNext, Goto, UserStates, ExecStates, BootStates, Registering
  <2>2. /\ todo' \in [Ids -> Records \union {NoJob}]
        /\ rec' \in [Procs -> Records \union {NoJob}]
        /\ old' \in [Procs -> Ids \union {NoId}]
    BY DEF IInv, TypeOK, LoadNext
  <2> QED
    BY <2>1, <2>2 DEF IInv, TypeOK, LoadNext, histVars
<1>2. MutexOwned'
  BY DistinctAssumption, BoundsAssumption, NoJobAssumption, RecordFacts
     DEF IInv, TypeOK, MutexOwned, Owning, Procs, LoadNext, Goto, histVars
<1>3. IdsFresh'
  BY DistinctAssumption, BoundsAssumption, NoJobAssumption, RecordFacts
     DEF IInv, TypeOK, IdsFresh, RegisteringSound, ExecutingSound, Registering, LoadNext,
         Goto, histVars
<1>4. RegisteringSound'
  BY DistinctAssumption, BoundsAssumption, NoJobAssumption, RecordFacts
     DEF IInv, TypeOK, MutexOwned, IdsFresh, RegisteringSound, ExecutingSound,
         Registering, Owning, Active, Guarding, Procs, LoadNext, Goto, histVars
<1>5. RemovingSound'
  BY DistinctAssumption, BoundsAssumption, NoJobAssumption, RecordFacts
     DEF IInv, TypeOK, IdsFresh, RemovingSound, Procs, LoadNext, Goto, histVars
<1>6. ExecutingSound'
  BY DistinctAssumption, BoundsAssumption, NoJobAssumption, RecordFacts
     DEF IInv, TypeOK, MutexOwned, IdsFresh, RegisteringSound, ExecutingSound, Active,
         Guarding, Owning, Registering, Procs, LoadNext, Goto, histVars
<1>7. ScheduledJobsKnown'
  BY DistinctAssumption, BoundsAssumption, NoJobAssumption, RecordFacts
     DEF IInv, TypeOK, MutexOwned, RegisteringSound, RemovingSound, ScheduledJobsKnown,
         BeingInserted, Owning, Registering, Procs, LoadNext, Goto, histVars
<1> QED
  BY <1>1, <1>2, <1>3, <1>4, <1>5, <1>6, <1>7 DEF IInv

-----------------------------------------------------------------------------
(* The theorems *)

\* Every step of the scheduler preserves the invariant.
LEMMA StepPreserves ==
    ASSUME IInv, [Next]_vars
    PROVE  IInv'
<1>1. CASE UNCHANGED vars
  BY <1>1 DEF vars, IInv, TypeOK, MutexOwned, IdsFresh, RegisteringSound, RemovingSound,
              ExecutingSound, ScheduledJobsKnown, BeingInserted
<1>2. ASSUME NEW p \in Procs, Register(p)
      PROVE  IInv'
  BY <1>2, RegisterCheckStep, RegisterAddStep, RegisterInsertStep, RegisterDropStep, RegisterStoreDropStep, RegisterStoreSaveStep
     DEF Register
<1>3. ASSUME NEW u \in Users, AddJob(u) \/ RemoveJob(u) \/ UserStep(u)
      PROVE  IInv'
  BY <1>2, <1>3, AddJobStep, RemoveJobStep, RemoveRuntimeStep, RemoveStoreStep, RemoveEntryStep
     DEF UserStep, Procs
<1>4. ASSUME NEW e \in Execs, Fire(e) \/ ExecStep(e)
      PROVE  IInv'
  BY <1>2, <1>4, FireStep, ExecuteEndsStep, UpdateStatusStep, DisableStep, SaveStatusStep
     DEF ExecStep, Procs
<1>5. CASE BootStep
  BY <1>2, <1>5, LoadNextStep DEF BootStep, Procs
<1>6. CASE Tick
  BY <1>6, TickStep
<1>7. CASE Crash
  BY <1>7, CrashStep
<1> QED
  BY <1>1, <1>3, <1>4, <1>5, <1>6, <1>7 DEF Next

\* The invariant holds of a scheduler that has not run yet.
LEMMA InitEstablishes == Init => IInv
<1> SUFFICES ASSUME Init PROVE IInv
  OBVIOUS
<1>1. TypeOK
  BY BoundsAssumption DEF Init, TypeOK, UserStates, Procs
<1>2. MutexOwned /\ RegisteringSound /\ RemovingSound /\ ExecutingSound
  BY DEF Init, MutexOwned, Owning, RegisteringSound, Registering, RemovingSound,
         ExecutingSound, Active, Procs
<1>3. IdsFresh /\ ScheduledJobsKnown
  BY DEF Init, IdsFresh, ScheduledJobsKnown
<1> QED
  BY <1>1, <1>2, <1>3 DEF IInv

LEMMA Invariance == Spec => []IInv
<1> QED
  BY InitEstablishes, StepPreserves, PTL DEF Spec

\* The scheduler's state is always well typed: what the runtime has registered
\* has been given an id, and records, retries and times keep their types.
THEOREM TypeCorrect == Spec => []TypeOK
<1>1. IInv => TypeOK
  BY DEF IInv
<1> QED
  BY <1>1, Invariance, PTL

\* Whatever register_job_runtime has put on the runtime is in the map of jobs,
\* or is being put there by the owner of the Mutex: no interleaving of adding,
\* removing, retrying and loading jobs leaves a job that fires and that
\* list_jobs and remove_job do not know.
THEOREM KnownJobs == Spec => []ScheduledJobsKnown
<1>1. IInv => ScheduledJobsKnown
  BY DEF IInv
<1> QED
  BY <1>1, Invariance, PTL

-----------------------------------------------------------------------------
(* DisabledJobOff.  A one-shot job is executed once under an id            *)
(* (SoleExecution), so until a restart everything that is registered is    *)
(* enabled (EnabledUntilCounted): the only way to a disabled entry is the  *)
(* execution that goes on to take the id off the runtime, and it keeps the *)
(* shard locked until it has.                                              *)

\* Counting an execution keeps the job and its time, and a job that is counted
\* as failed once too often is disabled; a retry changes the time only.
LEMMA CountedFacts ==
    \A r \in Records :
        /\ r.enabled \in BOOLEAN /\ r.kind \in {"at", "repeat"} /\ r.at \in Times
        /\ \A success \in BOOLEAN :
              /\ Counted(r, success).job = r.job /\ Counted(r, success).at = r.at
              /\ Counted(r, success).enabled = (r.enabled /\ ~Exhausted(r, success))
        /\ \A t \in Times :
              /\ [r EXCEPT !.at = t].job = r.job /\ [r EXCEPT !.at = t].at = t
              /\ [r EXCEPT !.at = t].enabled = r.enabled
BY DEF Records, Counted

\* What a firing job is: the entry of an id of the runtime, or the CronJob of
\* the registration that has not inserted it yet.
Fires(e, i, r) ==
    /\ pc[e] = "off" /\ Started
    /\ \/ r = jobs[i]
       \/ jobs[i] = NoJob /\ \E p \in Procs : pc[p] = "inserting" /\ id[p] = i /\ r = rec[p]
    /\ r.kind = "at" => r.at <= now
    /\ runtime' = IF r.kind = "at" THEN runtime \ {i} ELSE runtime
    /\ id' = [id EXCEPT ![e] = i]
    /\ rec' = [rec EXCEPT ![e] = r]
    /\ pc' = [pc EXCEPT ![e] = "executing"]
    /\ UNCHANGED <<now, jobs, store, mutex, guard, used, old, ok, todo, crashes, histVars>>

LEMMA FireFacts ==
    ASSUME IInv, NEW e \in Execs, Fire(e)
    PROVE  \E i \in runtime, r \in Records : Fires(e, i, r)
<1>1. PICK i \in runtime : \E r \in Scheduled(i) \ {NoJob} :
          /\ r.kind = "at" => r.at <= now
          /\ runtime' = IF r.kind = "at" THEN runtime \ {i} ELSE runtime
          /\ id' = [id EXCEPT ![e] = i]
          /\ rec' = [rec EXCEPT ![e] = r]
  BY DEF Fire
<1>2. PICK r \in Scheduled(i) \ {NoJob} :
          /\ r.kind = "at" => r.at <= now
          /\ runtime' = IF r.kind = "at" THEN runtime \ {i} ELSE runtime
          /\ id' = [id EXCEPT ![e] = i]
          /\ rec' = [rec EXCEPT ![e] = r]
  BY <1>1
<1>3. r \in Records
  BY DEF Scheduled, IInv, TypeOK
<1>4. \/ r = jobs[i]
      \/ jobs[i] = NoJob /\ \E p \in Procs : pc[p] = "inserting" /\ id[p] = i /\ r = rec[p]
  BY DEF Scheduled, IInv, RegisteringSound, Registering
<1> QED
  BY <1>2, <1>3, <1>4 DEF Fire, Fires, Goto

\* A one-shot job leaves the runtime when it fires.
LEMMA SoleExecutionStep ==
    ASSUME IInv, SoleExecution, [Next]_vars
    PROVE  SoleExecution'
<1>1. CASE UNCHANGED vars
  BY <1>1
     DEF vars, IInv, TypeOK, ExecutingSound, SoleExecution, Active, Registering, Procs
<1>2. ASSUME NEW p \in Procs, RegisterCheck(p)
      PROVE  SoleExecution'
  BY <1>2, DistinctAssumption
     DEF IInv, TypeOK, ExecutingSound, SoleExecution, Active, Registering, Procs,
         RegisterCheck, Goto, Caller, procVars, histVars
<1>3. ASSUME NEW p \in Procs, RegisterAdd(p)
      PROVE  SoleExecution'
  BY <1>3, DistinctAssumption
     DEF IInv, TypeOK, ExecutingSound, SoleExecution, Active, Registering, Procs,
         RegisterAdd, Goto, procVars, histVars
<1>4. ASSUME NEW p \in Procs, RegisterInsert(p)
      PROVE  SoleExecution'
  BY <1>4, DistinctAssumption
     DEF IInv, TypeOK, ExecutingSound, SoleExecution, Active, Registering, Procs,
         RegisterInsert, Goto, ShardFree, procVars, histVars
<1>5. ASSUME NEW p \in Procs, RegisterDrop(p)
      PROVE  SoleExecution'
  BY <1>5, DistinctAssumption
     DEF IInv, TypeOK, ExecutingSound, SoleExecution, Active, Registering, Procs,
         RegisterDrop, Goto, ShardFree, procVars, histVars
<1>6. ASSUME NEW p \in Procs, RegisterStoreDrop(p)
      PROVE  SoleExecution'
  BY <1>6, DistinctAssumption
     DEF IInv, TypeOK, ExecutingSound, SoleExecution, Active, Registering, Procs,
         RegisterStoreDrop, Goto, procVars, histVars
<1>7. ASSUME NEW p \in Procs, RegisterStoreSave(p)
      PROVE  SoleExecution'
  BY <1>7, DistinctAssumption
     DEF IInv, TypeOK, ExecutingSound, SoleExecution, Active, Registering, Procs,
         RegisterStoreSave, Goto, Caller, procVars, histVars
<1>8. ASSUME NEW u \in Users, AddJob(u)
      PROVE  SoleExecution'
  BY <1>8, DistinctAssumption
     DEF IInv, TypeOK, ExecutingSound, SoleExecution, Active, Registering, Procs, AddJob,
         Goto, procVars, histVars
<1>9. ASSUME NEW u \in Users, RemoveJob(u)
      PROVE  SoleExecution'
  BY <1>9, DistinctAssumption
     DEF IInv, TypeOK, ExecutingSound, SoleExecution, Active, Registering, Procs, RemoveJob,
         Goto, procVars, histVars
<1>10. ASSUME NEW u \in Users, RemoveRuntime(u)
      PROVE  SoleExecution'
  BY <1>10, DistinctAssumption
     DEF IInv, TypeOK, ExecutingSound, SoleExecution, Active, Registering, Procs,
         RemoveRuntime, Goto, procVars, histVars
<1>11. ASSUME NEW u \in Users, RemoveStore(u)
      PROVE  SoleExecution'
  BY <1>11, DistinctAssumption
     DEF IInv, TypeOK, ExecutingSound, SoleExecution, Active, Registering, Procs,
         RemoveStore, Goto, procVars, histVars
<1>12. ASSUME NEW u \in Users, RemoveEntry(u)
      PROVE  SoleExecution'
  BY <1>12, DistinctAssumption
     DEF IInv, TypeOK, ExecutingSound, SoleExecution, Active, Registering, Procs,
         RemoveEntry, Goto, ShardFree, procVars, histVars
<1>13. ASSUME NEW e \in Execs, Fire(e)
      PROVE  SoleExecution'
  <2>1. PICK i \in runtime, r \in Records : Fires(e, i, r)
    BY <1>13, FireFacts
  <2>2. \A d \in Execs : pc[d] \in Active /\ id[d] = i => r.kind = rec[d].kind
    BY <2>1, NoJobAssumption DEF IInv, ExecutingSound, Fires
  <2>3. \A d \in Execs : pc[d] \in Active /\ id[d] = i => rec[d].kind # "at"
    BY <2>1 DEF IInv, ExecutingSound
  <2>4. r.kind \in {"at", "repeat"}
    BY DEF Records
  <2> QED
    BY <2>1, <2>2, <2>3, <2>4 DEF IInv, TypeOK, SoleExecution, Fires, Active, Procs
<1>14. ASSUME NEW e \in Execs, ExecuteEnds(e)
      PROVE  SoleExecution'
  BY <1>14, DistinctAssumption
     DEF IInv, TypeOK, ExecutingSound, SoleExecution, Active, Registering, Procs,
         ExecuteEnds, Goto, procVars, histVars
<1>15. ASSUME NEW e \in Execs, UpdateStatus(e)
      PROVE  SoleExecution'
  BY <1>15, DistinctAssumption
     DEF IInv, TypeOK, ExecutingSound, SoleExecution, Active, Registering, Procs,
         UpdateStatus, Goto, ShardFree, procVars, histVars
<1>16. ASSUME NEW e \in Execs, Disable(e)
      PROVE  SoleExecution'
  BY <1>16, DistinctAssumption
     DEF IInv, TypeOK, ExecutingSound, SoleExecution, Active, Registering, Procs, Disable,
         Goto, procVars, histVars
<1>17. ASSUME NEW e \in Execs, SaveStatus(e)
      PROVE  SoleExecution'
  BY <1>17, DistinctAssumption
     DEF IInv, TypeOK, ExecutingSound, SoleExecution, Active, Registering, Procs,
         SaveStatus, Goto, procVars, histVars
<1>18. CASE LoadNext
  BY <1>18, DistinctAssumption
     DEF IInv, TypeOK, ExecutingSound, SoleExecution, Active, Registering, Procs, LoadNext,
         Goto, procVars, histVars
<1>19. CASE Tick
  BY <1>19, DistinctAssumption
     DEF IInv, TypeOK, ExecutingSound, SoleExecution, Active, Registering, Procs, Tick,
         procVars, histVars
<1>20. CASE Crash
  BY <1>20, DistinctAssumption
     DEF IInv, TypeOK, ExecutingSound, SoleExecution, Active, Registering, Procs, Crash,
         procVars, histVars
<1> QED
  BY <1>1, <1>2, <1>3, <1>4, <1>5, <1>6, <1>7, <1>8, <1>9, <1>10, <1>11, <1>12, <1>13,
     <1>14, <1>15, <1>16, <1>17, <1>18, <1>19, <1>20
     DEF Next, UserStep, ExecStep, BootStep, Register, Procs

\* Nothing disabled is registered before the first restart.
LEMMA EnabledStep ==
    ASSUME IInv, SoleExecution, EnabledUntilCounted, DisabledJobOff, [Next]_vars
    PROVE  EnabledUntilCounted'
<1>1. CASE UNCHANGED vars
  BY <1>1
     DEF vars, IInv, TypeOK, EnabledUntilCounted, Started, Registering, Procs
<1>2. ASSUME NEW p \in Procs, RegisterCheck(p)
      PROVE  EnabledUntilCounted'
  BY <1>2, DistinctAssumption
     DEF IInv, TypeOK, EnabledUntilCounted, Started, Registering, Procs, RegisterCheck,
         Goto, Caller, procVars, histVars
<1>3. ASSUME NEW p \in Procs, RegisterAdd(p)
      PROVE  EnabledUntilCounted'
  BY <1>3, DistinctAssumption
     DEF IInv, TypeOK, EnabledUntilCounted, Started, Registering, Procs, RegisterAdd, Goto,
         procVars, histVars
<1>4. ASSUME NEW p \in Procs, RegisterInsert(p)
      PROVE  EnabledUntilCounted'
  BY <1>4, DistinctAssumption
     DEF IInv, TypeOK, EnabledUntilCounted, Started, Registering, Procs, RegisterInsert,
         Goto, ShardFree, procVars, histVars
<1>5. ASSUME NEW p \in Procs, RegisterDrop(p)
      PROVE  EnabledUntilCounted'
  BY <1>5, DistinctAssumption
     DEF IInv, TypeOK, EnabledUntilCounted, Started, Registering, Procs, RegisterDrop, Goto,
         ShardFree, procVars, histVars
<1>6. ASSUME NEW p \in Procs, RegisterStoreDrop(p)
      PROVE  EnabledUntilCounted'
  BY <1>6, DistinctAssumption
     DEF IInv, TypeOK, EnabledUntilCounted, Started, Registering, Procs, RegisterStoreDrop,
         Goto, procVars, histVars
<1>7. ASSUME NEW p \in Procs, RegisterStoreSave(p)
      PROVE  EnabledUntilCounted'
  BY <1>7, DistinctAssumption
     DEF IInv, TypeOK, EnabledUntilCounted, Started, Registering, Procs, RegisterStoreSave,
         Goto, Caller, procVars, histVars
<1>8. ASSUME NEW u \in Users, AddJob(u)
      PROVE  EnabledUntilCounted'
  BY <1>8, DistinctAssumption
     DEF IInv, TypeOK, EnabledUntilCounted, Started, Registering, Procs, AddJob, Goto,
         procVars, histVars
<1>9. ASSUME NEW u \in Users, RemoveJob(u)
      PROVE  EnabledUntilCounted'
  BY <1>9, DistinctAssumption
     DEF IInv, TypeOK, EnabledUntilCounted, Started, Registering, Procs, RemoveJob, Goto,
         procVars, histVars
<1>10. ASSUME NEW u \in Users, RemoveRuntime(u)
      PROVE  EnabledUntilCounted'
  BY <1>10, DistinctAssumption
     DEF IInv, TypeOK, EnabledUntilCounted, Started, Registering, Procs, RemoveRuntime,
         Goto, procVars, histVars
<1>11. ASSUME NEW u \in Users, RemoveStore(u)
      PROVE  EnabledUntilCounted'
  BY <1>11, DistinctAssumption
     DEF IInv, TypeOK, EnabledUntilCounted, Started, Registering, Procs, RemoveStore, Goto,
         procVars, histVars
<1>12. ASSUME NEW u \in Users, RemoveEntry(u)
      PROVE  EnabledUntilCounted'
  BY <1>12, DistinctAssumption
     DEF IInv, TypeOK, EnabledUntilCounted, Started, Registering, Procs, RemoveEntry, Goto,
         ShardFree, procVars, histVars
<1>13. ASSUME NEW e \in Execs, Fire(e)
      PROVE  EnabledUntilCounted'
  <2>1. PICK i \in runtime, r \in Records : Fires(e, i, r)
    BY <1>13, FireFacts
  <2>2. crashes = 0 /\ r.kind = "at" /\ jobs[i] # NoJob => jobs[i].enabled
    BY <2>1 DEF IInv, ExecutingSound, DisabledJobOff, Fires, Active
  <2> QED
    BY <2>1, <2>2, DistinctAssumption
       DEF IInv, TypeOK, EnabledUntilCounted, Started, Fires, Registering, Procs
<1>14. ASSUME NEW e \in Execs, ExecuteEnds(e)
      PROVE  EnabledUntilCounted'
  BY <1>14, DistinctAssumption
     DEF IInv, TypeOK, EnabledUntilCounted, Started, Registering, Procs, ExecuteEnds, Goto,
         procVars, histVars
<1>15. ASSUME NEW e \in Execs, UpdateStatus(e)
      PROVE  EnabledUntilCounted'
  <2>1. CASE jobs[id[e]] = NoJob
    BY <1>15, <2>1, DistinctAssumption
       DEF IInv, TypeOK, EnabledUntilCounted, Started, Registering, Procs, UpdateStatus,
           Goto, procVars, histVars
  <2>2. CASE jobs[id[e]] # NoJob
    <3> DEFINE r == jobs[id[e]]
    <3>1. r \in Records /\ id[e] \in Ids /\ ok[e] \in BOOLEAN /\ e \in Procs
      BY <1>15, <2>2 DEF IInv, TypeOK, ExecutingSound, Active, UpdateStatus, Procs
    <3>2. Counted(r, ok[e]).enabled = (r.enabled /\ ~Exhausted(r, ok[e]))
      BY <3>1, CountedFacts
    <3>3. r.kind = rec[e].kind
      BY <1>15, <2>2 DEF IInv, ExecutingSound, Active, UpdateStatus
    <3>4. \A d \in Execs \ {e} :
              pc[d] \in Active /\ rec[d].kind = "at" => id[d] # id[e]
      BY <1>15 DEF SoleExecution, Active, UpdateStatus
    <3>5. /\ jobs' = [jobs EXCEPT ![id[e]] = Counted(r, ok[e])]
          /\ pc' = [pc EXCEPT ![e] = IF Exhausted(r, ok[e]) THEN "disable"
                                     ELSE IF ~ok[e] /\ r.kind = "at" THEN "saveRetry"
                                     ELSE "save"]
          /\ UNCHANGED <<rec, id, crashes>>
          /\ pc[e] = "status"
      BY <1>15, <2>2 DEF UpdateStatus, Goto, procVars
    <3>6. crashes = 0 /\ pc'[e] = "saveRetry" => Counted(r, ok[e]).enabled
      BY <1>15, <2>2, <3>1, <3>2, <3>3, <3>5 DEF IInv, TypeOK, EnabledUntilCounted
    <3>7. crashes = 0 => \A d \in Execs :
              /\ pc'[d] \in {"executing", "status", "saveRetry"} /\ rec[d].kind = "at"
              /\ jobs'[id[d]] # NoJob
              => jobs'[id[d]].enabled
      <4> SUFFICES ASSUME crashes = 0, NEW d \in Execs,
                          pc'[d] \in {"executing", "status", "saveRetry"},
                          rec[d].kind = "at", jobs'[id[d]] # NoJob
                   PROVE  jobs'[id[d]].enabled
        OBVIOUS
      <4>1. CASE d = e
        BY <3>1, <3>5, <3>6, <4>1 DEF IInv, TypeOK
      <4>2. CASE d # e
        <5>1. pc[d] = pc'[d] /\ id[d] # id[e] /\ id[d] \in Ids
          BY <3>4, <3>5, <4>2 DEF IInv, TypeOK, ExecutingSound, Active, Procs
        <5>2. jobs'[id[d]] = jobs[id[d]]
          BY <3>5, <5>1 DEF IInv, TypeOK
        <5> QED
          BY <5>1, <5>2 DEF EnabledUntilCounted
      <4> QED
        BY <4>1, <4>2
    <3>8. crashes = 0 => Started' /\ \A p \in Procs : pc'[p] \in Registering => rec[p].enabled
      BY <3>1, <3>5, DistinctAssumption
         DEF IInv, TypeOK, EnabledUntilCounted, Started, Registering, Procs
    <3> QED
      BY <3>5, <3>7, <3>8 DEF EnabledUntilCounted
  <2> QED
    BY <2>1, <2>2
<1>16. ASSUME NEW e \in Execs, Disable(e)
      PROVE  EnabledUntilCounted'
  BY <1>16, DistinctAssumption
     DEF IInv, TypeOK, EnabledUntilCounted, Started, Registering, Procs, Disable, Goto,
         procVars, histVars
<1>17. ASSUME NEW e \in Execs, SaveStatus(e)
      PROVE  EnabledUntilCounted'
  <2>1. crashes = 0 /\ pc[e] = "saveRetry" =>
            jobs[id[e]] \in Records /\ jobs[id[e]].enabled
    BY <1>17 DEF IInv, TypeOK, ExecutingSound, EnabledUntilCounted, Active, Guarding,
                 SaveStatus, Procs
  <2>2. now + 1 \in Times
    BY BoundsAssumption DEF IInv, TypeOK, Times
  <2>3. crashes = 0 /\ pc[e] = "saveRetry" => [jobs[id[e]] EXCEPT !.at = now + 1].enabled
    BY <2>1, <2>2, CountedFacts
  <2>4. /\ UNCHANGED <<jobs, id, crashes>>
        /\ \A p \in Procs \ {e} : pc'[p] = pc[p] /\ rec'[p] = rec[p]
        /\ \/ pc'[e] = "done"
           \/ /\ pc[e] = "saveRetry" /\ pc'[e] = "register"
              /\ rec'[e] = [jobs[id[e]] EXCEPT !.at = now + 1]
    BY <1>17 DEF IInv, TypeOK, SaveStatus, Goto, Procs
  <2>5. e \in Procs /\ Boot \in Procs \ {e} /\ Execs \subseteq Procs
    BY DistinctAssumption DEF Procs
  <2>6. crashes = 0 => \A p \in Procs : pc'[p] \in Registering => rec'[p].enabled
    BY <2>3, <2>4, <2>5 DEF EnabledUntilCounted, Registering
  <2>7. crashes = 0 => Started'
    BY <2>4, <2>5 DEF EnabledUntilCounted, Started
  <2>8. \A d \in Execs : pc'[d] \in {"executing", "status", "saveRetry"} =>
            pc[d] = pc'[d] /\ rec'[d] = rec[d]
    BY <2>4, <2>5
  <2> QED
    BY <2>4, <2>6, <2>7, <2>8 DEF EnabledUntilCounted
<1>18. CASE LoadNext
  BY <1>18, DistinctAssumption
     DEF IInv, TypeOK, EnabledUntilCounted, Started, Registering, Procs, LoadNext, Goto,
         procVars, histVars
<1>19. CASE Tick
  BY <1>19, DistinctAssumption
     DEF IInv, TypeOK, EnabledUntilCounted, Started, Registering, Procs, Tick, procVars,
         histVars
<1>20. CASE Crash
  BY <1>20, DistinctAssumption
     DEF IInv, TypeOK, EnabledUntilCounted, Started, Registering, Procs, Crash, procVars,
         histVars
<1> QED
  BY <1>1, <1>2, <1>3, <1>4, <1>5, <1>6, <1>7, <1>8, <1>9, <1>10, <1>11, <1>12, <1>13,
     <1>14, <1>15, <1>16, <1>17, <1>18, <1>19, <1>20
     DEF Next, UserStep, ExecStep, BootStep, Register, Procs

\* Who disables a scheduled job is about to take it off the runtime.
LEMMA DisabledStep ==
    ASSUME IInv, EnabledUntilCounted, DisabledJobOff, [Next]_vars
    PROVE  DisabledJobOff'
<1>1. CASE UNCHANGED vars
  BY <1>1
     DEF vars, IInv, TypeOK, DisabledJobOff, Procs
<1>2. ASSUME NEW p \in Procs, RegisterCheck(p)
      PROVE  DisabledJobOff'
  BY <1>2, DistinctAssumption
     DEF IInv, TypeOK, DisabledJobOff, Procs, RegisterCheck, Goto, Caller, procVars,
         histVars
<1>3. ASSUME NEW p \in Procs, RegisterAdd(p)
      PROVE  DisabledJobOff'
  BY <1>3, DistinctAssumption
     DEF IInv, TypeOK, DisabledJobOff, Procs, IdsFresh, RegisterAdd, Goto, procVars,
         histVars
<1>4. ASSUME NEW p \in Procs, RegisterInsert(p)
      PROVE  DisabledJobOff'
  <2>1. /\ crashes = 0 => rec[p].enabled
        /\ id[p] \in Ids /\ p \in Procs
    BY <1>4 DEF IInv, TypeOK, EnabledUntilCounted, RegisteringSound, Registering,
                 RegisterInsert
  <2>2. /\ jobs' = [jobs EXCEPT ![id[p]] = rec[p]]
        /\ \A e \in Execs : pc[e] = "disable" => pc'[e] = "disable"
        /\ UNCHANGED <<runtime, id, crashes>>
    BY <1>4 DEF IInv, TypeOK, RegisterInsert, Goto, procVars, Procs
  <2> QED
    BY <2>1, <2>2 DEF IInv, TypeOK, DisabledJobOff
<1>5. ASSUME NEW p \in Procs, RegisterDrop(p)
      PROVE  DisabledJobOff'
  BY <1>5, DistinctAssumption
     DEF IInv, TypeOK, DisabledJobOff, Procs, RegisterDrop, Goto, ShardFree, procVars,
         histVars
<1>6. ASSUME NEW p \in Procs, RegisterStoreDrop(p)
      PROVE  DisabledJobOff'
  BY <1>6, DistinctAssumption
     DEF IInv, TypeOK, DisabledJobOff, Procs, RegisterStoreDrop, Goto, procVars, histVars
<1>7. ASSUME NEW p \in Procs, RegisterStoreSave(p)
      PROVE  DisabledJobOff'
  BY <1>7, DistinctAssumption
     DEF IInv, TypeOK, DisabledJobOff, Procs, RegisterStoreSave, Goto, Caller, procVars,
         histVars
<1>8. ASSUME NEW u \in Users, AddJob(u)
      PROVE  DisabledJobOff'
  BY <1>8, DistinctAssumption
     DEF IInv, TypeOK, DisabledJobOff, Procs, AddJob, Goto, procVars, histVars
<1>9. ASSUME NEW u \in Users, RemoveJob(u)
      PROVE  DisabledJobOff'
  BY <1>9, DistinctAssumption
     DEF IInv, TypeOK, DisabledJobOff, Procs, RemoveJob, Goto, procVars, histVars
<1>10. ASSUME NEW u \in Users, RemoveRuntime(u)
      PROVE  DisabledJobOff'
  BY <1>10, DistinctAssumption
     DEF IInv, TypeOK, DisabledJobOff, Procs, RemoveRuntime, Goto, procVars, histVars
<1>11. ASSUME NEW u \in Users, RemoveStore(u)
      PROVE  DisabledJobOff'
  BY <1>11, DistinctAssumption
     DEF IInv, TypeOK, DisabledJobOff, Procs, RemoveStore, Goto, procVars, histVars
<1>12. ASSUME NEW u \in Users, RemoveEntry(u)
      PROVE  DisabledJobOff'
  BY <1>12, DistinctAssumption
     DEF IInv, TypeOK, DisabledJobOff, Procs, RemoveEntry, Goto, ShardFree, procVars,
         histVars
<1>13. ASSUME NEW e \in Execs, Fire(e)
      PROVE  DisabledJobOff'
  BY <1>13, DistinctAssumption
     DEF IInv, TypeOK, DisabledJobOff, Procs, Fire, Goto, Scheduled, procVars, histVars
<1>14. ASSUME NEW e \in Execs, ExecuteEnds(e)
      PROVE  DisabledJobOff'
  BY <1>14, DistinctAssumption
     DEF IInv, TypeOK, DisabledJobOff, Procs, ExecuteEnds, Goto, procVars, histVars
<1>15. ASSUME NEW e \in Execs, UpdateStatus(e)
      PROVE  DisabledJobOff'
  <2>1. CASE jobs[id[e]] = NoJob
    BY <1>15, <2>1, DistinctAssumption
       DEF IInv, TypeOK, DisabledJobOff, Started, Registering, Procs, UpdateStatus,
           Goto, procVars, histVars
  <2>2. CASE jobs[id[e]] # NoJob
    <3> DEFINE r == jobs[id[e]]
    <3>1. r \in Records /\ id[e] \in Ids /\ ok[e] \in BOOLEAN /\ e \in Procs
      BY <1>15, <2>2 DEF IInv, TypeOK, ExecutingSound, Active, UpdateStatus, Procs
    <3>2. Counted(r, ok[e]).enabled = (r.enabled /\ ~Exhausted(r, ok[e]))
      BY <3>1, CountedFacts
    <3>3. id[e] \in runtime /\ crashes = 0 => r.enabled
      <4> SUFFICES ASSUME id[e] \in runtime, crashes = 0, ~r.enabled PROVE FALSE
        BY <3>1, CountedFacts
      <4>1. PICK d \in Execs : pc[d] = "disable" /\ id[d] = id[e]
        BY <2>2 DEF DisabledJobOff
      <4>2. guard[ShardOf[id[e]]] = d
        BY <4>1 DEF IInv, ExecutingSound, Active, Guarding
      <4> QED
        BY <1>15, <4>2, DistinctAssumption DEF UpdateStatus, ShardFree
    <3>4. /\ jobs' = [jobs EXCEPT ![id[e]] = Counted(r, ok[e])]
          /\ pc' = [pc EXCEPT ![e] = IF Exhausted(r, ok[e]) THEN "disable"
                                     ELSE IF ~ok[e] /\ r.kind = "at" THEN "saveRetry"
                                     ELSE "save"]
          /\ UNCHANGED <<runtime, id, crashes>>
          /\ pc[e] = "status"
      BY <1>15, <2>2 DEF UpdateStatus, Goto, procVars
    <3>5. ASSUME crashes = 0, NEW i \in runtime, jobs'[i] # NoJob, ~jobs'[i].enabled
          PROVE  \E d \in Execs : pc'[d] = "disable" /\ id[d] = i
      <4>1. CASE i = id[e]
        <5>1. Exhausted(r, ok[e])
          BY <3>1, <3>2, <3>3, <3>4, <3>5, <4>1 DEF IInv, TypeOK
        <5> QED
          BY <3>1, <3>4, <4>1, <5>1 DEF IInv, TypeOK
      <4>2. CASE i # id[e]
        <5>1. jobs'[i] = jobs[i]
          BY <3>4, <4>2 DEF IInv, TypeOK
        <5>2. PICK d \in Execs : pc[d] = "disable" /\ id[d] = i
          BY <3>5, <5>1 DEF DisabledJobOff
        <5> QED
          BY <3>4, <5>2 DEF IInv, TypeOK, Procs
      <4> QED
        BY <4>1, <4>2
    <3> QED
      BY <3>4, <3>5 DEF DisabledJobOff
  <2> QED
    BY <2>1, <2>2
<1>16. ASSUME NEW e \in Execs, Disable(e)
      PROVE  DisabledJobOff'
  BY <1>16, DistinctAssumption
     DEF IInv, TypeOK, DisabledJobOff, Procs, Disable, Goto, procVars, histVars
<1>17. ASSUME NEW e \in Execs, SaveStatus(e)
      PROVE  DisabledJobOff'
  BY <1>17, DistinctAssumption
     DEF IInv, TypeOK, DisabledJobOff, Procs, SaveStatus, Goto, procVars, histVars
<1>18. CASE LoadNext
  BY <1>18, DistinctAssumption
     DEF IInv, TypeOK, DisabledJobOff, Procs, LoadNext, Goto, procVars, histVars
<1>19. CASE Tick
  BY <1>19, DistinctAssumption
     DEF IInv, TypeOK, DisabledJobOff, Procs, Tick, procVars, histVars
<1>20. CASE Crash
  BY <1>20, DistinctAssumption
     DEF IInv, TypeOK, DisabledJobOff, Procs, Crash, procVars, histVars
<1> QED
  BY <1>1, <1>2, <1>3, <1>4, <1>5, <1>6, <1>7, <1>8, <1>9, <1>10, <1>11, <1>12, <1>13,
     <1>14, <1>15, <1>16, <1>17, <1>18, <1>19, <1>20
     DEF Next, UserStep, ExecStep, BootStep, Register, Procs


\* Until the first restart a job that has used up its retries is off: no
\* interleaving of executions, retries, registrations and removals leaves it on
\* the runtime, except for the moment in which its last execution waits for the
\* Mutex to take it off.
THEOREM DisabledStaysOff == Spec => []DisabledJobOff
<1>1. Init => SoleExecution /\ EnabledUntilCounted /\ DisabledJobOff
  BY DEF Init, SoleExecution, EnabledUntilCounted, DisabledJobOff, Started, Active,
         Registering, Procs
<1>2. IInv /\ SoleExecution /\ EnabledUntilCounted /\ DisabledJobOff /\ [Next]_vars
        => (SoleExecution /\ EnabledUntilCounted /\ DisabledJobOff)'
  BY SoleExecutionStep, EnabledStep, DisabledStep
<1> QED
  BY <1>1, <1>2, Invariance, PTL DEF Spec

-----------------------------------------------------------------------------
(* OneShotOnce.  That a job runs once is a statement about all of its      *)
(* copies: the entry, the stored record, what a restart has read, and what *)
(* an execution or a registration holds.  They come from the same request  *)
(* (RecordsOwned), those under one id agree on the time (CopiesAgree), and *)
(* the time of what has fired is past (FiredIsPast), so that a restart     *)
(* refuses it.                                                             *)

\* A CronJob names the request it comes from.
LEMMA JobsAreUsers ==
    ASSUME IInv
    PROVE  /\ \A i \in Ids :
                 /\ jobs[i] # NoJob => jobs[i].job \in Users
                 /\ store[i] # NoJob => store[i].job \in Users
                 /\ todo[i] # NoJob => todo[i].job \in Users
           /\ \A p \in Procs : rec[p] # NoJob => rec[p].job \in Users
BY RecordFacts DEF IInv, TypeOK

\* A CronJob is only ever copied from the CronJob of the same request.
LEMMA OwnedStep ==
    ASSUME IInv, RecordsOwned, [Next]_vars
    PROVE  RecordsOwned'
<1>1. CASE UNCHANGED vars
  BY <1>1
     DEF vars, IInv, TypeOK, RecordsOwned, FromRequest, Procs
<1>2. ASSUME NEW p \in Procs, RegisterCheck(p)
      PROVE  RecordsOwned'
  BY <1>2, DistinctAssumption
     DEF IInv, TypeOK, RecordsOwned, FromRequest, Procs, RegisterCheck, Goto, Caller,
         procVars, histVars
<1>3. ASSUME NEW p \in Procs, RegisterAdd(p)
      PROVE  RecordsOwned'
  BY <1>3, DistinctAssumption
     DEF IInv, TypeOK, RecordsOwned, FromRequest, Procs, RegisterAdd, Goto, procVars,
         histVars
<1>4. ASSUME NEW p \in Procs, RegisterInsert(p)
      PROVE  RecordsOwned'
  BY <1>4, DistinctAssumption
     DEF IInv, TypeOK, RecordsOwned, FromRequest, Procs, RegisterInsert, Goto, ShardFree,
         procVars, histVars
<1>5. ASSUME NEW p \in Procs, RegisterDrop(p)
      PROVE  RecordsOwned'
  BY <1>5, DistinctAssumption
     DEF IInv, TypeOK, RecordsOwned, FromRequest, Procs, RegisterDrop, Goto, ShardFree,
         procVars, histVars
<1>6. ASSUME NEW p \in Procs, RegisterStoreDrop(p)
      PROVE  RecordsOwned'
  BY <1>6, DistinctAssumption
     DEF IInv, TypeOK, RecordsOwned, FromRequest, Procs, RegisterStoreDrop, Goto, procVars,
         histVars
<1>7. ASSUME NEW p \in Procs, RegisterStoreSave(p)
      PROVE  RecordsOwned'
  BY <1>7, DistinctAssumption
     DEF IInv, TypeOK, RecordsOwned, FromRequest, Procs, RegisterStoreSave, Goto, Caller,
         procVars, histVars
<1>8. ASSUME NEW u \in Users, AddJob(u)
      PROVE  RecordsOwned'
  BY <1>8, DistinctAssumption
     DEF IInv, TypeOK, RecordsOwned, FromRequest, Procs, AddJob, Goto, procVars, histVars
<1>9. ASSUME NEW u \in Users, RemoveJob(u)
      PROVE  RecordsOwned'
  BY <1>9, DistinctAssumption
     DEF IInv, TypeOK, RecordsOwned, FromRequest, Procs, RemoveJob, Goto, procVars, histVars
<1>10. ASSUME NEW u \in Users, RemoveRuntime(u)
      PROVE  RecordsOwned'
  BY <1>10, DistinctAssumption
     DEF IInv, TypeOK, RecordsOwned, FromRequest, Procs, RemoveRuntime, Goto, procVars,
         histVars
<1>11. ASSUME NEW u \in Users, RemoveStore(u)
      PROVE  RecordsOwned'
  BY <1>11, DistinctAssumption
     DEF IInv, TypeOK, RecordsOwned, FromRequest, Procs, RemoveStore, Goto, procVars,
         histVars
<1>12. ASSUME NEW u \in Users, RemoveEntry(u)
      PROVE  RecordsOwned'
  BY <1>12, DistinctAssumption
     DEF IInv, TypeOK, RecordsOwned, FromRequest, Procs, RemoveEntry, Goto, ShardFree,
         procVars, histVars
<1>13. ASSUME NEW e \in Execs, Fire(e)
      PROVE  RecordsOwned'
  <2>1. PICK i \in runtime, r \in Records : Fires(e, i, r)
    BY <1>13, FireFacts
  <2>2. FromRequest(r)
    BY <2>1 DEF IInv, TypeOK, RecordsOwned, Fires
  <2>3. /\ UNCHANGED <<jobs, store, todo, runs>>
        /\ \A p \in Procs \ {e} : pc'[p] = pc[p] /\ rec'[p] = rec[p]
        /\ rec'[e] = r
    BY <2>1 DEF IInv, TypeOK, Fires, Procs, histVars
  <2>4. Users \subseteq Procs \ {e}
    BY DistinctAssumption DEF Procs
  <2>5. r.job \in Users
    BY DEF Records
  <2> QED
    BY <2>2, <2>3, <2>4, <2>5, JobsAreUsers DEF RecordsOwned, FromRequest
<1>14. ASSUME NEW e \in Execs, ExecuteEnds(e)
      PROVE  RecordsOwned'
  <2>1. rec[e] \in Records
    BY <1>14 DEF IInv, ExecutingSound, Active, ExecuteEnds
  <2>2. rec[e].job \in Users /\ rec[rec[e].job] # NoJob
    BY <2>1, RecordFacts, NoJobAssumption DEF RecordsOwned, FromRequest, Procs
  <2>3. \A u \in Users : u # rec[e].job => runs'[u] = runs[u]
    BY <1>14 DEF IInv, TypeOK, ExecuteEnds
  <2>4. /\ UNCHANGED <<jobs, store, todo, rec>>
        /\ \A u \in Users : pc'[u] = pc[u]
    BY <1>14, DistinctAssumption DEF IInv, TypeOK, ExecuteEnds, Goto, Procs
  <2> QED
    BY <2>2, <2>3, <2>4 DEF RecordsOwned, FromRequest
<1>15. ASSUME NEW e \in Execs, UpdateStatus(e)
      PROVE  RecordsOwned'
  <2>1. \A i \in Ids : FromRequest(jobs'[i])
    <3>1. CASE jobs[id[e]] = NoJob
      BY <1>15, <3>1 DEF RecordsOwned, UpdateStatus
    <3>2. CASE jobs[id[e]] # NoJob
      <4>1. jobs[id[e]] \in Records /\ ok[e] \in BOOLEAN
        BY <1>15, <3>2 DEF IInv, TypeOK, ExecutingSound, Active, UpdateStatus
      <4>2. Counted(jobs[id[e]], ok[e]).job = jobs[id[e]].job
        BY <4>1, CountedFacts
      <4>3. Counted(jobs[id[e]], ok[e]).kind = jobs[id[e]].kind
        BY <4>1, RecordFacts
      <4>4. FromRequest(Counted(jobs[id[e]], ok[e]))
        BY <1>15, <3>2, <4>2, <4>3 DEF IInv, TypeOK, ExecutingSound, Active, UpdateStatus,
                                 RecordsOwned, FromRequest
      <4> QED
        BY <1>15, <3>2, <4>4 DEF IInv, TypeOK, RecordsOwned, UpdateStatus
    <3> QED
      BY <3>1, <3>2
  <2>2. /\ UNCHANGED <<store, todo, rec, runs>>
        /\ \A u \in Users : pc'[u] = pc[u]
    BY <1>15, DistinctAssumption DEF IInv, TypeOK, UpdateStatus, Goto, Procs, procVars, histVars
  <2> QED
    BY <2>1, <2>2 DEF RecordsOwned, FromRequest
<1>16. ASSUME NEW e \in Execs, Disable(e)
      PROVE  RecordsOwned'
  BY <1>16, DistinctAssumption
     DEF IInv, TypeOK, RecordsOwned, FromRequest, Procs, Disable, Goto, procVars, histVars
<1>17. ASSUME NEW e \in Execs, SaveStatus(e)
      PROVE  RecordsOwned'
  <2>1. jobs[id[e]] \in Records /\ id[e] \in Ids
    BY <1>17 DEF IInv, TypeOK, ExecutingSound, Active, Guarding, SaveStatus
  <2>2. now + 1 \in Times
    BY BoundsAssumption DEF IInv, TypeOK, Times
  <2> DEFINE retry == [jobs[id[e]] EXCEPT !.at = now + 1]
  <2>3. retry.job = jobs[id[e]].job /\ retry.kind = jobs[id[e]].kind
    BY <2>1, <2>2, RecordFacts, CountedFacts
  <2>4. FromRequest(jobs[id[e]]) /\ FromRequest(retry)
    BY <2>1, <2>3, RecordFacts DEF RecordsOwned, FromRequest
  <2>5. /\ UNCHANGED <<jobs, todo, runs>>
        /\ store' = [store EXCEPT ![id[e]] = jobs[id[e]]]
        /\ \A p \in Procs \ {e} : pc'[p] = pc[p] /\ rec'[p] = rec[p]
        /\ rec'[e] = rec[e] \/ rec'[e] = retry
    BY <1>17 DEF IInv, TypeOK, SaveStatus, Goto, Procs, histVars
  <2> HIDE DEF retry
  <2>6. Users \subseteq Procs \ {e}
    BY DistinctAssumption DEF Procs
  <2>7. \A r \in Records : FromRequest(r) => FromRequest(r)'
    BY <2>5, <2>6, RecordFacts DEF FromRequest
  <2>8. \A u \in Users : rec'[u] = rec[u]
    BY <2>5, <2>6
  <2>9. retry \in Records
    BY <2>1, <2>2, RecordFacts DEF retry
  <2> QED
    BY <2>1, <2>4, <2>5, <2>6, <2>7, <2>9, JobsAreUsers DEF IInv, TypeOK, RecordsOwned, FromRequest
<1>18. CASE LoadNext
  <2>1. /\ UNCHANGED <<jobs, store, runs>>
        /\ \A u \in Users : pc'[u] = pc[u] /\ rec'[u] = rec[u]
        /\ \A i \in Ids : todo'[i] = todo[i] \/ todo'[i] = NoJob
        /\ \A p \in Procs : rec'[p] = rec[p] \/ \E i \in Ids : rec'[p] = todo[i]
    BY <1>18, DistinctAssumption DEF IInv, TypeOK, LoadNext, Goto, Procs, histVars
  <2> QED
    BY <2>1, JobsAreUsers DEF RecordsOwned, FromRequest
<1>19. CASE Tick
  BY <1>19, DistinctAssumption
     DEF IInv, TypeOK, RecordsOwned, FromRequest, Procs, Tick, procVars, histVars
<1>20. CASE Crash
  BY <1>20, DistinctAssumption
     DEF IInv, TypeOK, RecordsOwned, FromRequest, Procs, Crash, procVars, histVars
<1> QED
  BY <1>1, <1>2, <1>3, <1>4, <1>5, <1>6, <1>7, <1>8, <1>9, <1>10, <1>11, <1>12, <1>13,
     <1>14, <1>15, <1>16, <1>17, <1>18, <1>19, <1>20
     DEF Next, UserStep, ExecStep, BootStep, Register, Procs

\* Requests are taken and jobs fire after load_jobs only.
LEMMA BootAloneStep ==
    ASSUME IInv, BootAlone, [Next]_vars
    PROVE  BootAlone'
<1>1. CASE UNCHANGED vars
  BY <1>1
     DEF vars, IInv, TypeOK, BootAlone, Started, Procs
<1>2. ASSUME NEW p \in Procs, RegisterCheck(p)
      PROVE  BootAlone'
  BY <1>2, DistinctAssumption
     DEF IInv, TypeOK, BootAlone, Started, Procs, RegisterCheck, Goto, Caller, procVars,
         histVars
<1>3. ASSUME NEW p \in Procs, RegisterAdd(p)
      PROVE  BootAlone'
  BY <1>3, DistinctAssumption
     DEF IInv, TypeOK, BootAlone, Started, Procs, RegisterAdd, Goto, procVars, histVars
<1>4. ASSUME NEW p \in Procs, RegisterInsert(p)
      PROVE  BootAlone'
  BY <1>4, DistinctAssumption
     DEF IInv, TypeOK, BootAlone, Started, Procs, RegisterInsert, Goto, ShardFree, procVars,
         histVars
<1>5. ASSUME NEW p \in Procs, RegisterDrop(p)
      PROVE  BootAlone'
  BY <1>5, DistinctAssumption
     DEF IInv, TypeOK, BootAlone, Started, Procs, RegisterDrop, Goto, ShardFree, procVars,
         histVars
<1>6. ASSUME NEW p \in Procs, RegisterStoreDrop(p)
      PROVE  BootAlone'
  BY <1>6, DistinctAssumption
     DEF IInv, TypeOK, BootAlone, Started, Procs, RegisterStoreDrop, Goto, procVars,
         histVars
<1>7. ASSUME NEW p \in Procs, RegisterStoreSave(p)
      PROVE  BootAlone'
  BY <1>7, DistinctAssumption
     DEF IInv, TypeOK, BootAlone, Started, Procs, RegisterStoreSave, Goto, Caller, procVars,
         histVars
<1>8. ASSUME NEW u \in Users, AddJob(u)
      PROVE  BootAlone'
  BY <1>8, DistinctAssumption
     DEF IInv, TypeOK, BootAlone, Started, Procs, AddJob, Goto, procVars, histVars
<1>9. ASSUME NEW u \in Users, RemoveJob(u)
      PROVE  BootAlone'
  BY <1>9, DistinctAssumption
     DEF IInv, TypeOK, BootAlone, Started, Procs, RemoveJob, Goto, procVars, histVars
<1>10. ASSUME NEW u \in Users, RemoveRuntime(u)
      PROVE  BootAlone'
  BY <1>10, DistinctAssumption
     DEF IInv, TypeOK, BootAlone, Started, Procs, RemoveRuntime, Goto, procVars, histVars
<1>11. ASSUME NEW u \in Users, RemoveStore(u)
      PROVE  BootAlone'
  BY <1>11, DistinctAssumption
     DEF IInv, TypeOK, BootAlone, Started, Procs, RemoveStore, Goto, procVars, histVars
<1>12. ASSUME NEW u \in Users, RemoveEntry(u)
      PROVE  BootAlone'
  BY <1>12, DistinctAssumption
     DEF IInv, TypeOK, BootAlone, Started, Procs, RemoveEntry, Goto, ShardFree, procVars,
         histVars
<1>13. ASSUME NEW e \in Execs, Fire(e)
      PROVE  BootAlone'
  BY <1>13, DistinctAssumption
     DEF IInv, TypeOK, BootAlone, Started, Procs, Fire, Goto, Scheduled, procVars, histVars
<1>14. ASSUME NEW e \in Execs, ExecuteEnds(e)
      PROVE  BootAlone'
  BY <1>14, DistinctAssumption
     DEF IInv, TypeOK, BootAlone, Started, Procs, ExecuteEnds, Goto, procVars, histVars
<1>15. ASSUME NEW e \in Execs, UpdateStatus(e)
      PROVE  BootAlone'
  BY <1>15, DistinctAssumption
     DEF IInv, TypeOK, BootAlone, Started, Procs, UpdateStatus, Goto, ShardFree, procVars,
         histVars
<1>16. ASSUME NEW e \in Execs, Disable(e)
      PROVE  BootAlone'
  BY <1>16, DistinctAssumption
     DEF IInv, TypeOK, BootAlone, Started, Procs, Disable, Goto, procVars, histVars
<1>17. ASSUME NEW e \in Execs, SaveStatus(e)
      PROVE  BootAlone'
  BY <1>17, DistinctAssumption
     DEF IInv, TypeOK, BootAlone, Started, Procs, SaveStatus, Goto, procVars, histVars
<1>18. CASE LoadNext
  BY <1>18, DistinctAssumption
     DEF IInv, TypeOK, BootAlone, Started, Procs, LoadNext, Goto, procVars, histVars
<1>19. CASE Tick
  BY <1>19, DistinctAssumption
     DEF IInv, TypeOK, BootAlone, Started, Procs, Tick, procVars, histVars
<1>20. CASE Crash
  BY <1>20, DistinctAssumption
     DEF IInv, TypeOK, BootAlone, Started, Procs, Crash, procVars, histVars
<1> QED
  BY <1>1, <1>2, <1>3, <1>4, <1>5, <1>6, <1>7, <1>8, <1>9, <1>10, <1>11, <1>12, <1>13,
     <1>14, <1>15, <1>16, <1>17, <1>18, <1>19, <1>20
     DEF Next, UserStep, ExecStep, BootStep, Register, Procs

\* The copies of a job, spelled out.
LEMMA CopyDef ==
    \A i, r : r \in Copies(i) <=>
        /\ r # NoJob
        /\ \/ r = jobs[i] \/ r = store[i]
           \/ \E p \in Procs : pc[p] \in Saving /\ id[p] = i /\ r = rec[p]
           \/ \E e \in Execs : pc[e] \in Active /\ id[e] = i /\ r = rec[e]
BY DEF Copies

LEMMA CopyDefNext ==
    \A i, r : r \in Copies(i)' <=>
        /\ r # NoJob
        /\ \/ r = jobs'[i] \/ r = store'[i]
           \/ \E p \in Procs : pc'[p] \in Saving /\ id'[p] = i /\ r = rec'[p]
           \/ \E e \in Execs : pc'[e] \in Active /\ id'[e] = i /\ r = rec'[e]
BY DEF Copies

LEMMA CopiesTyped ==
    ASSUME IInv, NEW i \in Ids
    PROVE  Copies(i) \subseteq Records
BY CopyDef DEF IInv, TypeOK, Procs

\* An id that has not been given out has no copies.
LEMMA FreshHasNone ==
    ASSUME IInv, NEW i \in Ids \ used
    PROVE  Copies(i) = {}
BY CopyDef DEF IInv, IdsFresh, RegisteringSound, ExecutingSound, Saving, Replacing,
               Registering, Active

\* No step makes a copy of an id that has been given out out of anything but a
\* copy of that id.
LEMMA CopyStep ==
    ASSUME IInv, NEW i \in used, NEW r \in Copies(i)', [Next]_vars
    PROVE  \E s \in Copies(i) : r.job = s.job /\ r.at = s.at
<1>1. CASE UNCHANGED vars
  BY <1>1, CopyDef, CopyDefNext
     DEF vars, IInv, TypeOK, Saving, Replacing, Active, Procs
<1>2. ASSUME NEW p \in Procs, RegisterCheck(p)
      PROVE  \E s \in Copies(i) : r.job = s.job /\ r.at = s.at
  BY <1>2, DistinctAssumption, CopyDef, CopyDefNext
     DEF IInv, TypeOK, Saving, Replacing, Active, Procs, RegisterCheck, Goto, Caller,
         procVars, histVars
<1>3. ASSUME NEW p \in Procs, RegisterAdd(p)
      PROVE  \E s \in Copies(i) : r.job = s.job /\ r.at = s.at
  BY <1>3, DistinctAssumption, CopyDef, CopyDefNext
     DEF IInv, TypeOK, Saving, Replacing, Active, Procs, RegisterAdd, Goto, procVars,
         histVars
<1>4. ASSUME NEW p \in Procs, RegisterInsert(p)
      PROVE  \E s \in Copies(i) : r.job = s.job /\ r.at = s.at
  BY <1>4, DistinctAssumption, CopyDef, CopyDefNext
     DEF IInv, TypeOK, Saving, Replacing, Active, Procs, RegisterInsert, Goto, ShardFree,
         procVars, histVars
<1>5. ASSUME NEW p \in Procs, RegisterDrop(p)
      PROVE  \E s \in Copies(i) : r.job = s.job /\ r.at = s.at
  BY <1>5, DistinctAssumption, CopyDef, CopyDefNext
     DEF IInv, TypeOK, Saving, Replacing, Active, Procs, RegisterDrop, Goto, ShardFree,
         procVars, histVars
<1>6. ASSUME NEW p \in Procs, RegisterStoreDrop(p)
      PROVE  \E s \in Copies(i) : r.job = s.job /\ r.at = s.at
  BY <1>6, DistinctAssumption, CopyDef, CopyDefNext
     DEF IInv, TypeOK, Saving, Replacing, Active, Procs, RegisterStoreDrop, Goto, procVars,
         histVars
<1>7. ASSUME NEW p \in Procs, RegisterStoreSave(p)
      PROVE  \E s \in Copies(i) : r.job = s.job /\ r.at = s.at
  BY <1>7, DistinctAssumption, CopyDef, CopyDefNext
     DEF IInv, TypeOK, Saving, Replacing, Active, Procs, RegisterStoreSave, Goto, Caller,
         procVars, histVars
<1>8. ASSUME NEW u \in Users, AddJob(u)
      PROVE  \E s \in Copies(i) : r.job = s.job /\ r.at = s.at
  BY <1>8, DistinctAssumption, CopyDef, CopyDefNext
     DEF IInv, TypeOK, Saving, Replacing, Active, Procs, AddJob, Goto, procVars, histVars
<1>9. ASSUME NEW u \in Users, RemoveJob(u)
      PROVE  \E s \in Copies(i) : r.job = s.job /\ r.at = s.at
  BY <1>9, DistinctAssumption, CopyDef, CopyDefNext
     DEF IInv, TypeOK, Saving, Replacing, Active, Procs, RemoveJob, Goto, procVars, histVars
<1>10. ASSUME NEW u \in Users, RemoveRuntime(u)
      PROVE  \E s \in Copies(i) : r.job = s.job /\ r.at = s.at
  BY <1>10, DistinctAssumption, CopyDef, CopyDefNext
     DEF IInv, TypeOK, Saving, Replacing, Active, Procs, RemoveRuntime, Goto, procVars,
         histVars
<1>11. ASSUME NEW u \in Users, RemoveStore(u)
      PROVE  \E s \in Copies(i) : r.job = s.job /\ r.at = s.at
  BY <1>11, DistinctAssumption, CopyDef, CopyDefNext
     DEF IInv, TypeOK, Saving, Replacing, Active, Procs, RemoveStore, Goto, procVars,
         histVars
<1>12. ASSUME NEW u \in Users, RemoveEntry(u)
      PROVE  \E s \in Copies(i) : r.job = s.job /\ r.at = s.at
  BY <1>12, DistinctAssumption, CopyDef, CopyDefNext
     DEF IInv, TypeOK, Saving, Replacing, Active, Procs, RemoveEntry, Goto, ShardFree,
         procVars, histVars
<1>13. ASSUME NEW e \in Execs, Fire(e)
      PROVE  \E s \in Copies(i) : r.job = s.job /\ r.at = s.at
  BY <1>13, DistinctAssumption, CopyDef, CopyDefNext
     DEF IInv, TypeOK, Saving, Replacing, Active, Procs, Fire, Goto, Scheduled, procVars,
         histVars
<1>14. ASSUME NEW e \in Execs, ExecuteEnds(e)
      PROVE  \E s \in Copies(i) : r.job = s.job /\ r.at = s.at
  BY <1>14, DistinctAssumption, CopyDef, CopyDefNext
     DEF IInv, TypeOK, Saving, Replacing, Active, Procs, ExecuteEnds, Goto, procVars,
         histVars
<1>15. ASSUME NEW e \in Execs, UpdateStatus(e)
      PROVE  \E s \in Copies(i) : r.job = s.job /\ r.at = s.at
  <2>1. CASE jobs[id[e]] = NoJob
    BY <1>15, <2>1, CopyDef, CopyDefNext
       DEF IInv, TypeOK, Saving, Replacing, Active, Procs, UpdateStatus, Goto, procVars
  <2>2. CASE jobs[id[e]] # NoJob
    <3>1. jobs[id[e]] \in Records /\ ok[e] \in BOOLEAN /\ id[e] \in Ids
      BY <1>15, <2>2 DEF IInv, TypeOK, ExecutingSound, Active, UpdateStatus
    <3>2. /\ Counted(jobs[id[e]], ok[e]).job = jobs[id[e]].job
          /\ Counted(jobs[id[e]], ok[e]).at = jobs[id[e]].at
      BY <3>1, CountedFacts
    <3>3. /\ jobs' = [jobs EXCEPT ![id[e]] = Counted(jobs[id[e]], ok[e])]
          /\ UNCHANGED <<store, rec, id>>
          /\ \A p \in Procs : pc'[p] \in Saving => pc[p] \in Saving
          /\ \A d \in Execs : pc'[d] \in Active => pc[d] \in Active
      BY <1>15, <2>2
         DEF IInv, TypeOK, Saving, Replacing, Active, Procs, UpdateStatus, Goto, procVars
    <3>4. jobs'[i] = jobs[i] \/ (i = id[e] /\ jobs'[i] = Counted(jobs[i], ok[e]))
      BY <3>3 DEF IInv, TypeOK
    <3> QED
      BY <2>2, <3>2, <3>3, <3>4, CopyDef, CopyDefNext
  <2> QED
    BY <2>1, <2>2
<1>16. ASSUME NEW e \in Execs, Disable(e)
      PROVE  \E s \in Copies(i) : r.job = s.job /\ r.at = s.at
  BY <1>16, DistinctAssumption, CopyDef, CopyDefNext
     DEF IInv, TypeOK, Saving, Replacing, Active, Procs, Disable, Goto, procVars, histVars
<1>17. ASSUME NEW e \in Execs, SaveStatus(e)
      PROVE  \E s \in Copies(i) : r.job = s.job /\ r.at = s.at
  BY <1>17, DistinctAssumption, CopyDef, CopyDefNext
     DEF IInv, TypeOK, Saving, Replacing, Active, Procs, SaveStatus, Goto, procVars,
         histVars
<1>18. CASE LoadNext
  BY <1>18, DistinctAssumption, CopyDef, CopyDefNext
     DEF IInv, TypeOK, Saving, Replacing, Active, Procs, LoadNext, Goto, procVars, histVars
<1>19. CASE Tick
  BY <1>19, DistinctAssumption, CopyDef, CopyDefNext
     DEF IInv, TypeOK, Saving, Replacing, Active, Procs, Tick, procVars, histVars
<1>20. CASE Crash
  <2>1. jobs'[i] = NoJob /\ store' = store
    BY <1>20 DEF IInv, TypeOK, Crash
  <2>2. \A p \in Procs : pc'[p] \in {"loading", "off", "done"}
    BY <1>20 DEF Crash
  <2>3. \A p \in Procs : pc'[p] \notin Saving /\ pc'[p] \notin Active
    BY <2>2 DEF Saving, Replacing, Active
  <2>4. r = store[i] /\ r # NoJob
    BY <2>1, <2>3, CopyDefNext DEF Procs
  <2> QED
    BY <2>4, CopyDef
<1> QED
  BY <1>1, <1>2, <1>3, <1>4, <1>5, <1>6, <1>7, <1>8, <1>9, <1>10, <1>11, <1>12, <1>13,
     <1>14, <1>15, <1>16, <1>17, <1>18, <1>19, <1>20
     DEF Next, UserStep, ExecStep, BootStep, Register, Procs

LEMMA FreshHasNoneNext ==
    ASSUME IInv', NEW i \in Ids \ used'
    PROVE  Copies(i)' = {}
BY CopyDefNext DEF IInv, IdsFresh, RegisteringSound, ExecutingSound, Saving, Replacing,
                   Registering, Active

\* Ids are given out by registrations.
LEMMA UsedStep ==
    ASSUME used' # used, [Next]_vars
    PROVE  \E q \in Procs : RegisterAdd(q)
<1>1. CASE UNCHANGED vars
  BY <1>1
     DEF vars
<1>2. ASSUME NEW p \in Procs, RegisterCheck(p)
      PROVE  \E q \in Procs : RegisterAdd(q)
  BY <1>2 DEF RegisterCheck
<1>3. ASSUME NEW p \in Procs, RegisterAdd(p)
      PROVE  \E q \in Procs : RegisterAdd(q)
  BY <1>3
<1>4. ASSUME NEW p \in Procs, RegisterInsert(p)
      PROVE  \E q \in Procs : RegisterAdd(q)
  BY <1>4 DEF RegisterInsert
<1>5. ASSUME NEW p \in Procs, RegisterDrop(p)
      PROVE  \E q \in Procs : RegisterAdd(q)
  BY <1>5 DEF RegisterDrop
<1>6. ASSUME NEW p \in Procs, RegisterStoreDrop(p)
      PROVE  \E q \in Procs : RegisterAdd(q)
  BY <1>6 DEF RegisterStoreDrop
<1>7. ASSUME NEW p \in Procs, RegisterStoreSave(p)
      PROVE  \E q \in Procs : RegisterAdd(q)
  BY <1>7 DEF RegisterStoreSave
<1>8. ASSUME NEW u \in Users, AddJob(u)
      PROVE  \E q \in Procs : RegisterAdd(q)
  BY <1>8 DEF AddJob
<1>9. ASSUME NEW u \in Users, RemoveJob(u)
      PROVE  \E q \in Procs : RegisterAdd(q)
  BY <1>9 DEF RemoveJob
<1>10. ASSUME NEW u \in Users, RemoveRuntime(u)
      PROVE  \E q \in Procs : RegisterAdd(q)
  BY <1>10 DEF RemoveRuntime
<1>11. ASSUME NEW u \in Users, RemoveStore(u)
      PROVE  \E q \in Procs : RegisterAdd(q)
  BY <1>11 DEF RemoveStore
<1>12. ASSUME NEW u \in Users, RemoveEntry(u)
      PROVE  \E q \in Procs : RegisterAdd(q)
  BY <1>12 DEF RemoveEntry
<1>13. ASSUME NEW e \in Execs, Fire(e)
      PROVE  \E q \in Procs : RegisterAdd(q)
  BY <1>13 DEF Fire
<1>14. ASSUME NEW e \in Execs, ExecuteEnds(e)
      PROVE  \E q \in Procs : RegisterAdd(q)
  BY <1>14 DEF ExecuteEnds
<1>15. ASSUME NEW e \in Execs, UpdateStatus(e)
      PROVE  \E q \in Procs : RegisterAdd(q)
  BY <1>15 DEF UpdateStatus
<1>16. ASSUME NEW e \in Execs, Disable(e)
      PROVE  \E q \in Procs : RegisterAdd(q)
  BY <1>16 DEF Disable
<1>17. ASSUME NEW e \in Execs, SaveStatus(e)
      PROVE  \E q \in Procs : RegisterAdd(q)
  BY <1>17 DEF SaveStatus
<1>18. CASE LoadNext
  BY <1>18 DEF LoadNext
<1>19. CASE Tick
  BY <1>19 DEF Tick
<1>20. CASE Crash
  BY <1>20 DEF Crash
<1> QED
  BY <1>1, <1>2, <1>3, <1>4, <1>5, <1>6, <1>7, <1>8, <1>9, <1>10, <1>11, <1>12, <1>13,
     <1>14, <1>15, <1>16, <1>17, <1>18, <1>19, <1>20
     DEF Next, UserStep, ExecStep, BootStep, Register, Procs

\* The copies under one id agree, because they have one origin.
LEMMA CopiesAgreeStep ==
    ASSUME IInv, IInv', CopiesAgree, [Next]_vars
    PROVE  CopiesAgree'
<1> SUFFICES ASSUME NEW i \in Ids, NEW r \in Copies(i)', NEW s \in Copies(i)'
             PROVE  r.job = s.job /\ r.at = s.at
  BY DEF CopiesAgree
<1>1. CASE i \in used
  <2>1. PICK r0 \in Copies(i) : r.job = r0.job /\ r.at = r0.at
    BY <1>1, CopyStep
  <2>2. PICK s0 \in Copies(i) : s.job = s0.job /\ s.at = s0.at
    BY <1>1, CopyStep
  <2> QED
    BY <2>1, <2>2 DEF CopiesAgree
<1>2. CASE i \notin used'
  BY <1>2, FreshHasNoneNext
<1>3. CASE i \notin used /\ i \in used'
  <2>1. PICK p \in Procs : RegisterAdd(p)
    BY <1>3, UsedStep
  <2>2. Copies(i) = {}
    BY <1>3, FreshHasNone
  <2>3. /\ UNCHANGED <<jobs, store, rec>>
        /\ \A q \in Procs \ {p} : pc'[q] = pc[q] /\ id'[q] = id[q]
        /\ pc'[p] = "inserting"
    BY <2>1 DEF IInv, TypeOK, RegisterAdd, Goto
  <2>4. ASSUME NEW t \in Copies(i)' PROVE t = rec[p]
    BY <2>2, <2>3, CopyDef, CopyDefNext DEF Procs, Active
  <2> QED
    BY <2>4
<1> QED
  BY <1>1, <1>2, <1>3

\* How an execution comes to run, to update and to register: it stays where it
\* is, ends, goes on with its job, fires, goes on registering, or retries.
Stays(d) == pc'[d] = pc[d] /\ rec'[d] = rec[d] /\ old'[d] = old[d]
Ends(d) == pc'[d] = "done"
GoesOn(d) == pc[d] \in Active /\ pc'[d] \in Active /\ rec'[d] = rec[d]
Starts(d) == pc'[d] \in Active /\ (rec'[d].kind = "at" => rec'[d].at <= now)
Registers(d) ==
    /\ pc[d] \in Registering /\ pc'[d] \in Registering
    /\ rec'[d] = rec[d] /\ old'[d] = old[d]
Retries(d) ==
    /\ pc[d] = "saveRetry" /\ pc'[d] = "register"
    /\ rec'[d].kind = rec[d].kind /\ old'[d] = id[d]
Moves(d) == Stays(d) \/ Ends(d) \/ GoesOn(d) \/ Starts(d) \/ Registers(d) \/ Retries(d)

LEMMA ExecMoves ==
    ASSUME IInv, NEW d \in Execs, [Next]_vars
    PROVE  Moves(d)
<1>1. CASE UNCHANGED vars
  BY <1>1
     DEF vars, Moves, Stays
<1>2. ASSUME NEW p \in Procs, RegisterCheck(p)
      PROVE  Moves(d)
  <2>1. d # p => Stays(d)
    BY <1>2 DEF IInv, TypeOK, Procs, Stays, RegisterCheck, Goto, Caller, procVars, histVars
  <2>2. d = p => Ends(d) \/ Registers(d)
    BY <1>2, DistinctAssumption
       DEF IInv, TypeOK, Ends, Registers, Registering, Procs, RegisterCheck, Goto, Caller, procVars, histVars
  <2> QED
    BY <2>1, <2>2 DEF Moves
<1>3. ASSUME NEW p \in Procs, RegisterAdd(p)
      PROVE  Moves(d)
  <2>1. d # p => Stays(d)
    BY <1>3 DEF IInv, TypeOK, Procs, Stays, RegisterAdd, Goto, procVars, histVars
  <2>2. d = p => Ends(d) \/ Registers(d)
    BY <1>3, DistinctAssumption
       DEF IInv, TypeOK, Ends, Registers, Registering, Procs, RegisterAdd, Goto, procVars, histVars
  <2> QED
    BY <2>1, <2>2 DEF Moves
<1>4. ASSUME NEW p \in Procs, RegisterInsert(p)
      PROVE  Moves(d)
  <2>1. d # p => Stays(d)
    BY <1>4 DEF IInv, TypeOK, Procs, Stays, RegisterInsert, Goto, ShardFree, procVars, histVars
  <2>2. d = p => Ends(d) \/ Registers(d)
    BY <1>4, DistinctAssumption
       DEF IInv, TypeOK, Ends, Registers, Registering, Procs, RegisterInsert, Goto, ShardFree, procVars, histVars
  <2> QED
    BY <2>1, <2>2 DEF Moves
<1>5. ASSUME NEW p \in Procs, RegisterDrop(p)
      PROVE  Moves(d)
  <2>1. d # p => Stays(d)
    BY <1>5 DEF IInv, TypeOK, Procs, Stays, RegisterDrop, Goto, ShardFree, procVars, histVars
  <2>2. d = p => Ends(d) \/ Registers(d)
    BY <1>5, DistinctAssumption
       DEF IInv, TypeOK, Ends, Registers, Registering, Procs, RegisterDrop, Goto, ShardFree, procVars, histVars
  <2> QED
    BY <2>1, <2>2 DEF Moves
<1>6. ASSUME NEW p \in Procs, RegisterStoreDrop(p)
      PROVE  Moves(d)
  <2>1. d # p => Stays(d)
    BY <1>6 DEF IInv, TypeOK, Procs, Stays, RegisterStoreDrop, Goto, procVars, histVars
  <2>2. d = p => Ends(d) \/ Registers(d)
    BY <1>6, DistinctAssumption
       DEF IInv, TypeOK, Ends, Registers, Registering, Procs, RegisterStoreDrop, Goto, procVars, histVars
  <2> QED
    BY <2>1, <2>2 DEF Moves
<1>7. ASSUME NEW p \in Procs, RegisterStoreSave(p)
      PROVE  Moves(d)
  <2>1. d # p => Stays(d)
    BY <1>7 DEF IInv, TypeOK, Procs, Stays, RegisterStoreSave, Goto, Caller, procVars, histVars
  <2>2. d = p => Ends(d) \/ Registers(d)
    BY <1>7, DistinctAssumption
       DEF IInv, TypeOK, Ends, Registers, Registering, Procs, RegisterStoreSave, Goto, Caller, procVars, histVars
  <2> QED
    BY <2>1, <2>2 DEF Moves
<1>8. ASSUME NEW u \in Users, AddJob(u)
      PROVE  Moves(d)
  BY <1>8, DistinctAssumption DEF IInv, TypeOK, Procs, Moves, Stays, AddJob, Goto, procVars, histVars
<1>9. ASSUME NEW u \in Users, RemoveJob(u)
      PROVE  Moves(d)
  BY <1>9, DistinctAssumption DEF IInv, TypeOK, Procs, Moves, Stays, RemoveJob, Goto, procVars, histVars
<1>10. ASSUME NEW u \in Users, RemoveRuntime(u)
      PROVE  Moves(d)
  BY <1>10, DistinctAssumption DEF IInv, TypeOK, Procs, Moves, Stays, RemoveRuntime, Goto, procVars, histVars
<1>11. ASSUME NEW u \in Users, RemoveStore(u)
      PROVE  Moves(d)
  BY <1>11, DistinctAssumption DEF IInv, TypeOK, Procs, Moves, Stays, RemoveStore, Goto, procVars, histVars
<1>12. ASSUME NEW u \in Users, RemoveEntry(u)
      PROVE  Moves(d)
  BY <1>12, DistinctAssumption DEF IInv, TypeOK, Procs, Moves, Stays, RemoveEntry, Goto, ShardFree, procVars, histVars
<1>13. ASSUME NEW e \in Execs, Fire(e)
      PROVE  Moves(d)
  <2>1. d # e => Stays(d)
    BY <1>13 DEF IInv, TypeOK, Procs, Stays, Fire, Goto, Scheduled, procVars, histVars
  <2>2. PICK i \in runtime, r \in Records : Fires(e, i, r)
    BY <1>13, FireFacts
  <2>3. Starts(e)
    BY <2>2 DEF IInv, TypeOK, Fires, Starts, Active, Procs
  <2> QED
    BY <2>1, <2>3 DEF Moves
<1>14. ASSUME NEW e \in Execs, ExecuteEnds(e)
      PROVE  Moves(d)
  <2>1. d # e => Stays(d)
    BY <1>14 DEF IInv, TypeOK, Procs, Stays, ExecuteEnds, Goto, procVars, histVars
  <2>2. Ends(e) \/ GoesOn(e)
    BY <1>14 DEF IInv, TypeOK, Ends, GoesOn, Active, Procs, ExecuteEnds, Goto, procVars, histVars
  <2> QED
    BY <2>1, <2>2 DEF Moves
<1>15. ASSUME NEW e \in Execs, UpdateStatus(e)
      PROVE  Moves(d)
  <2>1. d # e => Stays(d)
    BY <1>15 DEF IInv, TypeOK, Procs, Stays, UpdateStatus, Goto, ShardFree, procVars, histVars
  <2>2. Ends(e) \/ GoesOn(e)
    BY <1>15 DEF IInv, TypeOK, Ends, GoesOn, Active, Procs, UpdateStatus, Goto, ShardFree, procVars, histVars
  <2> QED
    BY <2>1, <2>2 DEF Moves
<1>16. ASSUME NEW e \in Execs, Disable(e)
      PROVE  Moves(d)
  <2>1. d # e => Stays(d)
    BY <1>16 DEF IInv, TypeOK, Procs, Stays, Disable, Goto, procVars, histVars
  <2>2. Ends(e) \/ GoesOn(e)
    BY <1>16 DEF IInv, TypeOK, Ends, GoesOn, Active, Procs, Disable, Goto, procVars, histVars
  <2> QED
    BY <2>1, <2>2 DEF Moves
<1>17. ASSUME NEW e \in Execs, SaveStatus(e)
      PROVE  Moves(d)
  <2>1. d # e => Stays(d)
    BY <1>17 DEF IInv, TypeOK, Procs, Stays, SaveStatus, Goto, procVars, histVars
  <2>2. jobs[id[e]] \in Records /\ jobs[id[e]].kind = rec[e].kind
    BY <1>17 DEF IInv, TypeOK, ExecutingSound, Active, Guarding, SaveStatus
  <2>3. now + 1 \in Times
    BY BoundsAssumption DEF IInv, TypeOK, Times
  <2>4. [jobs[id[e]] EXCEPT !.at = now + 1].kind = rec[e].kind
    BY <2>2, <2>3, RecordFacts
  <2>5. Ends(e) \/ Retries(e)
    BY <1>17, <2>4 DEF IInv, TypeOK, Ends, Retries, Procs, SaveStatus, Goto
  <2> QED
    BY <2>1, <2>5 DEF Moves
<1>18. CASE LoadNext
  BY <1>18, DistinctAssumption DEF IInv, TypeOK, Procs, Moves, Stays, LoadNext, Goto, procVars, histVars
<1>19. CASE Tick
  BY <1>19 DEF Moves, Stays, Tick, procVars, histVars
<1>20. CASE Crash
  <2>1. pc'[d] = "done" \/ pc'[d] = pc[d]
    BY <1>20, DistinctAssumption DEF Crash, Procs
  <2> QED
    BY <1>20, <2>1 DEF Moves, Stays, Ends, Crash, procVars
<1> QED
  BY <1>1, <1>2, <1>3, <1>4, <1>5, <1>6, <1>7, <1>8, <1>9, <1>10, <1>11, <1>12, <1>13,
     <1>14, <1>15, <1>16, <1>17, <1>18, <1>19, <1>20
     DEF Next, UserStep, ExecStep, BootStep, Register, Procs

\* The clock does not run backwards.
LEMMA NowGrows ==
    ASSUME IInv, [Next]_vars
    PROVE  now \in Nat /\ now' \in Nat /\ now <= now'
<1>1. now \in Nat
  BY BoundsAssumption DEF IInv, TypeOK
<1>2. now' = now \/ now' = now + 1
  BY DEF Next, vars, UserStep, ExecStep, BootStep, Register, RegisterCheck, RegisterAdd,
         RegisterInsert, RegisterDrop, RegisterStoreDrop, RegisterStoreSave, AddJob,
         RemoveJob, RemoveRuntime, RemoveStore, RemoveEntry, Fire, ExecuteEnds,
         UpdateStatus, Disable, SaveStatus, LoadNext, Tick, Crash
<1> QED
  BY <1>1, <1>2

\* What has fired stays in the past, and a retry replaces nothing else.
LEMMA FiredIsPastStep ==
    ASSUME IInv, IInv', CopiesAgree, FiredIsPast, [Next]_vars
    PROVE  FiredIsPast'
<1> SUFFICES ASSUME NEW d \in Execs
             PROVE  /\ pc'[d] \in Active /\ rec'[d].kind = "at" => rec'[d].at <= now'
                    /\ pc'[d] \in Registering =>
                          /\ rec'[d].kind = "at" /\ old'[d] # NoId
                          /\ \A r \in (Copies(old[d]))' : r.at <= now'
  BY DEF FiredIsPast
<1>a. now \in Nat /\ now' \in Nat /\ now <= now'
  BY NowGrows
<1>b. \A t \in Times : t \in Nat /\ (t <= now => t <= now')
  BY <1>a, BoundsAssumption DEF Times
<1>c. \A r \in Records : r.at \in Times
  BY DEF Records
<1>d. Active \intersect Registering = {}
  BY DEF Active, Registering
<1>e. ASSUME NEW i \in used, \A s \in Copies(i) : s.at <= now
      PROVE  \A r \in Copies(i)' : r.at <= now'
  <2> TAKE r \in Copies(i)'
  <2>1. PICK s \in Copies(i) : r.at = s.at
    BY CopyStep
  <2>2. s \in Records
    BY <2>1, CopiesTyped DEF IInv, TypeOK
  <2> QED
    BY <1>b, <1>c, <1>e, <2>1, <2>2
<1>f. \A i : old'[d] = i => (Copies(old[d]))' = Copies(i)'
  BY DEF Copies
<1>1. CASE Ends(d)
  BY <1>1 DEF Ends, Active, Registering
<1>2. CASE pc[d] \in Active /\ pc'[d] \in Active /\ rec'[d] = rec[d]
  <2>1. rec[d] \in Records
    BY <1>2 DEF IInv, ExecutingSound
  <2> QED
    BY <1>2, <1>b, <1>c, <1>d, <2>1 DEF FiredIsPast
<1>3. CASE Starts(d)
  <2>1. rec'[d] \in Records
    BY <1>3 DEF IInv, ExecutingSound, Starts
  <2> QED
    BY <1>3, <1>b, <1>c, <1>d, <2>1 DEF Starts
<1>4. CASE Registers(d)
  <2>1. old[d] # NoId /\ old[d] \in used /\ rec[d].kind = "at"
    BY <1>4 DEF IInv, RegisteringSound, FiredIsPast, Procs, Registers
  <2>2. \A r \in Copies(old[d]) : r.at <= now
    BY <1>4 DEF FiredIsPast, Registers
  <2>3. PICK i \in used : i = old[d]
    BY <2>1
  <2>4. \A r \in Copies(i)' : r.at <= now'
    BY <1>e, <2>2, <2>3
  <2>5. (Copies(old[d]))' = Copies(i)'
    BY <1>4, <1>f, <2>3 DEF Registers
  <2> QED
    BY <1>4, <1>d, <2>1, <2>4, <2>5 DEF Registers
<1>5. CASE Retries(d)
  <2>1. /\ pc[d] \in Active /\ id[d] \in used /\ id[d] \in Ids /\ id[d] # NoId
        /\ rec[d] \in Records /\ rec[d].kind = "at"
    BY <1>5, DistinctAssumption DEF IInv, TypeOK, ExecutingSound, Active, Retries
  <2>2. rec[d] \in Copies(id[d]) /\ rec[d].at <= now
    BY <2>1, CopyDef, NoJobAssumption DEF FiredIsPast
  <2>3. PICK i \in used : i = id[d]
    BY <2>1
  <2>4. \A s \in Copies(i) : s.at <= now
    BY <2>1, <2>2, <2>3 DEF CopiesAgree
  <2>5. \A r \in Copies(i)' : r.at <= now'
    BY <1>e, <2>4
  <2>6. (Copies(old[d]))' = Copies(i)'
    BY <1>5, <1>f, <2>3 DEF Retries
  <2>7. pc'[d] \notin Active
    BY <1>5 DEF Retries, Active
  <2> QED
    BY <1>5, <2>1, <2>5, <2>6, <2>7 DEF Retries
<1>6. CASE Stays(d)
  <2>1. pc'[d] \in Registering => Registers(d)
    BY <1>6 DEF Stays, Registers
  <2>2. CASE pc'[d] \in Active
    BY <1>2, <1>6, <2>2 DEF Stays
  <2> QED
    BY <1>4, <2>1, <2>2
<1> QED
  BY <1>1, <1>2, <1>3, <1>4, <1>5, <1>6, ExecMoves DEF Moves, GoesOn

\* A registration keeps the Mutex, so that nobody takes its job off the runtime.
LEMMA NotYetFiredStep ==
    ASSUME IInv, CopiesAgree, NotYetFired, [Next]_vars
    PROVE  NotYetFired'
<1>1. CASE UNCHANGED vars
  BY <1>1
     DEF vars, IInv, TypeOK, MutexOwned, Owning, NotYetFired, Saving, Replacing, Procs
<1>2. ASSUME NEW p \in Procs, RegisterCheck(p)
      PROVE  NotYetFired'
  BY <1>2, DistinctAssumption
     DEF IInv, TypeOK, MutexOwned, Owning, NotYetFired, Saving, Replacing, Procs,
         RegisterCheck, Goto, Caller, procVars, histVars
<1>3. ASSUME NEW p \in Procs, RegisterAdd(p)
      PROVE  NotYetFired'
  BY <1>3, DistinctAssumption
     DEF IInv, TypeOK, MutexOwned, Owning, NotYetFired, Saving, Replacing, Procs,
         RegisterAdd, Goto, procVars, histVars
<1>4. ASSUME NEW p \in Procs, RegisterInsert(p)
      PROVE  NotYetFired'
  BY <1>4, DistinctAssumption
     DEF IInv, TypeOK, MutexOwned, Owning, NotYetFired, Saving, Replacing, Procs,
         RegisterInsert, Goto, ShardFree, procVars, histVars
<1>5. ASSUME NEW p \in Procs, RegisterDrop(p)
      PROVE  NotYetFired'
  BY <1>5, DistinctAssumption
     DEF IInv, TypeOK, MutexOwned, Owning, NotYetFired, Saving, Replacing, Procs,
         RegisterDrop, Goto, ShardFree, procVars, histVars
<1>6. ASSUME NEW p \in Procs, RegisterStoreDrop(p)
      PROVE  NotYetFired'
  BY <1>6, DistinctAssumption
     DEF IInv, TypeOK, MutexOwned, Owning, NotYetFired, Saving, Replacing, Procs,
         RegisterStoreDrop, Goto, procVars, histVars
<1>7. ASSUME NEW p \in Procs, RegisterStoreSave(p)
      PROVE  NotYetFired'
  BY <1>7, DistinctAssumption
     DEF IInv, TypeOK, MutexOwned, Owning, NotYetFired, Saving, Replacing, Procs,
         RegisterStoreSave, Goto, Caller, procVars, histVars
<1>8. ASSUME NEW u \in Users, AddJob(u)
      PROVE  NotYetFired'
  BY <1>8, DistinctAssumption
     DEF IInv, TypeOK, MutexOwned, Owning, NotYetFired, Saving, Replacing, Procs, AddJob,
         Goto, procVars, histVars
<1>9. ASSUME NEW u \in Users, RemoveJob(u)
      PROVE  NotYetFired'
  BY <1>9, DistinctAssumption
     DEF IInv, TypeOK, MutexOwned, Owning, NotYetFired, Saving, Replacing, Procs, RemoveJob,
         Goto, procVars, histVars
<1>10. ASSUME NEW u \in Users, RemoveRuntime(u)
      PROVE  NotYetFired'
  BY <1>10, DistinctAssumption
     DEF IInv, TypeOK, MutexOwned, Owning, NotYetFired, Saving, Replacing, Procs,
         RemoveRuntime, Goto, procVars, histVars
<1>11. ASSUME NEW u \in Users, RemoveStore(u)
      PROVE  NotYetFired'
  BY <1>11, DistinctAssumption
     DEF IInv, TypeOK, MutexOwned, Owning, NotYetFired, Saving, Replacing, Procs,
         RemoveStore, Goto, procVars, histVars
<1>12. ASSUME NEW u \in Users, RemoveEntry(u)
      PROVE  NotYetFired'
  BY <1>12, DistinctAssumption
     DEF IInv, TypeOK, MutexOwned, Owning, NotYetFired, Saving, Replacing, Procs,
         RemoveEntry, Goto, ShardFree, procVars, histVars
<1>13. ASSUME NEW e \in Execs, Fire(e)
      PROVE  NotYetFired'
  <2>1. PICK i \in runtime, r \in Records : Fires(e, i, r)
    BY <1>13, FireFacts
  <2>2. ASSUME NEW p \in Procs, pc[p] \in Saving, id[p] = i,
               r.kind = "at"
        PROVE  rec[p].at <= now
    <3>1. rec[p] \in Copies(i)
      BY <2>2, CopyDef, NoJobAssumption
         DEF IInv, RegisteringSound, Registering, Saving, Replacing
    <3>2. r \in Copies(i)
      BY <2>1, CopyDef, NoJobAssumption DEF Fires, Saving, Replacing
    <3>3. rec[p].at = r.at
      BY <3>1, <3>2 DEF IInv, TypeOK, CopiesAgree
    <3> QED
      BY <2>1, <2>2, <3>3 DEF Fires
  <2>3. ASSUME NEW p \in Procs, pc'[p] \in Saving,
               rec'[p].kind = "at", rec'[p].at > now
        PROVE  id'[p] \in runtime'
    <3>1. p # e
      BY <2>1, <2>3 DEF IInv, TypeOK, Fires, Saving, Replacing, Procs
    <3>2. pc'[p] = pc[p] /\ rec'[p] = rec[p] /\ id'[p] = id[p]
      BY <2>1, <3>1 DEF IInv, TypeOK, Fires
    <3>3. id[p] \in runtime
      BY <2>3, <3>2 DEF NotYetFired
    <3>4. rec[p].at \in Nat /\ now \in Nat
      BY <2>3, <3>2, BoundsAssumption
         DEF IInv, TypeOK, RegisteringSound, Registering, Saving, Replacing, Records, Times
    <3>5. r.kind = "at" => id[p] # i
      BY <2>2, <2>3, <3>2, <3>4
    <3> QED
      BY <2>1, <3>2, <3>3, <3>5 DEF Fires
  <2> QED
    BY <2>1, <2>3 DEF NotYetFired, Fires
<1>14. ASSUME NEW e \in Execs, ExecuteEnds(e)
      PROVE  NotYetFired'
  BY <1>14, DistinctAssumption
     DEF IInv, TypeOK, MutexOwned, Owning, NotYetFired, Saving, Replacing, Procs,
         ExecuteEnds, Goto, procVars, histVars
<1>15. ASSUME NEW e \in Execs, UpdateStatus(e)
      PROVE  NotYetFired'
  BY <1>15, DistinctAssumption
     DEF IInv, TypeOK, MutexOwned, Owning, NotYetFired, Saving, Replacing, Procs,
         UpdateStatus, Goto, ShardFree, procVars, histVars
<1>16. ASSUME NEW e \in Execs, Disable(e)
      PROVE  NotYetFired'
  BY <1>16, DistinctAssumption
     DEF IInv, TypeOK, MutexOwned, Owning, NotYetFired, Saving, Replacing, Procs, Disable,
         Goto, procVars, histVars
<1>17. ASSUME NEW e \in Execs, SaveStatus(e)
      PROVE  NotYetFired'
  BY <1>17, DistinctAssumption
     DEF IInv, TypeOK, MutexOwned, Owning, NotYetFired, Saving, Replacing, Procs,
         SaveStatus, Goto, procVars, histVars
<1>18. CASE LoadNext
  BY <1>18, DistinctAssumption
     DEF IInv, TypeOK, MutexOwned, Owning, NotYetFired, Saving, Replacing, Procs, LoadNext,
         Goto, procVars, histVars
<1>19. CASE Tick
  <2>1. \A p \in Procs : pc[p] \in Saving => rec[p].at \in Nat
    BY BoundsAssumption
       DEF IInv, TypeOK, RegisteringSound, Registering, Saving, Replacing, Records, Times
  <2>2. now \in Nat /\ now' = now + 1
    BY <1>19, BoundsAssumption DEF IInv, TypeOK, Tick
  <2>3. \A p \in Procs : pc[p] \in Saving /\ rec[p].at > now' =>
            rec[p].at > now
    BY <2>1, <2>2
  <2> QED
    BY <1>19, <2>3 DEF NotYetFired, Tick, procVars
<1>20. CASE Crash
  BY <1>20, DistinctAssumption
     DEF IInv, TypeOK, MutexOwned, Owning, NotYetFired, Saving, Replacing, Procs, Crash,
         procVars, histVars
<1> QED
  BY <1>1, <1>2, <1>3, <1>4, <1>5, <1>6, <1>7, <1>8, <1>9, <1>10, <1>11, <1>12, <1>13,
     <1>14, <1>15, <1>16, <1>17, <1>18, <1>19, <1>20
     DEF Next, UserStep, ExecStep, BootStep, Register, Procs

-----------------------------------------------------------------------------
(* The chances of a one-shot job.  Most steps give it none (Quiet); adding *)
(* it to the runtime, firing, retrying and loading move the only one       *)
(* (Moved); saving a registration makes the stored copy back it.           *)

\* The invariants that the argument about chances rests on.
Base ==
    /\ IInv /\ RecordsOwned /\ BootAlone /\ CopiesAgree /\ FiredIsPast /\ NotYetFired

\* A step that gives job j no new chance.
Quiet(j) ==
    /\ OneShot(j) /\ runs'[j] = runs[j]
    /\ \A i \in Ids : OnRuntime(i, j)' => OnRuntime(i, j)
    /\ \A e \in Execs : InExecution(e, j)' => InExecution(e, j)
    /\ \A p \in Procs : InRegistration(p, j)' => InRegistration(p, j) /\ old'[p] = old[p]
    /\ \A i \in Ids : InTodo(i, j)' => InTodo(i, j)
    /\ \A i \in Ids : StoredChance(i, j)' => StoredChance(i, j)
    /\ \A i \in Ids : StoredChance(i, j)' =>
          \A p \in Procs : pc[p] \in Replacing /\ old[p] = i =>
              pc'[p] \in Replacing /\ old'[p] = i /\ id'[p] = id[p]

\* A step that moves the chance at x, of the kind k, to the one at y, of kind l.
Moved(j, k, x, l, y) ==
    /\ OneShot(j) /\ runs'[j] = runs[j]
    /\ Chance(k, x, j) /\ ~Chance(k, x, j)'
    /\ \A m \in Places : \A z \in Ids \union Procs :
          Chance(m, z, j)' => Chance(m, z, j) \/ (m = l /\ z = y)
    /\ \A i \in Ids : StoredChance(i, j)' =>
          StoredChance(i, j) /\ (Backs(i, k, x) => Backs(i, l, y)')

LEMMA QuietKeeps ==
    ASSUME NEW j \in Users, ChancesSound(j), Quiet(j)
    PROVE  ChancesSound(j)'
<1>1. \A k \in Places : \A x \in Ids \union Procs : Chance(k, x, j)' => Chance(k, x, j)
  BY DEF Quiet, Chance
<1>2. \A i \in Ids : \A k \in Places : \A x \in Ids \union Procs :
          StoredChance(i, j)' /\ Chance(k, x, j)' /\ Backs(i, k, x) => Backs(i, k, x)'
  BY DEF Quiet, Chance, Backs
<1>3. OneChance(j)'
  BY <1>1 DEF ChancesSound, OneChance
<1>4. OneStoredChance(j)'
  BY <1>1, <1>2 DEF ChancesSound, OneStoredChance, Quiet
<1>5. NoChanceAfterSuccess(j)'
  BY <1>1 DEF ChancesSound, NoChanceAfterSuccess, Quiet
<1> QED
  BY <1>3, <1>4, <1>5 DEF ChancesSound

LEMMA MovedKeeps ==
    ASSUME NEW j \in Users, ChancesSound(j), NEW k \in Places, NEW l \in Places,
           NEW x \in Ids \union Procs, NEW y \in Ids \union Procs, Moved(j, k, x, l, y)
    PROVE  ChancesSound(j)'
<1>1. ASSUME NEW m \in Places, NEW z \in Ids \union Procs, Chance(m, z, j)'
      PROVE  m = l /\ z = y
  BY <1>1 DEF Moved, ChancesSound, OneChance
<1>2. OneChance(j)'
  BY <1>1 DEF OneChance
<1>3. OneStoredChance(j)'
  BY <1>1 DEF ChancesSound, OneStoredChance, Moved
<1>4. NoChanceAfterSuccess(j)'
  BY DEF ChancesSound, NoChanceAfterSuccess, Moved
<1> QED
  BY <1>2, <1>3, <1>4 DEF ChancesSound

\* A chance on the runtime, spelled out.
LEMMA OnRuntimeDef ==
    \A i, j : OnRuntime(i, j) <=>
        /\ i \in runtime
        /\ \/ jobs[i] # NoJob /\ jobs[i].job = j
           \/ \E p \in Procs : /\ pc[p] = "inserting" /\ id[p] = i
                               /\ rec[p] # NoJob /\ rec[p].job = j
BY DEF OnRuntime, Scheduled

LEMMA OnRuntimeDefNext ==
    \A i, j : OnRuntime(i, j)' <=>
        /\ i \in runtime'
        /\ \/ jobs'[i] # NoJob /\ jobs'[i].job = j
           \/ \E p \in Procs : /\ pc'[p] = "inserting" /\ id'[p] = i
                               /\ rec'[p] # NoJob /\ rec'[p].job = j
BY DEF OnRuntime, Scheduled

\* The CronJobs of a one-shot job are one-shot.
LEMMA OneShotCopies ==
    ASSUME Base, NEW j \in Users, OneShot(j)
    PROVE  /\ \A i \in Ids :
                 /\ jobs[i] # NoJob /\ jobs[i].job = j => jobs[i].kind = "at"
                 /\ store[i] # NoJob /\ store[i].job = j => store[i].kind = "at"
                 /\ todo[i] # NoJob /\ todo[i].job = j => todo[i].kind = "at"
           /\ \A p \in Procs : rec[p] # NoJob /\ rec[p].job = j => rec[p].kind = "at"
BY DEF Base, RecordsOwned, FromRequest, OneShot

\* register_job_runtime refuses a one-shot job that has no chance.
LEMMA CheckQuiet ==
    ASSUME Base, NEW j \in Users, OneShot(j), NEW p \in Procs, RegisterCheck(p)
    PROVE  Quiet(j)
<1>1. runs'[j] = runs[j]
  BY DistinctAssumption
     DEF Base, IInv, TypeOK, RegisterCheck, Goto, Caller, procVars, histVars
<1>2. \A h \in Ids : OnRuntime(h, j)' => OnRuntime(h, j)
  BY OnRuntimeDef, OnRuntimeDefNext, DistinctAssumption
     DEF Base, IInv, TypeOK, RegisterCheck, Goto, Caller, procVars, histVars
<1>3. \A d \in Execs : InExecution(d, j)' => InExecution(d, j)
  BY DistinctAssumption
     DEF Base, IInv, TypeOK, InExecution, Procs, RegisterCheck, Goto, Caller, procVars,
         histVars
<1>4. \A q \in Procs : InRegistration(q, j)' => InRegistration(q, j) /\ old'[q] = old[q]
  <2> SUFFICES ASSUME NEW q \in Procs, InRegistration(q, j)'
               PROVE  InRegistration(q, j) /\ old'[q] = old[q]
    OBVIOUS
  <2>1. UNCHANGED <<rec, old, now>>
    BY DEF RegisterCheck, procVars
  <2>2. q # p => pc'[q] = pc[q]
    BY DEF Base, IInv, TypeOK, RegisterCheck, Goto
  <2>3. CASE q = p
    <3>1. rec[p] \in Records /\ rec[p].job = j /\ pc[p] = "register"
      BY <2>1, <2>3 DEF Base, IInv, RegisteringSound, Registering, RegisterCheck, InRegistration
    <3>2. rec[p].kind = "at"
      BY <3>1, OneShotCopies, NoJobAssumption
    <3>3. rec[p].at \in Nat /\ now \in Nat
      BY <3>1, BoundsAssumption DEF Base, IInv, TypeOK, Records, Times
    <3>4. pc'[p] = "lock"
      BY <2>3, <3>1, DistinctAssumption
         DEF Base, IInv, TypeOK, RegisterCheck, Goto, Caller, InRegistration
    <3>5. rec[p].at > now
      BY <3>2, <3>3, <3>4, DistinctAssumption
         DEF Base, IInv, TypeOK, RegisterCheck, Goto, Caller
    <3> QED
      BY <2>1, <2>3, <3>1, <3>5 DEF InRegistration
  <2>4. CASE q # p
    BY <2>1, <2>2, <2>4 DEF InRegistration
  <2> QED
    BY <2>3, <2>4
<1>5. \A h \in Ids : InTodo(h, j)' => InTodo(h, j)
  BY DistinctAssumption
     DEF Base, IInv, TypeOK, InTodo, RegisterCheck, Goto, Caller, procVars, histVars
<1>6. \A h \in Ids : StoredChance(h, j)' => StoredChance(h, j)
  BY DistinctAssumption
     DEF Base, IInv, TypeOK, StoredChance, RegisterCheck, Goto, Caller, procVars, histVars
<1>7. \A h \in Ids : StoredChance(h, j)' =>
            \A q \in Procs : pc[q] \in Replacing /\ old[q] = h =>
                pc'[q] \in Replacing /\ old'[q] = h /\ id'[q] = id[q]
  BY DistinctAssumption
     DEF Base, IInv, TypeOK, Replacing, StoredChance, Procs, RegisterCheck, Goto, Caller,
         procVars, histVars
<1> QED
  BY <1>1, <1>2, <1>3, <1>4, <1>5, <1>6, <1>7 DEF Quiet

LEMMA InsertQuiet ==
    ASSUME Base, NEW j \in Users, OneShot(j), NEW p \in Procs, RegisterInsert(p)
    PROVE  Quiet(j)
<1>1. runs'[j] = runs[j]
  BY DistinctAssumption
     DEF Base, IInv, TypeOK, RegisterInsert, Goto, ShardFree, procVars, histVars
<1>2. \A h \in Ids : OnRuntime(h, j)' => OnRuntime(h, j)
  BY OnRuntimeDef, OnRuntimeDefNext, DistinctAssumption, NoJobAssumption
     DEF Base, IInv, TypeOK, RegisteringSound, Registering, RegisterInsert, Goto, ShardFree,
         procVars, histVars
<1>3. \A d \in Execs : InExecution(d, j)' => InExecution(d, j)
  BY DistinctAssumption
     DEF Base, IInv, TypeOK, InExecution, Procs, RegisterInsert, Goto, ShardFree, procVars,
         histVars
<1>4. \A q \in Procs : InRegistration(q, j)' => InRegistration(q, j) /\ old'[q] = old[q]
  BY DistinctAssumption
     DEF Base, IInv, TypeOK, InRegistration, Procs, RegisterInsert, Goto, ShardFree,
         procVars, histVars
<1>5. \A h \in Ids : InTodo(h, j)' => InTodo(h, j)
  BY DistinctAssumption
     DEF Base, IInv, TypeOK, InTodo, RegisterInsert, Goto, ShardFree, procVars, histVars
<1>6. \A h \in Ids : StoredChance(h, j)' => StoredChance(h, j)
  BY DistinctAssumption
     DEF Base, IInv, TypeOK, StoredChance, RegisterInsert, Goto, ShardFree, procVars,
         histVars
<1>7. \A h \in Ids : StoredChance(h, j)' =>
            \A q \in Procs : pc[q] \in Replacing /\ old[q] = h =>
                pc'[q] \in Replacing /\ old'[q] = h /\ id'[q] = id[q]
  BY DistinctAssumption
     DEF Base, IInv, TypeOK, Replacing, StoredChance, Procs, RegisterInsert, Goto,
         ShardFree, procVars, histVars
<1> QED
  BY <1>1, <1>2, <1>3, <1>4, <1>5, <1>6, <1>7 DEF Quiet

LEMMA DropQuiet ==
    ASSUME Base, NEW j \in Users, OneShot(j), NEW p \in Procs, RegisterDrop(p)
    PROVE  Quiet(j)
<1>1. runs'[j] = runs[j]
  BY DistinctAssumption
     DEF Base, IInv, TypeOK, RegisterDrop, Goto, ShardFree, procVars, histVars
<1>2. \A h \in Ids : OnRuntime(h, j)' => OnRuntime(h, j)
  BY OnRuntimeDef, OnRuntimeDefNext, DistinctAssumption
     DEF Base, IInv, TypeOK, RegisterDrop, Goto, ShardFree, procVars, histVars
<1>3. \A d \in Execs : InExecution(d, j)' => InExecution(d, j)
  BY DistinctAssumption
     DEF Base, IInv, TypeOK, InExecution, Procs, RegisterDrop, Goto, ShardFree, procVars,
         histVars
<1>4. \A q \in Procs : InRegistration(q, j)' => InRegistration(q, j) /\ old'[q] = old[q]
  BY DistinctAssumption
     DEF Base, IInv, TypeOK, InRegistration, Procs, RegisterDrop, Goto, ShardFree, procVars,
         histVars
<1>5. \A h \in Ids : InTodo(h, j)' => InTodo(h, j)
  BY DistinctAssumption
     DEF Base, IInv, TypeOK, InTodo, RegisterDrop, Goto, ShardFree, procVars, histVars
<1>6. \A h \in Ids : StoredChance(h, j)' => StoredChance(h, j)
  BY DistinctAssumption
     DEF Base, IInv, TypeOK, StoredChance, RegisterDrop, Goto, ShardFree, procVars, histVars
<1>7. \A h \in Ids : StoredChance(h, j)' =>
            \A q \in Procs : pc[q] \in Replacing /\ old[q] = h =>
                pc'[q] \in Replacing /\ old'[q] = h /\ id'[q] = id[q]
  BY DistinctAssumption
     DEF Base, IInv, TypeOK, Replacing, StoredChance, Procs, RegisterDrop, Goto, ShardFree,
         procVars, histVars
<1> QED
  BY <1>1, <1>2, <1>3, <1>4, <1>5, <1>6, <1>7 DEF Quiet

LEMMA StoreDropQuiet ==
    ASSUME Base, NEW j \in Users, OneShot(j), NEW p \in Procs, RegisterStoreDrop(p)
    PROVE  Quiet(j)
<1>1. runs'[j] = runs[j]
  BY DistinctAssumption
     DEF Base, IInv, TypeOK, RegisterStoreDrop, Goto, procVars, histVars
<1>2. \A h \in Ids : OnRuntime(h, j)' => OnRuntime(h, j)
  BY OnRuntimeDef, OnRuntimeDefNext, DistinctAssumption
     DEF Base, IInv, TypeOK, RegisterStoreDrop, Goto, procVars, histVars
<1>3. \A d \in Execs : InExecution(d, j)' => InExecution(d, j)
  BY DistinctAssumption
     DEF Base, IInv, TypeOK, InExecution, Procs, RegisterStoreDrop, Goto, procVars, histVars
<1>4. \A q \in Procs : InRegistration(q, j)' => InRegistration(q, j) /\ old'[q] = old[q]
  BY DistinctAssumption
     DEF Base, IInv, TypeOK, InRegistration, Procs, RegisterStoreDrop, Goto, procVars,
         histVars
<1>5. \A h \in Ids : InTodo(h, j)' => InTodo(h, j)
  BY DistinctAssumption
     DEF Base, IInv, TypeOK, InTodo, RegisterStoreDrop, Goto, procVars, histVars
<1>6. \A h \in Ids : StoredChance(h, j)' => StoredChance(h, j)
  BY DistinctAssumption
     DEF Base, IInv, TypeOK, StoredChance, RegisterStoreDrop, Goto, procVars, histVars
<1>7. \A h \in Ids : StoredChance(h, j)' =>
            \A q \in Procs : pc[q] \in Replacing /\ old[q] = h =>
                pc'[q] \in Replacing /\ old'[q] = h /\ id'[q] = id[q]
  BY DistinctAssumption
     DEF Base, IInv, TypeOK, Replacing, StoredChance, Procs, RegisterStoreDrop, Goto,
         procVars, histVars
<1> QED
  BY <1>1, <1>2, <1>3, <1>4, <1>5, <1>6, <1>7 DEF Quiet

LEMMA RemoveJobQuiet ==
    ASSUME Base, NEW j \in Users, OneShot(j), NEW u \in Users, RemoveJob(u)
    PROVE  Quiet(j)
<1>1. runs'[j] = runs[j]
  BY DistinctAssumption
     DEF Base, IInv, TypeOK, RemoveJob, Goto, procVars, histVars
<1>2. \A h \in Ids : OnRuntime(h, j)' => OnRuntime(h, j)
  BY OnRuntimeDef, OnRuntimeDefNext, DistinctAssumption
     DEF Base, IInv, TypeOK, RemoveJob, Goto, procVars, histVars
<1>3. \A d \in Execs : InExecution(d, j)' => InExecution(d, j)
  BY DistinctAssumption
     DEF Base, IInv, TypeOK, InExecution, Procs, RemoveJob, Goto, procVars, histVars
<1>4. \A q \in Procs : InRegistration(q, j)' => InRegistration(q, j) /\ old'[q] = old[q]
  BY DistinctAssumption
     DEF Base, IInv, TypeOK, InRegistration, Procs, RemoveJob, Goto, procVars, histVars
<1>5. \A h \in Ids : InTodo(h, j)' => InTodo(h, j)
  BY DistinctAssumption
     DEF Base, IInv, TypeOK, InTodo, RemoveJob, Goto, procVars, histVars
<1>6. \A h \in Ids : StoredChance(h, j)' => StoredChance(h, j)
  BY DistinctAssumption
     DEF Base, IInv, TypeOK, StoredChance, RemoveJob, Goto, procVars, histVars
<1>7. \A h \in Ids : StoredChance(h, j)' =>
            \A q \in Procs : pc[q] \in Replacing /\ old[q] = h =>
                pc'[q] \in Replacing /\ old'[q] = h /\ id'[q] = id[q]
  BY DistinctAssumption
     DEF Base, IInv, TypeOK, Replacing, StoredChance, Procs, RemoveJob, Goto, procVars,
         histVars
<1> QED
  BY <1>1, <1>2, <1>3, <1>4, <1>5, <1>6, <1>7 DEF Quiet

LEMMA RemoveRuntimeQuiet ==
    ASSUME Base, NEW j \in Users, OneShot(j), NEW u \in Users, RemoveRuntime(u)
    PROVE  Quiet(j)
<1>1. runs'[j] = runs[j]
  BY DistinctAssumption
     DEF Base, IInv, TypeOK, RemoveRuntime, Goto, procVars, histVars
<1>2. \A h \in Ids : OnRuntime(h, j)' => OnRuntime(h, j)
  BY OnRuntimeDef, OnRuntimeDefNext, DistinctAssumption
     DEF Base, IInv, TypeOK, RemoveRuntime, Goto, procVars, histVars
<1>3. \A d \in Execs : InExecution(d, j)' => InExecution(d, j)
  BY DistinctAssumption
     DEF Base, IInv, TypeOK, InExecution, Procs, RemoveRuntime, Goto, procVars, histVars
<1>4. \A q \in Procs : InRegistration(q, j)' => InRegistration(q, j) /\ old'[q] = old[q]
  BY DistinctAssumption
     DEF Base, IInv, TypeOK, InRegistration, Procs, RemoveRuntime, Goto, procVars, histVars
<1>5. \A h \in Ids : InTodo(h, j)' => InTodo(h, j)
  BY DistinctAssumption
     DEF Base, IInv, TypeOK, InTodo, RemoveRuntime, Goto, procVars, histVars
<1>6. \A h \in Ids : StoredChance(h, j)' => StoredChance(h, j)
  BY DistinctAssumption
     DEF Base, IInv, TypeOK, StoredChance, RemoveRuntime, Goto, procVars, histVars
<1>7. \A h \in Ids : StoredChance(h, j)' =>
            \A q \in Procs : pc[q] \in Replacing /\ old[q] = h =>
                pc'[q] \in Replacing /\ old'[q] = h /\ id'[q] = id[q]
  BY DistinctAssumption
     DEF Base, IInv, TypeOK, Replacing, StoredChance, Procs, RemoveRuntime, Goto, procVars,
         histVars
<1> QED
  BY <1>1, <1>2, <1>3, <1>4, <1>5, <1>6, <1>7 DEF Quiet

LEMMA RemoveStoreQuiet ==
    ASSUME Base, NEW j \in Users, OneShot(j), NEW u \in Users, RemoveStore(u)
    PROVE  Quiet(j)
<1>1. runs'[j] = runs[j]
  BY DistinctAssumption
     DEF Base, IInv, TypeOK, RemoveStore, Goto, procVars, histVars
<1>2. \A h \in Ids : OnRuntime(h, j)' => OnRuntime(h, j)
  BY OnRuntimeDef, OnRuntimeDefNext, DistinctAssumption
     DEF Base, IInv, TypeOK, RemoveStore, Goto, procVars, histVars
<1>3. \A d \in Execs : InExecution(d, j)' => InExecution(d, j)
  BY DistinctAssumption
     DEF Base, IInv, TypeOK, InExecution, Procs, RemoveStore, Goto, procVars, histVars
<1>4. \A q \in Procs : InRegistration(q, j)' => InRegistration(q, j) /\ old'[q] = old[q]
  BY DistinctAssumption
     DEF Base, IInv, TypeOK, InRegistration, Procs, RemoveStore, Goto, procVars, histVars
<1>5. \A h \in Ids : InTodo(h, j)' => InTodo(h, j)
  BY DistinctAssumption
     DEF Base, IInv, TypeOK, InTodo, RemoveStore, Goto, procVars, histVars
<1>6. \A h \in Ids : StoredChance(h, j)' => StoredChance(h, j)
  BY DistinctAssumption
     DEF Base, IInv, TypeOK, StoredChance, RemoveStore, Goto, procVars, histVars
<1>7. \A h \in Ids : StoredChance(h, j)' =>
            \A q \in Procs : pc[q] \in Replacing /\ old[q] = h =>
                pc'[q] \in Replacing /\ old'[q] = h /\ id'[q] = id[q]
  BY DistinctAssumption
     DEF Base, IInv, TypeOK, Replacing, StoredChance, Procs, RemoveStore, Goto, procVars,
         histVars
<1> QED
  BY <1>1, <1>2, <1>3, <1>4, <1>5, <1>6, <1>7 DEF Quiet

LEMMA RemoveEntryQuiet ==
    ASSUME Base, NEW j \in Users, OneShot(j), NEW u \in Users, RemoveEntry(u)
    PROVE  Quiet(j)
<1>1. runs'[j] = runs[j]
  BY DistinctAssumption
     DEF Base, IInv, TypeOK, RemoveEntry, Goto, ShardFree, procVars, histVars
<1>2. \A h \in Ids : OnRuntime(h, j)' => OnRuntime(h, j)
  BY OnRuntimeDef, OnRuntimeDefNext, DistinctAssumption
     DEF Base, IInv, TypeOK, RemoveEntry, Goto, ShardFree, procVars, histVars
<1>3. \A d \in Execs : InExecution(d, j)' => InExecution(d, j)
  BY DistinctAssumption
     DEF Base, IInv, TypeOK, InExecution, Procs, RemoveEntry, Goto, ShardFree, procVars,
         histVars
<1>4. \A q \in Procs : InRegistration(q, j)' => InRegistration(q, j) /\ old'[q] = old[q]
  BY DistinctAssumption
     DEF Base, IInv, TypeOK, InRegistration, Procs, RemoveEntry, Goto, ShardFree, procVars,
         histVars
<1>5. \A h \in Ids : InTodo(h, j)' => InTodo(h, j)
  BY DistinctAssumption
     DEF Base, IInv, TypeOK, InTodo, RemoveEntry, Goto, ShardFree, procVars, histVars
<1>6. \A h \in Ids : StoredChance(h, j)' => StoredChance(h, j)
  BY DistinctAssumption
     DEF Base, IInv, TypeOK, StoredChance, RemoveEntry, Goto, ShardFree, procVars, histVars
<1>7. \A h \in Ids : StoredChance(h, j)' =>
            \A q \in Procs : pc[q] \in Replacing /\ old[q] = h =>
                pc'[q] \in Replacing /\ old'[q] = h /\ id'[q] = id[q]
  BY DistinctAssumption
     DEF Base, IInv, TypeOK, Replacing, StoredChance, Procs, RemoveEntry, Goto, ShardFree,
         procVars, histVars
<1> QED
  BY <1>1, <1>2, <1>3, <1>4, <1>5, <1>6, <1>7 DEF Quiet

LEMMA DisableQuiet ==
    ASSUME Base, NEW j \in Users, OneShot(j), NEW e \in Execs, Disable(e)
    PROVE  Quiet(j)
<1>1. runs'[j] = runs[j]
  BY DistinctAssumption
     DEF Base, IInv, TypeOK, Disable, Goto, procVars, histVars
<1>2. \A h \in Ids : OnRuntime(h, j)' => OnRuntime(h, j)
  BY OnRuntimeDef, OnRuntimeDefNext, DistinctAssumption
     DEF Base, IInv, TypeOK, Disable, Goto, procVars, histVars
<1>3. \A d \in Execs : InExecution(d, j)' => InExecution(d, j)
  BY DistinctAssumption
     DEF Base, IInv, TypeOK, InExecution, Procs, Disable, Goto, procVars, histVars
<1>4. \A q \in Procs : InRegistration(q, j)' => InRegistration(q, j) /\ old'[q] = old[q]
  BY DistinctAssumption
     DEF Base, IInv, TypeOK, InRegistration, Procs, Disable, Goto, procVars, histVars
<1>5. \A h \in Ids : InTodo(h, j)' => InTodo(h, j)
  BY DistinctAssumption
     DEF Base, IInv, TypeOK, InTodo, Disable, Goto, procVars, histVars
<1>6. \A h \in Ids : StoredChance(h, j)' => StoredChance(h, j)
  BY DistinctAssumption
     DEF Base, IInv, TypeOK, StoredChance, Disable, Goto, procVars, histVars
<1>7. \A h \in Ids : StoredChance(h, j)' =>
            \A q \in Procs : pc[q] \in Replacing /\ old[q] = h =>
                pc'[q] \in Replacing /\ old'[q] = h /\ id'[q] = id[q]
  BY DistinctAssumption
     DEF Base, IInv, TypeOK, Replacing, StoredChance, Procs, Disable, Goto, procVars,
         histVars
<1> QED
  BY <1>1, <1>2, <1>3, <1>4, <1>5, <1>6, <1>7 DEF Quiet

LEMMA UpdateQuiet ==
    ASSUME Base, NEW j \in Users, OneShot(j), NEW e \in Execs, UpdateStatus(e)
    PROVE  Quiet(j)
<1>1. runs'[j] = runs[j]
  BY DistinctAssumption
     DEF Base, IInv, TypeOK, UpdateStatus, Goto, ShardFree, procVars, histVars
<1>2. \A h \in Ids : OnRuntime(h, j)' => OnRuntime(h, j)
  <2>1. \A i \in Ids : jobs'[i] # NoJob => jobs[i] # NoJob /\ jobs'[i].job = jobs[i].job
    <3>1. CASE jobs[id[e]] = NoJob
      BY <3>1 DEF UpdateStatus
    <3>2. CASE jobs[id[e]] # NoJob
      <4>1. jobs[id[e]] \in Records /\ ok[e] \in BOOLEAN
        BY <3>2 DEF Base, IInv, TypeOK, ExecutingSound, Active, UpdateStatus
      <4>2. Counted(jobs[id[e]], ok[e]).job = jobs[id[e]].job
        BY <4>1, CountedFacts
      <4> QED
        BY <3>2, <4>2 DEF Base, IInv, TypeOK, UpdateStatus
    <3> QED
      BY <3>1, <3>2
  <2>2. /\ UNCHANGED <<runtime, rec, id>>
        /\ \A p \in Procs : pc'[p] = "inserting" => pc[p] = "inserting"
    BY DEF Base, IInv, TypeOK, UpdateStatus, Goto, procVars, Procs
  <2> QED
    BY <2>1, <2>2, OnRuntimeDef, OnRuntimeDefNext
<1>3. \A d \in Execs : InExecution(d, j)' => InExecution(d, j)
  BY DistinctAssumption
     DEF Base, IInv, TypeOK, InExecution, Procs, UpdateStatus, Goto, ShardFree, procVars,
         histVars
<1>4. \A q \in Procs : InRegistration(q, j)' => InRegistration(q, j) /\ old'[q] = old[q]
  BY DistinctAssumption
     DEF Base, IInv, TypeOK, InRegistration, Procs, UpdateStatus, Goto, ShardFree, procVars,
         histVars
<1>5. \A h \in Ids : InTodo(h, j)' => InTodo(h, j)
  BY DistinctAssumption
     DEF Base, IInv, TypeOK, InTodo, UpdateStatus, Goto, ShardFree, procVars, histVars
<1>6. \A h \in Ids : StoredChance(h, j)' => StoredChance(h, j)
  BY DistinctAssumption
     DEF Base, IInv, TypeOK, StoredChance, UpdateStatus, Goto, ShardFree, procVars, histVars
<1>7. \A h \in Ids : StoredChance(h, j)' =>
            \A q \in Procs : pc[q] \in Replacing /\ old[q] = h =>
                pc'[q] \in Replacing /\ old'[q] = h /\ id'[q] = id[q]
  BY DistinctAssumption
     DEF Base, IInv, TypeOK, Replacing, StoredChance, Procs, UpdateStatus, Goto, ShardFree,
         procVars, histVars
<1> QED
  BY <1>1, <1>2, <1>3, <1>4, <1>5, <1>6, <1>7 DEF Quiet

\* As time passes, chances only go.
LEMMA TickQuiet ==
    ASSUME Base, NEW j \in Users, OneShot(j), Tick
    PROVE  Quiet(j)
<1>a. \A t \in Times : t > now' => t > now
  BY BoundsAssumption DEF Base, IInv, TypeOK, Tick, Times
<1>b. \A r \in Records : r.at \in Times
  BY DEF Records
<1>c. UNCHANGED <<pc, rec, old, todo, store>>
  BY DEF Tick, procVars
<1>1. runs'[j] = runs[j]
  BY DistinctAssumption
     DEF Base, IInv, TypeOK, Tick, procVars, histVars
<1>2. \A h \in Ids : OnRuntime(h, j)' => OnRuntime(h, j)
  BY OnRuntimeDef, OnRuntimeDefNext, DistinctAssumption
     DEF Base, IInv, TypeOK, Tick, procVars, histVars
<1>3. \A d \in Execs : InExecution(d, j)' => InExecution(d, j)
  BY DistinctAssumption
     DEF Base, IInv, TypeOK, InExecution, Procs, Tick, procVars, histVars
<1>4. \A q \in Procs : InRegistration(q, j)' => InRegistration(q, j) /\ old'[q] = old[q]
  <2>1. \A p \in Procs : pc[p] = "register" => rec[p] \in Records
    BY DEF Base, IInv, RegisteringSound, Registering
  <2> QED
    BY <1>a, <1>b, <1>c, <2>1 DEF InRegistration
<1>5. \A h \in Ids : InTodo(h, j)' => InTodo(h, j)
  BY <1>a, <1>b, <1>c DEF Base, IInv, TypeOK, InTodo
<1>6. \A h \in Ids : StoredChance(h, j)' => StoredChance(h, j)
  BY <1>a, <1>b, <1>c DEF Base, IInv, TypeOK, StoredChance
<1>7. \A h \in Ids : StoredChance(h, j)' =>
            \A q \in Procs : pc[q] \in Replacing /\ old[q] = h =>
                pc'[q] \in Replacing /\ old'[q] = h /\ id'[q] = id[q]
  BY DistinctAssumption
     DEF Base, IInv, TypeOK, Replacing, StoredChance, Procs, Tick, procVars, histVars
<1> QED
  BY <1>1, <1>2, <1>3, <1>4, <1>5, <1>6, <1>7 DEF Quiet

\* What RegisterAdd and load_jobs do, with the id they choose.
Adds(p, i) ==
    /\ pc[p] = "lock"
    /\ id' = [id EXCEPT ![p] = i] /\ runtime' = runtime \union {i}
    /\ pc' = [pc EXCEPT ![p] = "inserting"]
    /\ UNCHANGED <<now, jobs, store, rec, old, ok, todo, histVars>>

LEMMA AddFacts ==
    ASSUME NEW p \in Procs, RegisterAdd(p)
    PROVE  \E i \in Ids \ used : Adds(p, i)
BY DEF RegisterAdd, Adds, Goto

Loads(i) ==
    /\ pc[Boot] = "loading" /\ todo[i] # NoJob
    /\ todo' = [todo EXCEPT ![i] = NoJob] /\ rec' = [rec EXCEPT ![Boot] = todo[i]]
    /\ old' = [old EXCEPT ![Boot] = i] /\ pc' = [pc EXCEPT ![Boot] = "register"]
    /\ UNCHANGED <<now, runtime, jobs, store, id, ok, histVars>>

LoadsNothing ==
    /\ pc[Boot] = "loading" /\ pc' = [pc EXCEPT ![Boot] = "off"]
    /\ UNCHANGED <<now, runtime, jobs, store, rec, old, id, ok, todo, histVars>>

LEMMA LoadFacts ==
    ASSUME LoadNext
    PROVE  LoadsNothing \/ \E i \in Ids : Loads(i)
BY DEF LoadNext, Loads, LoadsNothing, Goto

\* Adding another job.
LEMMA AddQuiet ==
    ASSUME Base, NEW j \in Users, OneShot(j), NEW p \in Procs, NEW i \in Ids \ used, Adds(p, i), rec[p].job # j
    PROVE  Quiet(j)
<1>a. jobs[i] = NoJob /\ \A q \in Procs : pc[q] = "inserting" => id[q] # i
  BY DEF Base, IInv, IdsFresh, RegisteringSound, Registering
<1>1. runs'[j] = runs[j]
  BY DistinctAssumption
     DEF Base, IInv, TypeOK, Adds, histVars
<1>2. \A h \in Ids : OnRuntime(h, j)' => OnRuntime(h, j)
  <2>1. \A q \in Procs \ {p} : pc'[q] = pc[q] /\ id'[q] = id[q]
    BY DEF Base, IInv, TypeOK, Adds
  <2>2. pc'[p] = "inserting" /\ id'[p] = i
    BY DEF Base, IInv, TypeOK, Adds
  <2>3. ~OnRuntime(i, j)'
    BY <1>a, <2>1, <2>2, OnRuntimeDefNext DEF Adds
  <2>4. \A h \in Ids \ {i} : OnRuntime(h, j)' => OnRuntime(h, j)
    BY <2>1, <2>2, OnRuntimeDef, OnRuntimeDefNext DEF Adds
  <2> QED
    BY <2>3, <2>4
<1>3. \A d \in Execs : InExecution(d, j)' => InExecution(d, j)
  BY DistinctAssumption
     DEF Base, IInv, TypeOK, InExecution, Procs, Adds, histVars
<1>4. \A q \in Procs : InRegistration(q, j)' => InRegistration(q, j) /\ old'[q] = old[q]
  BY DistinctAssumption
     DEF Base, IInv, TypeOK, InRegistration, Procs, Adds, histVars
<1>5. \A h \in Ids : InTodo(h, j)' => InTodo(h, j)
  BY DistinctAssumption
     DEF Base, IInv, TypeOK, InTodo, Adds, histVars
<1>6. \A h \in Ids : StoredChance(h, j)' => StoredChance(h, j)
  BY DistinctAssumption
     DEF Base, IInv, TypeOK, StoredChance, Adds, histVars
<1>7. \A h \in Ids : StoredChance(h, j)' =>
            \A q \in Procs : pc[q] \in Replacing /\ old[q] = h =>
                pc'[q] \in Replacing /\ old'[q] = h /\ id'[q] = id[q]
  BY DistinctAssumption
     DEF Base, IInv, TypeOK, Replacing, StoredChance, Procs, Adds, histVars
<1> QED
  BY <1>1, <1>2, <1>3, <1>4, <1>5, <1>6, <1>7 DEF Quiet

\* Adding the job itself to the runtime moves its chance there.
LEMMA AddMoves ==
    ASSUME Base, NEW j \in Users, OneShot(j), NEW p \in Procs, NEW i \in Ids \ used,
           Adds(p, i), rec[p].job = j
    PROVE  Moved(j, "registration", p, "runtime", i)
<1>1. \A q \in Procs \ {p} : pc'[q] = pc[q] /\ id'[q] = id[q]
  BY DEF Base, IInv, TypeOK, Adds
<1>2. pc'[p] = "inserting" /\ id'[p] = i /\ pc[p] = "lock"
  BY DEF Base, IInv, TypeOK, Adds
<1>3. Chance("registration", p, j) /\ ~Chance("registration", p, j)'
  BY <1>2 DEF Chance, InRegistration
<1>4. \A h \in Ids \ {i} : OnRuntime(h, j)' => OnRuntime(h, j)
  BY <1>1, <1>2, OnRuntimeDef, OnRuntimeDefNext DEF Adds
<1>5. \A e \in Execs : InExecution(e, j)' => InExecution(e, j)
  BY <1>1, <1>2 DEF InExecution, Adds, Procs
<1>6. \A q \in Procs : InRegistration(q, j)' => InRegistration(q, j)
  BY <1>1, <1>2 DEF InRegistration, Adds
<1>7. \A h \in Ids : InTodo(h, j)' => InTodo(h, j)
  BY DEF InTodo, Adds
<1>8. \A m \in Places : \A z \in Ids \union Procs :
          Chance(m, z, j)' => Chance(m, z, j) \/ (m = "runtime" /\ z = i)
  BY <1>4, <1>5, <1>6, <1>7 DEF Chance
<1>9. \A h \in Ids : StoredChance(h, j)' => StoredChance(h, j)
  BY DEF StoredChance, Adds
<1>10. \A h \in Ids : Backs(h, "registration", p) => Backs(h, "runtime", i)'
  BY <1>2 DEF Backs, Replacing, Adds
<1> QED
  BY <1>3, <1>8, <1>9, <1>10 DEF Moved, Adds, histVars

\* The stored copy of another job, or of one whose time has come.
LEMMA SaveQuiet ==
    ASSUME Base, NEW j \in Users, OneShot(j), NEW p \in Procs, RegisterStoreSave(p),
           ~(rec[p].job = j /\ rec[p].at > now)
    PROVE  Quiet(j)
<1>1. runs'[j] = runs[j]
  BY DistinctAssumption
     DEF Base, IInv, TypeOK, RegisterStoreSave, Goto, Caller, procVars, histVars
<1>2. \A h \in Ids : OnRuntime(h, j)' => OnRuntime(h, j)
  BY OnRuntimeDef, OnRuntimeDefNext, DistinctAssumption
     DEF Base, IInv, TypeOK, RegisterStoreSave, Goto, Caller, procVars, histVars
<1>3. \A d \in Execs : InExecution(d, j)' => InExecution(d, j)
  BY DistinctAssumption
     DEF Base, IInv, TypeOK, InExecution, Procs, RegisterStoreSave, Goto, Caller, procVars,
         histVars
<1>4. \A q \in Procs : InRegistration(q, j)' => InRegistration(q, j) /\ old'[q] = old[q]
  BY DistinctAssumption
     DEF Base, IInv, TypeOK, InRegistration, Procs, RegisterStoreSave, Goto, Caller,
         procVars, histVars
<1>5. \A h \in Ids : InTodo(h, j)' => InTodo(h, j)
  BY DistinctAssumption
     DEF Base, IInv, TypeOK, InTodo, RegisterStoreSave, Goto, Caller, procVars, histVars
<1>6. \A h \in Ids : StoredChance(h, j)' => StoredChance(h, j)
  BY DistinctAssumption
     DEF Base, IInv, TypeOK, StoredChance, RegisterStoreSave, Goto, Caller, procVars,
         histVars
<1>7. \A h \in Ids : StoredChance(h, j)' =>
            \A q \in Procs : pc[q] \in Replacing /\ old[q] = h =>
                pc'[q] \in Replacing /\ old'[q] = h /\ id'[q] = id[q]
  BY DistinctAssumption
     DEF Base, IInv, TypeOK, Replacing, StoredChance, Procs, RegisterStoreSave, Goto,
         Caller, procVars, histVars
<1> QED
  BY <1>1, <1>2, <1>3, <1>4, <1>5, <1>6, <1>7 DEF Quiet

\* The stored copy of a job that waits for its time backs its chance.
LEMMA SaveBacks ==
    ASSUME Base, NEW j \in Users, OneShot(j), ChancesSound(j), NEW p \in Procs,
           RegisterStoreSave(p), rec[p].job = j, rec[p].at > now
    PROVE  ChancesSound(j)'
<1>1. \A h \in Ids : OnRuntime(h, j)' => OnRuntime(h, j)
  BY OnRuntimeDef, OnRuntimeDefNext, DistinctAssumption
     DEF Base, IInv, TypeOK, RegisterStoreSave, Goto, Caller, procVars, histVars
<1>2. \A d \in Execs : InExecution(d, j)' => InExecution(d, j)
  BY DistinctAssumption
     DEF Base, IInv, TypeOK, InExecution, Procs, RegisterStoreSave, Goto, Caller, procVars,
         histVars
<1>3. \A q \in Procs : InRegistration(q, j)' => InRegistration(q, j)
  BY DistinctAssumption
     DEF Base, IInv, TypeOK, InRegistration, Procs, RegisterStoreSave, Goto, Caller,
         procVars, histVars
<1>4. \A h \in Ids : InTodo(h, j)' => InTodo(h, j)
  BY DistinctAssumption
     DEF Base, IInv, TypeOK, InTodo, RegisterStoreSave, Goto, Caller, procVars, histVars
<1>5. \A k \in Places : \A x \in Ids \union Procs : Chance(k, x, j)' => Chance(k, x, j)
  BY <1>1, <1>2, <1>3, <1>4 DEF Chance
<1>6. /\ rec[p] \in Records /\ rec[p] # NoJob /\ rec[p].kind = "at"
      /\ pc[p] = "storeSave" /\ mutex = p /\ id[p] \in Ids
  <2>1. rec[p] \in Records /\ rec[p] # NoJob /\ pc[p] = "storeSave" /\ mutex = p
    BY NoJobAssumption DEF Base, IInv, RegisteringSound, Registering, MutexOwned, Owning,
                           RegisterStoreSave
  <2>2. rec[p].kind = "at"
    BY <2>1, OneShotCopies
  <2>3. id[p] \in Ids
    BY <2>1 DEF Base, IInv, TypeOK, RegisteringSound, Registering
  <2> QED
    BY <2>1, <2>2, <2>3
<1>7. \A q \in Procs : pc[q] \notin Replacing
  BY <1>6 DEF Base, IInv, MutexOwned, Owning, Replacing
<1>8. id[p] \in runtime
  BY <1>6 DEF Base, NotYetFired, Saving
<1>9. jobs[id[p]] # NoJob /\ jobs[id[p]].job = j
  <2>1. jobs[id[p]] # NoJob
    BY <1>7, <1>8 DEF Base, IInv, ScheduledJobsKnown, BeingInserted, Replacing
  <2>2. jobs[id[p]] \in Copies(id[p]) /\ rec[p] \in Copies(id[p])
    BY <1>6, <2>1, CopyDef DEF Saving
  <2> QED
    BY <1>6, <2>1, <2>2 DEF Base, CopiesAgree
<1>10. Chance("runtime", id[p], j)
  BY <1>6, <1>8, <1>9, OnRuntimeDef DEF Chance
<1>11. ASSUME NEW k \in Places, NEW x \in Ids \union Procs, Chance(k, x, j)'
       PROVE  k = "runtime" /\ x = id[p]
  BY <1>5, <1>6, <1>10, <1>11 DEF ChancesSound, OneChance, Places
<1>12. ASSUME NEW i \in Ids, StoredChance(i, j)' PROVE i = id[p]
  <2> SUFFICES ASSUME i # id[p] PROVE FALSE
    OBVIOUS
  <2>1. StoredChance(i, j)
    BY <1>12 DEF Base, IInv, TypeOK, StoredChance, RegisterStoreSave
  <2>2. Backs(i, "runtime", id[p])
    BY <1>6, <1>10, <2>1 DEF ChancesSound, OneStoredChance, Places
  <2> QED
    BY <1>7, <2>2 DEF Backs
<1>13. OneChance(j)'
  BY <1>11 DEF OneChance
<1>14. OneStoredChance(j)'
  BY <1>11, <1>12 DEF OneStoredChance, Backs
<1>15. runs[j] # 1 /\ runs' = runs
  BY <1>6, <1>10 DEF ChancesSound, NoChanceAfterSuccess, Places, RegisterStoreSave
<1>16. NoChanceAfterSuccess(j)'
  BY <1>15 DEF ChancesSound, NoChanceAfterSuccess
<1> QED
  BY <1>13, <1>14, <1>16 DEF ChancesSound

-----------------------------------------------------------------------------
(* Executions, restarts and new jobs *)

\* Another job fires.
LEMMA FireQuiet ==
    ASSUME Base, NEW j \in Users, OneShot(j), NEW e \in Execs, NEW i \in runtime,
           NEW r \in Records, Fires(e, i, r), r.job # j
    PROVE  Quiet(j)
<1>a. pc'[e] = "executing" /\ id'[e] = i /\ rec'[e] = r /\ e \in Procs
  BY DEF Base, IInv, TypeOK, Fires, Procs
<1>b. \A q \in Procs \ {e} : pc'[q] = pc[q] /\ id'[q] = id[q] /\ rec'[q] = rec[q]
  BY DEF Base, IInv, TypeOK, Fires
<1>c. runtime' \subseteq runtime /\ UNCHANGED <<now, jobs, store, old, ok, todo, runs>>
  BY DEF Fires, histVars
<1>d. pc[e] = "off"
  BY DEF Fires
<1>1. runs'[j] = runs[j]
  BY <1>c
<1>2. \A h \in Ids : OnRuntime(h, j)' => OnRuntime(h, j)
  BY <1>a, <1>b, <1>c, OnRuntimeDef, OnRuntimeDefNext
<1>3. \A d \in Execs : InExecution(d, j)' => InExecution(d, j)
  BY <1>a, <1>b, <1>c DEF InExecution, Procs
<1>4. \A q \in Procs : InRegistration(q, j)' => InRegistration(q, j) /\ old'[q] = old[q]
  BY <1>a, <1>b, <1>c DEF InRegistration
<1>5. \A h \in Ids : InTodo(h, j)' => InTodo(h, j)
  BY <1>c DEF InTodo
<1>6. \A h \in Ids : StoredChance(h, j)' => StoredChance(h, j)
  BY <1>c DEF StoredChance
<1>7. \A h \in Ids : StoredChance(h, j)' =>
            \A q \in Procs : pc[q] \in Replacing /\ old[q] = h =>
                pc'[q] \in Replacing /\ old'[q] = h /\ id'[q] = id[q]
  BY <1>a, <1>b, <1>c, <1>d DEF Replacing
<1> QED
  BY <1>1, <1>2, <1>3, <1>4, <1>5, <1>6, <1>7 DEF Quiet

\* The job fires: its chance moves from the runtime to the execution.  Its time
\* is past, so that no stored copy gives it another one after a restart.
LEMMA FireMoves ==
    ASSUME Base, NEW j \in Users, OneShot(j), NEW e \in Execs, NEW i \in runtime,
           NEW r \in Records, Fires(e, i, r), r.job = j
    PROVE  Moved(j, "runtime", i, "execution", e)
<1>a. pc'[e] = "executing" /\ id'[e] = i /\ rec'[e] = r /\ e \in Procs
  BY DEF Base, IInv, TypeOK, Fires, Procs
<1>b. \A q \in Procs \ {e} : pc'[q] = pc[q] /\ id'[q] = id[q] /\ rec'[q] = rec[q]
  BY DEF Base, IInv, TypeOK, Fires
<1>c. runtime' \subseteq runtime /\ UNCHANGED <<now, jobs, store, old, ok, todo, runs>>
  BY DEF Fires, histVars
<1>d. pc[e] = "off"
  BY DEF Fires
<1>e. i \in Ids /\ r # NoJob /\ r \in Copies(i)
  BY CopyDef, NoJobAssumption DEF Base, IInv, TypeOK, Fires, Saving, Replacing
<1>f. r.kind = "at" /\ r.at <= now
  <2>1. r.kind = "at"
    BY <1>e, OneShotCopies DEF Fires
  <2> QED
    BY <2>1 DEF Fires
<1>g. i \notin runtime'
  BY <1>f DEF Fires
<1>1. Chance("runtime", i, j)
  BY <1>e, OnRuntimeDef DEF Chance, Fires
<1>2. ~Chance("runtime", i, j)'
  BY <1>g, OnRuntimeDefNext DEF Chance
<1>3. \A h \in Ids : OnRuntime(h, j)' => OnRuntime(h, j)
  BY <1>a, <1>b, <1>c, OnRuntimeDef, OnRuntimeDefNext
<1>4. \A d \in Execs \ {e} : InExecution(d, j)' => InExecution(d, j)
  BY <1>b, <1>c DEF InExecution, Procs
<1>5. \A q \in Procs : InRegistration(q, j)' => InRegistration(q, j)
  BY <1>a, <1>b, <1>c DEF InRegistration
<1>6. \A h \in Ids : InTodo(h, j)' => InTodo(h, j)
  BY <1>c DEF InTodo
<1>7. \A m \in Places : \A z \in Ids \union Procs :
          Chance(m, z, j)' => Chance(m, z, j) \/ (m = "execution" /\ z = e)
  BY <1>3, <1>4, <1>5, <1>6 DEF Chance
<1>8. \A h \in Ids : StoredChance(h, j)' => StoredChance(h, j)
  BY <1>c DEF StoredChance
<1>9. ASSUME NEW h \in Ids, StoredChance(h, j), Backs(h, "runtime", i) PROVE FALSE
  <2>0. store[h] \in Records /\ store[h] \in Copies(h) /\ store[h].at > now
    BY <1>9, CopyDef DEF Base, IInv, TypeOK, StoredChance
  <2>1. store[h].at \in Nat /\ now \in Nat
    BY <2>0, BoundsAssumption DEF Base, IInv, TypeOK, Records, Times
  <2>2. CASE h = i
    <3>1. store[h].at = r.at
      BY <1>e, <2>0, <2>2 DEF Base, CopiesAgree
    <3> QED
      BY <1>f, <2>0, <2>1, <3>1
  <2>3. CASE \E p \in Procs : pc[p] \in Replacing /\ id[p] = i /\ old[p] = h
    <3>1. PICK p \in Procs : pc[p] \in Replacing /\ old[p] = h
      BY <2>3
    <3>2. p # Boot
      BY <3>1 DEF Fires, Started, Replacing
    <3>3. p \notin Users
      BY <3>1, DistinctAssumption DEF Base, IInv, RegisteringSound
    <3>4. p \in Execs /\ pc[p] \in Registering
      BY <3>1, <3>2, <3>3 DEF Procs, Replacing, Registering
    <3>5. store[h].at <= now
      BY <2>0, <3>1, <3>4 DEF Base, FiredIsPast
    <3> QED
      BY <2>0, <2>1, <3>5
  <2> QED
    BY <1>9, <2>2, <2>3 DEF Backs
<1> QED
  BY <1>1, <1>2, <1>7, <1>8, <1>9, <1>c DEF Moved

\* An execution of another job ends, or one of this job fails.
LEMMA EndQuiet ==
    ASSUME Base, NEW j \in Users, OneShot(j), NEW e \in Execs, ExecuteEnds(e),
           rec[e].job # j \/ ~ok'[e]
    PROVE  Quiet(j)
<1>a. pc'[e] = "status" /\ pc[e] = "executing" /\ e \in Procs
  BY DEF Base, IInv, TypeOK, ExecuteEnds, Goto, Procs
<1>b. /\ \A q \in Procs \ {e} : pc'[q] = pc[q]
      /\ \A d \in Execs \ {e} : ok'[d] = ok[d]
  BY DEF Base, IInv, TypeOK, ExecuteEnds, Goto
<1>c. UNCHANGED <<now, runtime, jobs, store, rec, old, id, todo>>
  BY DEF ExecuteEnds
<1>d. /\ ok'[e] \in BOOLEAN /\ runs \in [Users -> Nat]
      /\ runs' = [runs EXCEPT ![rec[e].job] = IF ok'[e] THEN @ + 1 ELSE @]
  BY DEF Base, IInv, TypeOK, ExecuteEnds
<1>1. runs'[j] = runs[j]
  BY <1>d
<1>2. \A h \in Ids : OnRuntime(h, j)' => OnRuntime(h, j)
  BY <1>a, <1>b, <1>c, OnRuntimeDef, OnRuntimeDefNext
<1>3. \A d \in Execs : InExecution(d, j)' => InExecution(d, j)
  BY <1>a, <1>b, <1>c DEF InExecution, Procs
<1>4. \A q \in Procs : InRegistration(q, j)' => InRegistration(q, j) /\ old'[q] = old[q]
  BY <1>a, <1>b, <1>c DEF InRegistration
<1>5. \A h \in Ids : InTodo(h, j)' => InTodo(h, j)
  BY <1>c DEF InTodo
<1>6. \A h \in Ids : StoredChance(h, j)' => StoredChance(h, j)
  BY <1>c DEF StoredChance
<1>7. \A h \in Ids : StoredChance(h, j)' =>
            \A q \in Procs : pc[q] \in Replacing /\ old[q] = h =>
                pc'[q] \in Replacing /\ old'[q] = h /\ id'[q] = id[q]
  BY <1>a, <1>b, <1>c DEF Replacing
<1> QED
  BY <1>1, <1>2, <1>3, <1>4, <1>5, <1>6, <1>7 DEF Quiet

\* The job succeeds: its only chance is gone.
LEMMA SuccessTakesChance ==
    ASSUME Base, NEW j \in Users, OneShot(j), ChancesSound(j), NEW e \in Execs,
           ExecuteEnds(e), rec[e].job = j, ok'[e]
    PROVE  ChancesSound(j)'
<1>a. pc'[e] = "status" /\ pc[e] = "executing" /\ e \in Procs
  BY DEF Base, IInv, TypeOK, ExecuteEnds, Goto, Procs
<1>b. /\ \A q \in Procs \ {e} : pc'[q] = pc[q]
      /\ \A d \in Execs \ {e} : ok'[d] = ok[d]
  BY DEF Base, IInv, TypeOK, ExecuteEnds, Goto
<1>c. UNCHANGED <<now, runtime, jobs, store, rec, old, id, todo>>
  BY DEF ExecuteEnds
<1>d. /\ ok'[e] \in BOOLEAN /\ runs \in [Users -> Nat]
      /\ runs' = [runs EXCEPT ![rec[e].job] = IF ok'[e] THEN @ + 1 ELSE @]
  BY DEF Base, IInv, TypeOK, ExecuteEnds
<1>1. \A h \in Ids : OnRuntime(h, j)' => OnRuntime(h, j)
  BY <1>a, <1>b, <1>c, OnRuntimeDef, OnRuntimeDefNext
<1>2. \A d \in Execs : InExecution(d, j)' => InExecution(d, j) /\ d # e
  BY <1>a, <1>b, <1>c DEF InExecution, Procs
<1>3. \A q \in Procs : InRegistration(q, j)' => InRegistration(q, j)
  BY <1>a, <1>b, <1>c DEF InRegistration
<1>4. \A h \in Ids : InTodo(h, j)' => InTodo(h, j)
  BY <1>c DEF InTodo
<1>5. Chance("execution", e, j)
  BY <1>a DEF Chance, InExecution
<1>6. ASSUME NEW k \in Places, NEW x \in Ids \union Procs, Chance(k, x, j)'
      PROVE  FALSE
  <2>1. Chance(k, x, j) /\ ~(k = "execution" /\ x = e)
    BY <1>1, <1>2, <1>3, <1>4, <1>6 DEF Chance
  <2> QED
    BY <1>5, <1>a, <2>1 DEF ChancesSound, OneChance, Places
<1>7. ASSUME NEW i \in Ids, StoredChance(i, j)' PROVE FALSE
  <2>1. StoredChance(i, j)
    BY <1>7, <1>c DEF StoredChance
  <2>2. Backs(i, "execution", e)
    BY <1>5, <1>a, <2>1 DEF ChancesSound, OneStoredChance, Places
  <2> QED
    BY <2>2 DEF Backs
<1>8. runs'[j] = 1
  <2>1. runs[j] \in Nat /\ runs[j] <= 1 /\ runs[j] # 1
    BY <1>5, <1>a, <1>d DEF ChancesSound, NoChanceAfterSuccess, Places
  <2> QED
    BY <1>d, <2>1
<1> QED
  BY <1>6, <1>7, <1>8 DEF ChancesSound, OneChance, OneStoredChance, NoChanceAfterSuccess

\* update_job_status saves what it has counted, and registers no job or another.
LEMMA SaveStatusQuiet ==
    ASSUME Base, NEW j \in Users, OneShot(j), NEW e \in Execs, SaveStatus(e),
           pc[e] = "save" \/ rec[e].job # j
    PROVE  Quiet(j)
<1>a. /\ pc[e] \in {"save", "saveRetry"} /\ e \in Procs /\ id[e] \in Ids
      /\ jobs[id[e]] \in Records /\ jobs[id[e]] # NoJob /\ rec[e] \in Records
      /\ jobs[id[e]].kind = rec[e].kind
  BY NoJobAssumption
     DEF Base, IInv, TypeOK, ExecutingSound, Active, Guarding, SaveStatus, Procs
<1>b. \A q \in Procs \ {e} : pc'[q] = pc[q] /\ rec'[q] = rec[q] /\ old'[q] = old[q]
  BY DEF Base, IInv, TypeOK, SaveStatus, Goto
<1>c. /\ UNCHANGED <<now, runtime, jobs, id, ok, todo, runs>>
      /\ store' = [store EXCEPT ![id[e]] = jobs[id[e]]]
  BY DEF SaveStatus, histVars
<1>d. jobs[id[e]].job = rec[e].job /\ jobs[id[e]].at = rec[e].at
  <2>1. jobs[id[e]] \in Copies(id[e]) /\ rec[e] \in Copies(id[e])
    BY <1>a, CopyDef, NoJobAssumption DEF Active
  <2> QED
    BY <1>a, <2>1 DEF Base, CopiesAgree
<1>e. \/ pc[e] = "save" /\ pc'[e] = "done"
      \/ /\ pc[e] = "saveRetry" /\ pc'[e] = "register" /\ old'[e] = id[e]
         /\ rec'[e] = [jobs[id[e]] EXCEPT !.at = now + 1]
  BY DEF Base, IInv, TypeOK, SaveStatus, Goto, Procs
<1>f. \A h \in Ids : StoredChance(h, j)' => StoredChance(h, j) /\ h # id[e]
  <2>1. ASSUME rec[e].job = j PROVE rec[e].at <= now
    BY <1>a, <2>1, OneShotCopies, NoJobAssumption DEF Base, FiredIsPast, Active
  <2>2. rec[e].at \in Nat /\ now \in Nat
    BY <1>a, BoundsAssumption DEF Base, IInv, TypeOK, Records, Times
  <2>3. ~StoredChance(id[e], j)'
    BY <1>a, <1>c, <1>d, <2>1, <2>2 DEF Base, IInv, TypeOK, StoredChance
  <2>4. \A h \in Ids : h # id[e] => store'[h] = store[h]
    BY <1>c DEF Base, IInv, TypeOK
  <2>5. \A h \in Ids : h = id[e] => ~StoredChance(h, j)'
    BY <2>3 DEF StoredChance, SaveStatus
  <2> QED
    BY <1>c, <2>4, <2>5 DEF StoredChance
<1>g. /\ [jobs[id[e]] EXCEPT !.at = now + 1].job = jobs[id[e]].job
      /\ [jobs[id[e]] EXCEPT !.at = now + 1].at = now + 1
  <2>1. now + 1 \in Times
    BY BoundsAssumption DEF Base, IInv, TypeOK, Times
  <2> QED
    BY <1>a, <2>1, CountedFacts
<1>1. runs'[j] = runs[j]
  BY <1>c
<1>2. \A h \in Ids : OnRuntime(h, j)' => OnRuntime(h, j)
  BY <1>a, <1>b, <1>c, <1>e, OnRuntimeDef, OnRuntimeDefNext
<1>3. \A d \in Execs : InExecution(d, j)' => InExecution(d, j)
  BY <1>b, <1>c, <1>e DEF InExecution, Procs
<1>4. \A q \in Procs : InRegistration(q, j)' => InRegistration(q, j) /\ old'[q] = old[q]
  <2>1. ~InRegistration(e, j)'
    BY <1>d, <1>e, <1>g DEF InRegistration
  <2> QED
    BY <1>b, <1>c, <2>1 DEF InRegistration
<1>5. \A h \in Ids : InTodo(h, j)' => InTodo(h, j)
  BY <1>c DEF InTodo
<1>6. \A h \in Ids : StoredChance(h, j)' => StoredChance(h, j)
  BY <1>f
<1>7. \A h \in Ids : StoredChance(h, j)' =>
            \A q \in Procs : pc[q] \in Replacing /\ old[q] = h =>
                pc'[q] \in Replacing /\ old'[q] = h /\ id'[q] = id[q]
  BY <1>a, <1>b, <1>c DEF Replacing
<1> QED
  BY <1>1, <1>2, <1>3, <1>4, <1>5, <1>6, <1>7 DEF Quiet

\* A failed one-shot job is tried again: its chance moves to the registration.
LEMMA RetryMoves ==
    ASSUME Base, NEW j \in Users, OneShot(j), NEW e \in Execs, SaveStatus(e),
           pc[e] # "save", rec[e].job = j
    PROVE  Moved(j, "execution", e, "registration", e)
<1>a. /\ pc[e] \in {"save", "saveRetry"} /\ e \in Procs /\ id[e] \in Ids
      /\ jobs[id[e]] \in Records /\ jobs[id[e]] # NoJob /\ rec[e] \in Records
      /\ jobs[id[e]].kind = rec[e].kind
  BY NoJobAssumption
     DEF Base, IInv, TypeOK, ExecutingSound, Active, Guarding, SaveStatus, Procs
<1>b. \A q \in Procs \ {e} : pc'[q] = pc[q] /\ rec'[q] = rec[q] /\ old'[q] = old[q]
  BY DEF Base, IInv, TypeOK, SaveStatus, Goto
<1>c. /\ UNCHANGED <<now, runtime, jobs, id, ok, todo, runs>>
      /\ store' = [store EXCEPT ![id[e]] = jobs[id[e]]]
  BY DEF SaveStatus, histVars
<1>d. jobs[id[e]].job = rec[e].job /\ jobs[id[e]].at = rec[e].at
  <2>1. jobs[id[e]] \in Copies(id[e]) /\ rec[e] \in Copies(id[e])
    BY <1>a, CopyDef, NoJobAssumption DEF Active
  <2> QED
    BY <1>a, <2>1 DEF Base, CopiesAgree
<1>e. \/ pc[e] = "save" /\ pc'[e] = "done"
      \/ /\ pc[e] = "saveRetry" /\ pc'[e] = "register" /\ old'[e] = id[e]
         /\ rec'[e] = [jobs[id[e]] EXCEPT !.at = now + 1]
  BY DEF Base, IInv, TypeOK, SaveStatus, Goto, Procs
<1>f. \A h \in Ids : StoredChance(h, j)' => StoredChance(h, j) /\ h # id[e]
  <2>1. ASSUME rec[e].job = j PROVE rec[e].at <= now
    BY <1>a, <2>1, OneShotCopies, NoJobAssumption DEF Base, FiredIsPast, Active
  <2>2. rec[e].at \in Nat /\ now \in Nat
    BY <1>a, BoundsAssumption DEF Base, IInv, TypeOK, Records, Times
  <2>3. ~StoredChance(id[e], j)'
    BY <1>a, <1>c, <1>d, <2>1, <2>2 DEF Base, IInv, TypeOK, StoredChance
  <2>4. \A h \in Ids : h # id[e] => store'[h] = store[h]
    BY <1>c DEF Base, IInv, TypeOK
  <2>5. \A h \in Ids : h = id[e] => ~StoredChance(h, j)'
    BY <2>3 DEF StoredChance, SaveStatus
  <2> QED
    BY <1>c, <2>4, <2>5 DEF StoredChance
<1>g. /\ [jobs[id[e]] EXCEPT !.at = now + 1].job = jobs[id[e]].job
      /\ [jobs[id[e]] EXCEPT !.at = now + 1].at = now + 1
  <2>1. now + 1 \in Times
    BY BoundsAssumption DEF Base, IInv, TypeOK, Times
  <2> QED
    BY <1>a, <2>1, CountedFacts
<1>1. Chance("execution", e, j)
  BY <1>a DEF Chance, InExecution
<1>2. ~Chance("execution", e, j)'
  BY <1>e DEF Chance, InExecution
<1>3. \A h \in Ids : OnRuntime(h, j)' => OnRuntime(h, j)
  BY <1>a, <1>b, <1>c, <1>e, OnRuntimeDef, OnRuntimeDefNext
<1>4. \A d \in Execs : InExecution(d, j)' => InExecution(d, j)
  BY <1>b, <1>c, <1>e DEF InExecution, Procs
<1>5. \A q \in Procs \ {e} : InRegistration(q, j)' => InRegistration(q, j)
  BY <1>b, <1>c DEF InRegistration
<1>6. \A h \in Ids : InTodo(h, j)' => InTodo(h, j)
  BY <1>c DEF InTodo
<1>7. \A m \in Places : \A z \in Ids \union Procs :
          Chance(m, z, j)' => Chance(m, z, j) \/ (m = "registration" /\ z = e)
  BY <1>3, <1>4, <1>5, <1>6 DEF Chance
<1>8. \A h \in Ids : ~Backs(h, "execution", e)
  BY DEF Backs
<1> QED
  BY <1>1, <1>2, <1>7, <1>8, <1>c, <1>f DEF Moved

\* load_jobs goes on with another job, or with one whose time is past.
LEMMA LoadQuiet ==
    ASSUME Base, NEW j \in Users, OneShot(j), NEW i \in Ids, Loads(i), ~InTodo(i, j)
    PROVE  Quiet(j)
<1>a. pc'[Boot] = "register" /\ old'[Boot] = i /\ rec'[Boot] = todo[i] /\ Boot \in Procs
  BY DEF Base, IInv, TypeOK, Loads, Procs
<1>b. \A q \in Procs \ {Boot} : pc'[q] = pc[q] /\ rec'[q] = rec[q] /\ old'[q] = old[q]
  BY DEF Base, IInv, TypeOK, Loads
<1>c. /\ UNCHANGED <<now, runtime, jobs, store, id, ok, runs>>
      /\ todo'[i] = NoJob /\ \A h \in Ids \ {i} : todo'[h] = todo[h]
  BY DEF Base, IInv, TypeOK, Loads, histVars
<1>d. pc[Boot] = "loading" /\ todo[i] # NoJob
  BY DEF Loads
<1>e. Execs \subseteq Procs \ {Boot}
  BY DistinctAssumption DEF Procs
<1>1. runs'[j] = runs[j]
  BY <1>c
<1>2. \A h \in Ids : OnRuntime(h, j)' => OnRuntime(h, j)
  BY <1>a, <1>b, <1>c, OnRuntimeDef, OnRuntimeDefNext
<1>3. \A d \in Execs : InExecution(d, j)' => InExecution(d, j)
  BY <1>b, <1>c, <1>e DEF InExecution
<1>4. \A q \in Procs : InRegistration(q, j)' => InRegistration(q, j) /\ old'[q] = old[q]
  BY <1>a, <1>b, <1>c, <1>d DEF InRegistration, InTodo
<1>5. \A h \in Ids : InTodo(h, j)' => InTodo(h, j)
  BY <1>c DEF InTodo
<1>6. \A h \in Ids : StoredChance(h, j)' => StoredChance(h, j)
  BY <1>c DEF StoredChance
<1>7. \A h \in Ids : StoredChance(h, j)' =>
            \A q \in Procs : pc[q] \in Replacing /\ old[q] = h =>
                pc'[q] \in Replacing /\ old'[q] = h /\ id'[q] = id[q]
  BY <1>a, <1>b, <1>c, <1>d DEF Replacing
<1> QED
  BY <1>1, <1>2, <1>3, <1>4, <1>5, <1>6, <1>7 DEF Quiet

\* load_jobs goes on with the job: its chance moves to the registration, which
\* replaces the copy that was read.
LEMMA LoadMoves ==
    ASSUME Base, NEW j \in Users, OneShot(j), NEW i \in Ids, Loads(i), InTodo(i, j)
    PROVE  Moved(j, "todo", i, "registration", Boot)
<1>a. pc'[Boot] = "register" /\ old'[Boot] = i /\ rec'[Boot] = todo[i] /\ Boot \in Procs
  BY DEF Base, IInv, TypeOK, Loads, Procs
<1>b. \A q \in Procs \ {Boot} : pc'[q] = pc[q] /\ rec'[q] = rec[q] /\ old'[q] = old[q]
  BY DEF Base, IInv, TypeOK, Loads
<1>c. /\ UNCHANGED <<now, runtime, jobs, store, id, ok, runs>>
      /\ todo'[i] = NoJob /\ \A h \in Ids \ {i} : todo'[h] = todo[h]
  BY DEF Base, IInv, TypeOK, Loads, histVars
<1>d. pc[Boot] = "loading" /\ todo[i] # NoJob
  BY DEF Loads
<1>e. Execs \subseteq Procs \ {Boot}
  BY DistinctAssumption DEF Procs
<1>1. Chance("todo", i, j) /\ ~Chance("todo", i, j)'
  BY <1>c DEF Chance, InTodo
<1>2. \A h \in Ids : OnRuntime(h, j)' => OnRuntime(h, j)
  BY <1>a, <1>b, <1>c, OnRuntimeDef, OnRuntimeDefNext
<1>3. \A d \in Execs : InExecution(d, j)' => InExecution(d, j)
  BY <1>b, <1>c, <1>e DEF InExecution
<1>4. \A q \in Procs \ {Boot} : InRegistration(q, j)' => InRegistration(q, j)
  BY <1>b, <1>c DEF InRegistration
<1>5. \A h \in Ids : InTodo(h, j)' => InTodo(h, j)
  BY <1>c DEF InTodo
<1>6. \A m \in Places : \A z \in Ids \union Procs :
          Chance(m, z, j)' => Chance(m, z, j) \/ (m = "registration" /\ z = Boot)
  BY <1>2, <1>3, <1>4, <1>5 DEF Chance
<1>7. \A h \in Ids : StoredChance(h, j)' => StoredChance(h, j)
  BY <1>c DEF StoredChance
<1>8. \A h \in Ids : Backs(h, "todo", i) => Backs(h, "registration", Boot)'
  BY <1>a DEF Backs
<1> QED
  BY <1>1, <1>6, <1>7, <1>8, <1>c DEF Moved

\* load_jobs is done.
LEMMA LoadedQuiet ==
    ASSUME Base, NEW j \in Users, OneShot(j), LoadsNothing
    PROVE  Quiet(j)
<1>a. /\ pc'[Boot] = "off" /\ Boot \in Procs /\ pc[Boot] = "loading"
      /\ \A q \in Procs \ {Boot} : pc'[q] = pc[q]
  BY DEF Base, IInv, TypeOK, LoadsNothing, Procs
<1>b. UNCHANGED <<now, runtime, jobs, store, rec, old, id, ok, todo, runs>>
  BY DEF LoadsNothing, histVars
<1>c. Execs \subseteq Procs \ {Boot}
  BY DistinctAssumption DEF Procs
<1>1. runs'[j] = runs[j]
  BY <1>b
<1>2. \A h \in Ids : OnRuntime(h, j)' => OnRuntime(h, j)
  BY <1>a, <1>b, OnRuntimeDef, OnRuntimeDefNext
<1>3. \A d \in Execs : InExecution(d, j)' => InExecution(d, j)
  BY <1>a, <1>b, <1>c DEF InExecution
<1>4. \A q \in Procs : InRegistration(q, j)' => InRegistration(q, j) /\ old'[q] = old[q]
  BY <1>a, <1>b DEF InRegistration
<1>5. \A h \in Ids : InTodo(h, j)' => InTodo(h, j)
  BY <1>b DEF InTodo
<1>6. \A h \in Ids : StoredChance(h, j)' => StoredChance(h, j)
  BY <1>b DEF StoredChance
<1>7. \A h \in Ids : StoredChance(h, j)' =>
            \A q \in Procs : pc[q] \in Replacing /\ old[q] = h =>
                pc'[q] \in Replacing /\ old'[q] = h /\ id'[q] = id[q]
  BY <1>a, <1>b DEF Replacing
<1> QED
  BY <1>1, <1>2, <1>3, <1>4, <1>5, <1>6, <1>7 DEF Quiet

\* add_job of another job.
LEMMA NewJobQuiet ==
    ASSUME Base, NEW j \in Users, OneShot(j), NEW u \in Users, AddJob(u), u # j
    PROVE  Quiet(j)
<1>a. /\ pc'[u] = "register" /\ pc[u] = "off" /\ u \in Procs
      /\ \A q \in Procs \ {u} : pc'[q] = pc[q] /\ rec'[q] = rec[q]
  BY DEF Base, IInv, TypeOK, AddJob, Goto, Procs
<1>b. UNCHANGED <<now, runtime, jobs, store, old, id, ok, todo, runs>>
  BY DEF AddJob, histVars
<1>c. rec'[u].job = u /\ rec'[u].at \in Nat /\ rec[u] = NoJob /\ runs[u] = 0
  BY BoundsAssumption DEF Base, IInv, TypeOK, RecordsOwned, AddJob, Procs
<1>d. Execs \subseteq Procs \ {u}
  BY DistinctAssumption DEF Procs
<1>1. runs'[j] = runs[j]
  BY <1>b
<1>2. \A h \in Ids : OnRuntime(h, j)' => OnRuntime(h, j)
  BY <1>a, <1>b, OnRuntimeDef, OnRuntimeDefNext
<1>3. \A d \in Execs : InExecution(d, j)' => InExecution(d, j)
  BY <1>a, <1>b, <1>d DEF InExecution
<1>4. \A q \in Procs : InRegistration(q, j)' => InRegistration(q, j) /\ old'[q] = old[q]
  BY <1>a, <1>b, <1>c DEF InRegistration
<1>5. \A h \in Ids : InTodo(h, j)' => InTodo(h, j)
  BY <1>b DEF InTodo
<1>6. \A h \in Ids : StoredChance(h, j)' => StoredChance(h, j)
  BY <1>b DEF StoredChance
<1>7. \A h \in Ids : StoredChance(h, j)' =>
            \A q \in Procs : pc[q] \in Replacing /\ old[q] = h =>
                pc'[q] \in Replacing /\ old'[q] = h /\ id'[q] = id[q]
  BY <1>a, <1>b DEF Replacing
<1> QED
  BY <1>1, <1>2, <1>3, <1>4, <1>5, <1>6, <1>7 DEF Quiet

\* add_job of this job: nothing of it exists yet but what is registered now.
LEMMA NewJobSound ==
    ASSUME Base, NEW u \in Users, AddJob(u)
    PROVE  ChancesSound(u)'
<1>a. /\ pc'[u] = "register" /\ pc[u] = "off" /\ u \in Procs
      /\ \A q \in Procs \ {u} : pc'[q] = pc[q] /\ rec'[q] = rec[q]
  BY DEF Base, IInv, TypeOK, AddJob, Goto, Procs
<1>b. UNCHANGED <<now, runtime, jobs, store, old, id, ok, todo, runs>>
  BY DEF AddJob, histVars
<1>c. rec'[u].job = u /\ rec'[u].at \in Nat /\ rec[u] = NoJob /\ runs[u] = 0
  BY BoundsAssumption DEF Base, IInv, TypeOK, RecordsOwned, AddJob, Procs
<1>d. Execs \subseteq Procs \ {u}
  BY DistinctAssumption DEF Procs
<1>1. \A i \in Ids : ~StoredChance(i, u)'
  BY <1>b, <1>c DEF Base, RecordsOwned, FromRequest, StoredChance
<1>2. \A i \in Ids : ~OnRuntime(i, u)'
  BY <1>a, <1>b, <1>c, OnRuntimeDefNext DEF Base, RecordsOwned, FromRequest
<1>3. \A e \in Execs : ~InExecution(e, u)'
  <2>1. \A e \in Execs : pc[e] \in Active => rec[e] # NoJob
    BY NoJobAssumption DEF Base, IInv, ExecutingSound
  <2> QED
    BY <1>a, <1>b, <1>c, <1>d, <2>1 DEF Base, RecordsOwned, FromRequest, InExecution, Active
<1>4. \A q \in Procs \ {u} : ~InRegistration(q, u)'
  <2>1. \A q \in Procs : pc[q] \in {"register", "lock"} => rec[q] # NoJob
    BY NoJobAssumption DEF Base, IInv, RegisteringSound, Registering
  <2> QED
    BY <1>a, <1>b, <1>c, <2>1 DEF Base, RecordsOwned, FromRequest, InRegistration
<1>5. \A i \in Ids : ~InTodo(i, u)'
  BY <1>b, <1>c DEF Base, RecordsOwned, FromRequest, InTodo
<1>6. \A k \in Places : \A x \in Ids \union Procs :
          Chance(k, x, u)' => k = "registration" /\ x = u
  BY <1>2, <1>3, <1>4, <1>5 DEF Chance
<1> QED
  BY <1>1, <1>6, <1>b, <1>c
     DEF ChancesSound, OneChance, OneStoredChance, NoChanceAfterSuccess

\* After a crash the chances are those that the store gives.
LEMMA CrashSound ==
    ASSUME Base, NEW j \in Users, OneShot(j), ChancesSound(j), Crash
    PROVE  ChancesSound(j)'
<1>1. \A p \in Procs : pc'[p] \in {"loading", "off", "done"}
  BY DEF Crash
<1>2. runtime' = {} /\ todo' = store /\ UNCHANGED <<now, store, runs>>
  BY DEF Crash, histVars
<1>3. \A i \in Ids : ~OnRuntime(i, j)'
  BY <1>2, OnRuntimeDefNext
<1>4. \A e \in Execs : ~InExecution(e, j)'
  BY <1>1 DEF InExecution, Procs
<1>5. \A q \in Procs : ~InRegistration(q, j)'
  BY <1>1 DEF InRegistration
<1>6. \A i \in Ids : StoredChance(i, j)' <=> StoredChance(i, j)
  BY <1>2 DEF StoredChance
<1>7. \A i \in Ids : InTodo(i, j)' => StoredChance(i, j)
  BY <1>2 DEF InTodo, StoredChance
<1>8. \A k \in Places : \A x \in Ids \union Procs :
          Chance(k, x, j)' => k = "todo" /\ x \in Ids /\ StoredChance(x, j)
  BY <1>3, <1>4, <1>5, <1>7 DEF Chance
<1>9. OneChance(j)'
  BY <1>8 DEF ChancesSound, OneStoredChance, OneChance
<1>10. OneStoredChance(j)'
  BY <1>6, <1>8 DEF ChancesSound, OneStoredChance, Backs
<1>11. NoChanceAfterSuccess(j)'
  BY <1>2, <1>6, <1>8 DEF ChancesSound, NoChanceAfterSuccess
<1> QED
  BY <1>9, <1>10, <1>11 DEF ChancesSound

\* Only add_job makes a CronJob of a request.
LEMMA RequestKept ==
    ASSUME IInv, NEW j \in Users, ~AddJob(j), [Next]_vars
    PROVE  rec'[j] = rec[j]
<1>1. CASE UNCHANGED vars
  BY <1>1 DEF vars
<1>2. ASSUME NEW p \in Procs, Register(p)
      PROVE  rec'[j] = rec[j]
  BY <1>2 DEF Register, RegisterCheck, RegisterAdd, RegisterInsert, RegisterDrop,
              RegisterStoreDrop, RegisterStoreSave, procVars
<1>3. ASSUME NEW u \in Users, AddJob(u)
      PROVE  rec'[j] = rec[j]
  BY <1>3 DEF AddJob, IInv, TypeOK, Procs
<1>4. ASSUME NEW u \in Users, RemoveJob(u) \/ UserStep(u)
      PROVE  rec'[j] = rec[j]
  BY <1>2, <1>4 DEF UserStep, RemoveJob, RemoveRuntime, RemoveStore, RemoveEntry, procVars,
                    Procs
<1>5. ASSUME NEW e \in Execs, Fire(e)
      PROVE  rec'[j] = rec[j]
  BY <1>5, DistinctAssumption DEF Fire, IInv, TypeOK, Procs
<1>6. ASSUME NEW e \in Execs, ExecStep(e)
      PROVE  rec'[j] = rec[j]
  BY <1>2, <1>6, DistinctAssumption
     DEF ExecStep, ExecuteEnds, UpdateStatus, Disable, SaveStatus, procVars, IInv, TypeOK,
         Procs
<1>7. CASE BootStep
  BY <1>2, <1>7, DistinctAssumption DEF BootStep, LoadNext, IInv, TypeOK, Procs
<1>8. CASE Tick \/ Crash
  BY <1>8 DEF Tick, Crash, procVars
<1> QED
  BY <1>1, <1>3, <1>4, <1>5, <1>6, <1>7, <1>8 DEF Next

\* Every step leaves a one-shot job with at most one chance, and with none once
\* it has succeeded.
LEMMA ChancesStep ==
    ASSUME Base, NEW j \in Users, OneShot(j), ChancesSound(j), [Next]_vars
    PROVE  ChancesSound(j)'
<1> USE DEF Places
<1>1. CASE UNCHANGED vars
  <2>1. Quiet(j)
    BY <1>1 DEF vars, Quiet, OnRuntime, Scheduled, InExecution, InRegistration, InTodo,
                StoredChance
  <2> QED
    BY <2>1, QuietKeeps
<1>2. ASSUME NEW p \in Procs, RegisterAdd(p)
      PROVE  ChancesSound(j)'
  <2>1. PICK i \in Ids \ used : Adds(p, i)
    BY <1>2, AddFacts
  <2>2. CASE rec[p].job = j
    <3>1. Moved(j, "registration", p, "runtime", i)
      BY <2>1, <2>2, AddMoves
    <3> QED
      BY <3>1, MovedKeeps
  <2>3. CASE rec[p].job # j
    BY <2>1, <2>3, AddQuiet, QuietKeeps
  <2> QED
    BY <2>2, <2>3
<1>3. ASSUME NEW p \in Procs, Register(p)
      PROVE  ChancesSound(j)'
  <2>1. CASE RegisterCheck(p) \/ RegisterInsert(p) \/ RegisterDrop(p) \/ RegisterStoreDrop(p)
    BY <2>1, CheckQuiet, InsertQuiet, DropQuiet, StoreDropQuiet, QuietKeeps
  <2>2. CASE RegisterStoreSave(p)
    BY <2>2, SaveQuiet, SaveBacks, QuietKeeps
  <2> QED
    BY <1>2, <1>3, <2>1, <2>2 DEF Register
<1>4. ASSUME NEW u \in Users, AddJob(u)
      PROVE  ChancesSound(j)'
  BY <1>4, NewJobQuiet, NewJobSound, QuietKeeps
<1>5. ASSUME NEW u \in Users, RemoveJob(u) \/ UserStep(u)
      PROVE  ChancesSound(j)'
  BY <1>3, <1>5, RemoveJobQuiet, RemoveRuntimeQuiet, RemoveStoreQuiet, RemoveEntryQuiet,
     QuietKeeps
     DEF UserStep, Procs
<1>6. ASSUME NEW e \in Execs, Fire(e)
      PROVE  ChancesSound(j)'
  <2>1. PICK i \in runtime, r \in Records : Fires(e, i, r)
    BY <1>6, FireFacts DEF Base
  <2>2. CASE r.job = j
    <3>1. Moved(j, "runtime", i, "execution", e)
      BY <2>1, <2>2, FireMoves
    <3>2. i \in Ids /\ e \in Procs
      BY DEF Base, IInv, TypeOK, Procs
    <3> QED
      BY <3>1, <3>2, MovedKeeps
  <2>3. CASE r.job # j
    BY <2>1, <2>3, FireQuiet, QuietKeeps
  <2> QED
    BY <2>2, <2>3
<1>7. ASSUME NEW e \in Execs, SaveStatus(e)
      PROVE  ChancesSound(j)'
  <2>1. CASE pc[e] = "save" \/ rec[e].job # j
    BY <1>7, <2>1, SaveStatusQuiet, QuietKeeps
  <2>2. CASE pc[e] # "save" /\ rec[e].job = j
    <3>1. Moved(j, "execution", e, "registration", e)
      BY <1>7, <2>2, RetryMoves
    <3> QED
      BY <3>1, MovedKeeps DEF Procs
  <2> QED
    BY <2>1, <2>2
<1>8. ASSUME NEW e \in Execs, ExecStep(e)
      PROVE  ChancesSound(j)'
  <2>1. CASE ExecuteEnds(e)
    BY <2>1, EndQuiet, SuccessTakesChance, QuietKeeps
  <2>2. CASE UpdateStatus(e) \/ Disable(e)
    BY <2>2, UpdateQuiet, DisableQuiet, QuietKeeps
  <2> QED
    BY <1>3, <1>7, <1>8, <2>1, <2>2 DEF ExecStep, Procs
<1>9. CASE LoadNext
  <2>1. CASE LoadsNothing
    BY <2>1, LoadedQuiet, QuietKeeps
  <2>2. ASSUME NEW i \in Ids, Loads(i)
        PROVE  ChancesSound(j)'
    <3>1. CASE InTodo(i, j)
      <4>1. Moved(j, "todo", i, "registration", Boot)
        BY <2>2, <3>1, LoadMoves
      <4> QED
        BY <4>1, MovedKeeps DEF Procs
    <3>2. CASE ~InTodo(i, j)
      BY <2>2, <3>2, LoadQuiet, QuietKeeps
    <3> QED
      BY <3>1, <3>2
  <2> QED
    BY <1>9, <2>1, <2>2, LoadFacts
<1>10. CASE BootStep
  BY <1>3, <1>9, <1>10 DEF BootStep, Procs
<1>11. CASE Tick \/ Crash
  BY <1>11, TickQuiet, QuietKeeps, CrashSound
<1> QED
  BY <1>1, <1>4, <1>5, <1>6, <1>8, <1>10, <1>11 DEF Next

\* The chances of every one-shot job stay sound; a job that add_job has just
\* made has one.
LEMMA OneShotsStep ==
    ASSUME Base, OneShotsSound, [Next]_vars
    PROVE  OneShotsSound'
<1> SUFFICES ASSUME NEW j \in Users, OneShot(j)'
             PROVE  ChancesSound(j)'
  BY DEF OneShotsSound
<1>1. CASE AddJob(j)
  BY <1>1, NewJobSound
<1>2. CASE ~AddJob(j)
  <2>1. rec'[j] = rec[j]
    BY <1>2, RequestKept DEF Base
  <2>2. OneShot(j)
    BY <2>1 DEF OneShot
  <2> QED
    BY <2>2, ChancesStep DEF OneShotsSound
<1> QED
  BY <1>1, <1>2

\* The invariants that the argument rests on are inductive together.
LEMMA BaseStep ==
    ASSUME Base, [Next]_vars
    PROVE  Base'
<1>1. IInv'
  BY StepPreserves DEF Base
<1>2. RecordsOwned' /\ BootAlone'
  BY OwnedStep, BootAloneStep DEF Base
<1>3. CopiesAgree' /\ FiredIsPast' /\ NotYetFired'
  BY <1>1, CopiesAgreeStep, FiredIsPastStep, NotYetFiredStep DEF Base
<1> QED
  BY <1>1, <1>2, <1>3 DEF Base

\* They hold of a scheduler that has not run yet.
LEMMA BaseInit ==
    ASSUME Init
    PROVE  Base /\ OneShotsSound
<1>1. RecordsOwned /\ BootAlone
  BY DEF Init, RecordsOwned, FromRequest, BootAlone, Started, Procs
<1>2. \A i \in Ids : Copies(i) = {}
  BY CopyDef DEF Init, Saving, Replacing, Active, Procs
<1>3. CopiesAgree /\ FiredIsPast /\ NotYetFired
  BY <1>2 DEF Init, CopiesAgree, FiredIsPast, NotYetFired, Active, Registering, Saving,
              Replacing, Procs
<1>4. OneShotsSound
  BY DEF Init, OneShotsSound, OneShot, Procs
<1> QED
  BY <1>1, <1>3, <1>4, InitEstablishes DEF Base

\* A one-shot job succeeds at most once, for any number of requests,
\* executions, retries, removals and restarts: neither the retry of a failed
\* execution nor the registration of the stored jobs after a restart runs a job
\* again that has succeeded.
THEOREM OneShotRunsOnce == Spec => []OneShotOnce
<1>1. Init => Base /\ OneShotsSound
  BY BaseInit
<1>2. Base /\ OneShotsSound /\ [Next]_vars => (Base /\ OneShotsSound)'
  BY BaseStep, OneShotsStep
<1>3. OneShotsSound => OneShotOnce
  BY DEF OneShotsSound, OneShotOnce, OneShot, ChancesSound, NoChanceAfterSuccess
<1> QED
  BY <1>1, <1>2, <1>3, PTL DEF Spec

-----------------------------------------------------------------------------
(* CanceledRepeatStaysGone.  Until the first restart a repeating job is    *)
(* registered once, by its request, so that the id which remove_job takes  *)
(* off the runtime is the only one it has (RepeatsKeepIds); an execution   *)
(* updates an entry but never makes one.                                   *)

\* A step that neither registers nor removes a job.
Undisturbed ==
    /\ crashes' = crashes /\ gone' = gone
    /\ runtime' \subseteq runtime /\ used' = used
    /\ \A i \in Ids : jobs'[i] # NoJob => jobs[i] # NoJob /\ jobs'[i].job = jobs[i].job
    /\ \A j \in Users :
          /\ rec'[j] = rec[j]
          /\ pc[j] \in Placed => pc'[j] \in Placed /\ id'[j] = id[j]

\* Most of the steps are of this kind.
LEMMA MostUndisturbed ==
    ASSUME IInv, crashes' = 0, [Next]_vars,
           \A p \in Procs : ~RegisterAdd(p) /\ ~RegisterInsert(p),
           \A u \in Users : ~AddJob(u) /\ ~RemoveEntry(u)
    PROVE  Undisturbed
<1>1. CASE UNCHANGED vars
  BY <1>1 DEF vars, Undisturbed
<1>2. ASSUME NEW p \in Procs, Register(p)
      PROVE  Undisturbed
  <2>1. CASE RegisterCheck(p)
    BY <2>1 DEF RegisterCheck, Goto, Undisturbed, Placed, procVars, IInv, TypeOK, Procs
  <2>2. CASE RegisterDrop(p)
    BY <2>2 DEF RegisterDrop, Goto, Undisturbed, Placed, procVars, histVars, IInv, TypeOK,
                Procs
  <2>3. CASE RegisterStoreDrop(p)
    BY <2>3 DEF RegisterStoreDrop, Goto, Undisturbed, Placed, procVars, histVars, IInv,
                TypeOK, Procs
  <2>4. CASE RegisterStoreSave(p)
    BY <2>4, DistinctAssumption
       DEF RegisterStoreSave, Caller, Goto, Undisturbed, Placed, procVars, IInv, TypeOK, Procs
  <2> QED
    BY <1>2, <2>1, <2>2, <2>3, <2>4 DEF Register
<1>3. ASSUME NEW u \in Users, RemoveJob(u)
      PROVE  Undisturbed
  BY <1>3 DEF RemoveJob, Goto, Undisturbed, Placed, histVars, IInv, TypeOK, Procs
<1>4. ASSUME NEW u \in Users, UserStep(u)
      PROVE  Undisturbed
  <2>1. CASE RemoveRuntime(u)
    BY <2>1 DEF RemoveRuntime, Goto, Undisturbed, Placed, procVars, histVars, IInv, TypeOK,
                Procs
  <2>2. CASE RemoveStore(u)
    BY <2>2 DEF RemoveStore, Goto, Undisturbed, Placed, procVars, histVars, IInv, TypeOK,
                Procs
  <2> QED
    BY <1>2, <1>4, <2>1, <2>2 DEF UserStep, Procs
<1>5. ASSUME NEW e \in Execs, Fire(e)
      PROVE  Undisturbed
  <2>1. PICK i \in runtime, r \in Records : Fires(e, i, r)
    BY <1>5, FireFacts
  <2>2. UNCHANGED <<crashes, gone, used, jobs>> /\ runtime' \subseteq runtime
    BY <2>1 DEF Fires, histVars
  <2>3. \A j \in Users : rec'[j] = rec[j] /\ pc'[j] = pc[j] /\ id'[j] = id[j]
    BY <2>1, DistinctAssumption DEF Fires, IInv, TypeOK, Procs
  <2> QED
    BY <2>2, <2>3 DEF Undisturbed
<1>6. ASSUME NEW e \in Execs, UpdateStatus(e)
      PROVE  Undisturbed
  <2>1. id[e] \in Ids /\ ok[e] \in BOOLEAN
    BY <1>6 DEF UpdateStatus, IInv, TypeOK, ExecutingSound, Active
  <2>2. \A i \in Ids : jobs'[i] # NoJob => jobs[i] # NoJob /\ jobs'[i].job = jobs[i].job
    <3>1. CASE jobs[id[e]] = NoJob
      BY <1>6, <3>1 DEF UpdateStatus
    <3>2. CASE jobs[id[e]] # NoJob
      <4>1. Counted(jobs[id[e]], ok[e]).job = jobs[id[e]].job
        BY <2>1, <3>2, CountedFacts DEF IInv, TypeOK
      <4> QED
        BY <1>6, <2>1, <3>2, <4>1 DEF UpdateStatus, IInv, TypeOK
    <3> QED
      BY <3>1, <3>2
  <2>3. UNCHANGED <<crashes, gone, used, runtime, rec, id>>
    BY <1>6 DEF UpdateStatus, procVars, histVars
  <2>4. \A j \in Users : pc'[j] = pc[j]
    BY <1>6, DistinctAssumption DEF UpdateStatus, Goto, IInv, TypeOK, Procs
  <2> QED
    BY <2>2, <2>3, <2>4 DEF Undisturbed
<1>7. ASSUME NEW e \in Execs, ExecuteEnds(e) \/ Disable(e) \/ SaveStatus(e)
      PROVE  Undisturbed
  <2>1. UNCHANGED <<crashes, gone, used, jobs, id>> /\ runtime' \subseteq runtime
    BY <1>7 DEF ExecuteEnds, Disable, SaveStatus, procVars, histVars
  <2>2. \A j \in Users : rec'[j] = rec[j] /\ pc'[j] = pc[j]
    BY <1>7, DistinctAssumption
       DEF ExecuteEnds, Disable, SaveStatus, Goto, procVars, IInv, TypeOK, Procs
  <2> QED
    BY <2>1, <2>2 DEF Undisturbed
<1>8. CASE LoadNext
  <2>1. UNCHANGED <<crashes, gone, used, jobs, id, runtime>>
    BY <1>8 DEF LoadNext, histVars
  <2>2. \A j \in Users : rec'[j] = rec[j] /\ pc'[j] = pc[j]
    BY <1>8, DistinctAssumption DEF LoadNext, Goto, IInv, TypeOK, Procs
  <2> QED
    BY <2>1, <2>2 DEF Undisturbed
<1>9. CASE Tick
  BY <1>9 DEF Tick, Undisturbed, procVars, histVars
<1>10. CASE Crash
  BY <1>10 DEF Crash, IInv, TypeOK
<1> QED
  BY <1>1, <1>2, <1>3, <1>4, <1>5, <1>6, <1>7, <1>8, <1>9, <1>10
     DEF Next, UserStep, ExecStep, BootStep, Procs

\* What is known of the jobs that have been removed and of the ids of repeating
\* jobs; the conjunction is inductive.
RepeatsSound == RepeatsKeepIds /\ CanceledRepeatStaysGone

\* Jobs of requests, with the first restart out of the way.
LEMMA RepeatsSpelledOut ==
    ASSUME RepeatsSound, crashes = 0
    PROVE  /\ \A i \in Ids : jobs[i] # NoJob /\ Repeating(jobs[i].job) =>
                 pc[jobs[i].job] \in Placed /\ id[jobs[i].job] = i
           /\ \A j \in gone : rec[j] # NoJob
           /\ \A j \in gone : Repeating(j) =>
                 /\ pc[j] \in Placed /\ id[j] \in used \ runtime
                 /\ \A i \in Ids : jobs[i] # NoJob => jobs[i].job # j
BY DEF RepeatsSound, RepeatsKeepIds, CanceledRepeatStaysGone, Repeating

\* Every step keeps them.
LEMMA RepeatsStep ==
    ASSUME Base, EnabledUntilCounted, RepeatsSound, [Next]_vars
    PROVE  RepeatsSound'
<1>1. SUFFICES ASSUME crashes' = 0
               PROVE  RepeatsSound'
  BY DEF RepeatsSound, RepeatsKeepIds, CanceledRepeatStaysGone
<1>2. crashes = 0
  <2>1. CASE Crash
    BY <1>1, <2>1 DEF Crash, Base, IInv, TypeOK
  <2>2. CASE ~Crash
    BY <1>1, <2>2
       DEF Next, vars, UserStep, ExecStep, BootStep, Register, RegisterCheck, RegisterAdd,
           RegisterInsert, RegisterDrop, RegisterStoreDrop, RegisterStoreSave, AddJob,
           RemoveJob, RemoveRuntime, RemoveStore, RemoveEntry, Fire, ExecuteEnds,
           UpdateStatus, Disable, SaveStatus, LoadNext, Tick
  <2> QED
    BY <2>1, <2>2
<1>3. /\ \A i \in Ids : jobs[i] # NoJob => jobs[i].job \in Users
      /\ gone \subseteq Users /\ Users \subseteq Procs
  BY JobsAreUsers DEF Base, IInv, TypeOK, Procs
<1>4. CASE Undisturbed
  BY <1>2, <1>3, <1>4, RepeatsSpelledOut
     DEF Undisturbed, RepeatsSound, RepeatsKeepIds, CanceledRepeatStaysGone, Repeating
<1>5. ASSUME NEW p \in Procs, RegisterAdd(p)
      PROVE  RepeatsSound'
  <2>1. PICK i \in Ids \ used : /\ id' = [id EXCEPT ![p] = i]
                                /\ used' = used \union {i} /\ runtime' = runtime \union {i}
    BY <1>5 DEF RegisterAdd
  <2>2. UNCHANGED <<jobs, rec, gone>> /\ pc[p] = "lock"
    BY <1>5 DEF RegisterAdd, histVars
  <2>3. \A j \in Users : pc[j] \in Placed => pc'[j] = pc[j] /\ id'[j] = id[j]
    BY <1>3, <1>5, <2>1, <2>2 DEF RegisterAdd, Goto, Base, IInv, TypeOK, Placed
  <2> QED
    BY <1>2, <1>3, <2>1, <2>2, <2>3, RepeatsSpelledOut
       DEF RepeatsSound, RepeatsKeepIds, CanceledRepeatStaysGone, Repeating
<1>6. ASSUME NEW p \in Procs, RegisterInsert(p)
      PROVE  RepeatsSound'
  <2>1. /\ rec[p] \in Records /\ id[p] \in Ids /\ pc[p] = "inserting"
        /\ jobs' = [jobs EXCEPT ![id[p]] = rec[p]]
        /\ UNCHANGED <<runtime, used, rec, id, gone>>
    BY <1>6 DEF RegisterInsert, Base, IInv, TypeOK, RegisteringSound, Registering, procVars,
                histVars
  <2>2. \A j \in Users : pc[j] \in Placed => pc'[j] = pc[j]
    BY <1>3, <1>6, <2>1 DEF RegisterInsert, Goto, Base, IInv, TypeOK, Placed
  <2>3. rec[p].job \in Users /\ (Repeating(rec[p].job) => rec[p].job = p /\ p \in Users)
    <3>1. rec[p].job \in Users /\ FromRequest(rec[p]) /\ rec[p] # NoJob
      BY <2>1, RecordFacts, NoJobAssumption DEF Base, RecordsOwned, Records
    <3>2. p # Boot
      BY <1>2, <2>1 DEF EnabledUntilCounted, Started
    <3>3. p \in Execs => rec[p].kind = "at"
      BY <2>1 DEF Base, FiredIsPast, Registering
    <3>4. p \in Users => rec[p].job = p
      BY <3>1 DEF Base, RecordsOwned
    <3> QED
      BY <3>1, <3>2, <3>3, <3>4 DEF Procs, Repeating, FromRequest
  <2>4. p \in Users => pc'[p] \in Placed
    BY <1>6 DEF RegisterInsert, Goto, Base, IInv, TypeOK, RegisteringSound, Placed
  <2>5. p \in gone => ~Repeating(p)
    BY <1>2, <2>1, RepeatsSpelledOut DEF Placed
  <2>6. \A j \in Users : Repeating(j)' <=> Repeating(j)
    BY <2>1 DEF Repeating
  <2>7. \A i \in Ids : jobs'[i] = IF i = id[p] THEN rec[p] ELSE jobs[i]
    BY <2>1 DEF Base, IInv, TypeOK
  <2>8. ASSUME NEW i \in Ids, jobs'[i] # NoJob, Repeating(jobs'[i].job)
        PROVE  pc'[jobs'[i].job] \in Placed /\ id[jobs'[i].job] = i
    BY <1>2, <1>3, <2>2, <2>3, <2>4, <2>7, <2>8, RepeatsSpelledOut
  <2>9. ASSUME NEW j \in gone, Repeating(j), NEW i \in Ids, jobs'[i] # NoJob
        PROVE  jobs'[i].job # j
    BY <1>2, <2>3, <2>5, <2>7, <2>9, RepeatsSpelledOut
  <2>10. RepeatsKeepIds'
    <3>1. \A i \in Ids : jobs'[i] # NoJob => jobs'[i].job \in Users
      BY <1>3, <2>3, <2>7
    <3> QED
      BY <1>2, <1>3, <2>1, <2>2, <2>6, <2>8, <3>1, RepeatsSpelledOut DEF RepeatsKeepIds
  <2>11. CanceledRepeatStaysGone'
    BY <1>2, <2>1, <2>9, RepeatsSpelledOut DEF CanceledRepeatStaysGone, Repeating
  <2> QED
    BY <2>10, <2>11 DEF RepeatsSound
<1>7. ASSUME NEW u \in Users, AddJob(u)
      PROVE  RepeatsSound'
  <2>1. /\ UNCHANGED <<runtime, used, jobs, id, gone>> /\ pc[u] = "off" /\ rec[u] = NoJob
        /\ \A j \in Users \ {u} : rec'[j] = rec[j] /\ pc'[j] = pc[j]
    BY <1>7 DEF AddJob, Goto, histVars, Base, IInv, TypeOK, RecordsOwned, Procs
  <2>2. u \notin gone /\ \A i \in Ids : jobs[i] # NoJob => jobs[i].job # u
    BY <1>2, <2>1, RepeatsSpelledOut DEF Base, RecordsOwned, FromRequest
  <2> QED
    BY <1>2, <1>3, <2>1, <2>2, RepeatsSpelledOut
       DEF RepeatsSound, RepeatsKeepIds, CanceledRepeatStaysGone, Repeating
<1>8. ASSUME NEW u \in Users, RemoveEntry(u)
      PROVE  RepeatsSound'
  <2>1. /\ id[u] \in Ids /\ id[u] \in used \ runtime
        /\ gone' = IF jobs[id[u]] = NoJob THEN gone ELSE gone \union {jobs[id[u]].job}
        /\ jobs' = [jobs EXCEPT ![id[u]] = NoJob]
        /\ UNCHANGED <<runtime, used, rec, id>>
    BY <1>8 DEF RemoveEntry, Base, IInv, TypeOK, RemovingSound, procVars
  <2>2. \A j \in Users : pc[j] \in Placed => pc'[j] = pc[j]
    BY <1>3, <1>8 DEF RemoveEntry, Goto, Base, IInv, TypeOK, Placed
  <2>3. \A i \in Ids : jobs'[i] # NoJob => i # id[u] /\ jobs'[i] = jobs[i]
    BY <2>1 DEF Base, IInv, TypeOK
  <2>4. \A i \in Ids : jobs[i] # NoJob => rec[jobs[i].job] # NoJob
    BY DEF Base, RecordsOwned, FromRequest
  <2> QED
    BY <1>2, <1>3, <2>1, <2>2, <2>3, <2>4, RepeatsSpelledOut
       DEF RepeatsSound, RepeatsKeepIds, CanceledRepeatStaysGone, Repeating
<1> QED
  BY <1>1, <1>4, <1>5, <1>6, <1>7, <1>8, MostUndisturbed DEF Base

\* Until the first restart a repeating job that remove_job has removed stays
\* removed, for any number of requests and of executions in flight: none of
\* them puts the job back into the map or leaves it on the runtime.
THEOREM CanceledRepeatsEnd == Spec => []CanceledRepeatStaysGone
<1> DEFINE All == /\ Base /\ RepeatsSound
                  /\ SoleExecution /\ EnabledUntilCounted /\ DisabledJobOff
<1>1. Init => All
  <2>1. Init => SoleExecution /\ EnabledUntilCounted /\ DisabledJobOff /\ RepeatsSound
    BY DEF Init, SoleExecution, EnabledUntilCounted, DisabledJobOff, RepeatsSound,
           RepeatsKeepIds, CanceledRepeatStaysGone, Started, Active, Registering, Procs
  <2> QED
    BY <2>1, BaseInit
<1>2. All /\ [Next]_vars => All'
  <2>1. Base => IInv
    BY DEF Base
  <2> QED
    BY <2>1, BaseStep, SoleExecutionStep, EnabledStep, DisabledStep, RepeatsStep
<1>3. All => CanceledRepeatStaysGone
  BY DEF RepeatsSound
<1> QED
  BY <1>1, <1>2, <1>3, PTL DEF Spec
=============================================================================
