--------------------------- MODULE CronScheduler ---------------------------
(***************************************************************************)
(* The scheduler of persistent jobs (crates/scheduler/src/lib.rs): the map *)
(* `jobs', the redb store, and the tokio_cron_scheduler runtime behind a   *)
(* tokio Mutex.                                                            *)
(*                                                                         *)
(* A registration gives the job a new id, so a job moves from id to id     *)
(* when it is retried or loaded after a restart.  `jobs' is a DashMap:     *)
(* get_mut locks a shard, and update_job_status keeps that lock while it   *)
(* waits for the Mutex and for the store.                                  *)
(*                                                                         *)
(* A member of Users is one request of the cron tool or the gateway        *)
(* (add_job or remove_job); an added job is named after its request.  A    *)
(* member of Execs is one execution of a job.  Boot is load_jobs.          *)
(***************************************************************************)
EXTENDS Naturals, FiniteSets

CONSTANTS Users,      \* requests; bounds the number of jobs
          Execs,      \* executions; bounds how often jobs fire
          Boot,       \* the process that runs load_jobs
          Ids,        \* ids of registered jobs; bounds the registrations
          ShardOf,    \* the shard of the DashMap that an id hashes to
          NoJob, NoId, NoProc,
          MaxRetries, \* CronJob.max_retries (3 in the code)
          MaxTime,    \* bounds the clock
          MaxCrashes  \* bounds the restarts

ASSUME DistinctAssumption ==
    /\ Users \intersect Execs = {} /\ Boot \notin Users \union Execs
    /\ NoProc \notin Users \union Execs \union {Boot}
    /\ NoId \notin Ids
ASSUME BoundsAssumption ==
    MaxRetries \in Nat /\ MaxTime \in Nat /\ MaxCrashes \in Nat

Procs == Users \union Execs \union {Boot}
Shards == {ShardOf[i] : i \in Ids}
Times == 0..(MaxTime + 1)

\* A CronJob.  `at' is the time of an At schedule; Every and Cron schedules
\* are repeating.
Records == [job : Users, kind : {"at", "repeat"}, at : Times, errors : Nat,
            enabled : BOOLEAN]
ASSUME NoJobAssumption == NoJob \notin Records

VARIABLES now,      \* the clock
          runtime,  \* ids registered with the JobScheduler
          jobs,     \* Scheduler.jobs
          store,    \* the cron_jobs table
          mutex,    \* the owner of Scheduler.scheduler
          guard,    \* the process that holds a shard of jobs
          used,     \* ids that have been given out
          pc,       \* where each process stands
          rec,      \* the CronJob a process registers
          old,      \* its id_original
          id,       \* its registered_id, the id it removes, or the id it executes
          ok,       \* an execution has succeeded
          todo,     \* what load_jobs has read and not yet registered
          crashes,  \* restarts so far
          runs,     \* history: successful executions of each job
          gone,     \* history: jobs that remove_job has reported as removed
          accepted  \* history: jobs that add_job has accepted

procVars == <<rec, old, id, ok>>
histVars == <<runs, gone, accepted>>
vars == <<now, runtime, jobs, store, mutex, guard, used, pc, rec, old, id, ok, todo,
          crashes, runs, gone, accepted>>

\* Registering: the states of register_job_runtime.
Registering == {"register", "lock", "inserting", "dropping", "storeDrop", "storeSave"}
UserStates == {"off", "rmLock", "rmStore", "rmJobs", "done"} \union Registering
ExecStates == {"off", "executing", "status", "disable", "save", "saveRetry", "done"}
                \union Registering
BootStates == {"off", "loading"} \union Registering

TypeOK ==
    /\ now \in 0..MaxTime
    /\ runtime \subseteq used /\ used \subseteq Ids
    /\ jobs \in [Ids -> Records \union {NoJob}]
    /\ store \in [Ids -> Records \union {NoJob}]
    /\ mutex \in Procs \union {NoProc}
    /\ guard \in [Shards -> Execs \union {NoProc}]
    /\ pc \in [Procs -> UserStates \union ExecStates \union BootStates]
    /\ rec \in [Procs -> Records \union {NoJob}]
    /\ old \in [Procs -> Ids \union {NoId}]
    /\ id \in [Procs -> Ids \union {NoId}]
    /\ ok \in [Execs -> BOOLEAN]
    /\ todo \in [Ids -> Records \union {NoJob}]
    /\ crashes \in 0..MaxCrashes
    /\ runs \in [Users -> Nat]
    /\ gone \subseteq Users /\ accepted \subseteq Users

Init ==
    /\ now = 0
    /\ runtime = {} /\ used = {}
    /\ jobs = [i \in Ids |-> NoJob]
    /\ store = [i \in Ids |-> NoJob]
    /\ todo = [i \in Ids |-> NoJob]
    /\ mutex = NoProc
    /\ guard = [s \in Shards |-> NoProc]
    /\ pc = [p \in Procs |-> "off"]
    /\ rec = [p \in Procs |-> NoJob]
    /\ old = [p \in Procs |-> NoId]
    /\ id = [p \in Procs |-> NoId]
    /\ ok = [e \in Execs |-> FALSE]
    /\ crashes = 0
    /\ runs = [j \in Users |-> 0]
    /\ gone = {} /\ accepted = {}

Goto(p, state) == pc' = [pc EXCEPT ![p] = state]

\* The scheduler has been started: load_jobs is over.
Started == pc[Boot] = "off"

\* No other process holds the shard of i.
ShardFree(i) == guard[ShardOf[i]] = NoProc

-----------------------------------------------------------------------------
(* register_job_runtime, called by add_job, update_job_status and load_jobs *)

\* Where the caller goes on.
Caller(p) == IF p = Boot THEN "loading" ELSE "done"

\* Mutant of RegisterCheck: a time in the past is not looked for.
RegisterCheckAny(p) ==
    /\ pc[p] = "register"
    /\ Goto(p, "lock")
    /\ UNCHANGED <<now, runtime, jobs, store, mutex, guard, used, procVars, todo, crashes,
                   histVars>>

\* An At schedule that is not in the future returns Ok(id) at once.
RegisterCheck(p) ==
    /\ pc[p] = "register"
    /\ \/ /\ rec[p].kind = "at" /\ rec[p].at <= now
          /\ Goto(p, Caller(p))
          /\ accepted' = accepted \union {rec[p].job}
       \/ /\ ~(rec[p].kind = "at" /\ rec[p].at <= now)
          /\ Goto(p, "lock")
          /\ UNCHANGED accepted
    /\ UNCHANGED <<now, runtime, jobs, store, mutex, guard, used, procVars, todo, crashes,
                   runs, gone>>

\* Mutant of RegisterAdd: an id may be given out twice.
RegisterAddSameId(p) ==
    /\ pc[p] = "lock"
    /\ mutex = NoProc
    /\ \E i \in Ids \ used :
          /\ id' = [id EXCEPT ![p] = i]
          /\ runtime' = runtime \union {i}
    /\ mutex' = p
    /\ Goto(p, "inserting")
    /\ UNCHANGED <<now, jobs, store, guard, used, rec, old, ok, todo, crashes, histVars>>

\* Lock the Mutex and add the job to the runtime, which gives it a new id.
RegisterAdd(p) ==
    /\ pc[p] = "lock"
    /\ mutex = NoProc
    /\ \E i \in Ids \ used :
          /\ id' = [id EXCEPT ![p] = i]
          /\ used' = used \union {i}
          /\ runtime' = runtime \union {i}
    /\ mutex' = p
    /\ Goto(p, "inserting")
    /\ UNCHANGED <<now, jobs, store, guard, rec, old, ok, todo, crashes, histVars>>

\* self.jobs.insert(registered_id, cron_job)
RegisterInsert(p) ==
    /\ pc[p] = "inserting"
    /\ ShardFree(id[p])
    /\ jobs' = [jobs EXCEPT ![id[p]] = rec[p]]
    /\ Goto(p, IF old[p] = NoId THEN "storeSave" ELSE "dropping")
    /\ UNCHANGED <<now, runtime, store, mutex, guard, used, procVars, todo, crashes, histVars>>

\* self.jobs.remove(&id_original)
RegisterDrop(p) ==
    /\ pc[p] = "dropping"
    /\ ShardFree(old[p])
    /\ jobs' = [jobs EXCEPT ![old[p]] = NoJob]
    /\ Goto(p, "storeDrop")
    /\ UNCHANGED <<now, runtime, store, mutex, guard, used, procVars, todo, crashes, histVars>>

\* store.remove_job(id_original)
RegisterStoreDrop(p) ==
    /\ pc[p] = "storeDrop"
    /\ store' = [store EXCEPT ![old[p]] = NoJob]
    /\ Goto(p, "storeSave")
    /\ UNCHANGED <<now, runtime, jobs, mutex, guard, used, procVars, todo, crashes, histVars>>

\* store.save_job(&cron_job), in a transaction of its own; the Mutex is
\* released on return.
RegisterStoreSave(p) ==
    /\ pc[p] = "storeSave"
    /\ store' = [store EXCEPT ![id[p]] = rec[p]]
    /\ mutex' = NoProc
    /\ Goto(p, Caller(p))
    /\ accepted' = accepted \union {rec[p].job}
    /\ UNCHANGED <<now, runtime, jobs, guard, used, procVars, todo, crashes, runs, gone>>

Register(p) ==
    \/ RegisterCheck(p) \/ RegisterAdd(p) \/ RegisterInsert(p) \/ RegisterDrop(p)
    \/ RegisterStoreDrop(p) \/ RegisterStoreSave(p)

-----------------------------------------------------------------------------
(* Requests: add_job and remove_job *)

\* add_job; the id it makes up is in no map, so it is left out.
AddJob(u) ==
    /\ pc[u] = "off" /\ Started
    /\ \E kind \in {"at", "repeat"}, at \in 0..MaxTime :
          rec' = [rec EXCEPT ![u] = [job |-> u, kind |-> kind, at |-> at, errors |-> 0,
                                     enabled |-> TRUE]]
    /\ Goto(u, "register")
    /\ UNCHANGED <<now, runtime, jobs, store, mutex, guard, used, old, id, ok, todo, crashes,
                   histVars>>

\* remove_job(id) of a listed job
RemoveJob(u) ==
    /\ pc[u] = "off" /\ Started
    /\ \E i \in Ids : jobs[i] # NoJob /\ id' = [id EXCEPT ![u] = i]
    /\ Goto(u, "rmLock")
    /\ UNCHANGED <<now, runtime, jobs, store, mutex, guard, used, rec, old, ok, todo, crashes,
                   histVars>>

\* Mutant of RemoveRuntime: the job stays scheduled.
RemoveRuntimeSkipped(u) ==
    /\ pc[u] = "rmLock"
    /\ mutex = NoProc
    /\ mutex' = u
    /\ Goto(u, "rmStore")
    /\ UNCHANGED <<now, runtime, jobs, store, guard, used, procVars, todo, crashes, histVars>>

\* Lock the Mutex, sched.remove(&id)
RemoveRuntime(u) ==
    /\ pc[u] = "rmLock"
    /\ mutex = NoProc
    /\ mutex' = u
    /\ runtime' = runtime \ {id[u]}
    /\ Goto(u, "rmStore")
    /\ UNCHANGED <<now, jobs, store, guard, used, procVars, todo, crashes, histVars>>

\* store.remove_job(id)
RemoveStore(u) ==
    /\ pc[u] = "rmStore"
    /\ store' = [store EXCEPT ![id[u]] = NoJob]
    /\ Goto(u, "rmJobs")
    /\ UNCHANGED <<now, runtime, jobs, mutex, guard, used, procVars, todo, crashes, histVars>>

\* self.jobs.remove(&id).is_some()
RemoveEntry(u) ==
    /\ pc[u] = "rmJobs"
    /\ ShardFree(id[u])
    /\ gone' = IF jobs[id[u]] = NoJob THEN gone ELSE gone \union {jobs[id[u]].job}
    /\ jobs' = [jobs EXCEPT ![id[u]] = NoJob]
    /\ mutex' = NoProc
    /\ Goto(u, "done")
    /\ UNCHANGED <<now, runtime, store, guard, used, procVars, todo, crashes, runs, accepted>>

-----------------------------------------------------------------------------
(* Executions *)

\* The schedule that the runtime was given with an id: what register_job_runtime
\* has built the job from, kept here by the entry or by the registering process.
Scheduled(i) ==
    {jobs[i]} \union {rec[p] : p \in {q \in Procs : pc[q] = "inserting" /\ id[q] = i}}

\* The runtime fires a job (tokio_cron_scheduler): a one-shot job when its time
\* has come, and only once; a repeating one whenever its schedule says so.
Fire(e) ==
    /\ pc[e] = "off" /\ Started
    /\ \E i \in runtime : \E r \in Scheduled(i) \ {NoJob} :
          /\ r.kind = "at" => r.at <= now
          /\ runtime' = IF r.kind = "at" THEN runtime \ {i} ELSE runtime
          /\ id' = [id EXCEPT ![e] = i]
          /\ rec' = [rec EXCEPT ![e] = r]
    /\ Goto(e, "executing")
    /\ UNCHANGED <<now, jobs, store, mutex, guard, used, old, ok, todo, crashes, histVars>>

\* execute_payload: the handler succeeds, fails or times out.
ExecuteEnds(e) ==
    /\ pc[e] = "executing"
    /\ \E success \in BOOLEAN :
          /\ ok' = [ok EXCEPT ![e] = success]
          /\ runs' = [runs EXCEPT ![rec[e].job] = IF success THEN @ + 1 ELSE @]
    /\ Goto(e, "status")
    /\ UNCHANGED <<now, runtime, jobs, store, mutex, guard, used, rec, old, id, todo, crashes,
                   gone, accepted>>

\* What an execution makes of the entry of its job: count the error, and
\* disable the job when it has used up its retries.
Exhausted(r, success) == ~success /\ r.errors + 1 > MaxRetries

Counted(r, success) ==
    [r EXCEPT !.errors = IF success THEN 0 ELSE r.errors + 1,
              !.enabled = r.enabled /\ ~Exhausted(r, success)]

\* Mutant of UpdateStatus: an entry that is gone is put back.
UpdateStatusReinserts(e) ==
    /\ pc[e] = "status"
    /\ ShardFree(id[e])
    /\ jobs' = [jobs EXCEPT ![id[e]] = Counted(IF @ = NoJob THEN rec[e] ELSE @, ok[e])]
    /\ Goto(e, "done")
    /\ UNCHANGED <<now, runtime, store, mutex, guard, used, procVars, todo, crashes, histVars>>

\* update_job_status: jobs.get_mut(&id) locks the shard of the entry.
UpdateStatus(e) ==
    /\ pc[e] = "status"
    /\ ShardFree(id[e])
    /\ \/ /\ jobs[id[e]] = NoJob
          /\ Goto(e, "done")
          /\ UNCHANGED <<jobs, guard>>
       \/ /\ jobs[id[e]] # NoJob
          /\ jobs' = [jobs EXCEPT ![id[e]] = Counted(jobs[id[e]], ok[e])]
          /\ guard' = [guard EXCEPT ![ShardOf[id[e]]] = e]
          /\ Goto(e, IF Exhausted(jobs[id[e]], ok[e]) THEN "disable"
                     ELSE IF ~ok[e] /\ jobs[id[e]].kind = "at" THEN "saveRetry"
                     ELSE "save")
    /\ UNCHANGED <<now, runtime, store, mutex, used, procVars, todo, crashes, histVars>>

\* Mutant of Disable: only the flag is cleared.
DisableFlagOnly(e) ==
    /\ pc[e] = "disable"
    /\ Goto(e, "save")
    /\ UNCHANGED <<now, runtime, jobs, store, mutex, guard, used, procVars, todo, crashes,
                   histVars>>

\* Too many errors: lock the Mutex, with the shard still locked, and take the
\* job off the runtime.
Disable(e) ==
    /\ pc[e] = "disable"
    /\ mutex = NoProc
    /\ runtime' = runtime \ {id[e]}
    /\ Goto(e, "save")
    /\ UNCHANGED <<now, jobs, store, mutex, guard, used, procVars, todo, crashes, histVars>>

\* store.save_job(&job), and the shard is unlocked.  A failed one-shot job is
\* registered again, for a later time.
SaveStatus(e) ==
    /\ pc[e] \in {"save", "saveRetry"}
    /\ store' = [store EXCEPT ![id[e]] = jobs[id[e]]]
    /\ guard' = [guard EXCEPT ![ShardOf[id[e]]] = NoProc]
    /\ \/ pc[e] = "save" /\ Goto(e, "done") /\ UNCHANGED <<rec, old>>
       \/ /\ pc[e] = "saveRetry"
          /\ Goto(e, "register")
          /\ rec' = [rec EXCEPT ![e] = [jobs[id[e]] EXCEPT !.at = now + 1]]
          /\ old' = [old EXCEPT ![e] = id[e]]
    /\ UNCHANGED <<now, runtime, jobs, mutex, used, id, ok, todo, crashes, histVars>>

-----------------------------------------------------------------------------
(* Time, crash and restart *)

Tick ==
    /\ now < MaxTime
    /\ now' = now + 1
    /\ UNCHANGED <<runtime, jobs, store, mutex, guard, used, pc, procVars, todo, crashes,
                   histVars>>

\* Everything but the store is lost; the restarted process loads the store.
Crash ==
    /\ crashes < MaxCrashes
    /\ crashes' = crashes + 1
    /\ runtime' = {}
    /\ jobs' = [i \in Ids |-> NoJob]
    /\ mutex' = NoProc
    /\ guard' = [s \in Shards |-> NoProc]
    /\ pc' = [p \in Procs |-> IF p = Boot THEN "loading"
                              ELSE IF pc[p] = "off" THEN "off" ELSE "done"]
    /\ todo' = store
    /\ UNCHANGED <<now, store, used, procVars, histVars>>

\* load_jobs: register the next of the stored jobs, or be done.
LoadNext ==
    /\ pc[Boot] = "loading"
    /\ \/ \E i \in {j \in Ids : todo[j] # NoJob} :
             /\ todo' = [todo EXCEPT ![i] = NoJob]
             /\ rec' = [rec EXCEPT ![Boot] = todo[i]]
             /\ old' = [old EXCEPT ![Boot] = i]
             /\ Goto(Boot, "register")
       \/ /\ \A i \in Ids : todo[i] = NoJob
          /\ Goto(Boot, "off")
          /\ UNCHANGED <<todo, rec, old>>
    /\ UNCHANGED <<now, runtime, jobs, store, mutex, guard, used, id, ok, crashes, histVars>>

-----------------------------------------------------------------------------

UserStep(u) == RemoveRuntime(u) \/ RemoveStore(u) \/ RemoveEntry(u) \/ Register(u)

ExecStep(e) ==
    ExecuteEnds(e) \/ UpdateStatus(e) \/ Disable(e) \/ SaveStatus(e) \/ Register(e)

BootStep == LoadNext \/ Register(Boot)

Next ==
    \/ \E u \in Users : AddJob(u) \/ RemoveJob(u) \/ UserStep(u)
    \/ \E e \in Execs : Fire(e) \/ ExecStep(e)
    \/ BootStep \/ Tick \/ Crash

Spec == Init /\ [][Next]_vars

\* Tasks that have been spawned are polled, time passes and due jobs fire.
FairSpec ==
    /\ Spec
    /\ \A u \in Users : WF_vars(UserStep(u))
    /\ \A e \in Execs : WF_vars(ExecStep(e))
    /\ WF_vars(\E e \in Execs : Fire(e))
    /\ WF_vars(BootStep) /\ WF_vars(Tick)

-----------------------------------------------------------------------------
(* Properties *)

\* The process that owns the Mutex has just added i to the runtime.
BeingInserted(i) == \E p \in Procs : mutex = p /\ pc[p] = "inserting" /\ id[p] = i

\* Whatever the runtime may fire can be listed and removed, and its outcome
\* recorded: it is in the map of jobs, or just about to be put there.
ScheduledJobsKnown == \A i \in runtime : jobs[i] # NoJob \/ BeingInserted(i)

\* A one-shot job succeeds at most once, whatever fails and restarts: neither
\* a retry nor a restart runs it again.
OneShotOnce ==
    \A j \in Users : rec[j] # NoJob /\ rec[j].kind = "at" => runs[j] <= 1

\* A job that has used up its retries is off: it is not scheduled any more,
\* unless its execution is about to take it off.  (Until the first restart,
\* which schedules every stored job again.)
DisabledJobOff ==
    crashes = 0 =>
        \A i \in runtime :
            jobs[i] # NoJob /\ ~jobs[i].enabled =>
                \E e \in Execs : pc[e] = "disable" /\ id[e] = i

\* A repeating job that remove_job has removed stays removed, whatever its
\* executions are doing: no execution puts it back into the map, and it is not
\* scheduled any more.  (Until the first restart: an execution may have saved
\* the job after remove_job has taken it out of the store.)
CanceledRepeatStaysGone ==
    crashes = 0 =>
        \A j \in gone : rec[j].kind = "repeat" =>
            /\ id[j] \notin runtime
            /\ \A i \in Ids : jobs[i] # NoJob => jobs[i].job # j

-----------------------------------------------------------------------------
(* Statements that the code does not meet: TLC finds a counterexample to     *)
(* each of them (see README.md).                                             *)

\* "Successfully scheduled": an accepted job runs.  (Checked for jobs that
\* nobody removes and on a scheduler that does not crash.)
ScheduledJobRuns ==
    \A u \in Users :
        u \in accepted ~> \E e \in Execs : rec[e] # NoJob /\ rec[e].job = u

\* "Successfully canceled": a job that remove_job has removed is not scheduled.
CanceledJobStaysGone == \A i \in runtime : jobs[i] # NoJob => jobs[i].job \notin gone

\* No request so far has been one to remove a job.
NobodyRemoves == \A u \in Users : pc[u] # "off" => rec[u] # NoJob

\* Cron jobs are persistent: a repeating job that add_job has accepted stays
\* in the store across restarts until somebody removes it.
PersistedJobStays ==
    Started /\ NobodyRemoves =>
        \A u \in accepted : rec[u].kind = "repeat" =>
            \E i \in Ids : store[i] # NoJob /\ store[i].job = u

\* A request to remove a job is answered.
RemovalReturns == \A u \in Users : pc[u] = "rmLock" ~> pc[u] = "done"

-----------------------------------------------------------------------------
(* The parts of the inductive invariant behind ScheduledJobsKnown *)

Owning == {"inserting", "dropping", "storeDrop", "storeSave", "rmStore", "rmJobs"}
Active == {"executing", "status", "disable", "save", "saveRetry"}
Guarding == {"disable", "save", "saveRetry"}

\* Who is inside a critical section owns the Mutex.
MutexOwned == \A p \in Procs : pc[p] \in Owning => mutex = p

\* Ids are given out once: what has left the runtime never comes back.
IdsFresh ==
    /\ \A i \in Ids : jobs[i] # NoJob \/ store[i] # NoJob => i \in used
    /\ \A i \in Ids : todo[i] # NoJob => i \in used \ runtime

\* A registering process has a record, and the id it replaces is not scheduled.
RegisteringSound ==
    /\ \A p \in Procs : pc[p] \in Registering =>
          /\ rec[p] \in Records
          /\ old[p] = NoId \/ old[p] \in used \ runtime
          /\ pc[p] \in {"dropping", "storeDrop"} => old[p] # NoId
          /\ pc[p] \in {"inserting", "dropping", "storeDrop", "storeSave"} => id[p] \in used
          /\ pc[p] = "inserting" => jobs[id[p]] = NoJob
    /\ \A u \in Users : old[u] = NoId

\* A job that is being removed has left the runtime first.
RemovingSound ==
    \A u \in Users :
        /\ pc[u] \in {"rmLock", "rmStore", "rmJobs"} => id[u] \in used
        /\ pc[u] \in {"rmStore", "rmJobs"} => id[u] \notin runtime

\* An execution knows the kind of its job, a one-shot job that is executed has
\* left the runtime, and an entry that is being updated stays.
ExecutingSound ==
    \A e \in Execs : pc[e] \in Active =>
        /\ id[e] \in used /\ rec[e] \in Records
        /\ rec[e].kind = "at" => id[e] \notin runtime
        /\ jobs[id[e]] # NoJob => jobs[id[e]].kind = rec[e].kind
        /\ \A p \in Procs : pc[p] = "inserting" /\ id[p] = id[e] => rec[p].kind = rec[e].kind
        /\ pc[e] \in Guarding => guard[ShardOf[id[e]]] = e /\ jobs[id[e]] # NoJob
        /\ pc[e] = "saveRetry" => rec[e].kind = "at"

-----------------------------------------------------------------------------
(* The parts of the inductive invariant behind DisabledJobOff *)

\* A one-shot job is not executed twice under the same id.
SoleExecution ==
    \A d, e \in Execs :
        d # e /\ pc[d] \in Active /\ pc[e] \in Active /\ id[d] = id[e]
            => rec[d].kind = "repeat"

\* Until the first restart, what is registered is enabled, and so is a one-shot
\* job until its only execution has counted the error.
EnabledUntilCounted ==
    crashes = 0 =>
        /\ Started
        /\ \A p \in Procs : pc[p] \in Registering => rec[p].enabled
        /\ \A e \in Execs :
              /\ pc[e] \in {"executing", "status", "saveRetry"} /\ rec[e].kind = "at"
              /\ jobs[id[e]] # NoJob
              => jobs[id[e]].enabled

-----------------------------------------------------------------------------
(* The parts of the inductive invariant behind OneShotOnce and               *)
(* CanceledRepeatStaysGone                                                   *)

\* The job of request j is a one-shot job.
OneShot(j) == rec[j] # NoJob /\ rec[j].kind = "at"

\* Every CronJob, wherever it is kept, comes from the request that added it.
FromRequest(r) == r # NoJob => rec[r.job] # NoJob /\ r.kind = rec[r.job].kind

RecordsOwned ==
    /\ \A i \in Ids : FromRequest(jobs[i]) /\ FromRequest(store[i]) /\ FromRequest(todo[i])
    /\ \A p \in Procs : FromRequest(rec[p])
    /\ \A u \in Users :
          /\ pc[u] = "off" => rec[u] = NoJob
          /\ rec[u] # NoJob => rec[u].job = u
          /\ rec[u] = NoJob => runs[u] = 0

\* While load_jobs runs nothing else does, and it leaves nothing to do.
BootAlone ==
    /\ Started => \A i \in Ids : todo[i] = NoJob
    /\ ~Started => \A p \in Procs \ {Boot} : pc[p] \in {"off", "done"}

\* The copies of the CronJob that has been registered as i.
Replacing == {"inserting", "dropping", "storeDrop"}
Saving == Replacing \union {"storeSave"}
Copies(i) ==
    ({jobs[i], store[i]}
        \union {rec[p] : p \in {q \in Procs : pc[q] \in Saving /\ id[q] = i}}
        \union {rec[e] : e \in {d \in Execs : pc[d] \in Active /\ id[d] = i}}) \ {NoJob}

\* They are of the same job and of the same time.
CopiesAgree ==
    \A i \in Ids : \A r, s \in Copies(i) : r.job = s.job /\ r.at = s.at

\* The time of a one-shot job that has fired is past, in every copy; a retry
\* replaces such a job only.
FiredIsPast ==
    \A e \in Execs :
        /\ pc[e] \in Active /\ rec[e].kind = "at" => rec[e].at <= now
        /\ pc[e] \in Registering =>
              /\ rec[e].kind = "at" /\ old[e] # NoId
              /\ \A r \in Copies(old[e]) : r.at <= now

\* A one-shot job whose registration is not over and whose time has not come
\* is on the runtime.
NotYetFired ==
    \A p \in Procs :
        /\ pc[p] \in Saving
        /\ rec[p].kind = "at" /\ rec[p].at > now
        => id[p] \in runtime

\* Where job j may still come to a successful execution from: the runtime, an
\* execution that runs or is going to retry, a registration that is not going
\* to be refused, and what load_jobs has left to do.
OnRuntime(i, j) == i \in runtime /\ \E r \in Scheduled(i) \ {NoJob} : r.job = j
InExecution(e, j) ==
    /\ pc[e] \in {"executing", "saveRetry"} \/ (pc[e] = "status" /\ ~ok[e])
    /\ rec[e].job = j
InRegistration(p, j) ==
    /\ pc[p] = "lock" \/ (pc[p] = "register" /\ rec[p].at > now)
    /\ rec[p].job = j
InTodo(i, j) == todo[i] # NoJob /\ todo[i].job = j /\ todo[i].at > now

Places == {"runtime", "execution", "registration", "todo"}
Chance(place, x, j) ==
    \/ place = "runtime" /\ x \in Ids /\ OnRuntime(x, j)
    \/ place = "execution" /\ x \in Execs /\ InExecution(x, j)
    \/ place = "registration" /\ x \in Procs /\ InRegistration(x, j)
    \/ place = "todo" /\ x \in Ids /\ InTodo(x, j)

\* The stored copy i of job j would be registered by a restart.
StoredChance(i, j) == store[i] # NoJob /\ store[i].job = j /\ store[i].at > now

\* The stored copy i is the copy of the job that has the chance at x, or the
\* one that its registration is about to replace.
Backs(i, place, x) ==
    \/ place \in {"runtime", "todo"} /\ x = i
    \/ place = "registration" /\ old[x] = i
    \/ /\ place = "runtime"
       /\ \E p \in Procs : pc[p] \in Replacing /\ id[p] = x /\ old[p] = i

\* A one-shot job has at most one chance, ...
OneChance(j) ==
    \A k, l \in Places : \A x, y \in Ids \union Procs :
        Chance(k, x, j) /\ Chance(l, y, j) => k = l /\ x = y

\* ... a restart would give it at most one, the same one, ...
OneStoredChance(j) ==
    \A i \in Ids : StoredChance(i, j) =>
        /\ \A h \in Ids : StoredChance(h, j) => h = i
        /\ \A k \in Places : \A x \in Ids \union Procs :
              Chance(k, x, j) => Backs(i, k, x)

\* ... and once it has succeeded it has none.
NoChanceAfterSuccess(j) ==
    /\ runs[j] <= 1
    /\ runs[j] = 1 =>
          /\ \A i \in Ids : ~StoredChance(i, j)
          /\ \A k \in Places : \A x \in Ids \union Procs : ~Chance(k, x, j)

ChancesSound(j) == OneChance(j) /\ OneStoredChance(j) /\ NoChanceAfterSuccess(j)
OneShotsSound == \A j \in Users : OneShot(j) => ChancesSound(j)

\* Until the first restart a repeating job keeps the id that its request has
\* registered it with, and no request has removed a job that is not registered.
Placed == {"storeSave", "done"}
Repeating(j) == rec[j] # NoJob /\ rec[j].kind = "repeat"
RepeatsKeepIds ==
    crashes = 0 =>
        /\ \A i \in Ids : jobs[i] # NoJob /\ Repeating(jobs[i].job) =>
              pc[jobs[i].job] \in Placed /\ id[jobs[i].job] = i
        /\ \A j \in gone :
              /\ rec[j] # NoJob
              /\ Repeating(j) => pc[j] \in Placed /\ id[j] \in used
=============================================================================
