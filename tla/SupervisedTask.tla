--------------------------- MODULE SupervisedTask ---------------------------
(***************************************************************************)
(* The life of one durable chat task of the gateway                        *)
(* (apps/gateway/src/api/handlers/chat.rs over crates/state/src/task.rs).  *)
(*                                                                         *)
(* TaskManager.load and TaskManager.save are two transactions, and save    *)
(* overwrites the whole record.  Every handler is a load, a decision, and  *)
(* a save of the modified copy, so between the two any other handler may   *)
(* run: the load and the save are separate actions here.  The handlers are *)
(* runs (executions of the task), beats (the heartbeat and the event       *)
(* monitors of a run), control requests of the user, and recovery watchers.*)
(* A crash of the gateway loses all of them and keeps the stored record.   *)
(***************************************************************************)
EXTENDS Naturals, FiniteSets

CONSTANTS Runs,        \* executions of the task; bounds the number of reschedules
          First,       \* the run started by run_supervised_chat, the only one with a token
          Requests,    \* control requests; bounds how often the user interferes
          Watchers,    \* recovery tasks; bounds the number of provider pauses
          MaxProbes,   \* health probes of one watcher (24 in the code)
          MaxCrashes   \* crashes of the gateway

ASSUME FirstAssumption == First \in Runs
ASSUME DistinctAssumption ==
    /\ Runs \intersect Requests = {} /\ Runs \intersect Watchers = {}
    /\ Requests \intersect Watchers = {}
ASSUME BoundsAssumption == MaxProbes \in Nat /\ MaxCrashes \in Nat

VARIABLES task,      \* the stored TaskState: its status and its latest pause checkpoint
          token,     \* cancel_tokens holds an entry for the task
          pc,        \* where each handler stands
          copy,      \* the record a handler has loaded and may save
          reason,    \* the error a run ended with
          preempted, \* the run's foreground job has been cancelled
          probes,    \* health probes a watcher has made
          booting,   \* the gateway has restarted and not yet looked for paused tasks
          crashes,   \* crashes so far
          stopped,   \* history: the user has asked to stop the task
          selfPaused \* history: an outcome paused the task without a disconnect

vars == <<task, token, pc, copy, reason, preempted, probes, booting, crashes, stopped,
          selfPaused>>

Beat(e) == <<"beat", e>>
Beats == {Beat(e) : e \in Runs}
Handlers == Runs \union Beats \union Requests \union Watchers

Terminal == {"Completed", "Failed", "Cancelled", "Blocked"}
Statuses == Terminal \union {"Running", "Paused"}
\* The latest checkpoint labelled paused_by_user or
\* foreground_chat:paused:provider_service.
Pauses == {"none", "user", "provider"}
Records == [status : Statuses, pause : Pauses]
Reasons == {"none", "failure", "disconnect", "preempted"}

RunStates == {"off", "starting", "executing", "outcomeLoaded", "failing", "failLoaded",
              "failing2", "failLoaded2", "ending", "over"}
BeatStates == {"off", "beatLoaded"}
RequestStates == {"off", "stopping", "stopLoaded", "pauseLoaded", "resumeLoaded",
                  "markRunning", "runLoaded", "over"}
WatcherStates == {"off", "restarting", "pushLoaded", "watching", "probing", "resuming",
                  "resumeLoaded", "over"}

\* A handler in one of these states holds a copy that it is going to save.
Holding == {"outcomeLoaded", "failLoaded", "failLoaded2", "beatLoaded", "stopLoaded",
            "pauseLoaded", "resumeLoaded", "runLoaded", "pushLoaded"}

TypeOK ==
    /\ task \in Records
    /\ token \in BOOLEAN
    /\ pc \in [Handlers -> RunStates \union BeatStates \union RequestStates
                            \union WatcherStates]
    /\ copy \in [Handlers -> Records]
    /\ reason \in [Runs -> Reasons]
    /\ preempted \in [Runs -> BOOLEAN]
    /\ probes \in [Watchers -> 0..MaxProbes]
    /\ booting \in BOOLEAN
    /\ crashes \in 0..MaxCrashes
    /\ stopped \in BOOLEAN
    /\ selfPaused \in BOOLEAN

\* create_chat_supervisor_task
Created == [status |-> "Running", pause |-> "none"]

\* run_supervised_chat has saved the task, registered its token and spawned
\* its run.
Init ==
    /\ task = Created
    /\ token = TRUE
    /\ pc = [p \in Handlers |-> IF p = First THEN "starting" ELSE "off"]
    /\ copy = [p \in Handlers |-> Created]
    /\ reason = [e \in Runs |-> "none"]
    /\ preempted = [e \in Runs |-> FALSE]
    /\ probes = [v \in Watchers |-> 0]
    /\ booting = FALSE
    /\ crashes = 0
    /\ stopped = FALSE
    /\ selfPaused = FALSE

-----------------------------------------------------------------------------
(* TaskManager *)

Goto(p, state) == pc' = [pc EXCEPT ![p] = state]

\* TaskManager.load: take a copy, continue at state.
Load(p, state) ==
    /\ Goto(p, state)
    /\ copy' = [copy EXCEPT ![p] = task]
    /\ UNCHANGED task

\* The handler looked at the record and returns without saving.
NoSave(p, state) == Goto(p, state) /\ UNCHANGED <<task, copy>>

\* TaskManager.save: overwrite the record with the modified copy.  The copy
\* is dropped (it is reset so that equal states compare equal).
Save(p, record) ==
    /\ task' = record
    /\ copy' = [copy EXCEPT ![p] = Created]

-----------------------------------------------------------------------------
(* Which task a control request finds *)

is_terminal_task_status(status) == status \in Terminal

task_is_active_or_recoverable(t) ==
    \/ t.status = "Running" /\ token
    \/ t.status = "Paused"

task_latest_pause_was_provider_disconnect(t) == t.pause = "provider"

\* Mutant of supervisor_task_accepts_execution_error: terminal statuses pass.
AcceptsErrorOfEnded(status) == status # "Paused"

supervisor_task_accepts_execution_error(status) ==
    ~is_terminal_task_status(status) /\ status # "Paused"

-----------------------------------------------------------------------------
(* Runs: execute_supervised_chat and what follows it *)

RunFrame == UNCHANGED <<probes, booting, crashes, stopped, selfPaused>>

\* chat_session -> run_foreground_chat: the new job takes over the session's
\* slot and the job it finds there is cancelled.
StartRun(e) ==
    /\ pc[e] = "starting"
    /\ Goto(e, "executing")
    /\ preempted' = [d \in Runs |-> IF d # e /\ pc[d] = "executing"
                                      THEN TRUE ELSE preempted[d]]
    /\ UNCHANGED <<task, token, copy, reason>> /\ RunFrame

\* Mutant of OutcomeLoad: the cancellation is not looked for.
OutcomeLoadBlind(e) ==
    /\ pc[e] = "executing"
    /\ Load(e, "outcomeLoaded")
    /\ UNCHANGED <<token, reason, preempted>> /\ RunFrame

\* The chat returns Ok: update_supervisor_task_from_outcome loads the task and
\* ignores the outcome if it has been cancelled.
OutcomeLoad(e) ==
    /\ pc[e] = "executing"
    /\ \/ task.status = "Cancelled" /\ NoSave(e, "ending")
       \/ task.status # "Cancelled" /\ Load(e, "outcomeLoaded")
    /\ UNCHANGED <<token, reason, preempted>> /\ RunFrame

\* request_main_brain_runtime_recovery spawns a recovery task.
SpawnRecovery(p, state) ==
    \E v \in Watchers :
        /\ pc[v] = "off"
        /\ pc' = [pc EXCEPT ![p] = state, ![v] = "restarting"]

\* After recording the tool events: save the status the outcome calls for.  A
\* provider disconnect found in it asks for recovery, and is the latest pause
\* if it is also what decided the status.
OutcomeSave(e) ==
    /\ pc[e] = "outcomeLoaded"
    /\ \E s \in {"Completed", "Blocked", "Failed", "Paused"}, disconnect \in BOOLEAN :
          /\ Save(e, [copy[e] EXCEPT
                !.status = s,
                !.pause = IF disconnect /\ s = "Paused" THEN "provider" ELSE @])
          /\ \/ disconnect /\ SpawnRecovery(e, "ending")
             \/ ~disconnect /\ Goto(e, "ending")
          /\ selfPaused' = (selfPaused \/ (s = "Paused" /\ ~disconnect))
    /\ UNCHANGED <<token, reason, preempted, probes, booting, crashes, stopped>>

\* Recording the events fails: the error reaches the spawner of the run.
OutcomeError(e) ==
    /\ pc[e] = "outcomeLoaded"
    /\ NoSave(e, "failing2")
    /\ reason' = [reason EXCEPT ![e] = "failure"]
    /\ UNCHANGED <<token, preempted>> /\ RunFrame

\* The chat returns an error; a cancelled job reports its preemption.
ChatFails(e) ==
    /\ pc[e] = "executing"
    /\ NoSave(e, "failing")
    /\ \E r \in {"failure", "disconnect", "preempted"} :
          /\ r = "preempted" => preempted[e]
          /\ reason' = [reason EXCEPT ![e] = r]
    /\ UNCHANGED <<token, preempted>> /\ RunFrame

\* mark_supervisor_task_failed, called once inside execute_supervised_chat and
\* again by the spawner of the run: load, and leave a task alone that is not
\* active any more.
MarkFailedLoad(e) ==
    /\ pc[e] \in {"failing", "failing2"}
    /\ LET after == IF pc[e] = "failing" THEN "failing2" ELSE "ending"
           loaded == IF pc[e] = "failing" THEN "failLoaded" ELSE "failLoaded2"
       IN  IF supervisor_task_accepts_execution_error(task.status)
             THEN Load(e, loaded)
             ELSE NoSave(e, after)
    /\ UNCHANGED <<token, reason, preempted>> /\ RunFrame

\* A preempted run is Cancelled, a provider disconnect pauses the task and
\* asks for recovery, any other error fails it.
MarkFailedSave(e) ==
    /\ pc[e] \in {"failLoaded", "failLoaded2"}
    /\ LET after == IF pc[e] = "failLoaded" THEN "failing2" ELSE "ending"
       IN  \/ /\ reason[e] = "preempted"
              /\ Save(e, [copy[e] EXCEPT !.status = "Cancelled"])
              /\ Goto(e, after)
           \/ /\ reason[e] = "disconnect"
              /\ Save(e, [status |-> "Paused", pause |-> "provider"])
              /\ SpawnRecovery(e, after)
           \/ /\ reason[e] = "failure"
              /\ Save(e, [copy[e] EXCEPT !.status = "Failed"])
              /\ Goto(e, after)
    /\ UNCHANGED <<token, reason, preempted>> /\ RunFrame

\* The spawner ends.  Only the first run had a token to remove.
EndRun(e) ==
    /\ pc[e] = "ending"
    /\ Goto(e, "over")
    /\ token' = (token /\ e # First)
    /\ UNCHANGED <<task, copy, reason, preempted>> /\ RunFrame

-----------------------------------------------------------------------------
(* Beats: record_supervisor_checkpoint, from the heartbeat and the monitors *)

BeatLoad(e) ==
    /\ pc[Beat(e)] = "off"
    /\ pc[e] \notin {"off", "over"}
    /\ task.status = "Running"
    /\ Load(Beat(e), "beatLoaded")
    /\ UNCHANGED <<token, reason, preempted>> /\ RunFrame

BeatSave(e) ==
    /\ pc[Beat(e)] = "beatLoaded"
    /\ Save(Beat(e), copy[Beat(e)])
    /\ Goto(Beat(e), "off")
    /\ UNCHANGED <<token, reason, preempted>> /\ RunFrame

-----------------------------------------------------------------------------
(* Control requests *)

CtlFrame == UNCHANGED <<token, reason, probes, booting, crashes, selfPaused>>

\* Stop: the chat control cancels the session's foreground job first; the
\* cancel endpoints only touch the stored task.
StopRequest(r) ==
    /\ pc[r] = "off"
    /\ NoSave(r, "stopping")
    /\ stopped' = TRUE
    /\ \E cancelJob \in BOOLEAN :
          preempted' = [e \in Runs |-> preempted[e] \/ (cancelJob /\ pc[e] = "executing")]
    /\ CtlFrame

\* cancel_task and mark_running_session_tasks_cancelled
StopLoad(r) ==
    /\ pc[r] = "stopping"
    /\ \/ is_terminal_task_status(task.status) /\ NoSave(r, "over")
       \/ ~is_terminal_task_status(task.status) /\ Load(r, "stopLoaded")
    /\ UNCHANGED <<preempted, stopped>> /\ CtlFrame

StopSave(r) ==
    /\ pc[r] = "stopLoaded"
    /\ Save(r, [copy[r] EXCEPT !.status = "Cancelled"])
    /\ Goto(r, "over")
    /\ UNCHANGED <<preempted, stopped>> /\ CtlFrame

\* mark_latest_session_task_paused
PauseRequest(r) ==
    /\ pc[r] = "off"
    /\ task_is_active_or_recoverable(task)
    /\ task.status # "Paused"
    /\ Load(r, "pauseLoaded")
    /\ UNCHANGED <<preempted, stopped>> /\ CtlFrame

PauseSave(r) ==
    /\ pc[r] = "pauseLoaded"
    /\ Save(r, [status |-> "Paused", pause |-> "user"])
    /\ Goto(r, "over")
    /\ UNCHANGED <<preempted, stopped>> /\ CtlFrame

\* resume_durable_paused_supervisor_task finds a paused task, or the request
\* goes on to resume the foreground job and mark the task running.
ResumeRequest(r) ==
    /\ pc[r] = "off"
    /\ \/ task.status = "Paused" /\ Load(r, "resumeLoaded")
       \/ task.status # "Paused" /\ NoSave(r, "markRunning")
    /\ UNCHANGED <<preempted, stopped>> /\ CtlFrame

\* Save the task as Running and spawn another run of it.
Reschedule(p) ==
    \E e \in Runs :
        /\ pc[e] = "off"
        /\ pc' = [pc EXCEPT ![p] = "over", ![e] = "starting"]
        /\ Save(p, [copy[p] EXCEPT !.status = "Running"])

ResumeSave(r) ==
    /\ pc[r] = "resumeLoaded"
    /\ Reschedule(r)
    /\ UNCHANGED <<preempted, stopped>> /\ CtlFrame

\* mark_latest_session_task_running
MarkRunningLoad(r) ==
    /\ pc[r] = "markRunning"
    /\ \/ task.status = "Paused" /\ Load(r, "runLoaded")
       \/ task.status # "Paused" /\ NoSave(r, "over")
    /\ UNCHANGED <<preempted, stopped>> /\ CtlFrame

MarkRunningSave(r) ==
    /\ pc[r] = "runLoaded"
    /\ Save(r, [copy[r] EXCEPT !.status = "Running"])
    /\ Goto(r, "over")
    /\ UNCHANGED <<preempted, stopped>> /\ CtlFrame

-----------------------------------------------------------------------------
(* Recovery: request_main_brain_runtime_recovery and its watcher *)

WatchFrame ==
    UNCHANGED <<token, reason, preempted, booting, crashes, stopped, selfPaused>>

\* The runtime host has been restarted, or not; load the task ...
PushLoad(v) ==
    /\ pc[v] = "restarting"
    /\ Load(v, "pushLoaded")
    /\ UNCHANGED probes /\ WatchFrame

\* ... and save it with one more checkpoint.
PushSave(v) ==
    /\ pc[v] = "pushLoaded"
    /\ Save(v, copy[v])
    /\ Goto(v, "watching")
    /\ UNCHANGED probes /\ WatchFrame

\* Mutant of WatchCheck: the probes are not counted.
WatchCheckUnbounded(v) ==
    /\ pc[v] = "watching"
    /\ NoSave(v, IF /\ task.status = "Paused"
                    /\ task_latest_pause_was_provider_disconnect(task)
                   THEN "probing" ELSE "over")
    /\ UNCHANGED probes /\ WatchFrame

\* watch_provider_recovery_and_resume_durable_task: give up unless the task is
\* still paused by the provider; otherwise probe the provider's health.
WatchCheck(v) ==
    /\ pc[v] = "watching"
    /\ NoSave(v, IF /\ probes[v] < MaxProbes
                    /\ task.status = "Paused"
                    /\ task_latest_pause_was_provider_disconnect(task)
                   THEN "probing" ELSE "over")
    /\ UNCHANGED probes /\ WatchFrame

ProbeOk(v) ==
    /\ pc[v] = "probing"
    /\ NoSave(v, "resuming")
    /\ UNCHANGED probes /\ WatchFrame

ProbeFails(v) ==
    /\ pc[v] = "probing"
    /\ NoSave(v, "watching")
    /\ probes' = [probes EXCEPT ![v] = @ + 1]
    /\ WatchFrame

\* resume_durable_paused_supervisor_task loads the task again.
WatchResumeLoad(v) ==
    /\ pc[v] = "resuming"
    /\ \/ task.status = "Paused" /\ Load(v, "resumeLoaded")
       \/ task.status # "Paused" /\ NoSave(v, "over")
    /\ UNCHANGED probes /\ WatchFrame

WatchResumeSave(v) ==
    /\ pc[v] = "resumeLoaded"
    /\ Reschedule(v)
    /\ UNCHANGED probes /\ WatchFrame

-----------------------------------------------------------------------------
(* Crash and restart of the gateway *)

\* Runs, beats, requests, watchers and tokens are gone; the record survives.
Crash ==
    /\ crashes < MaxCrashes
    /\ crashes' = crashes + 1
    /\ token' = FALSE
    /\ booting' = TRUE
    /\ pc' = [p \in Handlers |-> IF pc[p] = "off" \/ p \in Beats THEN "off" ELSE "over"]
    /\ copy' = [p \in Handlers |-> Created]
    /\ preempted' = [e \in Runs |-> FALSE]
    /\ UNCHANGED <<task, reason, probes, stopped, selfPaused>>

\* Mutant of RecoverAfterRestart: paused tasks are not looked for.
RecoverNothing ==
    /\ booting
    /\ booting' = FALSE
    /\ UNCHANGED <<task, token, pc, copy, reason, preempted, probes, crashes, stopped,
                   selfPaused>>

\* resume_provider_paused_durable_tasks_after_gateway_restart
RecoverAfterRestart ==
    /\ booting
    /\ booting' = FALSE
    /\ \/ /\ task.status = "Paused"
          /\ task_latest_pause_was_provider_disconnect(task)
          /\ \E v \in Watchers : pc[v] = "off" /\ Goto(v, "watching")
       \/ /\ ~(task.status = "Paused" /\ task_latest_pause_was_provider_disconnect(task))
          /\ UNCHANGED pc
    /\ UNCHANGED <<task, token, copy, reason, preempted, probes, crashes, stopped, selfPaused>>

-----------------------------------------------------------------------------

RunStep(e) ==
    \/ StartRun(e) \/ OutcomeLoad(e) \/ OutcomeSave(e) \/ OutcomeError(e) \/ ChatFails(e)
    \/ MarkFailedLoad(e) \/ MarkFailedSave(e) \/ EndRun(e)

BeatStep(e) == BeatLoad(e) \/ BeatSave(e)

RequestStart(r) == StopRequest(r) \/ PauseRequest(r) \/ ResumeRequest(r)

RequestProgress(r) ==
    \/ StopLoad(r) \/ StopSave(r) \/ PauseSave(r) \/ ResumeSave(r)
    \/ MarkRunningLoad(r) \/ MarkRunningSave(r)

WatcherStep(v) ==
    \/ PushLoad(v) \/ PushSave(v) \/ WatchCheck(v) \/ ProbeOk(v) \/ ProbeFails(v)
    \/ WatchResumeLoad(v) \/ WatchResumeSave(v)

Next ==
    \/ \E e \in Runs : RunStep(e) \/ BeatStep(e)
    \/ \E r \in Requests : RequestStart(r) \/ RequestProgress(r)
    \/ \E v \in Watchers : WatcherStep(v)
    \/ Crash
    \/ RecoverAfterRestart

Spec == Init /\ [][Next]_vars

\* Spawned tasks and accepted requests are polled until they end.
Fairness ==
    /\ \A e \in Runs : WF_vars(RunStep(e)) /\ WF_vars(BeatSave(e))
    /\ \A r \in Requests : WF_vars(RequestProgress(r))
    /\ \A v \in Watchers : WF_vars(WatcherStep(v))
    /\ WF_vars(RecoverAfterRestart)

FairSpec == Spec /\ Fairness

-----------------------------------------------------------------------------
(* Properties *)

\* The task is cancelled and every handler that is about to save holds a
\* cancelled copy too.
CancelSettled ==
    /\ task.status = "Cancelled"
    /\ \A p \in Handlers : pc[p] \in Holding => copy[p].status = "Cancelled"

\* A settled cancellation is final: no outcome, error, heartbeat, resume,
\* recovery or restart brings the task back.  (Only a copy loaded before the
\* cancellation and saved after it can.)
CancelIsFinal == [][CancelSettled => CancelSettled']_vars

\* A task that has ended, with no run left to report and no copy of another
\* status about to be saved.
EndSettled ==
    /\ task.status \in Terminal
    /\ \A e \in Runs : pc[e] \notin {"starting", "executing"}
    /\ \A p \in Handlers :
          pc[p] \in Holding => pc[p] = "pushLoaded" /\ copy[p].status = task.status

\* Every terminal status is final then: errors that are reported late, late
\* controls and recovery watchers leave it alone.
EndIsFinal == [][EndSettled => EndSettled' /\ task'.status = task.status]_vars

\* A watcher that is probing has a probe left.
ProbeBudget == \A v \in Watchers : pc[v] = "probing" => probes[v] < MaxProbes

\* What each handler knows of the copy it is going to save.
HeldCopy ==
    \A p \in Handlers :
        /\ pc[p] = "outcomeLoaded" => copy[p].status # "Cancelled"
        /\ pc[p] \in {"failLoaded", "failLoaded2", "beatLoaded", "pauseLoaded"} =>
              copy[p].status = "Running"
        /\ pc[p] = "stopLoaded" => copy[p].status \notin Terminal
        /\ pc[p] \in {"resumeLoaded", "runLoaded"} => copy[p].status = "Paused"

\* A task that the provider has paused is never forgotten: a recovery task is
\* at work for it, or has used up its probes, or the gateway has just
\* restarted and will look for it.  (A worker that pauses the task by itself
\* leaves an older provider pause the latest one, and nobody watching.)
ProviderPauseWatched ==
    /\ task.status = "Paused"
    /\ task_latest_pause_was_provider_disconnect(task)
    /\ ~selfPaused
    =>  \/ booting
        \/ \E v \in Watchers : pc[v] \notin {"off", "over"}
        \/ \E v \in Watchers : probes[v] = MaxProbes

-----------------------------------------------------------------------------
(* Statements that the code does not meet: TLC finds a counterexample to     *)
(* each of them (see README.md).                                             *)

\* The recovery of the provider never overrides a pause by the user: no
\* watcher reschedules a task whose latest pause is the user's.
RecoveryRespectsUserPause ==
    [][\A v \in Watchers :
          pc[v] = "resumeLoaded" /\ pc'[v] = "over" /\ task'.status = "Running"
              => task.pause # "user"]_vars

\* The error of an execution only finalizes an active task: what a run's error
\* handler saves never replaces the status of a task that has ended.
ErrorFinalizesActiveTask ==
    [][\A e \in Runs :
          pc[e] \in {"failLoaded", "failLoaded2"} /\ pc'[e] # pc[e]
              /\ task.status \in Terminal => task'.status = task.status]_vars

\* Pausing and resuming keep the task: it is Cancelled only if somebody asked
\* to stop it.
CancelledOnlyOnRequest == task.status = "Cancelled" => stopped

\* The end of an execution is written back: when every run has ended and
\* nothing is in flight, the task is not Running any more.
EndIsRecorded ==
    crashes = 0
    /\ (\A e \in Runs : pc[e] \in {"off", "over"} /\ pc[Beat(e)] = "off")
    /\ (\A p \in Requests \union Watchers : pc[p] \in {"off", "over"})
        => task.status # "Running"

\* An interrupted task is recovered: a Running task has a run, or it will
\* have one, or it stops being Running.
InterruptedTaskRecovers ==
    task.status = "Running" ~>
        \/ task.status # "Running"
        \/ \E e \in Runs : pc[e] \notin {"off", "over"}
=============================================================================
