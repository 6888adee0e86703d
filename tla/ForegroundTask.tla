--------------------------- MODULE ForegroundTask ---------------------------
(***************************************************************************)
(* The foreground task slot of one chat session of an Agent                *)
(* (crates/brain/src/agent/foreground_runtime.rs) and the PauseController  *)
(* of each task (crates/brain/src/agent/runtime_support.rs).               *)
(*                                                                         *)
(* `slot' is the session's entry of Agent.active_task, a map behind a      *)
(* tokio Mutex; a critical section of that mutex is one action.  A member  *)
(* of Calls is one call of run_foreground_chat together with the job it    *)
(* spawns; a member of Requests is one control request (pause, resume,     *)
(* resume with an instruction, stop).  Everything between two critical     *)
(* sections or two atomic accesses interleaves.                            *)
(***************************************************************************)
EXTENDS Naturals, FiniteSets

CONSTANTS Calls,        \* invocations of run_foreground_chat for the session
          Requests,     \* control requests for the session
          NoTask,       \* the empty slot
          MaxSteps,     \* max_steps of one execute_loop
          MaxRetries    \* Attempt.max_retries

ASSUME NoTaskAssumption == NoTask \notin Calls
ASSUME BoundsAssumption == MaxSteps \in Nat \ {0} /\ MaxRetries \in Nat

VARIABLES slot,      \* the handle in the session's slot of active_task
          caller,    \* where each call of run_foreground_chat stands
          previous,  \* its local previous_task, until it has cancelled it
          job,       \* where each spawned job stands
          site,      \* the wait_if_paused a job is in: "step" or "final"
          steps,     \* steps of the current execute_loop
          attempt,   \* Attempt.retry_count
          result,    \* what the job sent on result_tx
          cancelled, \* the task's CancellationToken
          paused,    \* PauseController.paused
          queued,    \* PauseController.queued_inputs: any instruction waiting
          woken,     \* the Notified future of a waiting job has been notified
          req,       \* where each control request stands
          target,    \* the handle a control request works on, until it is done
          since,     \* history: steps a job began since its latest pause()
          overtaken  \* history: calls that have put their handle into the slot while
                     \* another call was between its take and its insert

jobVars == <<job, site, steps, attempt, result>>
callVars == <<caller, previous, overtaken>>
ctlVars == <<paused, queued, woken>>
reqVars == <<req, target>>
vars == <<slot, caller, previous, job, site, steps, attempt, result,
          cancelled, paused, queued, woken, req, target, since, overtaken>>

Handles == Calls \union {NoTask}

CallerStates == {"idle", "taken", "spawned", "awaiting", "abandoned"}
JobStates == {"none", "preflight", "boundary", "pauseCheck", "subscribe", "waiting",
              "drain", "working", "finished", "cleaned"}
Results == {"none", "ok", "preempted", "cancelled", "error"}
RequestStates == {"idle", "noting", "pausing", "queueing", "resuming", "notifying",
                  "stopSpawned", "stopTaken", "done"}

\* A job that has begun and has not yet sent its result.
Live == {"preflight", "boundary", "pauseCheck", "subscribe", "waiting", "drain",
         "working"}

TypeOK ==
    /\ slot \in Handles
    /\ caller \in [Calls -> CallerStates]
    /\ previous \in [Calls -> Handles]
    /\ job \in [Calls -> JobStates]
    /\ site \in [Calls -> {"step", "final"}]
    /\ steps \in [Calls -> 0..MaxSteps]
    /\ attempt \in [Calls -> 0..MaxRetries]
    /\ result \in [Calls -> Results]
    /\ cancelled \in [Calls -> BOOLEAN]
    /\ paused \in [Calls -> BOOLEAN]
    /\ queued \in [Calls -> BOOLEAN]
    /\ woken \in [Calls -> BOOLEAN]
    /\ req \in [Requests -> RequestStates]
    /\ target \in [Requests -> Handles]
    /\ since \in [Calls -> Nat]
    /\ overtaken \subseteq Calls

Init ==
    /\ slot = NoTask
    /\ caller = [c \in Calls |-> "idle"]
    /\ previous = [c \in Calls |-> NoTask]
    /\ job = [c \in Calls |-> "none"]
    /\ site = [c \in Calls |-> "step"]
    /\ steps = [c \in Calls |-> 0]
    /\ attempt = [c \in Calls |-> 0]
    /\ result = [c \in Calls |-> "none"]
    /\ cancelled = [c \in Calls |-> FALSE]
    /\ paused = [c \in Calls |-> FALSE]
    /\ queued = [c \in Calls |-> FALSE]
    /\ woken = [c \in Calls |-> FALSE]
    /\ req = [r \in Requests |-> "idle"]
    /\ target = [r \in Requests |-> NoTask]
    /\ since = [c \in Calls |-> 0]
    /\ overtaken = {}

-----------------------------------------------------------------------------
(* run_foreground_chat *)

Starting == {"taken", "spawned"}

\* Under the mutex, remove the previous task's handle from the slot.
TakePrevious(c) ==
    /\ caller[c] = "idle"
    /\ caller' = [caller EXCEPT ![c] = "taken"]
    /\ previous' = [previous EXCEPT ![c] = slot]
    /\ slot' = NoTask
    /\ UNCHANGED <<jobVars, ctlVars, reqVars, cancelled, since, overtaken>>

\* Cancel the previous task, if any, and spawn this call's job.
SpawnJob(c) ==
    /\ caller[c] = "taken"
    /\ caller' = [caller EXCEPT ![c] = "spawned"]
    /\ job' = [job EXCEPT ![c] = "preflight"]
    /\ cancelled' = [d \in Calls |-> cancelled[d] \/ previous[c] = d]
    /\ previous' = [previous EXCEPT ![c] = NoTask]
    /\ UNCHANGED <<slot, site, steps, attempt, result, ctlVars, reqVars, since,
                   overtaken>>

\* Under the mutex again, put this call's handle into the slot.  What remains
\* is result_rx.await: nobody else can tell whether the call still waits, has
\* its result or was dropped there (the job's send then fails and is logged).
InsertHandle(c) ==
    /\ caller[c] = "spawned"
    /\ caller' = [caller EXCEPT ![c] = "awaiting"]
    /\ slot' = c
    /\ overtaken' = IF \E d \in Calls \ {c} : caller[d] \in Starting
                      THEN overtaken \union {c} ELSE overtaken
    /\ UNCHANGED <<previous, jobVars, ctlVars, reqVars, cancelled, since>>

\* The call is dropped while it waits for the mutex, because its client has
\* disconnected or a timeout has passed: the job runs on, but its handle never
\* gets into the slot.
CallDropped(c) ==
    /\ caller[c] = "spawned"
    /\ caller' = [caller EXCEPT ![c] = "abandoned"]
    /\ UNCHANGED <<slot, previous, overtaken, jobVars, ctlVars, reqVars, cancelled, since>>

-----------------------------------------------------------------------------
(* The job: chat_with_cancel_and_pause, the recovery loop, execute_loop *)

\* The job sends its result on result_tx.
Finish(c, r) ==
    /\ job' = [job EXCEPT ![c] = "finished"]
    /\ result' = [result EXCEPT ![c] = r]

JobFrame == UNCHANGED <<slot, callVars, reqVars, cancelled>>

\* chat_with_cancel_and_pause before the recovery loop: an early answer
\* (self description, memory operation, handover), an error, or the loop.
Preflight(c) ==
    /\ job[c] = "preflight"
    /\ \/ /\ \E r \in {"ok", "error"} : Finish(c, r)
          /\ UNCHANGED <<site, steps, attempt>>
       \/ /\ job' = [job EXCEPT ![c] = "boundary"]
          /\ UNCHANGED <<site, steps, attempt, result>>
    /\ UNCHANGED <<ctlVars, since>> /\ JobFrame

\* perform_recovery_loop_with_cancel on Err(e): a cancelled task is
\* preempted, a retryable error starts another execute_loop while retries are
\* left, and any other error is returned.
LoopFails(c, retryable) ==
    \/ /\ cancelled[c]
       /\ Finish(c, "preempted")
       /\ UNCHANGED <<steps, attempt>>
    \/ /\ ~cancelled[c]
       /\ retryable /\ attempt[c] < MaxRetries
       /\ attempt' = [attempt EXCEPT ![c] = @ + 1]
       /\ steps' = [steps EXCEPT ![c] = 0]
       /\ job' = [job EXCEPT ![c] = "boundary"]
       /\ UNCHANGED result
    \/ /\ ~cancelled[c]
       /\ ~(retryable /\ attempt[c] < MaxRetries)
       /\ Finish(c, "error")
       /\ UNCHANGED <<steps, attempt>>

\* Mutant of StepBoundary: the step budget is not looked at.
StepBoundaryNoBudget(c) ==
    /\ job[c] = "boundary"
    /\ \/ cancelled[c] /\ LoopFails(c, FALSE) /\ UNCHANGED site
       \/ /\ ~cancelled[c]
          /\ job' = [job EXCEPT ![c] = "pauseCheck"]
          /\ site' = [site EXCEPT ![c] = "step"]
          /\ UNCHANGED <<steps, attempt, result>>
    /\ UNCHANGED <<ctlVars, since>> /\ JobFrame

\* The head of execute_loop: the step budget, then the token, then the pause.
\* Neither error is a retryable one.
StepBoundary(c) ==
    /\ job[c] = "boundary"
    /\ \/ /\ steps[c] >= MaxSteps \/ cancelled[c]
          /\ LoopFails(c, FALSE)
          /\ UNCHANGED site
       \/ /\ ~(steps[c] >= MaxSteps \/ cancelled[c])
          /\ job' = [job EXCEPT ![c] = "pauseCheck"]
          /\ site' = [site EXCEPT ![c] = "step"]
          /\ UNCHANGED <<steps, attempt, result>>
    /\ UNCHANGED <<ctlVars, since>> /\ JobFrame

\* Mutant of CheckPaused: the flag is not read.
CheckPausedNever(c) ==
    /\ job[c] = "pauseCheck"
    /\ job' = [job EXCEPT ![c] = "drain"]
    /\ UNCHANGED <<site, steps, attempt, result, ctlVars, since>> /\ JobFrame

\* PauseController.wait_if_paused: `while self.is_paused()'.
CheckPaused(c) ==
    /\ job[c] = "pauseCheck"
    /\ job' = [job EXCEPT ![c] = IF paused[c] THEN "subscribe" ELSE "drain"]
    /\ UNCHANGED <<site, steps, attempt, result, ctlVars, since>> /\ JobFrame

\* Then create the Notified future; from here on notify_waiters reaches it.
Subscribe(c) ==
    /\ job[c] = "subscribe"
    /\ job' = [job EXCEPT ![c] = "waiting"]
    /\ woken' = [woken EXCEPT ![c] = FALSE]
    /\ UNCHANGED <<site, steps, attempt, result, paused, queued, since>> /\ JobFrame

\* select!: the notification arrives and the loop tests is_paused again.
Wake(c) ==
    /\ job[c] = "waiting"
    /\ woken[c]
    /\ job' = [job EXCEPT ![c] = "pauseCheck"]
    /\ UNCHANGED <<site, steps, attempt, result, ctlVars, since>> /\ JobFrame

\* Mutant of CancelWakes: the token is looked at only after a notification.
CancelWakesLate(c) ==
    /\ job[c] = "waiting"
    /\ woken[c] /\ cancelled[c]
    /\ \/ site[c] = "step" /\ LoopFails(c, FALSE)
       \/ /\ site[c] = "final"
          /\ Finish(c, "cancelled")
          /\ UNCHANGED <<steps, attempt>>
    /\ UNCHANGED <<site, ctlVars, since>> /\ JobFrame

\* select!: the token is cancelled.  At a step the error goes to the recovery
\* loop; after the last step `?' returns it as it is.
CancelWakes(c) ==
    /\ job[c] = "waiting"
    /\ cancelled[c]
    /\ \/ site[c] = "step" /\ LoopFails(c, FALSE)
       \/ /\ site[c] = "final"
          /\ Finish(c, "cancelled")
          /\ UNCHANGED <<steps, attempt>>
    /\ UNCHANGED <<site, ctlVars, since>> /\ JobFrame

\* wait_if_paused takes the queued instructions.  At a step they join the
\* messages and the step begins.  After the last step an instruction starts
\* another execute_loop; otherwise the fact check retries or accepts.
Drain(c) ==
    /\ job[c] = "drain"
    /\ queued' = [queued EXCEPT ![c] = FALSE]
    /\ \/ /\ site[c] = "step"
          /\ steps' = [steps EXCEPT ![c] = @ + 1]
          /\ since' = [since EXCEPT ![c] = IF paused[c] THEN @ + 1 ELSE 0]
          /\ job' = [job EXCEPT ![c] = "working"]
          /\ UNCHANGED <<attempt, result>>
       \/ /\ site[c] = "final"
          /\ queued[c]
          /\ steps' = [steps EXCEPT ![c] = 0]
          /\ job' = [job EXCEPT ![c] = "boundary"]
          /\ UNCHANGED <<attempt, result, since>>
       \/ /\ site[c] = "final"
          /\ ~queued[c]
          /\ attempt[c] < MaxRetries
          /\ attempt' = [attempt EXCEPT ![c] = @ + 1]
          /\ steps' = [steps EXCEPT ![c] = 0]
          /\ job' = [job EXCEPT ![c] = "boundary"]
          /\ UNCHANGED <<result, since>>
       \/ /\ site[c] = "final"
          /\ ~queued[c]
          /\ Finish(c, "ok")
          /\ UNCHANGED <<steps, attempt, since>>
    /\ UNCHANGED <<site, paused, woken>> /\ JobFrame

\* The body of a step: go on to the next step, finalize an outcome, or fail.
Work(c) ==
    /\ job[c] = "working"
    /\ \/ /\ job' = [job EXCEPT ![c] = "boundary"]
          /\ UNCHANGED <<site, steps, attempt, result>>
       \/ /\ job' = [job EXCEPT ![c] = "pauseCheck"]
          /\ site' = [site EXCEPT ![c] = "final"]
          /\ UNCHANGED <<steps, attempt, result>>
       \/ /\ \E retryable \in BOOLEAN : LoopFails(c, retryable)
          /\ UNCHANGED site
    /\ UNCHANGED <<ctlVars, since>> /\ JobFrame

\* Mutant of Cleanup: whatever is in the slot is removed.
CleanupAny(c) ==
    /\ job[c] = "finished"
    /\ job' = [job EXCEPT ![c] = "cleaned"]
    /\ slot' = NoTask
    /\ UNCHANGED <<callVars, site, steps, attempt, result, ctlVars, reqVars,
                   cancelled, since>>

\* After sending its result the job, under the mutex, removes its own handle.
Cleanup(c) ==
    /\ job[c] = "finished"
    /\ job' = [job EXCEPT ![c] = "cleaned"]
    /\ slot' = IF slot = c THEN NoTask ELSE slot
    /\ UNCHANGED <<callVars, site, steps, attempt, result, ctlVars, reqVars,
                   cancelled, since>>

JobStep(c) ==
    \/ Preflight(c) \/ StepBoundary(c) \/ CheckPaused(c) \/ Subscribe(c)
    \/ Wake(c) \/ CancelWakes(c) \/ Drain(c) \/ Work(c) \/ Cleanup(c)

-----------------------------------------------------------------------------
(* Control requests *)

CtlFrame == UNCHANGED <<callVars, jobVars>>

\* The request returns.
Answer(r) ==
    /\ req' = [req EXCEPT ![r] = "done"]
    /\ target' = [target EXCEPT ![r] = NoTask]

\* pause_foreground_task and resume_foreground_task fetch the controller of
\* the handle in the slot, under the mutex; with no handle they return false.
FetchController(r, next) ==
    /\ req[r] = "idle"
    /\ slot # NoTask
    /\ req' = [req EXCEPT ![r] = next]
    /\ target' = [target EXCEPT ![r] = slot]
    /\ UNCHANGED <<slot, cancelled, ctlVars, since>> /\ CtlFrame

PauseRequest(r) == FetchController(r, "pausing")
PauseWithNote(r) == FetchController(r, "noting")
ResumeRequest(r) == FetchController(r, "resuming")
ResumeWithInput(r) == FetchController(r, "queueing")

\* controller.pause()
SetPaused(r) ==
    /\ req[r] = "pausing"
    /\ Answer(r)
    /\ paused' = [paused EXCEPT ![target[r]] = TRUE]
    /\ since' = [since EXCEPT ![target[r]] = 0]
    /\ UNCHANGED <<slot, cancelled, queued, woken>> /\ CtlFrame

\* controller.queue_input: the note of a pause, the instruction of a resume
QueueInput(r) ==
    /\ req[r] \in {"noting", "queueing"}
    /\ req' = [req EXCEPT ![r] = IF @ = "noting" THEN "pausing" ELSE "resuming"]
    /\ queued' = [queued EXCEPT ![target[r]] = TRUE]
    /\ UNCHANGED <<slot, cancelled, target, paused, woken, since>> /\ CtlFrame

\* controller.resume(): store false ...
ClearPaused(r) ==
    /\ req[r] = "resuming"
    /\ req' = [req EXCEPT ![r] = "notifying"]
    /\ paused' = [paused EXCEPT ![target[r]] = FALSE]
    /\ UNCHANGED <<slot, cancelled, target, queued, woken, since>> /\ CtlFrame

\* ... and notify_waiters, which reaches only futures that exist already.
NotifyWaiters(r) ==
    /\ req[r] = "notifying"
    /\ Answer(r)
    /\ woken' = [woken EXCEPT ![target[r]] = job[target[r]] = "waiting"]
    /\ UNCHANGED <<slot, cancelled, paused, queued, since>> /\ CtlFrame

\* cancel_foreground_task only spawns the cancellation; the request that
\* issued it is answered at once.  `target' records the task in the slot.
StopRequest(r) ==
    /\ req[r] = "idle"
    /\ slot # NoTask
    /\ req' = [req EXCEPT ![r] = "stopSpawned"]
    /\ target' = [target EXCEPT ![r] = slot]
    /\ UNCHANGED <<slot, cancelled, ctlVars, since>> /\ CtlFrame

\* cancel_foreground_task_for_session: remove whatever is in the slot ...
StopTake(r) ==
    /\ req[r] = "stopSpawned"
    /\ req' = [req EXCEPT ![r] = IF slot = NoTask THEN "done" ELSE "stopTaken"]
    /\ target' = [target EXCEPT ![r] = slot]
    /\ slot' = NoTask
    /\ UNCHANGED <<cancelled, ctlVars, since>> /\ CtlFrame

\* ... and cancel its token.
StopCancel(r) ==
    /\ req[r] = "stopTaken"
    /\ Answer(r)
    /\ cancelled' = [cancelled EXCEPT ![target[r]] = TRUE]
    /\ UNCHANGED <<slot, ctlVars, since>> /\ CtlFrame

RequestStep(r) ==
    \/ PauseRequest(r) \/ PauseWithNote(r) \/ ResumeRequest(r) \/ ResumeWithInput(r)
    \/ StopRequest(r)

RequestProgress(r) ==
    \/ SetPaused(r) \/ QueueInput(r) \/ ClearPaused(r) \/ NotifyWaiters(r)
    \/ StopTake(r) \/ StopCancel(r)

CallStep(c) == TakePrevious(c) \/ SpawnJob(c) \/ InsertHandle(c) \/ CallDropped(c)

Next ==
    \/ \E c \in Calls : CallStep(c) \/ JobStep(c)
    \/ \E r \in Requests : RequestStep(r) \/ RequestProgress(r)

Spec == Init /\ [][Next]_vars

\* Every spawned job, every call and every request that has been accepted is
\* a tokio task that the runtime keeps polling; a step of a job ends (provider
\* and tool calls time out).  Nobody owes the system a new request.
Fairness ==
    /\ \A c \in Calls : WF_vars(JobStep(c)) /\ WF_vars(SpawnJob(c))
                       /\ WF_vars(InsertHandle(c))
    /\ \A r \in Requests : WF_vars(RequestProgress(r))

FairSpec == Spec /\ Fairness

-----------------------------------------------------------------------------
(* Properties *)

\* Between its head and its body a step is still within the budget.
StepBudget ==
    \A c \in Calls :
        site[c] = "step" /\ job[c] \in {"pauseCheck", "subscribe", "waiting", "drain"}
            => steps[c] < MaxSteps

\* The handle that a starting call will overwrite or has failed to see is that
\* of an overtaken call.
StartsOverlap ==
    \A c, d \in Calls :
        slot = c /\ d # c /\ caller[d] \in Starting => c \in overtaken

\* Some task still holds the handle of c and is about to cancel it: a newer
\* call that took it from the slot, or a stop request.
BeingCancelled(c) ==
    \/ \E d \in Calls : caller[d] = "taken" /\ previous[d] = c
    \/ \E r \in Requests : req[r] = "stopTaken" /\ target[r] = c

\* The job of c is within reach: its handle is in the session's slot, where
\* stop and pause look for it, its call is about to put it there, or somebody is
\* about to cancel it.
WithinReach(c) == slot = c \/ caller[c] = "spawned" \/ BeingCancelled(c)

\* A job that is running and that nobody has cancelled can be controlled, with
\* two exceptions: another call was starting while its handle went into the
\* slot, or its call was dropped before that.  No clean-up removes a successor's
\* handle, and no stop and no preemption loses one.
ActiveJobControllable ==
    \A c \in Calls :
        job[c] \in Live /\ ~cancelled[c] =>
            WithinReach(c) \/ c \in overtaken \/ caller[c] = "abandoned"

\* "It will stop at the next safe checkpoint": once pause() has returned a job
\* begins at most the one step whose pause check it had already passed.
PauseStopsAtNextCheckpoint ==
    \A c \in Calls : paused[c] => since[c] <= 1

\* Why it is so: no job gets past a pause check while paused, so the one that
\* has passed it has begun no step since pause() yet.
PauseInv ==
    \A c \in Calls :
        paused[c] => since[c] <= 1 /\ (job[c] = "drain" => since[c] = 0)

\* Stopping a task works even if it is paused or waiting: a cancelled job
\* always comes to its end and leaves the slot.
CancelledJobEnds ==
    \A c \in Calls :
        cancelled[c] /\ job[c] # "none" ~> job[c] = "cleaned" /\ slot # c

-----------------------------------------------------------------------------
(* Statements that the code does not meet: TLC finds a counterexample to     *)
(* each of them (see README.md).                                             *)

\* A running job whose call was not dropped can be controlled, however the
\* starts of the session overlap.
OverlappingStartsControllable ==
    \A c \in Calls :
        job[c] \in Live /\ ~cancelled[c] /\ caller[c] # "abandoned" => WithinReach(c)

\* A handle in the slot belongs to a job that has not yet cleaned up: the
\* gateway tells the user "the current task is still running" while it finds
\* a handle there, and refuses new messages until then.
SlotHoldsLiveJob == slot # NoTask => job[slot] # "cleaned"

\* A resumed job goes on: no job waits forever on a controller that is not
\* paused any more.
ResumedJobContinues ==
    \A c \in Calls : job[c] = "waiting" /\ ~paused[c] ~> job[c] # "waiting"

\* A stop request takes the task it was issued for, never one that the user
\* started after being told that the task was stopped.
StopTakesItsTask ==
    [][\A r \in Requests :
          req[r] = "stopSpawned" /\ req'[r] = "stopTaken" => target'[r] = target[r]]_vars
=============================================================================
