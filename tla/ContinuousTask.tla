--------------------------- MODULE ContinuousTask ---------------------------
(***************************************************************************)
(* One continuous task: ContinuousTaskExecutor.run_with_checkpoint_sink    *)
(* over a PersistentTaskCheckpointSink that wraps a                        *)
(* FileAppendCheckpointSink (crates/brain/src/runtime/continuous_task.rs). *)
(*                                                                         *)
(* The executor is sequential, but every record it writes loads the stored *)
(* task and saves it back in a second transaction, while the gateway       *)
(* pauses, resumes, cancels or finishes the same task.  The executor reads *)
(* its orders from nowhere else: a pause or a cancellation takes effect    *)
(* only when one of these loads sees it.                                   *)
(*                                                                         *)
(* The artifact is written by threads of its own: tokio's File hands the   *)
(* bytes of a write_all to one and drop does not wait for it, so an output *)
(* reaches the file some time after record_step has gone on, or never.     *)
(* After each append the sink reads the whole artifact back and, when it   *)
(* declares a progress that is out of date, truncates and rewrites it.     *)
(*                                                                         *)
(* What a step writes is abstracted to the step's index; an output matters *)
(* only for the test for an exact repetition.                              *)
(***************************************************************************)
EXTENDS Naturals, Sequences

CONSTANTS Plans,        \* plans the executor may be given: the depends_on of each
                        \* step and policy.max_steps
          MaxRetries,   \* policy.max_retries_per_step
          StopOnRepeat, \* policy.stop_on_exact_repeat
          TotalBudget,  \* policy.max_step_total_duration_secs is set
          Outputs,      \* acceptable outputs of a step
          NoOutput,     \* previous_output before the first checkpoint
          MaxControls   \* bounds how often the gateway changes the stored status

ASSUME PlanAssumption ==
    Plans \subseteq [depends : Seq(SUBSET Nat), maxSteps : Nat]
ASSUME PolicyAssumption ==
    /\ MaxRetries \in Nat /\ MaxControls \in Nat
    /\ StopOnRepeat \in BOOLEAN /\ TotalBudget \in BOOLEAN
ASSUME OutputAssumption == NoOutput \notin Outputs

VARIABLES plan,        \* the ContinuousTaskPlan; its steps are indexed from 1
          status,      \* the stored status of the task
          held,        \* the status in the copy the sink has loaded and will save
          pc,          \* where the executor stands
          then,        \* where it goes when record_step_attempt has returned
          step,        \* the step it works on
          attempt,     \* the attempt of that step, from 0
          output,      \* the accepted result of the step
          previous,    \* previous_output
          file,        \* the artifact: the steps whose output it holds
          pending,     \* the steps whose output is still with the file threads
          copy,        \* what refresh_declared_artifact_progress has read
          harm,        \* history: "failed" once a write to the file has failed or the process
                       \* has ended, "overtaken" once a rewrite has read the artifact with a
                       \* write in flight
          logged,      \* the steps with a continuous.step.checkpointed event
          checkpoints, \* the checkpoints of the run
          outcome,     \* the status of the run, or the error it ended with
          controls,    \* changes made by the gateway so far
          late         \* history: steps handed over since the task was paused or cancelled

runVars == <<then, step, attempt, output, previous>>
fileVars == <<file, pending, copy, harm>>
artifactVars == <<file, pending, copy, harm, logged, checkpoints>>
vars == <<plan, status, held, pc, then, step, attempt, output, previous, file, pending, copy,
          harm, logged, checkpoints, outcome, controls, late>>

Terminal == {"Completed", "Failed", "Blocked", "Cancelled"}
Statuses == Terminal \union {"Running", "Paused"}

\* A status the sink leaves alone.
Held == {"Cancelled", "Paused"}

PCs == {"step", "gate", "load", "save", "work", "recordStep", "append", "refresh",
        "rewrite", "rewriting", "log", "stepLoad", "stepSave", "done"}
Thens == {"work", "retry", "exhausted", "Blocked", "Paused"}
Outcomes == {"none", "Completed", "Blocked", "Failed", "Paused", "cancelled", "error",
             "killed"}

\* plan.steps.len()
Planned == Len(plan.depends)

\* max_steps = policy.max_steps.min(plan.steps.len())
Limit == IF plan.maxSteps < Planned THEN plan.maxSteps ELSE Planned

TypeOK ==
    /\ plan \in Plans
    /\ status \in Statuses
    /\ held \in Statuses
    /\ pc \in PCs
    /\ then \in Thens
    /\ step \in 1..(Limit + 1)
    /\ attempt \in 0..MaxRetries
    /\ output \in Outputs \union {NoOutput}
    /\ previous \in Outputs \union {NoOutput}
    /\ file \in Seq(Nat) /\ copy \in Seq(Nat) /\ pending \subseteq Nat
    /\ harm \subseteq {"failed", "overtaken"}
    /\ logged \in Seq(Nat) /\ checkpoints \in Seq(Nat)
    /\ outcome \in Outcomes
    /\ controls \in 0..MaxControls
    /\ late \in Nat

\* The file has been initialized; the task that delegates the plan is Running.
Init ==
    /\ plan \in Plans
    /\ status = "Running" /\ held = "Running"
    /\ pc = "step" /\ then = "work"
    /\ step = 1 /\ attempt = 0
    /\ output = NoOutput /\ previous = NoOutput
    /\ file = <<>> /\ pending = {} /\ copy = <<>> /\ harm = {}
    /\ logged = <<>> /\ checkpoints = <<>>
    /\ outcome = "none"
    /\ controls = 0 /\ late = 0

-----------------------------------------------------------------------------
(* Control of the executor *)

\* Return from run_with_checkpoint_sink.
End(o) == pc' = "done" /\ outcome' = o

\* Call record_step_attempt and continue at t.
RecordAttempt(t) == pc' = "gate" /\ then' = t /\ UNCHANGED outcome

StoreFrame == UNCHANGED <<plan, status, held, controls, late>>

\* The head of the loop over the steps.  The first step of a plan without
\* executable steps, and a step with an unfinished dependency, block the run.
NextStep ==
    /\ pc = "step"
    /\ step <= Limit
    /\ \/ /\ \E d \in plan.depends[step] : \A i \in 1..Len(checkpoints) : checkpoints[i] # d
          /\ End("Blocked")
          /\ UNCHANGED <<then, attempt>>
       \/ /\ \A d \in plan.depends[step] : \E i \in 1..Len(checkpoints) : checkpoints[i] = d
          /\ attempt' = 0
          /\ RecordAttempt("work")
    /\ UNCHANGED <<step, output, previous, artifactVars>> /\ StoreFrame

\* Mutant of EndOfPlan: the plan's length is forgotten.
EndOfPlanTruncated ==
    /\ pc = "step"
    /\ step > Limit
    /\ End("Completed")
    /\ UNCHANGED <<runVars, artifactVars>> /\ StoreFrame

\* All the steps the budget admits are done: the plan is completed unless it
\* was longer, or there was nothing to do.
EndOfPlan ==
    /\ pc = "step"
    /\ step > Limit
    /\ End(IF Limit = 0 \/ Planned > Limit THEN "Blocked" ELSE "Completed")
    /\ UNCHANGED <<runVars, artifactVars>> /\ StoreFrame

-----------------------------------------------------------------------------
(* PersistentTaskCheckpointSink.record_step_attempt *)

SinkFrame == UNCHANGED <<plan, step, output, previous, artifactVars, controls>>

\* Mutants of AttemptGate: a paused task is not waited for; a cancelled one is
\* treated like a paused one.
AttemptGateNoWait ==
    /\ pc = "gate"
    /\ \/ status = "Cancelled" /\ End("cancelled")
       \/ status # "Cancelled" /\ pc' = "load" /\ UNCHANGED outcome
    /\ UNCHANGED <<status, held, then, attempt, late>> /\ SinkFrame

AttemptGateWaits ==
    /\ pc = "gate"
    /\ status \notin {"Cancelled", "Paused"}
    /\ pc' = "load"
    /\ UNCHANGED <<outcome, status, held, then, attempt, late>> /\ SinkFrame

\* The first load: a cancelled task ends the run with an error, a paused one
\* is polled until it is not paused any more.
AttemptGate ==
    /\ pc = "gate"
    /\ \/ status = "Cancelled" /\ End("cancelled")
       \/ status \notin {"Cancelled", "Paused"} /\ pc' = "load" /\ UNCHANGED outcome
    /\ UNCHANGED <<status, held, then, attempt, late>> /\ SinkFrame

\* The continuous.step.attempt event, then the second load.
AttemptLoad ==
    /\ pc = "load"
    /\ held' = status
    /\ pc' = "save"
    /\ UNCHANGED <<outcome, status, then, attempt, late>> /\ SinkFrame

\* Save the copy with one more checkpoint; only a cancelled or paused copy
\* keeps its status.
SaveHeld ==
    /\ status' = IF held \in Held THEN held ELSE "Running"
    /\ late' = IF status' = status THEN late ELSE 0
    /\ UNCHANGED held

\* Mutant of NextAttempt: one retry too many.
NextAttemptOffByOne ==
    IF attempt <= MaxRetries
      THEN pc' = "gate" /\ then' = "work" /\ attempt' = attempt + 1 /\ UNCHANGED outcome
      ELSE End("Failed") /\ UNCHANGED <<then, attempt>>

\* `for attempt in 0..=max_retries_per_step': the next attempt, or no result.
\* The run has failed then, or is paused if the last error reads like a
\* provider disconnect (one that quotes a rejected output may).
NextAttempt ==
    IF attempt < MaxRetries
      THEN pc' = "gate" /\ then' = "work" /\ attempt' = attempt + 1 /\ UNCHANGED outcome
      ELSE (\E o \in {"Failed", "Paused"} : End(o)) /\ UNCHANGED <<then, attempt>>

\* The save, and the return to where record_step_attempt was called.
AttemptSave ==
    /\ pc = "save"
    /\ SaveHeld
    /\ \/ then = "work" /\ pc' = "work" /\ UNCHANGED <<outcome, then, attempt>>
       \/ then = "retry" /\ NextAttempt
       \/ then = "exhausted" /\ End("Failed") /\ UNCHANGED <<then, attempt>>
       \/ then \in {"Blocked", "Paused"} /\ End(then) /\ UNCHANGED <<then, attempt>>
    /\ SinkFrame

-----------------------------------------------------------------------------
(* One attempt: what the runner returns and what the executor makes of it *)

WorkFrame ==
    UNCHANGED <<step, attempt, previous, artifactVars>> /\ StoreFrame

\* elapsed >= total_budget: the attempt is not made and the step has failed.
BudgetExceeded ==
    /\ pc = "work"
    /\ TotalBudget
    /\ RecordAttempt("exhausted")
    /\ UNCHANGED output /\ WorkFrame

\* tokio::time::timeout, an output that continuous_step_quality_blocker
\* rejects, or an error of the runner: the attempt has failed.
AttemptFails ==
    /\ pc = "work"
    /\ RecordAttempt("retry")
    /\ UNCHANGED output /\ WorkFrame

\* continuous_step_declared_blocker: a recoverable one is retried while
\* attempts are left, any other blocks the run.
DeclaredBlocker ==
    /\ pc = "work"
    /\ \E recoverable \in BOOLEAN :
          RecordAttempt(IF recoverable /\ attempt < MaxRetries THEN "retry" ELSE "Blocked")
    /\ UNCHANGED output /\ WorkFrame

\* The runner reports a ContinuousStepBlocker.
RunnerBlocked ==
    /\ pc = "work"
    /\ RecordAttempt("Blocked")
    /\ UNCHANGED output /\ WorkFrame

\* The runner's error is a recoverable provider disconnect.
ProviderDisconnects ==
    /\ pc = "work"
    /\ RecordAttempt("Paused")
    /\ UNCHANGED output /\ WorkFrame

\* The result is accepted.  An exact repetition of the previous output stops
\* the run; anything else is recorded.
OutputAccepted ==
    /\ pc = "work"
    /\ \E o \in Outputs :
          /\ output' = o
          /\ \/ StopOnRepeat /\ previous = o /\ End("Blocked")
             \/ ~(StopOnRepeat /\ previous = o) /\ pc' = "recordStep" /\ UNCHANGED outcome
    /\ UNCHANGED then /\ WorkFrame

-----------------------------------------------------------------------------
(* PersistentTaskCheckpointSink.record_step *)

RecordFrame == UNCHANGED <<plan, then, attempt, output, controls>>

\* The first load: only a cancellation is looked for.
StepCheck ==
    /\ pc = "recordStep"
    /\ \/ status = "Cancelled" /\ End("cancelled")
       \/ status # "Cancelled" /\ pc' = "append" /\ UNCHANGED outcome
    /\ UNCHANGED <<status, held, late, step, previous, artifactVars>> /\ RecordFrame

\* The output is with a file thread; nobody waits for the write.
HandOver ==
    /\ pending' = pending \union {step}
    /\ late' = IF status \in Held THEN late + 1 ELSE late
    /\ UNCHANGED <<file, copy, harm>>

\* Mutant of AppendOutput: the append is repeated after an error.
AppendOutputAgain ==
    /\ pc = "append"
    /\ HandOver
    /\ pc' \in {"append", "refresh"}
    /\ UNCHANGED <<outcome, status, held, step, previous, logged, checkpoints>>
    /\ RecordFrame

\* FileAppendCheckpointSink.record_step: the two write_all and the drop.
AppendOutput ==
    /\ pc = "append"
    /\ HandOver
    /\ pc' = "refresh"
    /\ UNCHANGED <<outcome, status, held, step, previous, logged, checkpoints>>
    /\ RecordFrame

\* The text that has been read misses the writes in flight.
Overtake == harm' = IF pending = {} THEN harm ELSE harm \union {"overtaken"}

RefreshFrame ==
    /\ UNCHANGED <<outcome, status, held, late, step, previous, logged, checkpoints, pending>>
    /\ RecordFrame

\* Mutant of Refresh: an artifact that cannot be read is taken for an empty one.
RefreshUnreadable ==
    /\ pc = "refresh"
    /\ \/ pc' = "log" /\ UNCHANGED <<copy, harm>>
       \/ pc' = "rewrite" /\ copy' \in {file, <<>>} /\ Overtake
    /\ UNCHANGED file /\ RefreshFrame

\* refresh_declared_artifact_progress reads the artifact.  There is nothing to
\* do when it cannot be read or every progress line is up to date; whether one
\* is not depends on the text.
Refresh ==
    /\ pc = "refresh"
    /\ \/ pc' = "log" /\ UNCHANGED <<copy, harm>>
       \/ pc' = "rewrite" /\ copy' = file /\ Overtake
    /\ UNCHANGED file /\ RefreshFrame

\* tokio::fs::write truncates the file ...
Truncate ==
    /\ pc = "rewrite"
    /\ file' = <<>>
    /\ pc' = "rewriting"
    /\ UNCHANGED <<copy, harm>> /\ RefreshFrame

\* ... and writes the text from the start, over whatever has landed there.
Rewrite ==
    /\ pc = "rewriting"
    /\ file' = copy
    /\ copy' = <<>>
    /\ pc' = "log"
    /\ UNCHANGED harm /\ RefreshFrame

\* The continuous.step.checkpointed and artifact.written events
LogCheckpoint ==
    /\ pc = "log"
    /\ logged' = Append(logged, step)
    /\ pc' = "stepLoad"
    /\ UNCHANGED <<outcome, status, held, late, step, previous, fileVars, checkpoints>>
    /\ RecordFrame

\* The second load
StepLoad ==
    /\ pc = "stepLoad"
    /\ held' = status
    /\ pc' = "stepSave"
    /\ UNCHANGED <<outcome, status, late, step, previous, artifactVars>> /\ RecordFrame

\* The save; the executor pushes its own checkpoint and goes on.
StepSave ==
    /\ pc = "stepSave"
    /\ SaveHeld
    /\ checkpoints' = Append(checkpoints, step)
    /\ previous' = output
    /\ step' = step + 1
    /\ pc' = "step"
    /\ UNCHANGED <<outcome, fileVars, logged>> /\ RecordFrame

\* A rewrite that does not come to its end leaves the beginning of the text.
CutShort ==
    /\ IF pc = "rewriting"
         THEN \E n \in 0..Len(copy) : file' = SubSeq(copy, 1, n)
         ELSE UNCHANGED file
    /\ copy' = <<>>

\* A transaction or a file operation that the sink waits for fails: `?' ends
\* the run.
SinkFails ==
    /\ pc \in {"gate", "load", "save", "recordStep", "append", "rewrite", "rewriting", "log",
               "stepLoad", "stepSave"}
    /\ End("error")
    /\ CutShort
    /\ harm' = IF pc = "rewriting" THEN harm \union {"failed"} ELSE harm
    /\ UNCHANGED <<plan, status, held, runVars, pending, logged, checkpoints, controls, late>>

\* The process ends, or the run is dropped, wherever it is.  Outputs that are
\* with the file threads may still land or not.
ProcessEnds ==
    /\ pc # "done"
    /\ End("killed")
    /\ CutShort
    /\ harm' = harm \union {"failed"}
    /\ UNCHANGED <<plan, status, held, runVars, pending, logged, checkpoints, controls, late>>

-----------------------------------------------------------------------------
(* The file threads (external: tokio and the operating system) *)

ThreadFrame ==
    UNCHANGED <<plan, status, held, pc, runVars, copy, logged, checkpoints, outcome, controls,
                late>>

\* A write lands at the end of the file: O_APPEND.  Every record_step opens the
\* file anew, so nothing orders the writes of two steps.
Land(n) ==
    /\ n \in pending
    /\ file' = Append(file, n)
    /\ pending' = pending \ {n}
    /\ UNCHANGED harm /\ ThreadFrame

\* A write fails; the File that would report it has been dropped.
WriteFails(n) ==
    /\ n \in pending
    /\ pending' = pending \ {n}
    /\ harm' = harm \union {"failed"}
    /\ UNCHANGED file /\ ThreadFrame

-----------------------------------------------------------------------------
(* The gateway changes the stored task.  (Its own loads and saves are the    *)
(* subject of SupervisedTask; here each handler takes effect at its save.)   *)

Control(s) ==
    /\ controls < MaxControls
    /\ controls' = controls + 1
    /\ status' = s
    /\ late' = 0
    /\ UNCHANGED <<plan, held, pc, runVars, artifactVars, outcome>>

PauseTask == status = "Running" /\ Control("Paused")

ResumeTask == status = "Paused" /\ Control("Running")

CancelTask == status \notin Terminal /\ Control("Cancelled")

\* A run of the task reports its outcome.
FinishTask ==
    status # "Cancelled" /\ \E s \in {"Completed", "Failed", "Blocked"} : Control(s)

-----------------------------------------------------------------------------

Executor ==
    \/ NextStep \/ EndOfPlan \/ AttemptGate \/ AttemptLoad \/ AttemptSave
    \/ BudgetExceeded \/ AttemptFails \/ DeclaredBlocker \/ RunnerBlocked
    \/ ProviderDisconnects \/ OutputAccepted \/ StepCheck \/ AppendOutput
    \/ Refresh \/ Truncate \/ Rewrite \/ LogCheckpoint \/ StepLoad \/ StepSave

FileThreads == \E n \in pending : Land(n) \/ WriteFails(n)

Next ==
    \/ Executor \/ SinkFails \/ ProcessEnds \/ FileThreads
    \/ PauseTask \/ ResumeTask \/ CancelTask \/ FinishTask

Spec == Init /\ [][Next]_vars

\* The executor is a task that the runtime keeps polling, and every attempt
\* ends: it has an execution budget.  Nobody owes it a resume or a failure, or
\* an output its place in the file.
FairSpec == Spec /\ WF_vars(Executor)

-----------------------------------------------------------------------------
(* Properties *)

\* The steps 1, 2, ... in order, none left out and none twice.
InOrder(s) == \A i \in 1..Len(s) : s[i] = i

Entries(s) == {s[i] : i \in 1..Len(s)}

\* No step twice.
Once(s) == \A i, j \in 1..Len(s) : s[i] = s[j] => i = j

\* The outputs that are in the artifact or on their way to it.  While the
\* artifact is being rewritten its text is in the executor's hands.
Delivered == Entries(IF pc = "rewriting" THEN copy ELSE file) \union pending

\* Nothing has happened that may lose an output.
Intact == harm = {}

\* Retries, pauses, failures and rewrites never repeat a step and never let a
\* record run ahead of the one before it: the events and the checkpoints list
\* the steps in order, an event at most one step ahead of its checkpoint; the
\* artifact holds no step twice and none beyond the next checkpoint; and as
\* long as no write failed, the process lives and no rewrite overtook a write
\* in flight, every step with an event has its output in the artifact or on
\* its way there.
RecordsAgree ==
    /\ InOrder(logged) /\ InOrder(checkpoints)
    /\ Len(checkpoints) <= Len(logged) /\ Len(logged) <= Len(checkpoints) + 1
    /\ Once(file) /\ Entries(file) \intersect pending = {}
    /\ Delivered \subseteq 1..(Len(checkpoints) + 1)
    /\ Intact => 1..Len(logged) \subseteq Delivered

\* A run that says Completed has an event and a checkpoint of every planned
\* step, and the artifact has or gets the output of each one exactly once,
\* unless a write failed, the process ended or a rewrite overtook a write.
CompletedIsWhole ==
    outcome = "Completed" =>
        /\ Planned > 0
        /\ Len(checkpoints) = Planned /\ Len(logged) = Planned
        /\ Intact => Delivered = 1..Planned

\* While the stored task stays paused or cancelled the executor hands
\* over at most the one step that it had already begun.
StopsWithinOneStep == status \in Held => late <= 1

\* The run ends unless it is left paused; in particular a cancelled run does
\* not wait for anything.
RunEnds == <>[](status # "Paused") => <>(pc = "done")

\* Where the executor is tells how far the records have come.
Appended == {"refresh", "rewrite", "rewriting", "log", "stepLoad", "stepSave"}

Progress ==
    /\ step = Len(checkpoints) + 1
    /\ pc \notin {"step", "done"} => step <= Limit
    /\ outcome # "none" => pc = "done"
    /\ pc = "done" \/ Len(logged) = Len(checkpoints)
                        + (IF pc \in {"stepLoad", "stepSave"} THEN 1 ELSE 0)
    /\ pc = "done" \/ pc \in Appended \/ step \notin Entries(file) \union pending
    /\ Intact /\ pc \in Appended => step \in Delivered

\* The text that is going to replace the artifact.
Refreshing ==
    /\ pc \in {"rewrite", "rewriting"} =>
          /\ Once(copy) /\ Entries(copy) \intersect pending = {}
          /\ Entries(copy) \subseteq 1..step
          /\ Intact => pending = {}
    /\ pc = "rewrite" => Entries(copy) \subseteq Entries(file)
    /\ pc = "rewrite" /\ Intact => copy = file
    /\ Entries(file) \subseteq 1..step /\ pending \subseteq 1..step

\* A step that has been handed over since the task was held has been handed
\* over from beyond the gate, and the gate is shut.
HeldProgress ==
    status \in Held =>
        /\ late <= 1
        /\ late = 1 => pc \in Appended \union {"step", "gate", "done"}

-----------------------------------------------------------------------------
(* The abstract specification *)

Phase ==
    IF pc # "done" THEN "open"
    ELSE IF outcome = "Completed" THEN "complete" ELSE "stopped"

Ledger == INSTANCE TaskLedger
    WITH Steps <- {Len(p.depends) : p \in Plans},
         planned <- Planned,
         delivered <- Delivered,
         sound <- Intact,
         confirmed <- Len(checkpoints),
         phase <- Phase

\* Whatever is retried, paused, cancelled or fails on the way, the run keeps
\* the ledger of its plan: a step is delivered only when the one before it has
\* its checkpoint, a run that has ended delivers nothing more, Completed is
\* reported only when every step is confirmed, and an output is taken back only
\* by a failed write, the end of the process or a rewrite that overtook it.
ImplementsLedger == Ledger!Spec

-----------------------------------------------------------------------------
(* Statements that the code does not meet: TLC finds a counterexample to     *)
(* each (see README.md).                                                     *)

\* A long task can be cancelled: a cancelled task stays cancelled.
CancelSticks == [][status = "Cancelled" => status' = "Cancelled"]_vars

\* The artifact of a completed run is whole if no write to it has failed: a
\* rewrite can have taken back an output that was in flight when it read.
CompletedArtifactIsWhole ==
    outcome = "Completed" /\ "failed" \notin harm => Delivered = 1..Planned
=============================================================================
