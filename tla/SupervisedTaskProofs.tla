------------------------ MODULE SupervisedTaskProofs ------------------------
(***************************************************************************)
(* Proofs about SupervisedTask, for any number of runs, requests and       *)
(* recovery tasks, of probes and of crashes.                               *)
(***************************************************************************)
EXTENDS SupervisedTask, TLAPS

LEMMA HandlerSets ==
    /\ Runs \subseteq Handlers /\ Requests \subseteq Handlers /\ Watchers \subseteq Handlers
    /\ \A e \in Runs : Beat(e) \in Handlers
BY DEF Handlers, Beats

-----------------------------------------------------------------------------
(* Type correctness *)

LEMMA TypeStep == TypeOK /\ ProbeBudget /\ [Next]_vars => TypeOK'
<1> SUFFICES ASSUME TypeOK, ProbeBudget, [Next]_vars PROVE TypeOK'
  OBVIOUS
<1> USE HandlerSets, BoundsAssumption DEF TypeOK
<1> DEFINE States == RunStates \union BeatStates \union RequestStates \union WatcherStates
<1>a. \A p \in Handlers, s \in States : Goto(p, s) => pc' \in [Handlers -> States]
  BY DEF Goto
<1>b. Created \in Records
  BY DEF Created, Records, Statuses, Terminal, Pauses
<1>c. \A p \in Handlers, r \in Records :
          Save(p, r) => task' \in Records /\ copy' \in [Handlers -> Records]
  BY <1>b DEF Save
<1>d. \A p \in Handlers, s \in States :
          Load(p, s) \/ NoSave(p, s) =>
              task' \in Records /\ copy' \in [Handlers -> Records] /\ pc' \in [Handlers -> States]
  BY <1>a DEF Load, NoSave
<1>e. \A p \in Handlers, s \in Statuses : [copy[p] EXCEPT !.status = s] \in Records
  BY DEF Records
<1>f. \A p \in Handlers : copy[p] \in Records
  OBVIOUS
<1>1. ASSUME NEW e \in Runs, RunStep(e) PROVE TypeOK'
  <2> USE DEF RunFrame
  <2>1. CASE StartRun(e)
    BY <2>1, <1>a DEF StartRun, RunStates
  <2>2. CASE OutcomeLoad(e)
    BY <2>2, <1>d DEF OutcomeLoad, RunStates
  <2>3. CASE OutcomeSave(e)
    <3>1. PICK s \in {"Completed", "Blocked", "Failed", "Paused"}, disconnect \in BOOLEAN :
              /\ Save(e, [copy[e] EXCEPT
                    !.status = s,
                    !.pause = IF disconnect /\ s = "Paused" THEN "provider" ELSE @])
              /\ \/ disconnect /\ SpawnRecovery(e, "ending")
                 \/ ~disconnect /\ Goto(e, "ending")
              /\ selfPaused' = (selfPaused \/ (s = "Paused" /\ ~disconnect))
      BY <2>3 DEF OutcomeSave
    <3>2. [copy[e] EXCEPT !.status = s,
              !.pause = IF disconnect /\ s = "Paused" THEN "provider" ELSE @] \in Records
      BY <1>f DEF Records, Statuses, Terminal, Pauses
    <3>3. task' \in Records /\ copy' \in [Handlers -> Records]
      BY <3>1, <3>2, <1>c
    <3>4. pc' \in [Handlers -> States]
      BY <3>1, <1>a DEF SpawnRecovery, RunStates, WatcherStates
    <3>5. selfPaused' \in BOOLEAN
      BY <3>1
    <3> QED BY <2>3, <3>3, <3>4, <3>5 DEF OutcomeSave
  <2>4. CASE OutcomeError(e)
    BY <2>4, <1>d DEF OutcomeError, RunStates, Reasons
  <2>5. CASE ChatFails(e)
    BY <2>5, <1>d DEF ChatFails, RunStates, Reasons
  <2>6. CASE MarkFailedLoad(e)
    BY <2>6, <1>d DEF MarkFailedLoad, RunStates
  <2>7. CASE MarkFailedSave(e)
    <3>1. [status |-> "Paused", pause |-> "provider"] \in Records
      BY DEF Records, Statuses, Pauses
    <3>2. task' \in Records /\ copy' \in [Handlers -> Records]
      BY <2>7, <3>1, <1>c, <1>e DEF MarkFailedSave, Statuses, Terminal
    <3>3. pc' \in [Handlers -> States]
      BY <2>7, <1>a DEF MarkFailedSave, SpawnRecovery, RunStates, WatcherStates
    <3> QED BY <2>7, <3>2, <3>3 DEF MarkFailedSave
  <2>8. CASE EndRun(e)
    BY <2>8, <1>a DEF EndRun, RunStates
  <2> QED BY <1>1, <2>1, <2>2, <2>3, <2>4, <2>5, <2>6, <2>7, <2>8 DEF RunStep
<1>2. ASSUME NEW e \in Runs, BeatStep(e) PROVE TypeOK'
  <2> USE DEF RunFrame
  <2>1. CASE BeatLoad(e)
    BY <2>1, <1>d DEF BeatLoad, BeatStates
  <2>2. CASE BeatSave(e)
    BY <2>2, <1>a, <1>c DEF BeatSave, BeatStates
  <2> QED BY <1>2, <2>1, <2>2 DEF BeatStep
<1>3. ASSUME NEW r \in Requests, RequestStart(r) \/ RequestProgress(r) PROVE TypeOK'
  <2> USE DEF CtlFrame, RequestStates
  <2>0. [status |-> "Paused", pause |-> "user"] \in Records
    BY DEF Records, Statuses, Pauses
  <2>1. CASE StopRequest(r)
    <3>1. preempted' \in [Runs -> BOOLEAN]
      BY <2>1, Zenon DEF StopRequest
    <3> QED BY <2>1, <3>1, <1>d DEF StopRequest
  <2>2. CASE StopLoad(r) \/ PauseRequest(r) \/ ResumeRequest(r) \/ MarkRunningLoad(r)
    BY <2>2, <1>d DEF StopLoad, PauseRequest, ResumeRequest, MarkRunningLoad
  <2>3. CASE StopSave(r) \/ PauseSave(r) \/ MarkRunningSave(r)
    BY <2>0, <2>3, <1>a, <1>c, <1>e DEF StopSave, PauseSave, MarkRunningSave, Statuses,
       Terminal
  <2>4. CASE ResumeSave(r)
    BY <2>4, <1>c, <1>e DEF ResumeSave, Reschedule, RunStates, Statuses
  <2> QED BY <1>3, <2>1, <2>2, <2>3, <2>4 DEF RequestStart, RequestProgress
<1>4. ASSUME NEW v \in Watchers, WatcherStep(v) PROVE TypeOK'
  <2> USE DEF WatchFrame, WatcherStates
  <2>1. CASE PushLoad(v) \/ WatchCheck(v) \/ ProbeOk(v) \/ WatchResumeLoad(v)
    BY <2>1, <1>d DEF PushLoad, WatchCheck, ProbeOk, WatchResumeLoad
  <2>2. CASE PushSave(v)
    BY <2>2, <1>a, <1>c DEF PushSave
  <2>3. CASE ProbeFails(v)
    BY <2>3, <1>d DEF ProbeFails, ProbeBudget
  <2>4. CASE WatchResumeSave(v)
    BY <2>4, <1>c, <1>e DEF WatchResumeSave, Reschedule, RunStates, Statuses
  <2> QED BY <1>4, <2>1, <2>2, <2>3, <2>4 DEF WatcherStep
<1>5. CASE Crash
  <2>1. pc' \in [Handlers -> States]
    BY <1>5 DEF Crash, RunStates
  <2>2. copy' \in [Handlers -> Records] /\ preempted' \in [Runs -> BOOLEAN]
    BY <1>5, <1>b DEF Crash
  <2>3. crashes' \in 0..MaxCrashes
    BY <1>5 DEF Crash
  <2> QED BY <1>5, <2>1, <2>2, <2>3 DEF Crash
<1>6. CASE RecoverAfterRestart
  BY <1>6, <1>a DEF RecoverAfterRestart, WatcherStates
<1>7. CASE UNCHANGED vars
  BY <1>7 DEF vars
<1> QED BY <1>1, <1>2, <1>3, <1>4, <1>5, <1>6, <1>7 DEF Next

LEMMA ProbeStep == TypeOK /\ ProbeBudget /\ [Next]_vars => ProbeBudget'
<1> SUFFICES ASSUME TypeOK, ProbeBudget, [Next]_vars PROVE ProbeBudget'
  OBVIOUS
<1> USE HandlerSets DEF TypeOK, ProbeBudget
<1>1. ASSUME NEW e \in Runs, RunStep(e) \/ BeatStep(e) PROVE ProbeBudget'
  <2> USE DEF RunFrame, Goto, Load, NoSave, SpawnRecovery
  <2>1. CASE StartRun(e) \/ OutcomeLoad(e) \/ OutcomeError(e) \/ ChatFails(e) \/ EndRun(e)
    BY <2>1 DEF StartRun, OutcomeLoad, OutcomeError, ChatFails, EndRun
  <2>2. CASE OutcomeSave(e)
    BY <2>2 DEF OutcomeSave
  <2>3. CASE MarkFailedLoad(e)
    BY <2>3 DEF MarkFailedLoad
  <2>4. CASE MarkFailedSave(e)
    BY <2>4 DEF MarkFailedSave
  <2>5. CASE BeatStep(e)
    BY <2>5 DEF BeatStep, BeatLoad, BeatSave
  <2> QED BY <1>1, <2>1, <2>2, <2>3, <2>4, <2>5 DEF RunStep
<1>2. ASSUME NEW r \in Requests, RequestStart(r) \/ RequestProgress(r) PROVE ProbeBudget'
  BY <1>2 DEF RequestStart, RequestProgress, StopRequest, PauseRequest, ResumeRequest,
     StopLoad, StopSave, PauseSave, ResumeSave, Reschedule, MarkRunningLoad,
     MarkRunningSave, CtlFrame, Goto, Load, NoSave
<1>3. ASSUME NEW v \in Watchers, WatcherStep(v) PROVE ProbeBudget'
  BY <1>3 DEF WatcherStep, PushLoad, PushSave, WatchCheck, ProbeOk, ProbeFails,
     WatchResumeLoad, WatchResumeSave, Reschedule, Goto, Load, NoSave
<1>4. CASE Crash
  BY <1>4 DEF Crash
<1>5. CASE RecoverAfterRestart
  BY <1>5 DEF RecoverAfterRestart, Goto
<1>6. CASE UNCHANGED vars
  BY <1>6 DEF vars
<1> QED BY <1>1, <1>2, <1>3, <1>4, <1>5, <1>6 DEF Next

\* Every variable keeps its type; in particular the stored record is always a
\* known status with a known latest pause, whatever copies are written back
\* late, and a recovery watcher makes at most MaxProbes probes.
THEOREM TypeCorrect == Spec => [](TypeOK /\ ProbeBudget)
<1>1. Init => TypeOK /\ ProbeBudget
  <2> SUFFICES ASSUME Init PROVE TypeOK /\ ProbeBudget
    OBVIOUS
  <2>1. Created \in Records
    BY DEF Created, Records, Statuses, Terminal, Pauses
  <2>2. pc \in [Handlers -> RunStates]
    BY DEF Init, RunStates
  <2>3. ProbeBudget
    BY HandlerSets DEF Init, ProbeBudget
  <2>4. task \in Records /\ copy \in [Handlers -> Records]
    BY <2>1 DEF Init
  <2>5. reason \in [Runs -> Reasons] /\ preempted \in [Runs -> BOOLEAN]
    BY DEF Init, Reasons
  <2>6. probes \in [Watchers -> 0..MaxProbes] /\ crashes \in 0..MaxCrashes
    BY BoundsAssumption DEF Init
  <2> QED BY <2>2, <2>3, <2>4, <2>5, <2>6 DEF Init, TypeOK
<1>2. TypeOK /\ ProbeBudget /\ [Next]_vars => (TypeOK /\ ProbeBudget)'
  BY TypeStep, ProbeStep
<1> QED BY <1>1, <1>2, PTL DEF Spec

-----------------------------------------------------------------------------
(* What the handlers know of their copies *)

LEMMA HeldStep == TypeOK /\ HeldCopy /\ [Next]_vars => HeldCopy'
<1> SUFFICES ASSUME TypeOK, HeldCopy, [Next]_vars PROVE HeldCopy'
  OBVIOUS
<1> USE HandlerSets DEF TypeOK, HeldCopy, Terminal
<1>1. ASSUME NEW e \in Runs, RunStep(e) PROVE HeldCopy'
  <2> USE DEF Goto, Load, NoSave, Save, SpawnRecovery
  <2>1. CASE StartRun(e) \/ OutcomeError(e) \/ ChatFails(e) \/ EndRun(e)
    BY <2>1 DEF StartRun, OutcomeError, ChatFails, EndRun
  <2>2. CASE OutcomeLoad(e)
    BY <2>2 DEF OutcomeLoad
  <2>3. CASE OutcomeSave(e)
    BY <2>3 DEF OutcomeSave
  <2>4. CASE MarkFailedLoad(e)
    BY <2>4 DEF MarkFailedLoad, supervisor_task_accepts_execution_error,
       is_terminal_task_status, Records, Statuses
  <2>5. CASE MarkFailedSave(e)
    BY <2>5 DEF MarkFailedSave
  <2> QED BY <1>1, <2>1, <2>2, <2>3, <2>4, <2>5 DEF RunStep
<1>2. ASSUME NEW e \in Runs, BeatStep(e) PROVE HeldCopy'
  BY <1>2 DEF BeatStep, BeatLoad, BeatSave, Goto, Load, Save
<1>3. ASSUME NEW r \in Requests, RequestStart(r) \/ RequestProgress(r) PROVE HeldCopy'
  <2> USE DEF Goto, Load, NoSave, Save, Reschedule
  <2>1. CASE StopRequest(r) \/ ResumeRequest(r)
    BY <2>1 DEF StopRequest, ResumeRequest
  <2>2. CASE PauseRequest(r)
    BY <2>2 DEF PauseRequest, task_is_active_or_recoverable
  <2>3. CASE StopLoad(r) \/ MarkRunningLoad(r)
    BY <2>3 DEF StopLoad, MarkRunningLoad, is_terminal_task_status
  <2>4. CASE StopSave(r) \/ PauseSave(r) \/ MarkRunningSave(r)
    BY <2>4 DEF StopSave, PauseSave, MarkRunningSave
  <2>5. CASE ResumeSave(r)
    BY <2>5 DEF ResumeSave
  <2> QED BY <1>3, <2>1, <2>2, <2>3, <2>4, <2>5 DEF RequestStart, RequestProgress
<1>4. ASSUME NEW v \in Watchers, WatcherStep(v) PROVE HeldCopy'
  BY <1>4 DEF WatcherStep, PushLoad, PushSave, WatchCheck, ProbeOk, ProbeFails,
     WatchResumeLoad, WatchResumeSave, Reschedule, Goto, Load, NoSave, Save
<1>5. CASE Crash
  BY <1>5 DEF Crash
<1>6. CASE RecoverAfterRestart
  BY <1>6 DEF RecoverAfterRestart, Goto
<1>7. CASE UNCHANGED vars
  BY <1>7 DEF vars
<1> QED BY <1>1, <1>2, <1>3, <1>4, <1>5, <1>6, <1>7 DEF Next

LEMMA HeldCopyInvariant == Spec => [](TypeOK /\ HeldCopy)
<1>1. Init => HeldCopy
  BY DEF Init, HeldCopy
<1> QED BY <1>1, TypeCorrect, HeldStep, PTL DEF Spec
-----------------------------------------------------------------------------
(* A settled cancellation is final *)

LEMMA CancelStep ==
    TypeOK /\ HeldCopy /\ CancelSettled /\ [Next]_vars => CancelSettled'
<1> SUFFICES ASSUME TypeOK, HeldCopy, CancelSettled, [Next]_vars PROVE CancelSettled'
  OBVIOUS
<1> USE HandlerSets DEF TypeOK, HeldCopy, CancelSettled, Holding, Terminal
<1>1. ASSUME NEW e \in Runs, RunStep(e) PROVE CancelSettled'
  <2> USE DEF Goto, Load, NoSave, Save, SpawnRecovery
  <2>1. CASE StartRun(e) \/ OutcomeError(e) \/ ChatFails(e) \/ EndRun(e)
    BY <2>1 DEF StartRun, OutcomeError, ChatFails, EndRun
  <2>2. CASE OutcomeLoad(e)
    BY <2>2 DEF OutcomeLoad
  <2>3. CASE OutcomeSave(e) \/ MarkFailedSave(e)
    BY <2>3 DEF OutcomeSave, MarkFailedSave
  <2>4. CASE MarkFailedLoad(e)
    BY <2>4 DEF MarkFailedLoad, supervisor_task_accepts_execution_error,
       is_terminal_task_status
  <2> QED BY <1>1, <2>1, <2>2, <2>3, <2>4 DEF RunStep
<1>2. ASSUME NEW e \in Runs, BeatStep(e) PROVE CancelSettled'
  BY <1>2 DEF BeatStep, BeatLoad, BeatSave
<1>3. ASSUME NEW r \in Requests, RequestStart(r) \/ RequestProgress(r)
      PROVE CancelSettled'
  <2> USE DEF Goto, Load, NoSave
  <2>1. CASE RequestStart(r) \/ StopLoad(r) \/ MarkRunningLoad(r)
    BY <2>1 DEF RequestStart, StopRequest, PauseRequest, ResumeRequest, StopLoad,
       MarkRunningLoad, is_terminal_task_status, task_is_active_or_recoverable
  <2>2. CASE StopSave(r) \/ PauseSave(r) \/ ResumeSave(r) \/ MarkRunningSave(r)
    BY <2>2 DEF StopSave, PauseSave, ResumeSave, MarkRunningSave
  <2> QED BY <1>3, <2>1, <2>2 DEF RequestProgress
<1>4. ASSUME NEW v \in Watchers, WatcherStep(v) PROVE CancelSettled'
  <2> USE DEF Goto, Load, NoSave, Save
  <2>1. CASE PushLoad(v) \/ PushSave(v)
    BY <2>1 DEF PushLoad, PushSave
  <2>2. CASE WatchCheck(v) \/ ProbeOk(v) \/ ProbeFails(v) \/ WatchResumeLoad(v)
    BY <2>2 DEF WatchCheck, ProbeOk, ProbeFails, WatchResumeLoad
  <2>3. CASE WatchResumeSave(v)
    BY <2>3 DEF WatchResumeSave
  <2> QED BY <1>4, <2>1, <2>2, <2>3 DEF WatcherStep
<1>5. CASE Crash
  BY <1>5 DEF Crash
<1>6. CASE RecoverAfterRestart
  BY <1>6 DEF RecoverAfterRestart, Goto
<1>7. CASE UNCHANGED vars
  BY <1>7 DEF vars
<1> QED BY <1>1, <1>2, <1>3, <1>4, <1>5, <1>6, <1>7 DEF Next

\* Once a task is Cancelled and no handler holds an older copy, it stays
\* Cancelled for ever: outcomes, errors, heartbeats, controls, recovery and
\* restarts all respect it.  The unlocked window between load and save is the
\* only way a cancellation can be lost.
THEOREM CancellationIsFinal == Spec => CancelIsFinal
<1>1. TypeOK /\ HeldCopy /\ [Next]_vars => [CancelSettled => CancelSettled']_vars
  BY CancelStep
<1> QED BY <1>1, HeldCopyInvariant, PTL DEF Spec, CancelIsFinal

-----------------------------------------------------------------------------
(* Every settled end is final *)

LEMMA EndStep ==
    TypeOK /\ HeldCopy /\ EndSettled /\ [Next]_vars
        => EndSettled' /\ task'.status = task.status
<1> SUFFICES ASSUME TypeOK, HeldCopy, EndSettled, [Next]_vars
             PROVE EndSettled' /\ task'.status = task.status
  OBVIOUS
<1> USE HandlerSets DEF TypeOK, HeldCopy, EndSettled, Holding, Terminal
<1>1. ASSUME NEW e \in Runs, RunStep(e)
      PROVE EndSettled' /\ task'.status = task.status
  <2> USE DEF Goto, Load, NoSave
  <2>1. CASE StartRun(e) \/ OutcomeLoad(e) \/ ChatFails(e)
    BY <2>1 DEF StartRun, OutcomeLoad, ChatFails
  <2>2. CASE OutcomeSave(e) \/ OutcomeError(e) \/ MarkFailedSave(e)
    BY <2>2 DEF OutcomeSave, OutcomeError, MarkFailedSave
  <2>3. CASE MarkFailedLoad(e)
    BY <2>3 DEF MarkFailedLoad, supervisor_task_accepts_execution_error,
       is_terminal_task_status
  <2>4. CASE EndRun(e)
    BY <2>4 DEF EndRun
  <2> QED BY <1>1, <2>1, <2>2, <2>3, <2>4 DEF RunStep
<1>2. ASSUME NEW e \in Runs, BeatStep(e)
      PROVE EndSettled' /\ task'.status = task.status
  BY <1>2 DEF BeatStep, BeatLoad, BeatSave
<1>3. ASSUME NEW r \in Requests, RequestStart(r) \/ RequestProgress(r)
      PROVE EndSettled' /\ task'.status = task.status
  <2> USE DEF Goto, Load, NoSave
  <2>1. CASE RequestStart(r) \/ StopLoad(r) \/ MarkRunningLoad(r)
    BY <2>1 DEF RequestStart, StopRequest, PauseRequest, ResumeRequest, StopLoad,
       MarkRunningLoad, is_terminal_task_status, task_is_active_or_recoverable
  <2>2. CASE StopSave(r) \/ PauseSave(r) \/ ResumeSave(r) \/ MarkRunningSave(r)
    BY <2>2 DEF StopSave, PauseSave, ResumeSave, MarkRunningSave
  <2> QED BY <1>3, <2>1, <2>2 DEF RequestProgress
<1>4. ASSUME NEW v \in Watchers, WatcherStep(v)
      PROVE EndSettled' /\ task'.status = task.status
  <2> USE DEF Goto, Load, NoSave, Save
  <2>1. CASE PushLoad(v)
    BY <2>1 DEF PushLoad
  <2>2. CASE PushSave(v)
    BY <2>2 DEF PushSave
  <2>3. CASE WatchCheck(v) \/ ProbeOk(v) \/ ProbeFails(v) \/ WatchResumeLoad(v)
    BY <2>3 DEF WatchCheck, ProbeOk, ProbeFails, WatchResumeLoad
  <2>4. CASE WatchResumeSave(v)
    BY <2>4 DEF WatchResumeSave
  <2> QED BY <1>4, <2>1, <2>2, <2>3, <2>4 DEF WatcherStep
<1>5. CASE Crash
  BY <1>5 DEF Crash
<1>6. CASE RecoverAfterRestart
  BY <1>6 DEF RecoverAfterRestart, Goto
<1>7. CASE UNCHANGED vars
  BY <1>7 DEF vars
<1> QED BY <1>1, <1>2, <1>3, <1>4, <1>5, <1>6, <1>7 DEF Next

\* A task that has ended, with no run left to report and no older copy about
\* to be saved, keeps its status: a late error, a late control or a recovery
\* watcher cannot reopen or relabel it, also across a restart.
THEOREM EndStaysFinal == Spec => EndIsFinal
<1>1. TypeOK /\ HeldCopy /\ [Next]_vars
         => [EndSettled => EndSettled' /\ task'.status = task.status]_vars
  BY EndStep
<1> QED BY <1>1, HeldCopyInvariant, PTL DEF Spec, EndIsFinal

-----------------------------------------------------------------------------
(* A task that the provider has paused is watched *)

LEMMA WatchedStep ==
    TypeOK /\ HeldCopy /\ ProviderPauseWatched /\ [Next]_vars => ProviderPauseWatched'
<1> SUFFICES ASSUME TypeOK, HeldCopy, ProviderPauseWatched, [Next]_vars
             PROVE ProviderPauseWatched'
  OBVIOUS
<1> USE HandlerSets DEF TypeOK, HeldCopy, ProviderPauseWatched,
        task_latest_pause_was_provider_disconnect
<1>1. ASSUME NEW e \in Runs, RunStep(e) PROVE ProviderPauseWatched'
  <2> USE DEF RunFrame, Goto, Load, NoSave
  <2>1. CASE StartRun(e) \/ OutcomeLoad(e) \/ OutcomeError(e) \/ ChatFails(e)
    BY <2>1 DEF StartRun, OutcomeLoad, OutcomeError, ChatFails
  <2>2. CASE OutcomeSave(e)
    BY <2>2 DEF OutcomeSave, Save, SpawnRecovery, Records
  <2>3. CASE MarkFailedLoad(e)
    BY <2>3 DEF MarkFailedLoad
  <2>4. CASE MarkFailedSave(e)
    <3>1. CASE reason[e] = "disconnect"
      <4>1. \E v \in Watchers : pc'[v] = "restarting"
        BY <2>4, <3>1 DEF MarkFailedSave, SpawnRecovery
      <4> QED BY <4>1
    <3>2. CASE reason[e] # "disconnect"
      BY <2>4, <3>2 DEF MarkFailedSave, Save, Records
    <3> QED BY <3>1, <3>2
  \* The run that ends is not the watcher.
  <2>5. CASE EndRun(e)
    BY <2>5, DistinctAssumption DEF EndRun
  <2> QED BY <1>1, <2>1, <2>2, <2>3, <2>4, <2>5 DEF RunStep
<1>2. ASSUME NEW e \in Runs, BeatStep(e) PROVE ProviderPauseWatched'
  BY <1>2 DEF BeatStep, BeatLoad, BeatSave, Goto, Load, Save, RunFrame
<1>3. ASSUME NEW r \in Requests, RequestStart(r) \/ RequestProgress(r)
      PROVE ProviderPauseWatched'
  <2> USE DEF CtlFrame, Goto, Load, NoSave
  <2>1. CASE RequestStart(r) \/ MarkRunningLoad(r)
    BY <2>1 DEF RequestStart, StopRequest, PauseRequest, ResumeRequest, MarkRunningLoad
  <2>2. CASE StopLoad(r)
    BY <2>2 DEF StopLoad, is_terminal_task_status, Terminal
  <2>3. CASE StopSave(r) \/ PauseSave(r) \/ ResumeSave(r) \/ MarkRunningSave(r)
    BY <2>3 DEF StopSave, PauseSave, ResumeSave, MarkRunningSave, Reschedule, Save, Records
  <2> QED BY <1>3, <2>1, <2>2, <2>3 DEF RequestProgress
<1>4. ASSUME NEW v \in Watchers, WatcherStep(v) PROVE ProviderPauseWatched'
  <2> USE DEF WatchFrame, Goto, Load, NoSave
  <2>1. CASE PushLoad(v) \/ PushSave(v) \/ ProbeOk(v) \/ ProbeFails(v)
    BY <2>1 DEF PushLoad, PushSave, ProbeOk, ProbeFails, Save
  \* A watcher gives up a provider pause only when its probes are used up.
  <2>2. CASE WatchCheck(v)
    BY <2>2, BoundsAssumption DEF WatchCheck
  <2>3. CASE WatchResumeLoad(v)
    BY <2>3 DEF WatchResumeLoad
  <2>4. CASE WatchResumeSave(v)
    BY <2>4 DEF WatchResumeSave, Reschedule, Save, Records
  <2> QED BY <1>4, <2>1, <2>2, <2>3, <2>4 DEF WatcherStep
<1>5. CASE Crash
  BY <1>5 DEF Crash
<1>6. CASE RecoverAfterRestart
  BY <1>6 DEF RecoverAfterRestart, Goto
<1>7. CASE UNCHANGED vars
  BY <1>7 DEF vars
<1> QED BY <1>1, <1>2, <1>3, <1>4, <1>5, <1>6, <1>7 DEF Next

\* A provider pause is never forgotten: whatever heartbeats, controls, outcomes,
\* checkpoints and crashes interleave with it, the gateway is about to look for
\* it after a restart, a recovery task is at work, or one has used up all of
\* its probes.
THEOREM PauseStaysWatched == Spec => []ProviderPauseWatched
<1>1. Init => ProviderPauseWatched
  BY DEF Init, Created, ProviderPauseWatched
<1> QED BY <1>1, HeldCopyInvariant, WatchedStep, PTL DEF Spec
=============================================================================
