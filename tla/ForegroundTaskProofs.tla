------------------------ MODULE ForegroundTaskProofs ------------------------
(***************************************************************************)
(* Proofs about ForegroundTask, for any number of calls and requests and   *)
(* any step and retry budgets.                                             *)
(***************************************************************************)
EXTENDS ForegroundTask, TLAPS

-----------------------------------------------------------------------------
(* Type correctness *)

LEMMA TypeStep == TypeOK /\ StepBudget /\ [Next]_vars => TypeOK'
<1> SUFFICES ASSUME TypeOK, StepBudget, [Next]_vars PROVE TypeOK'
  OBVIOUS
<1> USE BoundsAssumption DEF TypeOK, Handles, CallerStates, JobStates, Results,
        RequestStates
<1>1. ASSUME NEW c \in Calls, CallStep(c) PROVE TypeOK'
  <2> USE DEF jobVars, ctlVars, reqVars
  <2>1. CASE TakePrevious(c)
    BY <2>1 DEF TakePrevious
  <2>2. CASE SpawnJob(c)
    <3>1. cancelled' \in [Calls -> BOOLEAN]
      BY <2>2, Zenon DEF SpawnJob
    <3> QED BY <2>2, <3>1 DEF SpawnJob
  <2>3. CASE InsertHandle(c)
    BY <2>3 DEF InsertHandle
  <2>4. CASE CallDropped(c)
    BY <2>4 DEF CallDropped
  <2> QED BY <1>1, <2>1, <2>2, <2>3, <2>4 DEF CallStep
<1>2. ASSUME NEW c \in Calls, JobStep(c) PROVE TypeOK'
  <2> USE DEF JobFrame, callVars, reqVars, ctlVars
  <2>1. CASE Preflight(c)
    BY <2>1 DEF Preflight, Finish
  <2>2. CASE StepBoundary(c)
    BY <2>2 DEF StepBoundary, LoopFails, Finish
  <2>3. CASE CheckPaused(c)
    BY <2>3 DEF CheckPaused
  <2>4. CASE Subscribe(c)
    BY <2>4 DEF Subscribe
  <2>5. CASE Wake(c)
    BY <2>5 DEF Wake
  <2>6. CASE CancelWakes(c)
    <3>1. CASE site[c] = "step"
      BY <2>6, <3>1 DEF CancelWakes, LoopFails, Finish
    <3>2. CASE site[c] # "step"
      BY <2>6, <3>2 DEF CancelWakes, Finish
    <3> QED BY <3>1, <3>2
  <2>7. CASE Drain(c)
    BY <2>7 DEF Drain, Finish, StepBudget
  <2>8. CASE Work(c)
    BY <2>8 DEF Work, LoopFails, Finish
  <2>9. CASE Cleanup(c)
    BY <2>9 DEF Cleanup
  <2> QED BY <1>2, <2>1, <2>2, <2>3, <2>4, <2>5, <2>6, <2>7, <2>8, <2>9 DEF JobStep
<1>3. ASSUME NEW r \in Requests, RequestStep(r) \/ RequestProgress(r) PROVE TypeOK'
  <2> USE DEF CtlFrame, callVars, jobVars, ctlVars
  <2>1. CASE RequestStep(r)
    BY <2>1 DEF RequestStep, PauseRequest, PauseWithNote, ResumeRequest, ResumeWithInput,
       FetchController, StopRequest
  <2>2. CASE SetPaused(r)
    BY <2>2 DEF SetPaused, Answer
  <2>5. CASE QueueInput(r)
    BY <2>5 DEF QueueInput
  <2>6. CASE ClearPaused(r)
    BY <2>6 DEF ClearPaused
  <2>3. CASE NotifyWaiters(r)
    <3>1. woken' \in [Calls -> BOOLEAN]
      BY <2>3, Zenon DEF NotifyWaiters
    <3> QED BY <2>3, <3>1 DEF NotifyWaiters, Answer
  <2>4. CASE StopTake(r)
    BY <2>4 DEF StopTake
  <2>7. CASE StopCancel(r)
    BY <2>7 DEF StopCancel, Answer
  <2> QED BY <1>3, <2>1, <2>2, <2>3, <2>4, <2>5, <2>6, <2>7 DEF RequestProgress
<1>4. CASE UNCHANGED vars
  BY <1>4 DEF vars
<1> QED BY <1>1, <1>2, <1>3, <1>4 DEF Next

LEMMA BudgetStep == TypeOK /\ StepBudget /\ [Next]_vars => StepBudget'
<1> SUFFICES ASSUME TypeOK, StepBudget, [Next]_vars PROVE StepBudget'
  OBVIOUS
<1> USE BoundsAssumption DEF TypeOK, StepBudget
<1>1. ASSUME NEW c \in Calls, CallStep(c) PROVE StepBudget'
  BY <1>1 DEF CallStep, TakePrevious, SpawnJob, InsertHandle, CallDropped, jobVars
<1>2. ASSUME NEW c \in Calls, JobStep(c) PROVE StepBudget'
  <2>1. CASE Preflight(c)
    BY <2>1 DEF Preflight, Finish
  <2>2. CASE StepBoundary(c)
    BY <2>2 DEF StepBoundary, LoopFails, Finish
  <2>3. CASE CheckPaused(c) \/ Subscribe(c) \/ Wake(c) \/ Cleanup(c)
    BY <2>3 DEF CheckPaused, Subscribe, Wake, Cleanup
  <2>4. CASE CancelWakes(c)
    BY <2>4 DEF CancelWakes, LoopFails, Finish
  <2>5. CASE Drain(c)
    BY <2>5 DEF Drain, Finish
  <2>6. CASE Work(c)
    BY <2>6 DEF Work, LoopFails, Finish
  <2> QED BY <1>2, <2>1, <2>2, <2>3, <2>4, <2>5, <2>6 DEF JobStep
<1>3. ASSUME NEW r \in Requests, RequestStep(r) \/ RequestProgress(r) PROVE StepBudget'
  BY <1>3 DEF RequestStep, PauseRequest, PauseWithNote, ResumeRequest, ResumeWithInput,
     FetchController, StopRequest, RequestProgress, SetPaused, QueueInput,
     ClearPaused, NotifyWaiters, StopTake, StopCancel, CtlFrame, jobVars
<1>4. CASE UNCHANGED vars
  BY <1>4 DEF vars
<1> QED BY <1>1, <1>2, <1>3, <1>4 DEF Next

\* Every variable keeps its type: in particular the step and retry counters
\* stay within MaxSteps and MaxRetries whatever the pauses, resumes and
\* instructions, which rests on StepBudget: a step that has passed the head
\* of execute_loop is still within the budget when it begins.
THEOREM TypeCorrect == Spec => [](TypeOK /\ StepBudget)
<1>1. Init => TypeOK /\ StepBudget
  BY BoundsAssumption DEF Init, TypeOK, StepBudget, Handles, CallerStates,
     JobStates, Results, RequestStates
<1>2. TypeOK /\ StepBudget /\ [Next]_vars => (TypeOK /\ StepBudget)'
  BY TypeStep, BudgetStep
<1> QED BY <1>1, <1>2, PTL DEF Spec

-----------------------------------------------------------------------------
(* A pause stops the job at its next checkpoint *)

LEMMA PauseStep == TypeOK /\ PauseInv /\ [Next]_vars => PauseInv'
<1> SUFFICES ASSUME TypeOK, PauseInv, [Next]_vars PROVE PauseInv'
  OBVIOUS
<1> USE DEF TypeOK, PauseInv
<1>1. ASSUME NEW c \in Calls, CallStep(c) PROVE PauseInv'
  BY <1>1 DEF CallStep, TakePrevious, SpawnJob, InsertHandle, CallDropped, jobVars,
     ctlVars
<1>2. ASSUME NEW c \in Calls, JobStep(c) PROVE PauseInv'
  <2> USE DEF ctlVars
  <2>1. CASE Preflight(c)
    BY <2>1 DEF Preflight, Finish
  <2>2. CASE StepBoundary(c)
    BY <2>2 DEF StepBoundary, LoopFails, Finish
  <2>3. CASE CheckPaused(c) \/ Subscribe(c) \/ Wake(c) \/ Cleanup(c)
    BY <2>3 DEF CheckPaused, Subscribe, Wake, Cleanup
  <2>4. CASE CancelWakes(c)
    BY <2>4 DEF CancelWakes, LoopFails, Finish
  <2>5. CASE Drain(c)
    BY <2>5 DEF Drain, Finish
  <2>6. CASE Work(c)
    BY <2>6 DEF Work, LoopFails, Finish
  <2> QED BY <1>2, <2>1, <2>2, <2>3, <2>4, <2>5, <2>6 DEF JobStep
<1>3. ASSUME NEW r \in Requests, RequestStep(r) \/ RequestProgress(r) PROVE PauseInv'
  BY <1>3 DEF RequestStep, PauseRequest, PauseWithNote, ResumeRequest, ResumeWithInput,
     FetchController, StopRequest, RequestProgress, SetPaused, QueueInput,
     ClearPaused, NotifyWaiters, StopTake, StopCancel, CtlFrame, jobVars, ctlVars
<1>4. CASE UNCHANGED vars
  BY <1>4 DEF vars
<1> QED BY <1>1, <1>2, <1>3, <1>4 DEF Next

\* After pause() a job begins at most one more step, in every interleaving of
\* calls, jobs and requests: wait_if_paused keeps the gateway's promise that
\* the task stops at its next safe checkpoint.
THEOREM PauseIsPrompt == Spec => []PauseStopsAtNextCheckpoint
<1>1. Init => PauseInv
  BY DEF Init, PauseInv
<1>2. PauseInv => PauseStopsAtNextCheckpoint
  BY DEF PauseInv, PauseStopsAtNextCheckpoint
<1> QED BY <1>1, <1>2, TypeCorrect, PauseStep, PTL DEF Spec

-----------------------------------------------------------------------------
(* An active job can be controlled *)

LEMMA OverlapStep == TypeOK /\ StartsOverlap /\ [Next]_vars => StartsOverlap'
<1> SUFFICES ASSUME TypeOK, StartsOverlap, [Next]_vars
             PROVE StartsOverlap'
  OBVIOUS
<1> USE NoTaskAssumption DEF TypeOK, StartsOverlap, Starting
<1>1. ASSUME NEW c \in Calls, CallStep(c) PROVE StartsOverlap'
  <2>1. CASE TakePrevious(c)
    BY <2>1 DEF TakePrevious
  <2>2. CASE SpawnJob(c)
    BY <2>2 DEF SpawnJob
  <2>3. CASE InsertHandle(c)
    BY <2>3 DEF InsertHandle
  <2>4. CASE CallDropped(c)
    BY <2>4 DEF CallDropped
  <2> QED BY <1>1, <2>1, <2>2, <2>3, <2>4 DEF CallStep
<1>2. ASSUME NEW c \in Calls, JobStep(c) PROVE StartsOverlap'
  BY <1>2 DEF JobStep, Preflight, StepBoundary, CheckPaused, Subscribe, Wake,
     CancelWakes, Drain, Work, Cleanup, JobFrame, callVars
<1>3. ASSUME NEW r \in Requests, RequestStep(r) \/ RequestProgress(r)
      PROVE StartsOverlap'
  BY <1>3 DEF RequestStep, PauseRequest, PauseWithNote, ResumeRequest, ResumeWithInput,
     FetchController, StopRequest, RequestProgress, SetPaused, QueueInput,
     ClearPaused, NotifyWaiters, StopTake, StopCancel, CtlFrame, callVars
<1>4. CASE UNCHANGED vars
  BY <1>4 DEF vars
<1> QED BY <1>1, <1>2, <1>3, <1>4 DEF Next

\* The job of d is within reach, or one of the two exceptions applies.
Accounted(d) == WithinReach(d) \/ d \in overtaken \/ caller[d] = "abandoned"

LEMMA ControllableStep ==
    TypeOK /\ StartsOverlap /\ ActiveJobControllable /\ [Next]_vars
        => ActiveJobControllable'
<1> SUFFICES ASSUME TypeOK, StartsOverlap, ActiveJobControllable,
                    [Next]_vars, NEW d \in Calls, job'[d] \in Live, ~cancelled'[d]
             PROVE Accounted(d)'
  BY DEF ActiveJobControllable, Accounted
<1> USE DEF TypeOK, Handles, Accounted, WithinReach
<1>0. job[d] \in Live /\ ~cancelled[d] => Accounted(d)
  BY DEF ActiveJobControllable
<1>1. ASSUME NEW c \in Calls, CallStep(c) PROVE Accounted(d)'
  <2>1. CASE TakePrevious(c)
    BY <1>0, <2>1 DEF TakePrevious, BeingCancelled, jobVars, reqVars
  <2>2. CASE SpawnJob(c)
    BY <1>0, <2>2 DEF SpawnJob, BeingCancelled, reqVars
  <2>3. CASE InsertHandle(c)
    BY <1>0, <2>3, NoTaskAssumption DEF InsertHandle, BeingCancelled, StartsOverlap,
       Starting, jobVars, reqVars
  <2>4. CASE CallDropped(c)
    BY <1>0, <2>4 DEF CallDropped, BeingCancelled, jobVars, reqVars
  <2> QED BY <1>1, <2>1, <2>2, <2>3, <2>4 DEF CallStep
<1>2. ASSUME NEW c \in Calls, JobStep(c) PROVE Accounted(d)'
  <2>1. CASE Cleanup(c)
    BY <1>0, <2>1 DEF Cleanup, BeingCancelled, Live, callVars, reqVars
  <2>2. CASE ~Cleanup(c)
    <3>1. UNCHANGED <<slot, caller, previous, overtaken, req, target, cancelled>>
      BY <1>2, <2>2 DEF JobStep, Preflight, StepBoundary, CheckPaused, Subscribe, Wake,
         CancelWakes, Drain, Work, JobFrame, callVars, reqVars
    <3>2. job[d] \in Live
      <4>1. CASE c = d
        BY <1>2, <2>2, <4>1 DEF JobStep, Preflight, StepBoundary, CheckPaused, Subscribe,
           Wake, CancelWakes, Drain, Work, Live
      <4>2. CASE c # d
        BY <1>2, <2>2, <4>2 DEF JobStep, Preflight, StepBoundary, CheckPaused, Subscribe,
           Wake, CancelWakes, Drain, Work, LoopFails, Finish
      <4> QED BY <4>1, <4>2
    <3> QED BY <1>0, <3>1, <3>2 DEF BeingCancelled
  <2> QED BY <2>1, <2>2
<1>3. ASSUME NEW r \in Requests, RequestStep(r) \/ RequestProgress(r) PROVE Accounted(d)'
  <2> USE DEF CtlFrame, callVars, jobVars, BeingCancelled, Answer
  <2>1. CASE RequestStep(r)
    BY <1>0, <2>1 DEF RequestStep, PauseRequest, PauseWithNote, ResumeRequest,
       ResumeWithInput, FetchController, StopRequest
  <2>2. CASE SetPaused(r) \/ QueueInput(r) \/ ClearPaused(r) \/ NotifyWaiters(r)
    BY <1>0, <2>2 DEF SetPaused, QueueInput, ClearPaused, NotifyWaiters
  <2>3. CASE StopTake(r)
    BY <1>0, <2>3, NoTaskAssumption DEF StopTake
  <2>4. CASE StopCancel(r)
    BY <1>0, <2>4 DEF StopCancel
  <2> QED BY <1>3, <2>1, <2>2, <2>3, <2>4 DEF RequestProgress
<1>4. CASE UNCHANGED vars
  BY <1>0, <1>4 DEF vars, BeingCancelled
<1> QED BY <1>1, <1>2, <1>3, <1>4 DEF Next

\* However calls, jobs, clean-ups and control requests interleave, a running
\* job that nobody has cancelled can be reached through the session's slot, or
\* is about to be put there or to be cancelled, unless another call was starting
\* when its handle went in or its call was dropped before: neither preemption
\* by run_foreground_chat nor the clean-up of a finished job nor a stop loses
\* the handle of a live one.
THEOREM Controllable == Spec => []ActiveJobControllable
<1>1. Init => StartsOverlap /\ ActiveJobControllable
  BY NoTaskAssumption DEF Init, StartsOverlap, Starting, ActiveJobControllable, Live
<1>2. TypeOK /\ StartsOverlap /\ ActiveJobControllable /\ [Next]_vars
         => (StartsOverlap /\ ActiveJobControllable)'
  BY OverlapStep, ControllableStep
<1> QED BY <1>1, <1>2, TypeCorrect, PTL DEF Spec
=============================================================================
