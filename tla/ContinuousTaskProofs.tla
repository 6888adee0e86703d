------------------------ MODULE ContinuousTaskProofs ------------------------
(* Proofs about ContinuousTask, for every plan and every policy.             *)
EXTENDS ContinuousTask, TLAPS

\* The inductive invariant: the position of the executor, the text that is
\* going to replace the artifact, the records, and what has been handed over
\* since the task was held.
IInv ==
    TypeOK /\ Progress /\ Refreshing /\ RecordsAgree /\ HeldProgress /\ CompletedIsWhole

\* The number of steps a run may execute.
LEMMA LimitIsNat ==
    ASSUME plan \in Plans
    PROVE  Planned \in Nat /\ Limit \in Nat /\ Limit <= Planned
<1>1. plan.depends \in Seq(SUBSET Nat) /\ plan.maxSteps \in Nat
  BY PlanAssumption
<1>2. Planned \in Nat
  BY <1>1 DEF Planned
<1> QED
  BY <1>1, <1>2 DEF Limit

\* The plan never changes, and with it the limit.
LEMMA PlanFixed ==
    ASSUME plan' = plan
    PROVE  Planned' = Planned /\ Limit' = Limit
BY DEF Planned, Limit

\* Appending the next step to a list of steps in order keeps it in order.
LEMMA AppendInOrder ==
    ASSUME NEW s \in Seq(Nat), NEW n \in Nat, InOrder(s), n = Len(s) + 1
    PROVE  /\ Append(s, n) \in Seq(Nat)
           /\ Len(Append(s, n)) = n
           /\ InOrder(Append(s, n))
BY DEF InOrder

\* One more step in an artifact.
LEMMA AppendEntry ==
    ASSUME NEW s \in Seq(Nat), NEW n \in Nat
    PROVE  /\ Append(s, n) \in Seq(Nat)
           /\ Entries(Append(s, n)) = Entries(s) \union {n}
           /\ Once(s) /\ n \notin Entries(s) => Once(Append(s, n))
<1>1. /\ Append(s, n) \in Seq(Nat) /\ Len(Append(s, n)) = Len(s) + 1 /\ Len(s) \in Nat
      /\ Append(s, n)[Len(s) + 1] = n
      /\ \A i \in 1..Len(s) : Append(s, n)[i] = s[i]
  OBVIOUS
<1>2. Entries(Append(s, n)) = Entries(s) \union {n}
  BY <1>1 DEF Entries
<1>3. Once(s) /\ n \notin Entries(s) => Once(Append(s, n))
  BY <1>1 DEF Entries, Once
<1> QED
  BY <1>1, <1>2, <1>3

\* The beginning of an artifact.
LEMMA PrefixEntries ==
    ASSUME NEW s \in Seq(Nat), NEW n \in 0..Len(s)
    PROVE  /\ SubSeq(s, 1, n) \in Seq(Nat)
           /\ Entries(SubSeq(s, 1, n)) \subseteq Entries(s)
           /\ Once(s) => Once(SubSeq(s, 1, n))
<1>1. /\ Len(s) \in Nat /\ n \in Nat /\ n <= Len(s)
      /\ SubSeq(s, 1, n) \in Seq(Nat) /\ Len(SubSeq(s, 1, n)) = n
      /\ \A i \in 1..n : SubSeq(s, 1, n)[i] = s[i]
  OBVIOUS
<1> QED
  BY <1>1 DEF Entries, Once

\* An empty artifact.
LEMMA EmptyEntries == Entries(<<>>) = {} /\ Once(<<>>)
BY DEF Entries, Once

LEMMA InitHolds == Init => IInv
<1> SUFFICES ASSUME Init PROVE IInv
  OBVIOUS
<1>1. plan \in Plans
  BY DEF Init
<1>2. Limit \in Nat /\ Planned \in Nat
  BY <1>1, LimitIsNat
<1>3. TypeOK
  BY <1>2, PolicyAssumption DEF Init, TypeOK, Statuses, Terminal, PCs, Thens, Outcomes
<1>4. Delivered = {}
  BY EmptyEntries DEF Init, Delivered
<1> QED
  BY <1>2, <1>3, <1>4, EmptyEntries DEF Init, IInv, Progress, Refreshing, RecordsAgree,
     InOrder, HeldProgress, CompletedIsWhole, Appended, Held

\* The part of the type invariant that is about the records.
ArtifactType ==
    /\ file \in Seq(Nat) /\ copy \in Seq(Nat) /\ pending \subseteq Nat
    /\ harm \subseteq {"failed", "overtaken"}
    /\ logged \in Seq(Nat) /\ checkpoints \in Seq(Nat)

\* The part about the executor and the stored task.
RunType ==
    /\ plan \in Plans /\ status \in Statuses /\ held \in Statuses
    /\ pc \in PCs /\ then \in Thens
    /\ step \in 1..(Limit + 1) /\ attempt \in 0..MaxRetries
    /\ output \in Outputs \union {NoOutput} /\ previous \in Outputs \union {NoOutput}
    /\ outcome \in Outcomes /\ controls \in 0..MaxControls /\ late \in Nat

\* What the invariant says of the file, in one place.
LEMMA FileFacts ==
    ASSUME IInv
    PROVE  /\ Planned \in Nat /\ Limit \in Nat /\ Limit <= Planned
           /\ step \in Nat /\ step = Len(checkpoints) + 1 /\ step <= Limit + 1
           /\ file \in Seq(Nat) /\ copy \in Seq(Nat) /\ pending \subseteq Nat
           /\ logged \in Seq(Nat) /\ checkpoints \in Seq(Nat)
           /\ Len(logged) \in Nat /\ Len(checkpoints) \in Nat
           /\ Delivered \subseteq 1..step
<1>1. Planned \in Nat /\ Limit \in Nat /\ Limit <= Planned
  BY LimitIsNat DEF IInv, TypeOK
<1> QED
  BY <1>1 DEF IInv, TypeOK, Progress, RecordsAgree

-----------------------------------------------------------------------------
(* The gateway, and steps of the executor that leave the records alone *)

\* Steps that leave the artifact, the log and the checkpoints alone, and do
\* not move the executor, only have to respect the pause history.
LEMMA ControlStep ==
    ASSUME IInv, PauseTask \/ ResumeTask \/ CancelTask \/ FinishTask
    PROVE  IInv'
<1>1. PICK s \in Statuses : Control(s)
  BY DEF PauseTask, ResumeTask, CancelTask, FinishTask, Statuses, Terminal
<1>2. Planned' = Planned /\ Limit' = Limit
  BY <1>1, PlanFixed DEF Control
<1>3. TypeOK'
  BY <1>1, <1>2, PolicyAssumption DEF IInv, TypeOK, Control, runVars, artifactVars
<1>4. Delivered' = Delivered /\ Intact' = Intact
  BY <1>1 DEF Control, Delivered, Intact, artifactVars
<1>5. Progress' /\ Refreshing' /\ RecordsAgree' /\ CompletedIsWhole'
  BY <1>1, <1>2, <1>4 DEF IInv, Progress, Refreshing, RecordsAgree, CompletedIsWhole,
     Control, runVars, artifactVars
<1>6. HeldProgress'
  BY <1>1 DEF HeldProgress, Control
<1> QED
  BY <1>3, <1>5, <1>6 DEF IInv

\* The actions that change none of the records.
Quiet ==
    \/ NextStep \/ EndOfPlan \/ AttemptGate \/ AttemptLoad \/ AttemptSave
    \/ BudgetExceeded \/ AttemptFails \/ DeclaredBlocker \/ RunnerBlocked
    \/ ProviderDisconnects \/ OutputAccepted \/ StepCheck \/ StepLoad

\* A quiet step is far from the file, before it and after it.
LEMMA QuietFrame ==
    ASSUME IInv, Quiet
    PROVE  /\ UNCHANGED <<plan, step, artifactVars>>
           /\ pc \notin {"done", "rewrite", "rewriting"}
           /\ pc' \notin {"rewrite", "rewriting"}
           /\ Delivered' = Delivered /\ Intact' = Intact
<1>1. UNCHANGED <<plan, step, artifactVars>>
  BY DEF Quiet, NextStep, EndOfPlan, AttemptGate, AttemptLoad, AttemptSave,
     BudgetExceeded, AttemptFails, DeclaredBlocker, RunnerBlocked, ProviderDisconnects,
     OutputAccepted, StepCheck, StepLoad, StoreFrame, SinkFrame, WorkFrame, RecordFrame,
     runVars, artifactVars
<1>2. pc \notin {"done", "rewrite", "rewriting"} /\ pc' \notin {"rewrite", "rewriting"}
  BY DEF Quiet, NextStep, EndOfPlan, AttemptGate, AttemptLoad, AttemptSave, NextAttempt,
     BudgetExceeded, AttemptFails, DeclaredBlocker, RunnerBlocked, ProviderDisconnects,
     OutputAccepted, StepCheck, StepLoad, End, RecordAttempt
<1> QED
  BY <1>1, <1>2 DEF Delivered, Intact, artifactVars

LEMMA QuietType ==
    ASSUME IInv, Quiet
    PROVE  TypeOK'
<1>1. Planned \in Nat /\ Limit \in Nat
  BY LimitIsNat DEF IInv, TypeOK
<1>2. plan' = plan /\ step' = step /\ ArtifactType'
  BY QuietFrame DEF IInv, TypeOK, ArtifactType, artifactVars
<1>3. Planned' = Planned /\ Limit' = Limit
  BY <1>2, PlanFixed
<1>10. RunType
  BY DEF IInv, TypeOK, RunType
<1> USE <1>10 DEF RunType, Statuses, Terminal, PCs, Thens, Outcomes
<1>4. NextStep \/ EndOfPlan => RunType'
  BY <1>1, <1>2, <1>3, PolicyAssumption
     DEF NextStep, EndOfPlan, End, RecordAttempt, StoreFrame, runVars
<1>5. AttemptGate \/ AttemptLoad => RunType'
  BY <1>1, <1>2, <1>3
     DEF AttemptGate, AttemptLoad, End, SinkFrame
<1>6. AttemptSave => RunType'
  BY <1>1, <1>2, <1>3, PolicyAssumption
     DEF AttemptSave, SaveHeld, NextAttempt, End, SinkFrame
<1>7. BudgetExceeded \/ AttemptFails \/ DeclaredBlocker \/ RunnerBlocked
        \/ ProviderDisconnects => RunType'
  BY <1>1, <1>2, <1>3
     DEF BudgetExceeded, AttemptFails, DeclaredBlocker, RunnerBlocked,
         ProviderDisconnects, RecordAttempt, WorkFrame, StoreFrame
<1>8. OutputAccepted => RunType'
  BY <1>1, <1>2, <1>3
     DEF OutputAccepted, End, WorkFrame, StoreFrame
<1>9. StepCheck \/ StepLoad => RunType'
  BY <1>1, <1>2, <1>3
     DEF StepCheck, StepLoad, End, RecordFrame
<1> QED
  <2>1. RunType'
    BY <1>4, <1>5, <1>6, <1>7, <1>8, <1>9 DEF Quiet
  <2> QED
    BY <1>2, <2>1 DEF TypeOK, ArtifactType

LEMMA QuietStep ==
    ASSUME IInv, Quiet
    PROVE  IInv'
<1>1. /\ Planned \in Nat /\ Limit \in Nat /\ Limit <= Planned
      /\ step \in Nat /\ step <= Limit + 1 /\ Len(checkpoints) \in Nat
      /\ Delivered \subseteq 1..step
  BY FileFacts
<1>2. /\ UNCHANGED <<plan, step, artifactVars>>
      /\ pc \notin {"done", "rewrite", "rewriting"} /\ pc' \notin {"rewrite", "rewriting"}
      /\ Delivered' = Delivered /\ Intact' = Intact
  BY QuietFrame
<1>3. Planned' = Planned /\ Limit' = Limit
  BY <1>2, PlanFixed
<1>4. TypeOK'
  BY QuietType
<1>5. RecordsAgree'
  BY <1>2 DEF IInv, RecordsAgree, artifactVars
<1>6. /\ outcome' # "none" => pc' = "done"
      /\ pc' \notin {"step", "done"} => step <= Limit
      /\ pc' = "done" \/ (pc' \in {"stepLoad", "stepSave"} <=> pc \in {"stepLoad", "stepSave"})
      /\ pc' = "done" \/ (pc' \in Appended <=> pc \in Appended)
  BY DEF IInv, Progress, Quiet, NextStep, EndOfPlan, AttemptGate, AttemptLoad, AttemptSave,
     NextAttempt, BudgetExceeded, AttemptFails, DeclaredBlocker, RunnerBlocked,
     ProviderDisconnects, OutputAccepted, StepCheck, StepLoad, End, RecordAttempt, Appended
<1>7. Progress'
  BY <1>2, <1>3, <1>6 DEF IInv, Progress, artifactVars, Appended
<1>8. Refreshing'
  BY <1>2 DEF IInv, Refreshing, artifactVars
<1>9. HeldProgress'
  BY DEF IInv, TypeOK, HeldProgress, Held, Appended, SaveHeld, Quiet, NextStep, EndOfPlan,
     AttemptGate, AttemptLoad, AttemptSave, NextAttempt, BudgetExceeded, AttemptFails,
     DeclaredBlocker, RunnerBlocked, ProviderDisconnects, OutputAccepted, StepCheck, StepLoad,
     End, RecordAttempt, StoreFrame, SinkFrame, WorkFrame, RecordFrame
<1>10. CompletedIsWhole'
  <2>1. SUFFICES ASSUME outcome' = "Completed"
                 PROVE  /\ Planned > 0 /\ Len(checkpoints) = Planned
                        /\ Len(logged) = Planned
                        /\ Intact => Delivered = 1..Planned
    BY <1>2, <1>3 DEF CompletedIsWhole, artifactVars
  <2>2. EndOfPlan
    BY <1>2, <2>1 DEF IInv, Progress, Quiet, NextStep, AttemptGate, AttemptLoad, AttemptSave,
       NextAttempt, BudgetExceeded, AttemptFails, DeclaredBlocker, RunnerBlocked,
       ProviderDisconnects, OutputAccepted, StepCheck, StepLoad, End, RecordAttempt
  <2>3. Limit # 0 /\ Planned <= Limit /\ step > Limit /\ pc = "step"
    BY <1>1, <2>1, <2>2 DEF EndOfPlan, End
  <2>4. Planned > 0 /\ Len(checkpoints) = Planned /\ Len(logged) = Planned
        /\ step = Planned + 1
    BY <1>1, <2>3 DEF IInv, Progress
  <2>5. step \notin Delivered
    BY <2>3 DEF IInv, Progress, Delivered, Appended
  <2>6. ASSUME Intact PROVE Delivered = 1..Planned
    <3>1. 1..Planned \subseteq Delivered
      BY <2>4, <2>6 DEF IInv, RecordsAgree
    <3>2. ASSUME NEW n \in Delivered PROVE n \in 1..Planned
      <4>1. n \in 1..step /\ n # step
        BY <1>1, <2>5
      <4> QED
        BY <1>1, <2>4, <4>1
    <3> QED
      BY <3>1, <3>2
  <2> QED
    BY <2>4, <2>6
<1> QED
  BY <1>4, <1>5, <1>7, <1>8, <1>9, <1>10 DEF IInv

-----------------------------------------------------------------------------
(* The steps that write a record *)

\* What all of them leave alone.
Writing == AppendOutput \/ Refresh \/ Truncate \/ Rewrite \/ LogCheckpoint \/ StepSave

LEMMA WritingFrame ==
    ASSUME IInv, Writing
    PROVE  /\ plan' = plan /\ outcome' = outcome /\ outcome = "none"
           /\ Planned' = Planned /\ Limit' = Limit
           /\ step <= Limit /\ pc \notin {"step", "done"} /\ pc' # "done"
           /\ CompletedIsWhole'
<1>1. plan' = plan /\ outcome' = outcome /\ pc \notin {"step", "done"} /\ pc' # "done"
  BY DEF Writing, AppendOutput, Refresh, Truncate, Rewrite, LogCheckpoint, StepSave,
     RecordFrame, RefreshFrame
<1>2. outcome = "none" /\ step <= Limit
  BY <1>1 DEF IInv, Progress
<1>3. Planned' = Planned /\ Limit' = Limit
  BY <1>1, PlanFixed
<1> QED
  BY <1>1, <1>2, <1>3 DEF CompletedIsWhole

LEMMA AppendStep ==
    ASSUME IInv, AppendOutput
    PROVE  IInv'
<1>1. /\ plan' = plan /\ outcome' = outcome /\ outcome = "none"
      /\ Planned' = Planned /\ Limit' = Limit /\ step <= Limit /\ CompletedIsWhole'
  BY WritingFrame DEF Writing
<1>2. /\ Limit \in Nat /\ step \in Nat /\ step = Len(checkpoints) + 1
      /\ file \in Seq(Nat) /\ Len(checkpoints) \in Nat /\ Delivered \subseteq 1..step
  BY FileFacts
<1>3. /\ pc = "append" /\ pc' = "refresh" /\ pending' = pending \union {step}
      /\ UNCHANGED <<step, file, copy, harm, logged, checkpoints, status, held>>
  BY DEF AppendOutput, HandOver
<1>4. Delivered' = Delivered \union {step} /\ Intact' = Intact
  BY <1>3 DEF Delivered, Intact
<1>5. step \notin Entries(file)
  BY <1>3 DEF IInv, Progress, Appended
<1>6. TypeOK'
  <2>1. ArtifactType'
    BY <1>2, <1>3 DEF IInv, TypeOK, ArtifactType
  <2>2. late' \in Nat
    BY DEF IInv, TypeOK, AppendOutput, HandOver
  <2> QED
    BY <1>1, <1>3, <2>1, <2>2 DEF IInv, TypeOK, ArtifactType, PCs, AppendOutput, RecordFrame
<1>7. Progress'
  BY <1>1, <1>2, <1>3, <1>4 DEF IInv, Progress, Appended
<1>8. Refreshing'
  <2>1. step \in 1..step
    BY <1>2
  <2> QED
    BY <1>3, <2>1 DEF IInv, Refreshing
<1>9. RecordsAgree'
  <2>1. Entries(file') \intersect pending' = {}
    BY <1>3, <1>5 DEF IInv, RecordsAgree
  <2>2. Delivered' \subseteq 1..(Len(checkpoints) + 1)
    <3>1. step \in 1..step
      BY <1>2
    <3> QED
      BY <1>2, <1>4, <3>1
  <2>3. Intact' => 1..Len(logged) \subseteq Delivered'
    BY <1>4 DEF IInv, RecordsAgree
  <2> QED
    BY <1>3, <2>1, <2>2, <2>3 DEF IInv, RecordsAgree
<1>10. HeldProgress'
  BY <1>3 DEF IInv, TypeOK, HeldProgress, AppendOutput, HandOver, Appended
<1> QED
  BY <1>1, <1>6, <1>7, <1>8, <1>9, <1>10 DEF IInv

\* Reading the artifact, truncating it and writing it again: an output gets
\* lost only when it was in flight, and then the history says so.
LEMMA RefreshDelivers ==
    ASSUME IInv, Refresh \/ Truncate \/ Rewrite
    PROVE  /\ Delivered' \subseteq Delivered
           /\ Intact' => Intact /\ Delivered' = Delivered
           /\ UNCHANGED <<step, pending, logged, checkpoints, status, held, late>>
           /\ pc \in Appended /\ pc' \in Appended \ {"stepLoad", "stepSave"}
           /\ pc \notin {"stepLoad", "stepSave"}
<1>1. /\ UNCHANGED <<step, pending, logged, checkpoints, status, held, late>>
      /\ pc \in Appended /\ pc' \in Appended \ {"stepLoad", "stepSave"}
      /\ pc \notin {"stepLoad", "stepSave"}
  BY DEF Refresh, Truncate, Rewrite, RefreshFrame, Appended
<1>2. CASE Refresh
  BY <1>1, <1>2 DEF Refresh, Overtake, Delivered, Intact
<1>3. CASE Truncate
  <2>1. Entries(copy) \subseteq Delivered
    <3>1. pc = "rewrite" /\ copy' = copy /\ harm' = harm /\ pc' = "rewriting"
      BY <1>3 DEF Truncate
    <3> QED
      BY <3>1 DEF IInv, Refreshing, Delivered
  <2> QED
    BY <1>1, <1>3, <2>1 DEF IInv, Refreshing, Truncate, Delivered, Intact
<1>4. CASE Rewrite
  BY <1>1, <1>4 DEF Rewrite, Delivered, Intact
<1> QED
  BY <1>1, <1>2, <1>3, <1>4

LEMMA RefreshStep ==
    ASSUME IInv, Refresh \/ Truncate \/ Rewrite
    PROVE  IInv'
<1>1. /\ plan' = plan /\ outcome' = outcome /\ outcome = "none"
      /\ Planned' = Planned /\ Limit' = Limit /\ step <= Limit /\ CompletedIsWhole'
  BY WritingFrame DEF Writing
<1>2. /\ Limit \in Nat /\ step \in Nat /\ step = Len(checkpoints) + 1
      /\ file \in Seq(Nat) /\ copy \in Seq(Nat) /\ Len(checkpoints) \in Nat
      /\ Delivered \subseteq 1..step
  BY FileFacts
<1>3. /\ Delivered' \subseteq Delivered
      /\ Intact' => Intact /\ Delivered' = Delivered
      /\ UNCHANGED <<step, pending, logged, checkpoints, status, held, late>>
      /\ pc \in Appended /\ pc' \in Appended \ {"stepLoad", "stepSave"}
      /\ pc \notin {"stepLoad", "stepSave"}
  BY RefreshDelivers
<1>4. TypeOK'
  <2>1. file' \in Seq(Nat) /\ copy' \in Seq(Nat)
    <3>1. file' \in {file, copy, <<>>} /\ copy' \in {file, copy, <<>>}
      BY DEF Refresh, Truncate, Rewrite
    <3>2. <<>> \in Seq(Nat)
      OBVIOUS
    <3> QED
      BY <1>2, <3>1, <3>2
  <2>2. harm' \subseteq {"failed", "overtaken"}
    BY DEF IInv, TypeOK, Refresh, Truncate, Rewrite, Overtake
  <2>3. pc' \in PCs
    BY DEF Refresh, Truncate, Rewrite, PCs
  <2>4. UNCHANGED <<then, attempt, output, previous, controls>>
    BY DEF Refresh, Truncate, Rewrite, RefreshFrame, RecordFrame
  <2> QED
    BY <1>1, <1>3, <2>1, <2>2, <2>3, <2>4 DEF IInv, TypeOK
<1>5. Progress'
  BY <1>1, <1>3 DEF IInv, Progress, Appended
<1>6. Refreshing' /\ Once(file)' /\ (Entries(file) \intersect pending = {})'
  <2>1. CASE Refresh
    BY <1>3, <2>1 DEF IInv, Refreshing, RecordsAgree, Refresh, Overtake, Intact
  <2>2. CASE Truncate
    BY <1>3, <2>2, EmptyEntries DEF IInv, Refreshing, RecordsAgree, Truncate, Intact
  <2>3. CASE Rewrite
    BY <1>3, <2>3 DEF IInv, Refreshing, RecordsAgree, Rewrite, Intact
  <2> QED
    BY <2>1, <2>2, <2>3
<1>7. RecordsAgree'
  BY <1>3, <1>6 DEF IInv, RecordsAgree
<1>8. HeldProgress'
  BY <1>3 DEF IInv, HeldProgress
<1> QED
  BY <1>1, <1>4, <1>5, <1>6, <1>7, <1>8 DEF IInv

LEMMA LogStep ==
    ASSUME IInv, LogCheckpoint
    PROVE  IInv'
<1>1. /\ plan' = plan /\ outcome' = outcome /\ outcome = "none"
      /\ Planned' = Planned /\ Limit' = Limit /\ step <= Limit /\ CompletedIsWhole'
  BY WritingFrame DEF Writing
<1>2. /\ Limit \in Nat /\ step \in Nat /\ step = Len(checkpoints) + 1
      /\ logged \in Seq(Nat) /\ Len(logged) \in Nat /\ Len(checkpoints) \in Nat
  BY FileFacts
<1>3. /\ pc = "log" /\ pc' = "stepLoad" /\ logged' = Append(logged, step)
      /\ UNCHANGED <<step, file, copy, pending, harm, checkpoints, status, held, late>>
  BY DEF LogCheckpoint, fileVars
<1>4. Delivered' = Delivered /\ Intact' = Intact
  BY <1>3 DEF Delivered, Intact
<1>5. Len(logged) = Len(checkpoints) /\ InOrder(logged)
  BY <1>2, <1>3 DEF IInv, Progress, RecordsAgree
<1>6. logged' \in Seq(Nat) /\ Len(logged') = step /\ InOrder(logged')
  BY <1>2, <1>3, <1>5, AppendInOrder
<1>7. TypeOK'
  BY <1>1, <1>2, <1>3, <1>6 DEF IInv, TypeOK, PCs, LogCheckpoint, RecordFrame
<1>8. Progress'
  BY <1>1, <1>2, <1>3, <1>4, <1>6 DEF IInv, Progress, Appended
<1>9. Refreshing'
  BY <1>3 DEF IInv, Refreshing
<1>10. RecordsAgree'
  <2>1. Intact => 1..step \subseteq Delivered
    <3>1. Intact => step \in Delivered /\ 1..Len(logged) \subseteq Delivered
      BY <1>3 DEF IInv, Progress, RecordsAgree, Appended
    <3> QED
      BY <1>2, <1>5, <3>1
  <2> QED
    BY <1>2, <1>3, <1>4, <1>6, <2>1 DEF IInv, RecordsAgree
<1>11. HeldProgress'
  BY <1>3 DEF IInv, HeldProgress, Appended
<1> QED
  BY <1>1, <1>7, <1>8, <1>9, <1>10, <1>11 DEF IInv

LEMMA SaveStep ==
    ASSUME IInv, StepSave
    PROVE  IInv'
<1>1. /\ plan' = plan /\ outcome' = outcome /\ outcome = "none"
      /\ Planned' = Planned /\ Limit' = Limit /\ step <= Limit /\ CompletedIsWhole'
  BY WritingFrame DEF Writing
<1>2. /\ Limit \in Nat /\ step \in Nat /\ step = Len(checkpoints) + 1
      /\ checkpoints \in Seq(Nat) /\ Len(logged) \in Nat /\ Len(checkpoints) \in Nat
      /\ Delivered \subseteq 1..step
  BY FileFacts
<1>3. /\ pc = "stepSave" /\ pc' = "step" /\ step' = step + 1
      /\ checkpoints' = Append(checkpoints, step)
      /\ UNCHANGED <<file, copy, pending, harm, logged>>
  BY DEF StepSave, fileVars
<1>4. Delivered' = Delivered /\ Intact' = Intact
  BY <1>3 DEF Delivered, Intact
<1>5. Len(logged) = step /\ InOrder(checkpoints)
  BY <1>2, <1>3 DEF IInv, Progress, RecordsAgree
<1>6. checkpoints' \in Seq(Nat) /\ Len(checkpoints') = step /\ InOrder(checkpoints')
  BY <1>2, <1>3, <1>5, AppendInOrder
<1>7. TypeOK'
  BY <1>1, <1>2, <1>3, <1>6
     DEF IInv, TypeOK, PCs, Statuses, Terminal, Held, StepSave, SaveHeld, RecordFrame
<1>8. Entries(file) \subseteq 1..step /\ pending \subseteq 1..step
  BY DEF IInv, Refreshing
<1>9. Progress'
  BY <1>1, <1>2, <1>3, <1>4, <1>5, <1>6, <1>8 DEF IInv, Progress, Appended
<1>10. Refreshing'
  BY <1>2, <1>3, <1>8 DEF IInv, Refreshing
<1>11. RecordsAgree'
  BY <1>2, <1>3, <1>4, <1>5, <1>6 DEF IInv, RecordsAgree
<1>12. HeldProgress'
  BY <1>3 DEF IInv, HeldProgress, Held, StepSave, SaveHeld, Appended
<1> QED
  BY <1>1, <1>7, <1>9, <1>10, <1>11, <1>12 DEF IInv

-----------------------------------------------------------------------------
(* Failures and the file threads *)

\* A rewrite that is cut short loses outputs and gains none.
LEMMA CutShortFacts ==
    ASSUME IInv, CutShort, UNCHANGED <<pending, step>>, pc' = "done"
    PROVE  /\ file' \in Seq(Nat) /\ copy' = <<>>
           /\ Once(file') /\ Entries(file') \intersect pending = {}
           /\ Entries(file') \subseteq 1..step
           /\ Delivered' \subseteq Delivered
           /\ pc # "rewriting" => Delivered' = Delivered
<1>1. copy \in Seq(Nat) /\ file \in Seq(Nat)
  BY FileFacts
<1>2. CASE pc = "rewriting"
  <2>1. PICK n \in 0..Len(copy) : file' = SubSeq(copy, 1, n)
    BY <1>2 DEF CutShort
  <2>2. file' \in Seq(Nat) /\ Entries(file') \subseteq Entries(copy) /\ Once(file')
    BY <1>1, <1>2, <2>1, PrefixEntries DEF IInv, Refreshing
  <2> QED
    BY <1>2, <2>2 DEF IInv, Refreshing, CutShort, Delivered
<1>3. CASE pc # "rewriting"
  BY <1>1, <1>3 DEF CutShort, Delivered, IInv, RecordsAgree, Refreshing
<1> QED
  BY <1>2, <1>3

LEMMA FailureStep ==
    ASSUME IInv, SinkFails \/ ProcessEnds
    PROVE  IInv'
<1>1. /\ plan' = plan /\ step' = step /\ logged' = logged /\ checkpoints' = checkpoints
      /\ status' = status /\ late' = late /\ pending' = pending
      /\ pc' = "done" /\ outcome' \in {"error", "killed"} /\ CutShort
      /\ harm \subseteq harm' /\ harm' \subseteq harm \union {"failed"}
      /\ pc = "rewriting" => "failed" \in harm'
  BY DEF SinkFails, ProcessEnds, End, runVars
<1>2. Planned' = Planned /\ Limit' = Limit
  BY <1>1, PlanFixed
<1>3. /\ file' \in Seq(Nat) /\ copy' = <<>>
      /\ Once(file') /\ Entries(file') \intersect pending = {}
      /\ Entries(file') \subseteq 1..step
      /\ Delivered' \subseteq Delivered
      /\ pc # "rewriting" => Delivered' = Delivered
  BY <1>1, CutShortFacts
<1>4. Intact' => Intact /\ Delivered' = Delivered
  BY <1>1, <1>3 DEF Intact
<1>5. TypeOK'
  <2>1. copy' \in Seq(Nat)
    BY <1>3
  <2> QED
    BY <1>1, <1>2, <1>3, <2>1
       DEF IInv, TypeOK, SinkFails, ProcessEnds, PCs, Outcomes, runVars
<1>6. Progress' /\ CompletedIsWhole'
  BY <1>1, <1>2 DEF IInv, Progress, CompletedIsWhole, Appended
<1>7. Refreshing' /\ RecordsAgree'
  BY <1>1, <1>3, <1>4 DEF IInv, Refreshing, RecordsAgree
<1>8. HeldProgress'
  BY <1>1 DEF IInv, HeldProgress
<1> QED
  BY <1>5, <1>6, <1>7, <1>8 DEF IInv

\* A write that lands or fails.  One that lands in the middle of a rewrite is
\* lost, but then the rewrite has overtaken it.
LEMMA ThreadDelivers ==
    ASSUME IInv, NEW n \in pending, Land(n) \/ WriteFails(n)
    PROVE  /\ UNCHANGED <<plan, status, held, pc, runVars, copy, logged, checkpoints, outcome,
                          controls, late>>
           /\ pending' = pending \ {n} /\ harm \subseteq harm'
           /\ harm' \subseteq harm \union {"failed"}
           /\ file' \in Seq(Nat) /\ Once(file') /\ Entries(file') \intersect pending' = {}
           /\ Entries(file') \subseteq Entries(file) \union {n}
           /\ Entries(file) \subseteq Entries(file')
           /\ Delivered' \subseteq Delivered
           /\ Intact' => Intact /\ Delivered' = Delivered
<1>1. /\ UNCHANGED <<plan, status, held, pc, runVars, copy, logged, checkpoints, outcome,
                     controls, late>>
      /\ pending' = pending \ {n} /\ harm \subseteq harm'
      /\ harm' \subseteq harm \union {"failed"}
  BY DEF Land, WriteFails, ThreadFrame
<1>2. n \in Nat /\ file \in Seq(Nat) /\ Once(file) /\ Entries(file) \intersect pending = {}
  BY FileFacts DEF IInv, RecordsAgree
<1>3. CASE Land(n)
  <2>1. /\ file' \in Seq(Nat) /\ Once(file') /\ Entries(file') = Entries(file) \union {n}
    BY <1>2, <1>3, AppendEntry DEF Land
  <2>2. harm' = harm /\ Intact' = Intact
    BY <1>3 DEF Land, Intact
  <2>3. CASE pc = "rewriting"
    <3>1. ~Intact
      BY <2>3 DEF IInv, Refreshing
    <3> QED
      BY <1>1, <1>2, <2>1, <2>2, <2>3, <3>1 DEF Delivered
  <2>4. CASE pc # "rewriting"
    BY <1>1, <1>2, <2>1, <2>2, <2>4 DEF Delivered
  <2> QED
    BY <1>1, <2>3, <2>4
<1>4. CASE WriteFails(n)
  BY <1>1, <1>2, <1>4 DEF WriteFails, Delivered, Intact
<1> QED
  BY <1>3, <1>4

LEMMA ThreadStep ==
    ASSUME IInv, FileThreads
    PROVE  IInv'
<1>1. PICK n \in pending : Land(n) \/ WriteFails(n)
  BY DEF FileThreads
<1>2. /\ UNCHANGED <<plan, status, held, pc, runVars, copy, logged, checkpoints, outcome,
                     controls, late>>
      /\ pending' = pending \ {n} /\ harm \subseteq harm'
      /\ harm' \subseteq harm \union {"failed"}
      /\ file' \in Seq(Nat) /\ Once(file') /\ Entries(file') \intersect pending' = {}
      /\ Entries(file') \subseteq Entries(file) \union {n}
      /\ Entries(file) \subseteq Entries(file')
      /\ Delivered' \subseteq Delivered
      /\ Intact' => Intact /\ Delivered' = Delivered
  BY <1>1, ThreadDelivers
<1>3. Planned' = Planned /\ Limit' = Limit /\ step' = step
  BY <1>2, PlanFixed DEF runVars
<1>4. TypeOK'
  BY <1>2, <1>3 DEF IInv, TypeOK, runVars
<1>5. Progress'
  BY <1>2, <1>3 DEF IInv, Progress, runVars
<1>6. Refreshing'
  <2>1. pc = "rewrite" /\ Intact' => pending = {}
    BY <1>2 DEF IInv, Refreshing
  <2> QED
    BY <1>2, <1>3, <2>1 DEF IInv, Refreshing
<1>7. RecordsAgree' /\ HeldProgress'
  BY <1>2 DEF IInv, RecordsAgree, HeldProgress
<1>8. CompletedIsWhole'
  BY <1>2, <1>3 DEF IInv, CompletedIsWhole
<1> QED
  BY <1>4, <1>5, <1>6, <1>7, <1>8 DEF IInv

LEMMA StutterStep ==
    ASSUME IInv, UNCHANGED vars
    PROVE  IInv'
<1>1. Delivered' = Delivered /\ Intact' = Intact /\ Planned' = Planned /\ Limit' = Limit
  BY DEF vars, Delivered, Intact, Planned, Limit
<1> QED
  BY <1>1 DEF IInv, vars, TypeOK, Progress, Refreshing, RecordsAgree, HeldProgress,
     CompletedIsWhole

LEMMA IInvHolds == Spec => []IInv
<1>1. IInv /\ [Next]_vars => IInv'
  BY ControlStep, QuietStep, AppendStep, RefreshStep, LogStep, SaveStep, FailureStep,
     ThreadStep, StutterStep DEF Next, Executor, Quiet
<1> QED
  BY <1>1, InitHolds, PTL DEF Spec

\* The executor's state is well typed: in particular a step is never attempted
\* more than MaxRetries + 1 times and the run stays within its step budget.
THEOREM TypeCorrect == Spec => []TypeOK
<1>1. IInv => TypeOK
  BY DEF IInv
<1> QED
  BY <1>1, IInvHolds, PTL

\* For every plan, whatever fails and whoever interferes: the events and the
\* checkpoints list the steps in order, without gaps or repetitions, the
\* artifact holds no step twice and none beyond the next checkpoint, and it
\* lacks a step with an event only after a failed write, the end of the process
\* or a rewrite that overtook a write.
THEOREM RecordsInOrder == Spec => []RecordsAgree
<1>1. IInv => RecordsAgree
  BY DEF IInv
<1> QED
  BY <1>1, IInvHolds, PTL

\* A run that ends as Completed has an event and a checkpoint of every planned
\* step and, unless one of those three things has happened, the artifact has
\* or gets the output of exactly these steps.
THEOREM CompletedRuns == Spec => []CompletedIsWhole
<1>1. IInv => CompletedIsWhole
  BY DEF IInv
<1> QED
  BY <1>1, IInvHolds, PTL

\* Pausing or cancelling the stored task stops the executor within one step.
THEOREM HeldTasksStop == Spec => []StopsWithinOneStep
<1>1. IInv => StopsWithinOneStep
  BY DEF IInv, HeldProgress, StopsWithinOneStep
<1> QED
  BY <1>1, IInvHolds, PTL

-----------------------------------------------------------------------------
(* ContinuousTask implements TaskLedger *)

\* A step that leaves the plan, the outputs, the checkpoints and the end of
\* the run alone is invisible in the ledger.
LEMMA LedgerStutter ==
    ASSUME UNCHANGED <<plan, checkpoints>>, Delivered' = Delivered, Intact' = Intact,
           Phase' = Phase
    PROVE  UNCHANGED Ledger!vars
BY DEF Ledger!vars, Planned

\* A step that loses outputs, or may, spoils the ledger.
LEMMA LedgerSpoil ==
    ASSUME UNCHANGED <<plan, checkpoints>>, Delivered' \subseteq Delivered, Intact' = FALSE
    PROVE  Ledger!Spoil
BY DEF Ledger!Spoil, Planned

\* What a quiet step can do to the ledger: nothing, or end the task.
LEMMA QuietLedger ==
    ASSUME IInv, Quiet
    PROVE  [Ledger!Next]_(Ledger!vars)
<1>1. UNCHANGED <<plan, checkpoints>> /\ pc # "done" /\ Delivered' = Delivered /\ Intact' = Intact
  BY QuietFrame DEF artifactVars
<1>2. Phase = "open" /\ Planned' = Planned
  BY <1>1 DEF Phase, Planned
<1>3. CASE pc' # "done"
  BY <1>1, <1>3, LedgerStutter DEF Phase
<1>4. CASE pc' = "done" /\ outcome' # "Completed"
  <2>1. Phase' = "stopped"
    BY <1>4 DEF Phase
  <2>2. Ledger!Stop
    BY <1>1, <1>2, <2>1 DEF Ledger!Stop
  <2> QED
    BY <2>2 DEF Ledger!Next
<1>5. CASE pc' = "done" /\ outcome' = "Completed"
  <2>1. CompletedIsWhole'
    BY QuietStep DEF IInv
  <2>2. Planned > 0 /\ Len(checkpoints) = Planned
    BY <1>1, <1>2, <1>5, <2>1 DEF CompletedIsWhole
  <2>3. Phase' = "complete"
    BY <1>5 DEF Phase
  <2>4. Ledger!Complete
    BY <1>1, <1>2, <2>2, <2>3 DEF Ledger!Complete
  <2> QED
    BY <2>4 DEF Ledger!Next
<1> QED
  BY <1>3, <1>4, <1>5

\* The step the executor hands over is the one after the last confirmed one.
LEMMA AppendLedger ==
    ASSUME IInv, AppendOutput
    PROVE  Ledger!Deliver
<1>1. Planned \in Nat /\ Limit \in Nat /\ Limit <= Planned /\ Len(checkpoints) \in Nat
      /\ step = Len(checkpoints) + 1
  BY FileFacts
<1>2. step <= Limit /\ Planned' = Planned
  BY WritingFrame DEF Writing
<1>3. /\ pc = "append" /\ pc' = "refresh" /\ pending' = pending \union {step}
      /\ UNCHANGED <<file, copy, harm, checkpoints>>
  BY DEF AppendOutput, HandOver
<1>4. Delivered' = Delivered \union {step} /\ Intact' = Intact /\ step \notin Delivered
  BY <1>3 DEF IInv, Progress, Delivered, Intact, Appended
<1>5. Phase = "open" /\ Phase' = "open"
  BY <1>3 DEF Phase
<1> QED
  BY <1>1, <1>2, <1>3, <1>4, <1>5 DEF Ledger!Deliver

\* The refresh changes nothing, or the rewrite has overtaken a write.
LEMMA RefreshLedger ==
    ASSUME IInv, Refresh \/ Truncate \/ Rewrite
    PROVE  [Ledger!Next]_(Ledger!vars)
<1>1. /\ Delivered' \subseteq Delivered
      /\ Intact' => Intact /\ Delivered' = Delivered
      /\ checkpoints' = checkpoints /\ pc # "done" /\ pc' # "done"
  BY RefreshDelivers DEF Appended
<1>2. plan' = plan
  BY WritingFrame DEF Writing
<1>3. Phase' = Phase /\ Intact' \in BOOLEAN
  BY <1>1 DEF Phase, Intact
<1>4. CASE Intact'
  BY <1>1, <1>2, <1>3, <1>4, LedgerStutter
<1>5. CASE ~Intact'
  BY <1>1, <1>2, <1>3, <1>5, LedgerSpoil DEF Ledger!Damage, Ledger!Next
<1> QED
  BY <1>4, <1>5

LEMMA ConfirmLedger ==
    ASSUME IInv, StepSave
    PROVE  Ledger!Confirm
<1>1. /\ checkpoints \in Seq(Nat) /\ step \in Nat /\ step = Len(checkpoints) + 1
  BY FileFacts
<1>2. /\ pc = "stepSave" /\ pc' = "step" /\ checkpoints' = Append(checkpoints, step)
      /\ UNCHANGED <<file, copy, pending, harm>>
  BY DEF StepSave, fileVars
<1>3. Delivered' = Delivered /\ Intact' = Intact /\ Phase = "open" /\ Phase' = "open"
  BY <1>2 DEF Delivered, Intact, Phase
<1>4. Intact => step \in Delivered
  BY <1>2 DEF IInv, Progress, Appended
<1>5. Len(checkpoints') = Len(checkpoints) + 1
  BY <1>1, <1>2
<1>6. Planned' = Planned
  BY WritingFrame DEF Writing
<1> QED
  BY <1>1, <1>3, <1>4, <1>5, <1>6 DEF Ledger!Confirm

LEMMA FailureLedger ==
    ASSUME IInv, SinkFails \/ ProcessEnds
    PROVE  Ledger!Stop
<1>1. /\ plan' = plan /\ step' = step /\ checkpoints' = checkpoints /\ pending' = pending
      /\ pc # "done" /\ pc' = "done" /\ outcome' \in {"error", "killed"} /\ CutShort
      /\ harm' \in {harm, harm \union {"failed"}}
      /\ pc = "rewriting" => "failed" \in harm'
  BY DEF SinkFails, ProcessEnds, End, runVars
<1>2. Delivered' \subseteq Delivered /\ (pc # "rewriting" => Delivered' = Delivered)
  BY <1>1, CutShortFacts
<1>3. Phase = "open" /\ Phase' = "stopped" /\ Planned' = Planned
  BY <1>1 DEF Phase, Planned
<1>4. CASE "failed" \in harm'
  <2>1. Intact' = FALSE
    BY <1>4 DEF Intact
  <2> QED
    BY <1>1, <1>2, <1>3, <2>1, LedgerSpoil DEF Ledger!Stop
<1>5. CASE "failed" \notin harm'
  <2>1. harm' = harm /\ Intact' = Intact
    BY <1>1, <1>5 DEF Intact
  <2> QED
    BY <1>1, <1>2, <1>3, <1>5, <2>1 DEF Ledger!Stop
<1> QED
  BY <1>4, <1>5

LEMMA ThreadLedger ==
    ASSUME IInv, FileThreads
    PROVE  [Ledger!Next]_(Ledger!vars)
<1>1. PICK n \in pending : Land(n) \/ WriteFails(n)
  BY DEF FileThreads
<1>2. /\ UNCHANGED <<plan, pc, checkpoints, outcome>>
      /\ Delivered' \subseteq Delivered
      /\ Intact' => Intact /\ Delivered' = Delivered
  BY <1>1, ThreadDelivers
<1>3. Phase' = Phase /\ Intact' \in BOOLEAN
  BY <1>2 DEF Phase, Intact
<1>4. CASE Intact'
  BY <1>2, <1>3, <1>4, LedgerStutter
<1>5. CASE ~Intact'
  BY <1>2, <1>3, <1>5, LedgerSpoil DEF Ledger!Damage, Ledger!Next
<1> QED
  BY <1>4, <1>5

\* For every plan and policy a run of the executor is a run of the ledger: the
\* refinement that the run continuous_records checks on small plans.
THEOREM RunIsALedger == Spec => ImplementsLedger
<1>1. Init => Ledger!Init
  <2> SUFFICES ASSUME Init PROVE Ledger!Init
    OBVIOUS
  <2>1. Planned \in {Len(p.depends) : p \in Plans}
    BY DEF Init, Planned
  <2>2. Delivered = {} /\ Intact = TRUE /\ Len(checkpoints) = 0 /\ Phase = "open"
    BY EmptyEntries DEF Init, Phase, Delivered, Intact
  <2> QED
    BY <2>1, <2>2 DEF Ledger!Init
<1>2. IInv /\ [Next]_vars => [Ledger!Next]_(Ledger!vars)
  <2> SUFFICES ASSUME IInv, [Next]_vars
               PROVE  [Ledger!Next]_(Ledger!vars)
    OBVIOUS
  <2>1. CASE Quiet
    BY <2>1, QuietLedger
  <2>2. CASE AppendOutput
    BY <2>2, AppendLedger DEF Ledger!Next
  <2>3. CASE Refresh \/ Truncate \/ Rewrite
    BY <2>3, RefreshLedger
  <2>4. CASE LogCheckpoint
    <3>1. Delivered' = Delivered /\ Intact' = Intact /\ Phase' = Phase
      BY <2>4 DEF LogCheckpoint, fileVars, Delivered, Intact, Phase
    <3> QED
      BY <2>4, <3>1, LedgerStutter DEF LogCheckpoint, RecordFrame
  <2>5. CASE StepSave
    BY <2>5, ConfirmLedger DEF Ledger!Next
  <2>6. CASE SinkFails \/ ProcessEnds
    BY <2>6, FailureLedger DEF Ledger!Next
  <2>7. CASE FileThreads
    BY <2>7, ThreadLedger
  <2>8. CASE PauseTask \/ ResumeTask \/ CancelTask \/ FinishTask
    <3>1. PICK s : Control(s)
      BY <2>8 DEF PauseTask, ResumeTask, CancelTask, FinishTask
    <3>2. Delivered' = Delivered /\ Intact' = Intact /\ Phase' = Phase
      BY <3>1 DEF Control, artifactVars, Delivered, Intact, Phase
    <3> QED
      BY <3>1, <3>2, LedgerStutter DEF Control, artifactVars
  <2>9. CASE UNCHANGED vars
    <3>1. Delivered' = Delivered /\ Intact' = Intact /\ Phase' = Phase
      BY <2>9 DEF vars, Delivered, Intact, Phase
    <3> QED
      BY <2>9, <3>1, LedgerStutter DEF vars
  <2> QED
    BY <2>1, <2>2, <2>3, <2>4, <2>5, <2>6, <2>7, <2>8, <2>9 DEF Next, Executor, Quiet
<1> QED
  BY <1>1, <1>2, IInvHolds, PTL DEF Spec, ImplementsLedger, Ledger!Spec
=============================================================================
