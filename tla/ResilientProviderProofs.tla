----------------------- MODULE ResilientProviderProofs -----------------------
(* Proofs about ResilientProvider, for every set of requests, threshold and  *)
(* timeout.                                                                  *)
EXTENDS ResilientProvider, TLAPS

\* While the circuit is closed the counter is the number of failures in a row.
ClosedCounts == state = "Closed" => failures = streak

IInv == TypeOK /\ OpenCircuitCanReset /\ ClosedCounts

\* The saturated counter and clock stay in their ranges; the counter reaches
\* the threshold, and the clock passes the timeout, only by counting.
LEMMA CountRange ==
    ASSUME NEW n \in 0..FailureThreshold
    PROVE  /\ Count(n) \in 0..FailureThreshold
           /\ Count(FailureThreshold) = FailureThreshold
           /\ Count(n) >= FailureThreshold => Count(n) = FailureThreshold
BY ConfigAssumption DEF Count

LEMMA AgeRange ==
    ASSUME NEW t \in 0..(ResetTimeout + 1) \union {Never}
    PROVE  /\ Age(t) \in 0..(ResetTimeout + 1) \union {Never}
           /\ t # Never => Age(t) # Never
           /\ t # Never /\ t > ResetTimeout => Age(t) = t
BY ConfigAssumption DEF Age

LEMMA InitHolds == Init => IInv
<1> SUFFICES ASSUME Init PROVE IInv
  OBVIOUS
<1>1. TypeOK
  <2>1. 0 \in 0..FailureThreshold /\ 0 \in 0..MaxDrops
    BY ConfigAssumption
  <2>2. pc \in [Requests -> PCs]
    BY DEF Init, PCs
  <2> QED
    BY <2>1, <2>2, Zenon DEF Init, TypeOK
<1>2. OpenCircuitCanReset /\ ClosedCounts
  BY DEF Init, OpenCircuitCanReset, ClosedCounts
<1> QED
  BY <1>1, <1>2 DEF IInv

\* check_state changes nothing but an open circuit whose timeout has passed.
LEMMA CheckStep ==
    ASSUME IInv, CheckState,
           pc' \in [Requests -> PCs], UNCHANGED <<flaky, drops>>
    PROVE  IInv'
<1>1. TypeOK'
  BY DEF IInv, TypeOK, CheckState
<1>2. OpenCircuitCanReset' /\ ClosedCounts'
  BY DEF IInv, TypeOK, CheckState, OpenCircuitCanReset, ClosedCounts, ResetDue
<1> QED
  BY <1>1, <1>2 DEF IInv

\* Steps that leave the breaker alone.
LEMMA QuietStep ==
    ASSUME IInv, UNCHANGED <<state, failures, last, streak>>,
           pc' \in [Requests -> PCs], flaky' \in BOOLEAN, drops' \in 0..MaxDrops
    PROVE  IInv'
BY DEF IInv, TypeOK, OpenCircuitCanReset, ClosedCounts, ResetDue

LEMMA SuccessStep ==
    ASSUME IInv, NEW r \in Requests, ReportSuccess(r)
    PROVE  IInv'
<1>1. TypeOK'
  BY ConfigAssumption DEF IInv, TypeOK, ReportSuccess, PCs
<1>2. OpenCircuitCanReset' /\ ClosedCounts'
  BY DEF IInv, TypeOK, ReportSuccess, OpenCircuitCanReset, ClosedCounts, ResetDue
<1> QED
  BY <1>1, <1>2 DEF IInv

LEMMA FailureStep ==
    ASSUME IInv, NEW r \in Requests, ReportFailure(r)
    PROVE  IInv'
<1>1. /\ failures' \in 0..FailureThreshold /\ streak' \in 0..FailureThreshold
      /\ failures' >= FailureThreshold => failures' = FailureThreshold
      /\ failures = FailureThreshold => failures' = FailureThreshold
  BY CountRange DEF IInv, TypeOK, ReportFailure
<1>2. TypeOK'
  BY <1>1, ConfigAssumption DEF IInv, TypeOK, ReportFailure, PCs
<1>3. OpenCircuitCanReset'
  <2>1. last' # Never /\ state' # "HalfOpen"
    BY ConfigAssumption DEF IInv, TypeOK, ReportFailure
  <2>2. state' # "Closed" => failures' = FailureThreshold
    BY <1>1 DEF IInv, TypeOK, ReportFailure, OpenCircuitCanReset
  <2> QED
    BY <2>1, <2>2 DEF OpenCircuitCanReset
<1>4. ClosedCounts'
  BY DEF IInv, ReportFailure, ClosedCounts
<1> QED
  BY <1>2, <1>3, <1>4 DEF IInv

LEMMA TickStep ==
    ASSUME IInv, Tick
    PROVE  IInv'
<1>1. /\ last' \in 0..(ResetTimeout + 1) \union {Never}
      /\ last # Never => last' # Never
      /\ ResetDue => ResetDue'
  BY AgeRange DEF IInv, TypeOK, Tick, ResetDue
<1> QED
  BY <1>1 DEF IInv, TypeOK, Tick, OpenCircuitCanReset, ClosedCounts

LEMMA NextStep ==
    ASSUME IInv, [Next]_vars
    PROVE  IInv'
<1>1. CASE Start
  <2>1. PICK r \in Requests : StreamCompletion(r)
    BY <1>1 DEF Start
  <2>2. pc' \in [Requests -> PCs]
    BY <2>1 DEF StreamCompletion, IInv, TypeOK, PCs
  <2> QED
    BY <2>1, <2>2, CheckStep DEF StreamCompletion
<1>2. ASSUME NEW r \in Requests, PrimaryAnswers(r) \/ PrimaryFails(r) \/ FallbackEnds(r)
      PROVE  IInv'
  <2>1. pc' \in [Requests -> PCs]
    BY <1>2 DEF PrimaryAnswers, PrimaryFails, FallbackEnds, IInv, TypeOK, PCs
  <2> QED
    BY <1>2, <2>1, QuietStep DEF PrimaryAnswers, PrimaryFails, FallbackEnds, IInv, TypeOK
<1>3. ASSUME NEW r \in Requests, Drop(r)
      PROVE  IInv'
  <2>1. pc' \in [Requests -> PCs] /\ drops' \in 0..MaxDrops
    BY <1>3, ConfigAssumption DEF Drop, IInv, TypeOK, PCs
  <2> QED
    BY <1>3, <2>1, QuietStep DEF Drop, IInv, TypeOK
<1>4. CASE GetDynamicMetadata
  BY <1>4, CheckStep DEF GetDynamicMetadata, IInv, TypeOK
<1>5. CASE Outage
  BY <1>5, QuietStep DEF Outage, IInv, TypeOK
<1>6. CASE UNCHANGED vars
  BY <1>6, QuietStep DEF vars, IInv, TypeOK
<1> QED
  BY <1>1, <1>2, <1>3, <1>4, <1>5, <1>6, SuccessStep, FailureStep, TickStep DEF Next

LEMMA IInvHolds == Spec => []IInv
BY InitHolds, NextStep, PTL DEF Spec

\* The breaker's state is well typed; in particular the time of the last
\* failure is never set back to a value out of range.
THEOREM TypeCorrect == Spec => []TypeOK
<1>1. IInv => TypeOK
  BY DEF IInv
<1> QED
  BY <1>1, IInvHolds, PTL

\* With any number of concurrent requests an open circuit keeps what it needs
\* to reset, and a half-open one has waited.
THEOREM CircuitCanReset == Spec => []OpenCircuitCanReset
<1>1. IInv => OpenCircuitCanReset
  BY DEF IInv
<1> QED
  BY <1>1, IInvHolds, PTL

\* The circuit opens on a streak of failures, not on failures spread between
\* successes.
THEOREM OpensOnlyOnStreak == Spec => OpensOnStreak
<1>1. ASSUME IInv, [Next]_vars
      PROVE  [state = "Closed" /\ state' = "Open" => streak' = FailureThreshold]_vars
  <2> SUFFICES ASSUME Next, state = "Closed", state' = "Open"
               PROVE  streak' = FailureThreshold
    BY <1>1
  <2>1. PICK r \in Requests : ReportFailure(r)
    BY DEF Next, Start, StreamCompletion, CheckState, PrimaryAnswers, PrimaryFails,
       FallbackEnds, Drop, ReportSuccess, GetDynamicMetadata, Tick, Outage
  <2>2. failures' >= FailureThreshold /\ failures' = streak'
    BY <1>1, <2>1 DEF ReportFailure, IInv, ClosedCounts
  <2> QED
    BY <1>1, <2>1, <2>2, CountRange DEF ReportFailure, IInv, TypeOK
<1> QED
  BY <1>1, IInvHolds, PTL DEF Spec, OpensOnStreak

\* No probe before the reset timeout, whatever is in flight.
THEOREM CoolsDown == Spec => CoolDown
<1>1. ASSUME IInv, [Next]_vars
      PROVE  [\A r \in Requests :
                 pc[r] = "idle" /\ pc'[r] = "primary" => state = "Closed" \/ ResetDue]_vars
  <2> SUFFICES ASSUME Next, NEW r \in Requests, pc[r] = "idle", pc'[r] = "primary",
                      state # "Closed"
               PROVE  ResetDue
    BY <1>1
  <2>1. pc \in [Requests -> PCs]
    BY <1>1 DEF IInv, TypeOK
  <2>2. StreamCompletion(r)
    BY <2>1 DEF Next, Start, StreamCompletion, PrimaryAnswers, PrimaryFails,
       FallbackEnds, Drop, ReportSuccess, ReportFailure, GetDynamicMetadata, Tick, Outage
  <2>3. state' # "Open"
    BY <2>1, <2>2 DEF StreamCompletion
  <2> QED
    BY <1>1, <2>2, <2>3
       DEF StreamCompletion, CheckState, IInv, TypeOK, OpenCircuitCanReset
<1> QED
  BY <1>1, IInvHolds, PTL DEF Spec, CoolDown
=============================================================================
