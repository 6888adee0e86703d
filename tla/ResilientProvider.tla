-------------------------- MODULE ResilientProvider --------------------------
(***************************************************************************)
(* The circuit breaker around an agent's provider                          *)
(* (crates/brain/src/agent/provider/resilient.rs).  The breaker's state    *)
(* sits behind a tokio Mutex that is taken for check_state, report_success *)
(* and report_failure and is free while a provider works, so a request     *)
(* reports into a state that others have moved on.                         *)
(*                                                                         *)
(* Time is counted in ticks since the last reported failure; what is       *)
(* beyond the reset timeout is not told apart.  The failure counter is     *)
(* compared with the threshold only and is kept up to the threshold.       *)
(***************************************************************************)
EXTENDS Naturals

CONSTANTS Requests,          \* requests that may be in flight at the same time
          FailureThreshold,  \* config.failure_threshold
          ResetTimeout,      \* config.reset_timeout, in ticks
          MaxDrops,          \* bounds how many requests their callers give up
          Never              \* last_failure_time = None

ASSUME ConfigAssumption ==
    /\ FailureThreshold \in Nat \ {0}
    /\ ResetTimeout \in Nat
    /\ MaxDrops \in Nat
    /\ Never \notin Nat

VARIABLES state,     \* CircuitStateInternal.state
          failures,  \* CircuitStateInternal.failures
          last,      \* last_failure_time: the ticks since then, or Never
          pc,        \* where each request stands
          flaky,     \* the primary provider fails requests
          drops,     \* requests given up so far
          streak     \* history: failures reported since the last reported success

vars == <<state, failures, last, pc, flaky, drops, streak>>

PCs == {"idle", "primary", "success", "failure", "fallback"}

\* Mutant of Count: one more than the threshold.
CountPastThreshold(n) == IF n <= FailureThreshold THEN n + 1 ELSE n

\* A counter kept up to the threshold, and a clock kept up to the timeout.
Count(n) == IF n < FailureThreshold THEN n + 1 ELSE n
Age(t) == IF t = Never \/ t > ResetTimeout THEN t ELSE t + 1

TypeOK ==
    /\ state \in {"Closed", "Open", "HalfOpen"}
    /\ failures \in 0..FailureThreshold
    /\ last \in 0..(ResetTimeout + 1) \union {Never}
    /\ pc \in [Requests -> PCs]
    /\ flaky \in BOOLEAN
    /\ drops \in 0..MaxDrops
    /\ streak \in 0..FailureThreshold

Init ==
    /\ state = "Closed" /\ failures = 0 /\ last = Never
    /\ pc = [r \in Requests |-> "idle"]
    /\ flaky = FALSE
    /\ drops = 0 /\ streak = 0

-----------------------------------------------------------------------------
(* The breaker *)

\* The reset timeout has passed since the last failure.
ResetDue == last # Never /\ last > ResetTimeout

\* Mutant of CheckState: the circuit is retried without waiting.
CheckStateAtOnce ==
    /\ state' = IF state = "Open" /\ last # Never THEN "HalfOpen" ELSE state
    /\ UNCHANGED <<failures, last, streak>>

\* check_state
CheckState ==
    /\ state' = IF state = "Open" /\ ResetDue THEN "HalfOpen" ELSE state
    /\ UNCHANGED <<failures, last, streak>>

\* Mutants of ReportSuccess: a success that comes in while the circuit is open
\* forgets the failures; one that comes in while it is closed does not; the
\* circuit stays half open.
ReportSuccessForgets(r) ==
    /\ pc[r] = "success"
    /\ IF state = "HalfOpen"
         THEN state' = "Closed" /\ failures' = 0 /\ last' = Never
         ELSE failures' = 0 /\ UNCHANGED <<state, last>>
    /\ streak' = 0
    /\ pc' = [pc EXCEPT ![r] = "idle"]
    /\ UNCHANGED <<flaky, drops>>

ReportSuccessKeepsCount(r) ==
    /\ pc[r] = "success"
    /\ IF state = "HalfOpen"
         THEN state' = "Closed" /\ failures' = 0 /\ last' = Never
         ELSE UNCHANGED <<state, failures, last>>
    /\ streak' = 0
    /\ pc' = [pc EXCEPT ![r] = "idle"]
    /\ UNCHANGED <<flaky, drops>>

ReportSuccessStaysHalfOpen(r) ==
    /\ pc[r] = "success"
    /\ failures' = IF state = "Closed" THEN 0 ELSE failures
    /\ streak' = 0
    /\ pc' = [pc EXCEPT ![r] = "idle"]
    /\ UNCHANGED <<state, last, flaky, drops>>

\* report_success, and the return of the primary's response.
ReportSuccess(r) ==
    /\ pc[r] = "success"
    /\ \/ /\ state = "HalfOpen"
          /\ state' = "Closed" /\ failures' = 0 /\ last' = Never
       \/ /\ state = "Closed"
          /\ failures' = 0
          /\ UNCHANGED <<state, last>>
       \/ /\ state = "Open"
          /\ UNCHANGED <<state, failures, last>>
    /\ streak' = 0
    /\ pc' = [pc EXCEPT ![r] = "idle"]
    /\ UNCHANGED <<flaky, drops>>

\* report_failure, and the fall through to the fallback provider.
ReportFailure(r) ==
    /\ pc[r] = "failure"
    /\ failures' = Count(failures)
    /\ last' = 0
    /\ state' = IF \/ state = "Closed" /\ failures' >= FailureThreshold
                   \/ state = "HalfOpen"
                  THEN "Open" ELSE state
    /\ streak' = Count(streak)
    /\ pc' = [pc EXCEPT ![r] = "fallback"]
    /\ UNCHANGED <<flaky, drops>>

-----------------------------------------------------------------------------
(* Requests *)

\* stream_completion up to the call of the provider it has decided for.
StreamCompletion(r) ==
    /\ pc[r] = "idle"
    /\ CheckState
    /\ pc' = [pc EXCEPT ![r] = IF state' = "Open" THEN "fallback" ELSE "primary"]
    /\ UNCHANGED <<flaky, drops>>

\* What the primary provider makes of a request, and the timeout on it.
PrimaryAnswers(r) ==
    /\ pc[r] = "primary"
    /\ pc' = [pc EXCEPT ![r] = "success"]
    /\ UNCHANGED <<state, failures, last, flaky, drops, streak>>

PrimaryFails(r) ==
    /\ pc[r] = "primary"
    /\ flaky
    /\ pc' = [pc EXCEPT ![r] = "failure"]
    /\ UNCHANGED <<state, failures, last, flaky, drops, streak>>

\* The fallback's answer or error is the answer; nothing is reported.
FallbackEnds(r) ==
    /\ pc[r] = "fallback"
    /\ pc' = [pc EXCEPT ![r] = "idle"]
    /\ UNCHANGED <<state, failures, last, flaky, drops, streak>>

\* The caller is cancelled and drops the future: nothing is reported.
Drop(r) ==
    /\ pc[r] # "idle"
    /\ drops < MaxDrops
    /\ drops' = drops + 1
    /\ pc' = [pc EXCEPT ![r] = "idle"]
    /\ UNCHANGED <<state, failures, last, flaky, streak>>

\* get_dynamic_metadata asks for the state and so may half-open the circuit;
\* what it asks the providers is not reported.
GetDynamicMetadata ==
    /\ CheckState
    /\ UNCHANGED <<pc, flaky, drops>>

Tick ==
    /\ last' = Age(last)
    /\ UNCHANGED <<state, failures, pc, flaky, drops, streak>>

\* The primary provider breaks down or recovers.
Outage ==
    /\ flaky' = ~flaky
    /\ UNCHANGED <<state, failures, last, pc, drops, streak>>

-----------------------------------------------------------------------------

Start == \E r \in Requests : StreamCompletion(r)

Next ==
    \/ Start
    \/ \E r \in Requests :
          \/ PrimaryAnswers(r) \/ PrimaryFails(r) \/ FallbackEnds(r) \/ Drop(r)
          \/ ReportSuccess(r) \/ ReportFailure(r)
    \/ GetDynamicMetadata \/ Tick \/ Outage

Spec == Init /\ [][Next]_vars

\* Time passes; a call of the primary ends, if not by itself then by its
\* timeout, and its end is reported unless the caller gives up.  The fallback
\* has no timeout, and nobody owes the provider a request.
FairSpec ==
    /\ Spec
    /\ WF_vars(Tick)
    /\ \A r \in Requests :
          /\ WF_vars(PrimaryAnswers(r) \/ PrimaryFails(r))
          /\ WF_vars(ReportSuccess(r)) /\ WF_vars(ReportFailure(r))

-----------------------------------------------------------------------------
(* Properties *)

\* A circuit that is not closed remembers when and how often the primary has
\* failed: late successes and concurrent probes never leave it open without a
\* time to wait for, and a half-open circuit has waited out the reset timeout.
OpenCircuitCanReset ==
    state # "Closed" =>
        /\ last # Never /\ failures = FailureThreshold
        /\ state = "HalfOpen" => ResetDue

\* The circuit opens only after FailureThreshold failures in a row, in the
\* order in which they are reported, or after a failure of a probe.
OpensOnStreak ==
    [][state = "Closed" /\ state' = "Open" => streak' = FailureThreshold]_vars

\* No request is sent to the primary within the reset timeout after a failure
\* unless the circuit is closed, whoever opens and half-opens it meanwhile.
CoolDown ==
    [][\A r \in Requests :
          pc[r] = "idle" /\ pc'[r] = "primary" => state = "Closed" \/ ResetDue]_vars

\* Once the primary has recovered for good and requests keep coming in, the
\* circuit closes and stays closed.
CircuitRecovers ==
    (<>[]~flaky /\ []<><<Start>>_vars) => <>[](state = "Closed")

-----------------------------------------------------------------------------
(* A statement that the code does not meet: TLC finds a counterexample to    *)
(* it (see README.md).                                                       *)

\* In the half-open state one request is tried.
HalfOpenTriesOne ==
    state = "HalfOpen" =>
        \A r, q \in Requests : pc[r] = "primary" /\ pc[q] = "primary" => r = q
=============================================================================
