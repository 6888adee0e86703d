---------------------------- MODULE ApprovalGate ----------------------------
(***************************************************************************)
(* The gateway's gate for risky actions (apps/gateway/src/api/security.rs): *)
(* a tool asks for an approval and waits for an answer or for the timeout; *)
(* people answer in the panel, with a button or with a challenge code.     *)
(*                                                                         *)
(* The table of pending requests is a DashMap, the receipts are behind a   *)
(* lock of their own and the answer travels through a oneshot channel:     *)
(* add_request, resolve and expire touch them one after the other, so the  *)
(* three run into each other.                                              *)
(*                                                                         *)
(* A request's id is the call that made it.  The events broadcast to       *)
(* subscribers, the texts and the references in receipts are left out.     *)
(***************************************************************************)
EXTENDS Naturals, Sequences

CONSTANTS Calls,         \* calls of approve_with_timeout
          Answers,       \* answers of people
          Codes,         \* challenge codes
          None,          \* no code, no request
          ReceiptLimit   \* APPROVAL_RECEIPT_LIMIT

ASSUME GateAssumption ==
    /\ ReceiptLimit \in Nat \ {0}
    /\ None \notin Calls \union Codes

VARIABLES pc,        \* where each call stands
          code,      \* its challenge code
          pending,   \* ids in the table of pending requests
          chan,      \* what has been sent to each call's receiver
          result,    \* what each call has returned
          receipts,  \* decision receipts, the latest first
          apc,       \* where each answer stands
          meant,     \* the request a person is answering
          target,    \* the request the answer is applied to
          verdict    \* what the person decides

vars == <<pc, code, pending, chan, result, receipts, apc, meant, target, verdict>>

callVars == <<pc, code, result>>
answerVars == <<apc, meant, target, verdict>>

PCs == {"idle", "inserted", "deferred", "waiting", "expiring", "expired",
        "returned", "dropped", "panicked"}
APCs == {"idle", "found", "removed", "sent", "resolved", "unknown"}
Verdicts == {"Permit", "Deny"}
Receipts == [id : Calls, kind : Verdicts \union {"Defer"}]

TypeOK ==
    /\ pc \in [Calls -> PCs]
    /\ code \in [Calls -> Codes \union {None}]
    /\ pending \in SUBSET Calls
    /\ chan \in [Calls -> Verdicts \union {"empty"}]
    /\ result \in [Calls -> Verdicts \union {"none"}]
    /\ receipts \in Seq(Receipts) /\ Len(receipts) <= ReceiptLimit
    /\ apc \in [Answers -> APCs]
    /\ meant \in [Answers -> Calls \union {None}]
    /\ target \in [Answers -> Calls \union {None}]
    /\ verdict \in [Answers -> Verdicts \union {"none"}]

Init ==
    /\ pc = [c \in Calls |-> "idle"]
    /\ code = [c \in Calls |-> None]
    /\ pending = {}
    /\ chan = [c \in Calls |-> "empty"]
    /\ result = [c \in Calls |-> "none"]
    /\ receipts = << >>
    /\ apc = [a \in Answers |-> "idle"]
    /\ meant = [a \in Answers |-> None]
    /\ target = [a \in Answers |-> None]
    /\ verdict = [a \in Answers |-> "none"]

-----------------------------------------------------------------------------
(* Shared steps of the manager *)

Receipt(c, kind) == [id |-> c, kind |-> kind]

\* Mutant of PushFront: the oldest receipt goes one receipt too late.
PushFrontPastLimit(seq, r) ==
    [i \in 1..(IF Len(seq) <= ReceiptLimit THEN Len(seq) + 1 ELSE Len(seq)) |->
        IF i = 1 THEN r ELSE seq[i - 1]]

\* A receipt in front of the others; beyond the limit the oldest one goes.
PushFront(seq, r) ==
    [i \in 1..(IF Len(seq) < ReceiptLimit THEN Len(seq) + 1 ELSE ReceiptLimit) |->
        IF i = 1 THEN r ELSE seq[i - 1]]

push_receipt(c, kind) == receipts' = PushFront(receipts, Receipt(c, kind))

At(c, here, there) == pc[c] = here /\ pc' = [pc EXCEPT ![c] = there]

Step(a, here, there) == apc[a] = here /\ apc' = [apc EXCEPT ![a] = there]

-----------------------------------------------------------------------------
(* A call of approve_with_timeout *)

\* add_request draws a code and inserts the request into the table.
AddRequest(c) ==
    /\ At(c, "idle", "inserted")
    /\ \E k \in Codes : code' = [code EXCEPT ![c] = k]
    /\ pending' = pending \union {c}
    /\ UNCHANGED <<chan, result, receipts, answerVars>>

\* It records that the decision is deferred.
PushDefer(c) ==
    /\ At(c, "inserted", "deferred")
    /\ push_receipt(c, "Defer")
    /\ UNCHANGED <<code, pending, chan, result, answerVars>>

\* It reads the request back from the table, with expect(): a request that
\* has been resolved already makes the call panic.
ReadBack(c) ==
    /\ pc[c] = "deferred"
    /\ pc' = [pc EXCEPT ![c] = IF c \in pending THEN "waiting" ELSE "panicked"]
    /\ UNCHANGED <<code, pending, chan, result, receipts, answerVars>>

\* The answer is there: the call returns it.
Receive(c) ==
    /\ At(c, "waiting", "returned")
    /\ chan[c] # "empty"
    /\ result' = [result EXCEPT ![c] = chan[c]]
    /\ UNCHANGED <<code, pending, chan, receipts, answerVars>>

\* Mutant of TimesOut: a request that somebody is answering does not time out.
TimesOutIfUnseen(c) ==
    /\ At(c, "waiting", "expiring")
    /\ chan[c] = "empty" /\ \A a \in Answers : meant[a] # c
    /\ UNCHANGED <<code, pending, chan, result, receipts, answerVars>>

\* The timeout has passed and the channel, which is looked at first, is empty.
TimesOut(c) ==
    /\ At(c, "waiting", "expiring")
    /\ chan[c] = "empty"
    /\ UNCHANGED <<code, pending, chan, result, receipts, answerVars>>

\* Mutant of Expire: the request is left in the table.
ExpireLeavesPending(c) ==
    /\ At(c, "expiring", "returned")
    /\ result' = [result EXCEPT ![c] = "Deny"]
    /\ UNCHANGED <<code, pending, chan, receipts, answerVars>>

\* expire takes the request from the table, unless an answer has done so; the
\* call returns false in both cases.
Expire(c) ==
    /\ pc[c] = "expiring"
    /\ pc' = [pc EXCEPT ![c] = IF c \in pending THEN "expired" ELSE "returned"]
    /\ result' = [result EXCEPT ![c] = IF c \in pending THEN @ ELSE "Deny"]
    /\ pending' = pending \ {c}
    /\ chan' = [chan EXCEPT ![c] = IF c \in pending THEN "Deny" ELSE @]
    /\ UNCHANGED <<code, receipts, answerVars>>

\* Mutant of PushExpired: a timeout counts as consent.
PushExpiredPermit(c) ==
    /\ At(c, "expired", "returned")
    /\ result' = [result EXCEPT ![c] = "Permit"]
    /\ push_receipt(c, "Deny")
    /\ UNCHANGED <<code, pending, chan, answerVars>>

\* It records the denial.
PushExpired(c) ==
    /\ At(c, "expired", "returned")
    /\ result' = [result EXCEPT ![c] = "Deny"]
    /\ push_receipt(c, "Deny")
    /\ UNCHANGED <<code, pending, chan, answerVars>>

\* The tool that waits is cancelled or times out: its future, and with it the
\* receiver, is dropped.  Nothing else happens.
DropCall(c) ==
    /\ At(c, "waiting", "dropped")
    /\ UNCHANGED <<code, pending, chan, result, receipts, answerVars>>

-----------------------------------------------------------------------------
(* An answer *)

Decide(a, c) ==
    /\ meant' = [meant EXCEPT ![a] = c]
    /\ \E v \in Verdicts : verdict' = [verdict EXCEPT ![a] = v]

\* A person answers a request seen in the list of pending ones, in the panel
\* or with a button: the id is known.
AnswerById(a, c) ==
    /\ Step(a, "idle", "found")
    /\ pc[c] # "idle"
    /\ Decide(a, c)
    /\ target' = [target EXCEPT ![a] = c]
    /\ UNCHANGED <<callVars, pending, chan, receipts>>

\* A person answers with the request's code: resolve_by_challenge takes the
\* first request of the table with that code, if there is one.
AnswerByCode(a, c) ==
    /\ apc[a] = "idle"
    /\ pc[c] # "idle"
    /\ Decide(a, c)
    /\ LET matches == {d \in pending : code[d] = code[c]}
       IN  \/ \E d \in matches : /\ target' = [target EXCEPT ![a] = d]
                                 /\ apc' = [apc EXCEPT ![a] = "found"]
           \/ /\ matches = {}
              /\ apc' = [apc EXCEPT ![a] = "unknown"]
              /\ UNCHANGED target
    /\ UNCHANGED <<callVars, pending, chan, receipts>>

\* Mutant of Remove: the request stays in the table until it is answered.
RemoveKeeps(a) ==
    /\ apc[a] = "found"
    /\ apc' = [apc EXCEPT ![a] = IF target[a] \in pending THEN "removed" ELSE "unknown"]
    /\ UNCHANGED <<callVars, pending, chan, receipts, meant, target, verdict>>

\* resolve takes the request from the table; who finds it gone has no say.
Remove(a) ==
    /\ apc[a] = "found"
    /\ apc' = [apc EXCEPT ![a] = IF target[a] \in pending THEN "removed" ELSE "unknown"]
    /\ pending' = pending \ {target[a]}
    /\ UNCHANGED <<callVars, chan, receipts, meant, target, verdict>>

\* It sends the verdict; whether the receiver still listens is ignored.
SendVerdict(a) ==
    /\ Step(a, "removed", "sent")
    /\ chan' = [chan EXCEPT ![target[a]] = verdict[a]]
    /\ UNCHANGED <<callVars, pending, receipts, meant, target, verdict>>

\* It records the verdict and answers true: "Action approved. Proceeding...".
PushVerdict(a) ==
    /\ Step(a, "sent", "resolved")
    /\ push_receipt(target[a], verdict[a])
    /\ UNCHANGED <<callVars, pending, chan, meant, target, verdict>>

-----------------------------------------------------------------------------

\* What the runtime runs to its end once the request has been made.
CallStep(c) ==
    \/ PushDefer(c) \/ ReadBack(c)
    \/ Receive(c) \/ TimesOut(c) \/ Expire(c) \/ PushExpired(c)

AnswerStep(a) == Remove(a) \/ SendVerdict(a) \/ PushVerdict(a)

Next ==
    \/ \E c \in Calls : AddRequest(c) \/ CallStep(c) \/ DropCall(c)
    \/ \E a \in Answers :
          AnswerStep(a) \/ \E c \in Calls : AnswerById(a, c) \/ AnswerByCode(a, c)

Spec == Init /\ [][Next]_vars

\* Tasks of the runtime make progress and timers fire; people owe no answer.
FairSpec ==
    /\ Spec
    /\ \A c \in Calls : WF_vars(CallStep(c))
    /\ \A a \in Answers : WF_vars(AnswerStep(a))

-----------------------------------------------------------------------------
(* Properties *)

\* A risky action goes ahead only if a person's approval has reached this
\* very request: neither a timeout, nor a rejection, nor an answer that came
\* too late lets it through.
OnlyApprovedProceeds ==
    \A c \in Calls : result[c] = "Permit" =>
        \E a \in Answers : /\ target[a] = c /\ verdict[a] = "Permit"
                           /\ apc[a] \in {"sent", "resolved"}

\* However answers, code look-ups and the timeout run into each other, a
\* request has at most one decision on record besides the deferral.
OneVerdict ==
    \A i, j \in DOMAIN receipts :
        /\ receipts[i].id = receipts[j].id
        /\ receipts[i].kind # "Defer" /\ receipts[j].kind # "Defer"
        => i = j

\* A denial on record is true: the action it names has not gone ahead.
DenialIsTrue ==
    \A i \in DOMAIN receipts :
        receipts[i].kind = "Deny" => result[receipts[i].id] # "Permit"

\* A call that has returned has left no request behind that somebody could
\* still be shown and answer.
NothingLeftBehind == \A c \in Calls : pc[c] = "returned" => c \notin pending

\* Every call that waits comes to an end, answered or not.
EveryCallReturns ==
    \A c \in Calls : pc[c] = "waiting" ~> pc[c] \in {"returned", "dropped"}

-----------------------------------------------------------------------------
(* Statements of the code that the model refutes *)

\* "approval request must exist immediately after insertion" (security.rs:271).
ExistsAfterInsertion == \A c \in Calls : pc[c] # "panicked"

\* "Action approved via button interact. Proceeding..." (bridge.rs:1760): who
\* has been told so has not seen the action denied or given up.
ProceedingIsTrue ==
    \A a \in Answers : apc[a] = "resolved" /\ verdict[a] = "Permit" =>
        pc[target[a]] # "dropped" /\ result[target[a]] # "Deny"

\* "Challenge `{}` approved. Agent is proceeding." (bridge.rs:1793): the answer
\* goes to the request whose code was shown.
CodeNamesRequest == \A a \in Answers : target[a] \in {None, meant[a]}

\* A request is pending only while its call waits for the answer.
PendingIsAwaited == \A c \in pending : pc[c] # "dropped"
=============================================================================
