------------------------- MODULE ApprovalGateProofs -------------------------
(* Proofs about ApprovalGate, for any number of calls, answers and codes and *)
(* any limit on the receipts.                                                *)
EXTENDS ApprovalGate, TLAPS

\* The answer has taken the request from the table.
Holds(a, c) == target[a] = c /\ apc[a] \in {"removed", "sent", "resolved"}

\* Who looks a request up has one in hand, and a verdict.
Lookups ==
    \A a \in Answers : apc[a] \in {"found", "removed", "sent", "resolved"} =>
        target[a] \in Calls /\ verdict[a] \in Verdicts

\* A request is in the table, or with at most one answer, or expired.
Table ==
    /\ \A c \in pending : pc[c] # "idle" /\ pc[c] # "expired"
    /\ \A a \in Answers, c \in Calls : Holds(a, c) =>
          c \notin pending /\ pc[c] # "idle" /\ pc[c] # "expired"
    /\ \A a, b \in Answers, c \in Calls : Holds(a, c) /\ Holds(b, c) => a = b

\* What is in a channel has been put there by who holds the request.
Channels ==
    /\ \A c \in Calls : chan[c] # "empty" => c \notin pending /\ pc[c] # "idle"
    /\ \A c \in Calls : chan[c] = "Permit" =>
          \E a \in Answers : /\ target[a] = c /\ verdict[a] = "Permit"
                             /\ apc[a] \in {"sent", "resolved"}
    /\ \A c \in Calls : pc[c] = "expired" => chan[c] = "Deny"
    /\ \A a \in Answers, c \in Calls :
          target[a] = c /\ apc[a] \in {"sent", "resolved"} => chan[c] = verdict[a]

\* A decision on record is the one of who has held the request.
Records ==
    \A i \in DOMAIN receipts :
        LET c == receipts[i].id
            v == receipts[i].kind
        IN  v # "Defer" =>
              /\ c \notin pending /\ pc[c] # "idle" /\ pc[c] # "expired"
              /\ v = "Deny" => chan[c] # "Permit"
              /\ \A a \in Answers : Holds(a, c) => apc[a] = "resolved"

IInv == /\ TypeOK /\ Lookups /\ Table /\ Channels /\ Records
        /\ OnlyApprovedProceeds /\ OneVerdict /\ DenialIsTrue /\ NothingLeftBehind

-----------------------------------------------------------------------------
(* Receipts *)

\* A pushed receipt comes first, the others move back by one and the oldest
\* may go.
IsPushed(seq, r, new) ==
    /\ new \in Seq(Receipts) /\ Len(new) <= ReceiptLimit
    /\ 1 \in DOMAIN new /\ new[1] = r
    /\ \A i \in DOMAIN new \ {1} : i - 1 \in DOMAIN seq /\ new[i] = seq[i - 1]
    /\ \A i \in DOMAIN new : i \in Nat

\* PushFront keeps the receipts within their limit.
LEMMA Pushed ==
    ASSUME NEW seq \in Seq(Receipts), Len(seq) <= ReceiptLimit, NEW r \in Receipts
    PROVE  IsPushed(seq, r, PushFront(seq, r))
<1> DEFINE new == PushFront(seq, r)
<1> DEFINE n == IF Len(seq) < ReceiptLimit THEN Len(seq) + 1 ELSE ReceiptLimit
<1>1. n \in Nat \ {0} /\ n <= ReceiptLimit /\ n <= Len(seq) + 1
  BY GateAssumption
<1>2. new = [i \in 1..n |-> IF i = 1 THEN r ELSE seq[i - 1]]
  BY DEF PushFront
<1> HIDE DEF n, new
<1>3. \A i \in 1..n : i # 1 => i - 1 \in 1..Len(seq)
  BY <1>1
<1>4. \A i \in 1..n : (IF i = 1 THEN r ELSE seq[i - 1]) \in Receipts
  BY <1>3
<1>5. new \in [1..n -> Receipts]
  BY <1>2, <1>4
<1>6. new \in Seq(Receipts) /\ Len(new) = n /\ DOMAIN new = 1..n
  BY <1>1, <1>5
<1>7. 1 \in 1..n /\ \A i \in 1..n : i \in Nat
  BY <1>1
<1>8. DOMAIN seq = 1..Len(seq)
  OBVIOUS
<1>9. IsPushed(seq, r, new)
  BY <1>1, <1>2, <1>3, <1>6, <1>7, <1>8 DEF IsPushed
<1> QED
  BY <1>9 DEF new

\* At most one decision on each request.
OneDecision(seq) ==
    \A i, j \in DOMAIN seq :
        /\ seq[i].id = seq[j].id
        /\ seq[i].kind # "Defer" /\ seq[j].kind # "Defer"
        => i = j

\* A pushed decision on a request without one leaves each with at most one.
LEMMA PushedOnce ==
    ASSUME NEW seq, NEW new, OneDecision(seq),
           \A j \in DOMAIN new \ {1} : j - 1 \in DOMAIN seq /\ new[j] = seq[j - 1],
           \A j \in DOMAIN new : j \in Nat,
           new[1].kind # "Defer" =>
               \A j \in DOMAIN seq : seq[j].kind # "Defer" => seq[j].id # new[1].id
    PROVE  OneDecision(new)
<1> SUFFICES ASSUME NEW i \in DOMAIN new, NEW j \in DOMAIN new,
                    new[i].id = new[j].id,
                    new[i].kind # "Defer", new[j].kind # "Defer"
             PROVE  i = j
  BY DEF OneDecision
<1>1. CASE i # 1 /\ j # 1
  <2>1. i - 1 = j - 1
    BY <1>1 DEF OneDecision
  <2> QED
    BY <2>1
<1>2. CASE i = 1 \/ j = 1
  BY <1>2
<1> QED
  BY <1>1, <1>2

LEMMA InitHolds == Init => IInv
<1> SUFFICES ASSUME Init PROVE IInv
  OBVIOUS
<1>1. receipts \in Seq(Receipts) /\ Len(receipts) = 0 /\ DOMAIN receipts = {}
  BY DEF Init
<1>2. TypeOK
  BY <1>1, GateAssumption DEF Init, TypeOK, PCs, APCs, Verdicts
<1>3. Lookups /\ Table /\ Channels /\ OnlyApprovedProceeds /\ NothingLeftBehind
  BY DEF Init, Lookups, Table, Channels, Holds, OnlyApprovedProceeds, NothingLeftBehind
<1>4. Records /\ OneVerdict /\ DenialIsTrue
  BY <1>1 DEF Records, OneVerdict, DenialIsTrue
<1> QED
  BY <1>2, <1>3, <1>4 DEF IInv

-----------------------------------------------------------------------------
(* Steps *)

\* A new request: its id is nowhere else yet.
LEMMA AddRequestStep == ASSUME IInv, NEW c \in Calls, AddRequest(c) PROVE IInv'
<1> USE DEF IInv
<1>1. TypeOK'
  BY GateAssumption DEF TypeOK, AddRequest, At, answerVars, PCs, APCs, Verdicts
<1>2. Lookups' /\ Table'
  BY DEF TypeOK, Lookups, Table, Holds, AddRequest, At, answerVars, Verdicts
<1>3. Channels' /\ OnlyApprovedProceeds'
  BY DEF TypeOK, Lookups, Table, Channels, Holds, OnlyApprovedProceeds, AddRequest,
         At, answerVars, Verdicts
<1>4. Records'
  BY <1>1
    DEF TypeOK, Lookups, Table, Channels, Records, Holds, AddRequest, At, answerVars,
        Receipts, Verdicts
<1>5. OneVerdict'
  BY <1>1
    DEF TypeOK, Lookups, Table, Records, Holds, OneVerdict, AddRequest, At,
        answerVars, Receipts, Verdicts
<1>6. DenialIsTrue'
  BY <1>1
    DEF TypeOK, Lookups, Table, Channels, Records, Holds, DenialIsTrue,
        OnlyApprovedProceeds, AddRequest, At, answerVars, Receipts, Verdicts
<1>7. NothingLeftBehind'
  BY DEF TypeOK, Lookups, Table, Channels, NothingLeftBehind, AddRequest, At, answerVars
<1> QED
  BY <1>1, <1>2, <1>3, <1>4, <1>5, <1>6, <1>7

\* A deferral is no decision.
LEMMA PushDeferStep == ASSUME IInv, NEW c \in Calls, PushDefer(c) PROVE IInv'
<1> USE DEF IInv
<1>1. Receipt(c, "Defer") \in Receipts
  BY DEF TypeOK, Lookups, PushDefer, At, Receipt, Receipts, Verdicts
<1>2. receipts' = PushFront(receipts, Receipt(c, "Defer"))
  BY DEF PushDefer, push_receipt
<1>3. IsPushed(receipts, Receipt(c, "Defer"), receipts')
  <2>1. receipts \in Seq(Receipts) /\ Len(receipts) <= ReceiptLimit
    BY DEF TypeOK
  <2> HIDE DEF IInv
  <2> QED
    BY <1>1, <1>2, <2>1, Pushed
<1>4. receipts'[1].id = c /\ receipts'[1].kind = "Defer"
  BY <1>3 DEF IsPushed, Receipt
<1>5. TypeOK'
  BY <1>3, GateAssumption
    DEF IsPushed, TypeOK, PushDefer, At, answerVars, PCs, APCs, Verdicts
<1>6. Lookups' /\ Table'
  BY DEF TypeOK, Lookups, Table, Holds, PushDefer, At, answerVars, Verdicts
<1>7. Channels' /\ OnlyApprovedProceeds'
  BY DEF TypeOK, Lookups, Table, Channels, Holds, OnlyApprovedProceeds, PushDefer, At,
         answerVars, Verdicts
<1>8. Records'
  BY <1>3, <1>4, <1>5
    DEF IsPushed, TypeOK, Lookups, Table, Channels, Records, Holds, PushDefer, At,
        answerVars, Receipts, Verdicts
<1>9. OneVerdict'
  <2>1. "Defer" # "Defer" => \A j \in DOMAIN receipts :
          receipts[j].kind # "Defer" => receipts[j].id # c
    BY DEF TypeOK, Lookups, Table, Records, Holds, PushDefer, At, Verdicts
  <2>2. OneDecision(receipts)
    BY DEF OneVerdict, OneDecision
  <2> HIDE DEF IInv
  <2>3. OneDecision(receipts')
    BY <1>3, <1>4, <2>1, <2>2, PushedOnce DEF IsPushed
  <2> QED
    BY <2>3 DEF OneVerdict, OneDecision
<1>10. DenialIsTrue'
  BY <1>3, <1>4, <1>5
    DEF IsPushed, TypeOK, Lookups, Table, Channels, Records, Holds, DenialIsTrue,
        OnlyApprovedProceeds, PushDefer, At, answerVars, Receipts, Verdicts
<1>11. NothingLeftBehind'
  BY DEF TypeOK, Lookups, Table, Channels, NothingLeftBehind, PushDefer, At, answerVars
<1> QED
  BY <1>5, <1>6, <1>7, <1>8, <1>9, <1>10, <1>11

\* Reading the request back changes the call only.
LEMMA ReadBackStep == ASSUME IInv, NEW c \in Calls, ReadBack(c) PROVE IInv'
<1> USE DEF IInv
<1>1. TypeOK'
  BY GateAssumption DEF TypeOK, ReadBack, answerVars, PCs, APCs, Verdicts
<1>2. Lookups' /\ Table'
  BY DEF TypeOK, Lookups, Table, Holds, ReadBack, answerVars, Verdicts
<1>3. Channels' /\ OnlyApprovedProceeds'
  BY DEF TypeOK, Lookups, Table, Channels, Holds, OnlyApprovedProceeds, ReadBack,
         answerVars, Verdicts
<1>4. Records'
  BY <1>1
    DEF TypeOK, Lookups, Table, Channels, Records, Holds, ReadBack, answerVars,
        Receipts, Verdicts
<1>5. OneVerdict'
  BY <1>1
    DEF TypeOK, Lookups, Table, Records, Holds, OneVerdict, ReadBack, answerVars,
        Receipts, Verdicts
<1>6. DenialIsTrue'
  BY <1>1
    DEF TypeOK, Lookups, Table, Channels, Records, Holds, DenialIsTrue,
        OnlyApprovedProceeds, ReadBack, answerVars, Receipts, Verdicts
<1>7. NothingLeftBehind'
  BY DEF TypeOK, Lookups, Table, Channels, NothingLeftBehind, ReadBack, answerVars
<1> QED
  BY <1>1, <1>2, <1>3, <1>4, <1>5, <1>6, <1>7

\* The answer received was sent by who holds the request.
LEMMA ReceiveStep == ASSUME IInv, NEW c \in Calls, Receive(c) PROVE IInv'
<1> USE DEF IInv
<1>1. TypeOK'
  BY GateAssumption DEF TypeOK, Receive, At, answerVars, PCs, APCs, Verdicts
<1>2. Lookups' /\ Table'
  BY DEF TypeOK, Lookups, Table, Holds, Receive, At, answerVars, Verdicts
<1>3. Channels' /\ OnlyApprovedProceeds'
  BY DEF TypeOK, Lookups, Table, Channels, Holds, OnlyApprovedProceeds, Receive, At,
         answerVars, Verdicts
<1>4. Records'
  BY <1>1
    DEF TypeOK, Lookups, Table, Channels, Records, Holds, Receive, At, answerVars,
        Receipts, Verdicts
<1>5. OneVerdict'
  BY <1>1
    DEF TypeOK, Lookups, Table, Records, Holds, OneVerdict, Receive, At, answerVars,
        Receipts, Verdicts
<1>6. DenialIsTrue'
  BY <1>1
    DEF TypeOK, Lookups, Table, Channels, Records, Holds, DenialIsTrue,
        OnlyApprovedProceeds, Receive, At, answerVars, Receipts, Verdicts
<1>7. NothingLeftBehind'
  BY DEF TypeOK, Lookups, Table, Channels, NothingLeftBehind, Receive, At, answerVars
<1> QED
  BY <1>1, <1>2, <1>3, <1>4, <1>5, <1>6, <1>7

\* The timeout changes the call only.
LEMMA TimesOutStep == ASSUME IInv, NEW c \in Calls, TimesOut(c) PROVE IInv'
<1> USE DEF IInv
<1>1. TypeOK'
  BY GateAssumption DEF TypeOK, TimesOut, At, answerVars, PCs, APCs, Verdicts
<1>2. Lookups' /\ Table'
  BY DEF TypeOK, Lookups, Table, Holds, TimesOut, At, answerVars, Verdicts
<1>3. Channels' /\ OnlyApprovedProceeds'
  BY DEF TypeOK, Lookups, Table, Channels, Holds, OnlyApprovedProceeds, TimesOut, At,
         answerVars, Verdicts
<1>4. Records'
  BY <1>1
    DEF TypeOK, Lookups, Table, Channels, Records, Holds, TimesOut, At, answerVars,
        Receipts, Verdicts
<1>5. OneVerdict'
  BY <1>1
    DEF TypeOK, Lookups, Table, Records, Holds, OneVerdict, TimesOut, At, answerVars,
        Receipts, Verdicts
<1>6. DenialIsTrue'
  BY <1>1
    DEF TypeOK, Lookups, Table, Channels, Records, Holds, DenialIsTrue,
        OnlyApprovedProceeds, TimesOut, At, answerVars, Receipts, Verdicts
<1>7. NothingLeftBehind'
  BY DEF TypeOK, Lookups, Table, Channels, NothingLeftBehind, TimesOut, At, answerVars
<1> QED
  BY <1>1, <1>2, <1>3, <1>4, <1>5, <1>6, <1>7

\* Who takes the request from the table keeps every answer out.
LEMMA ExpireStep == ASSUME IInv, NEW c \in Calls, Expire(c) PROVE IInv'
<1> USE DEF IInv
<1>1. TypeOK'
  BY GateAssumption DEF TypeOK, Expire, answerVars, PCs, APCs, Verdicts
<1>2. Lookups' /\ Table'
  BY DEF TypeOK, Lookups, Table, Holds, Expire, answerVars, Verdicts
<1>3. Channels' /\ OnlyApprovedProceeds'
  BY DEF TypeOK, Lookups, Table, Channels, Holds, OnlyApprovedProceeds, Expire,
         answerVars, Verdicts
<1>4. Records'
  BY <1>1
    DEF TypeOK, Lookups, Table, Channels, Records, Holds, Expire, answerVars,
        Receipts, Verdicts
<1>5. OneVerdict'
  BY <1>1
    DEF TypeOK, Lookups, Table, Records, Holds, OneVerdict, Expire, answerVars,
        Receipts, Verdicts
<1>6. DenialIsTrue'
  BY <1>1
    DEF TypeOK, Lookups, Table, Channels, Records, Holds, DenialIsTrue,
        OnlyApprovedProceeds, Expire, answerVars, Receipts, Verdicts
<1>7. NothingLeftBehind'
  BY DEF TypeOK, Lookups, Table, Channels, NothingLeftBehind, Expire, answerVars
<1> QED
  BY <1>1, <1>2, <1>3, <1>4, <1>5, <1>6, <1>7

\* The denial of an expired request is its only decision.
LEMMA PushExpiredStep == ASSUME IInv, NEW c \in Calls, PushExpired(c) PROVE IInv'
<1> USE DEF IInv
<1>1. Receipt(c, "Deny") \in Receipts
  BY DEF TypeOK, Lookups, PushExpired, At, Receipt, Receipts, Verdicts
<1>2. receipts' = PushFront(receipts, Receipt(c, "Deny"))
  BY DEF PushExpired, push_receipt
<1>3. IsPushed(receipts, Receipt(c, "Deny"), receipts')
  <2>1. receipts \in Seq(Receipts) /\ Len(receipts) <= ReceiptLimit
    BY DEF TypeOK
  <2> HIDE DEF IInv
  <2> QED
    BY <1>1, <1>2, <2>1, Pushed
<1>4. receipts'[1].id = c /\ receipts'[1].kind = "Deny"
  BY <1>3 DEF IsPushed, Receipt
<1>5. TypeOK'
  BY <1>3, GateAssumption
    DEF IsPushed, TypeOK, PushExpired, At, answerVars, PCs, APCs, Verdicts
<1>6. Lookups' /\ Table'
  BY DEF TypeOK, Lookups, Table, Holds, PushExpired, At, answerVars, Verdicts
<1>7. Channels' /\ OnlyApprovedProceeds'
  BY DEF TypeOK, Lookups, Table, Channels, Holds, OnlyApprovedProceeds, PushExpired,
         At, answerVars, Verdicts
<1>8. Records'
  BY <1>3, <1>4, <1>5
    DEF IsPushed, TypeOK, Lookups, Table, Channels, Records, Holds, PushExpired, At,
        answerVars, Receipts, Verdicts
<1>9. OneVerdict'
  <2>1. "Deny" # "Defer" => \A j \in DOMAIN receipts :
          receipts[j].kind # "Defer" => receipts[j].id # c
    BY DEF TypeOK, Lookups, Table, Records, Holds, PushExpired, At, Verdicts
  <2>2. OneDecision(receipts)
    BY DEF OneVerdict, OneDecision
  <2> HIDE DEF IInv
  <2>3. OneDecision(receipts')
    BY <1>3, <1>4, <2>1, <2>2, PushedOnce DEF IsPushed
  <2> QED
    BY <2>3 DEF OneVerdict, OneDecision
<1>10. DenialIsTrue'
  BY <1>3, <1>4, <1>5
    DEF IsPushed, TypeOK, Lookups, Table, Channels, Records, Holds, DenialIsTrue,
        OnlyApprovedProceeds, PushExpired, At, answerVars, Receipts, Verdicts
<1>11. NothingLeftBehind'
  BY DEF TypeOK, Lookups, Table, Channels, NothingLeftBehind, PushExpired, At,
         answerVars
<1> QED
  BY <1>5, <1>6, <1>7, <1>8, <1>9, <1>10, <1>11

\* A dropped call changes nothing but itself.
LEMMA DropCallStep == ASSUME IInv, NEW c \in Calls, DropCall(c) PROVE IInv'
<1> USE DEF IInv
<1>1. TypeOK'
  BY GateAssumption DEF TypeOK, DropCall, At, answerVars, PCs, APCs, Verdicts
<1>2. Lookups' /\ Table'
  BY DEF TypeOK, Lookups, Table, Holds, DropCall, At, answerVars, Verdicts
<1>3. Channels' /\ OnlyApprovedProceeds'
  BY DEF TypeOK, Lookups, Table, Channels, Holds, OnlyApprovedProceeds, DropCall, At,
         answerVars, Verdicts
<1>4. Records'
  BY <1>1
    DEF TypeOK, Lookups, Table, Channels, Records, Holds, DropCall, At, answerVars,
        Receipts, Verdicts
<1>5. OneVerdict'
  BY <1>1
    DEF TypeOK, Lookups, Table, Records, Holds, OneVerdict, DropCall, At, answerVars,
        Receipts, Verdicts
<1>6. DenialIsTrue'
  BY <1>1
    DEF TypeOK, Lookups, Table, Channels, Records, Holds, DenialIsTrue,
        OnlyApprovedProceeds, DropCall, At, answerVars, Receipts, Verdicts
<1>7. NothingLeftBehind'
  BY DEF TypeOK, Lookups, Table, Channels, NothingLeftBehind, DropCall, At, answerVars
<1> QED
  BY <1>1, <1>2, <1>3, <1>4, <1>5, <1>6, <1>7

\* An answer to a known id.
LEMMA AnswerByIdStep == ASSUME IInv, NEW a \in Answers, NEW c \in Calls, AnswerById(a, c) PROVE IInv'
<1> USE DEF IInv
<1>1. TypeOK'
  BY GateAssumption DEF TypeOK, AnswerById, Step, Decide, callVars, PCs, APCs, Verdicts
<1>2. Lookups' /\ Table'
  BY DEF TypeOK, Lookups, Table, Holds, AnswerById, Step, Decide, callVars, Verdicts
<1>3. Channels' /\ OnlyApprovedProceeds'
  BY DEF TypeOK, Lookups, Table, Channels, Holds, OnlyApprovedProceeds, AnswerById,
         Step, Decide, callVars, Verdicts
<1>4. Records'
  BY <1>1
    DEF TypeOK, Lookups, Table, Channels, Records, Holds, AnswerById, Step, Decide,
        callVars, Receipts, Verdicts
<1>5. OneVerdict'
  BY <1>1
    DEF TypeOK, Lookups, Table, Records, Holds, OneVerdict, AnswerById, Step, Decide,
        callVars, Receipts, Verdicts
<1>6. DenialIsTrue'
  BY <1>1
    DEF TypeOK, Lookups, Table, Channels, Records, Holds, DenialIsTrue,
        OnlyApprovedProceeds, AnswerById, Step, Decide, callVars, Receipts, Verdicts
<1>7. NothingLeftBehind'
  BY DEF TypeOK, Lookups, Table, Channels, NothingLeftBehind, AnswerById, Step,
         Decide, callVars
<1> QED
  BY <1>1, <1>2, <1>3, <1>4, <1>5, <1>6, <1>7

\* An answer to the first request with the code.
LEMMA AnswerByCodeStep == ASSUME IInv, NEW a \in Answers, NEW c \in Calls, AnswerByCode(a, c) PROVE IInv'
<1> USE DEF IInv
<1>0. \A b \in Answers :
        /\ apc[b] \in {"removed", "sent", "resolved"} <=> apc'[b] \in {"removed", "sent", "resolved"}
        /\ apc[b] \in {"removed", "sent", "resolved"} =>
              apc'[b] = apc[b] /\ target'[b] = target[b] /\ verdict'[b] = verdict[b]
  BY DEF TypeOK, AnswerByCode, Decide
<1>1. TypeOK'
  BY GateAssumption DEF TypeOK, AnswerByCode, Decide, callVars, PCs, APCs, Verdicts
<1>2. Lookups' /\ Table'
  BY DEF TypeOK, Lookups, Table, Holds, AnswerByCode, Decide, callVars, Verdicts
<1>3. Channels' /\ OnlyApprovedProceeds'
  BY <1>0
    DEF TypeOK, Lookups, Table, Channels, Holds, OnlyApprovedProceeds, AnswerByCode,
        Decide, callVars, Verdicts
<1>4. Records'
  BY <1>0, <1>1
    DEF TypeOK, Lookups, Table, Channels, Records, Holds, AnswerByCode, Decide,
        callVars, Receipts, Verdicts
<1>5. OneVerdict'
  BY <1>0, <1>1
    DEF TypeOK, Lookups, Table, Records, Holds, OneVerdict, AnswerByCode, Decide,
        callVars, Receipts, Verdicts
<1>6. DenialIsTrue'
  BY <1>0, <1>1
    DEF TypeOK, Lookups, Table, Channels, Records, Holds, DenialIsTrue,
        OnlyApprovedProceeds, AnswerByCode, Decide, callVars, Receipts, Verdicts
<1>7. NothingLeftBehind'
  BY DEF TypeOK, Lookups, Table, Channels, NothingLeftBehind, AnswerByCode, Decide,
         callVars
<1> QED
  BY <1>1, <1>2, <1>3, <1>4, <1>5, <1>6, <1>7

\* Who takes the request from the table is the only one to hold it.
LEMMA RemoveStep == ASSUME IInv, NEW a \in Answers, Remove(a) PROVE IInv'
<1> USE DEF IInv
<1>1. TypeOK'
  BY GateAssumption DEF TypeOK, Remove, callVars, PCs, APCs, Verdicts
<1>2. Lookups' /\ Table'
  BY DEF TypeOK, Lookups, Table, Holds, Remove, callVars, Verdicts
<1>3. Channels' /\ OnlyApprovedProceeds'
  BY DEF TypeOK, Lookups, Table, Channels, Holds, OnlyApprovedProceeds, Remove,
         callVars, Verdicts
<1>4. Records'
  BY <1>1
    DEF TypeOK, Lookups, Table, Channels, Records, Holds, Remove, callVars, Receipts,
        Verdicts
<1>5. OneVerdict'
  BY <1>1
    DEF TypeOK, Lookups, Table, Records, Holds, OneVerdict, Remove, callVars,
        Receipts, Verdicts
<1>6. DenialIsTrue'
  BY <1>1
    DEF TypeOK, Lookups, Table, Channels, Records, Holds, DenialIsTrue,
        OnlyApprovedProceeds, Remove, callVars, Receipts, Verdicts
<1>7. NothingLeftBehind'
  BY DEF TypeOK, Lookups, Table, Channels, NothingLeftBehind, Remove, callVars
<1> QED
  BY <1>1, <1>2, <1>3, <1>4, <1>5, <1>6, <1>7

\* The verdict of the one who holds the request.
LEMMA SendVerdictStep == ASSUME IInv, NEW a \in Answers, SendVerdict(a) PROVE IInv'
<1> USE DEF IInv
<1>1. TypeOK'
  BY GateAssumption
    DEF TypeOK, Lookups, SendVerdict, Step, callVars, PCs, APCs, Verdicts
<1>2. Lookups' /\ Table'
  BY DEF TypeOK, Lookups, Table, Holds, SendVerdict, Step, callVars, Verdicts
<1>3. Channels' /\ OnlyApprovedProceeds'
  BY DEF TypeOK, Lookups, Table, Channels, Holds, OnlyApprovedProceeds, SendVerdict,
         Step, callVars, Verdicts
<1>4. Records'
  BY <1>1
    DEF TypeOK, Lookups, Table, Channels, Records, Holds, SendVerdict, Step, callVars,
        Receipts, Verdicts
<1>5. OneVerdict'
  BY <1>1
    DEF TypeOK, Lookups, Table, Records, Holds, OneVerdict, SendVerdict, Step,
        callVars, Receipts, Verdicts
<1>6. DenialIsTrue'
  BY <1>1
    DEF TypeOK, Lookups, Table, Channels, Records, Holds, DenialIsTrue,
        OnlyApprovedProceeds, SendVerdict, Step, callVars, Receipts, Verdicts
<1>7. NothingLeftBehind'
  BY DEF TypeOK, Lookups, Table, Channels, NothingLeftBehind, SendVerdict, Step,
         callVars
<1> QED
  BY <1>1, <1>2, <1>3, <1>4, <1>5, <1>6, <1>7

\* The verdict of who holds the request is its only decision.
LEMMA PushVerdictStep == ASSUME IInv, NEW a \in Answers, PushVerdict(a) PROVE IInv'
<1> USE DEF IInv
<1>1. Receipt(target[a], verdict[a]) \in Receipts
  BY DEF TypeOK, Lookups, PushVerdict, Step, Receipt, Receipts, Verdicts
<1>2. receipts' = PushFront(receipts, Receipt(target[a], verdict[a]))
  BY DEF PushVerdict, push_receipt
<1>3. IsPushed(receipts, Receipt(target[a], verdict[a]), receipts')
  <2>1. receipts \in Seq(Receipts) /\ Len(receipts) <= ReceiptLimit
    BY DEF TypeOK
  <2> HIDE DEF IInv
  <2> QED
    BY <1>1, <1>2, <2>1, Pushed
<1>4. receipts'[1].id = target[a] /\ receipts'[1].kind = verdict[a]
  BY <1>3 DEF IsPushed, Receipt
<1>5. TypeOK'
  BY <1>3, GateAssumption
    DEF IsPushed, TypeOK, PushVerdict, Step, callVars, PCs, APCs, Verdicts
<1>6. Lookups' /\ Table'
  BY DEF TypeOK, Lookups, Table, Holds, PushVerdict, Step, callVars, Verdicts
<1>7. Channels' /\ OnlyApprovedProceeds'
  BY DEF TypeOK, Lookups, Table, Channels, Holds, OnlyApprovedProceeds, PushVerdict,
         Step, callVars, Verdicts
<1>8. Records'
  BY <1>3, <1>4, <1>5
    DEF IsPushed, TypeOK, Lookups, Table, Channels, Records, Holds, PushVerdict, Step,
        callVars, Receipts, Verdicts
<1>9. OneVerdict'
  <2>1. verdict[a] # "Defer" => \A j \in DOMAIN receipts :
          receipts[j].kind # "Defer" => receipts[j].id # target[a]
    BY DEF TypeOK, Lookups, Table, Records, Holds, PushVerdict, Step, Verdicts
  <2>2. OneDecision(receipts)
    BY DEF OneVerdict, OneDecision
  <2> HIDE DEF IInv
  <2>3. OneDecision(receipts')
    BY <1>3, <1>4, <2>1, <2>2, PushedOnce DEF IsPushed
  <2> QED
    BY <2>3 DEF OneVerdict, OneDecision
<1>10. DenialIsTrue'
  BY <1>3, <1>4, <1>5
    DEF IsPushed, TypeOK, Lookups, Table, Channels, Records, Holds, DenialIsTrue,
        OnlyApprovedProceeds, PushVerdict, Step, callVars, Receipts, Verdicts
<1>11. NothingLeftBehind'
  BY DEF TypeOK, Lookups, Table, Channels, NothingLeftBehind, PushVerdict, Step,
         callVars
<1> QED
  BY <1>5, <1>6, <1>7, <1>8, <1>9, <1>10, <1>11

-----------------------------------------------------------------------------
(* Theorems *)

\* Every step keeps the invariant.
LEMMA NextHolds == IInv /\ [Next]_vars => IInv'
<1> SUFFICES ASSUME IInv, [Next]_vars PROVE IInv'
  OBVIOUS
<1>1. CASE \E c \in Calls : AddRequest(c) \/ CallStep(c) \/ DropCall(c)
  BY <1>1, AddRequestStep, PushDeferStep, ReadBackStep, ReceiveStep, TimesOutStep,
     ExpireStep, PushExpiredStep, DropCallStep DEF CallStep
<1>2. CASE \E a \in Answers : AnswerStep(a)
  BY <1>2, RemoveStep, SendVerdictStep, PushVerdictStep DEF AnswerStep
<1>3. CASE \E a \in Answers, c \in Calls : AnswerById(a, c) \/ AnswerByCode(a, c)
  BY <1>3, AnswerByIdStep, AnswerByCodeStep
<1>4. CASE UNCHANGED vars
  BY <1>4 DEF vars, IInv, TypeOK, Lookups, Table, Channels, Records, Holds,
              OnlyApprovedProceeds, OneVerdict, DenialIsTrue, NothingLeftBehind
<1> QED
  BY <1>1, <1>2, <1>3, <1>4 DEF Next

LEMMA Invariant == Spec => []IInv
<1> QED
  BY InitHolds, NextHolds, PTL DEF Spec

\* The tables keep their types and the receipts their limit, whatever the
\* number of calls and answers.
THEOREM TypeCorrect == Spec => []TypeOK
<1>1. IInv => TypeOK
  BY DEF IInv
<1> QED
  BY <1>1, Invariant, PTL

\* No risky action goes ahead without a person's approval of that request.
THEOREM ApprovalNeeded == Spec => []OnlyApprovedProceeds
<1>1. IInv => OnlyApprovedProceeds
  BY DEF IInv
<1> QED
  BY <1>1, Invariant, PTL

\* Answers by id, answers by code and the timeout leave at most one decision
\* per request on record, however they race.
THEOREM DecisionsOnRecord == Spec => []OneVerdict
<1>1. IInv => OneVerdict
  BY DEF IInv
<1> QED
  BY <1>1, Invariant, PTL

\* A denial on record is true: the action it names has not gone ahead, not even
\* when the answer and the timeout crossed.
THEOREM RecordedDenials == Spec => []DenialIsTrue
<1>1. IInv => DenialIsTrue
  BY DEF IInv
<1> QED
  BY <1>1, Invariant, PTL

\* A call that returns leaves no request in the table.
THEOREM ReturnCleansUp == Spec => []NothingLeftBehind
<1>1. IInv => NothingLeftBehind
  BY DEF IInv
<1> QED
  BY <1>1, Invariant, PTL
=============================================================================
