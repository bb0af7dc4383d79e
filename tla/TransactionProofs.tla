-------------------------- MODULE TransactionProofs -------------------------
(***************************************************************************)
(* Proofs about Outbound, for any number of calls, read attempts,          *)
(* webhooks, edits and events, and any threshold of the breaker, and about *)
(* TransactionLifecycle, for any set of reviewers' requests, any           *)
(* assignment of requests to users and any combination of faults.          *)
(***************************************************************************)
EXTENDS TransactionLifecycle, Outbound, FiniteSetTheorems, TLAPS

-----------------------------------------------------------------------------
(***************************************************************************)
(* The payments.  The breaker's own state plays no part in them: whatever  *)
(* it admits, and however it judges an outcome, a payment is sent at most  *)
(* once.                                                                   *)
(***************************************************************************)

CallRecords ==
  [pc : {"idle", "reading", "submitting", "done"},
   request : HorizonRequests \cup {NotAsked},
   attempt : Nat,
   answer : {"none", "value", "null", "STELLAR_ERROR", "CIRCUIT_OPEN",
             "INVALID_STELLAR_ADDRESS"}]

\* A call that is not over has sent nothing, which is what makes the step that sends
\* the payment safe: it is also the step that ends the call.
UnfinishedIsUnsent ==
  \A c \in HorizonCalls :
    horizonCall[c].pc # "done" =>
      submissions[c] = 0 /\ c \notin landed /\ horizonCall[c].answer = "none"

StellarInv ==
  /\ horizonCall \in [HorizonCalls -> CallRecords]
  /\ submissions \in [HorizonCalls -> Nat]
  /\ UnfinishedIsUnsent
  /\ PaymentSubmittedOnce

-----------------------------------------------------------------------------

\* What the end of a call does to its record: the request stays, and so do the others.
LEMMA EndsOne ==
  ASSUME horizonCall \in [HorizonCalls -> CallRecords],
         NEW c \in HorizonCalls,
         NEW answer \in {"value", "null", "STELLAR_ERROR"},
         Ends(c, answer)
  PROVE  /\ horizonCall' \in [HorizonCalls -> CallRecords]
         /\ horizonCall'[c].pc = "done" /\ horizonCall'[c].answer = answer
         /\ horizonCall'[c].request = horizonCall[c].request
         /\ \A d \in HorizonCalls \ {c} : horizonCall'[d] = horizonCall[d]
<1>1. horizonCall[c] \in CallRecords
  OBVIOUS
<1>2. [horizonCall[c] EXCEPT !.pc = "done", !.answer = answer] \in CallRecords
  BY <1>1, Zenon DEF CallRecords
<1>3. horizonCall'[c] = [horizonCall[c] EXCEPT !.pc = "done", !.answer = answer]
  BY DEF Ends
<1>. QED
  BY <1>1, <1>2, <1>3 DEF Ends, CallRecords

\* A call that is over without having sent anything keeps the invariant, unless it
\* claims a payment.
LEMMA EndUnsent ==
  ASSUME StellarInv,
         NEW c \in HorizonCalls,
         NEW answer \in {"value", "null", "STELLAR_ERROR"},
         horizonCall[c].pc = "reading",
         answer = "value" => horizonCall[c].request.op # "payment",
         Ends(c, answer),
         UNCHANGED <<submissions, landed>>,
         blamed' \in {blamed, blamed \cup {c}}
  PROVE  StellarInv'
<1>. USE DEF StellarInv
<1>1. /\ horizonCall' \in [HorizonCalls -> CallRecords]
      /\ horizonCall'[c].pc = "done" /\ horizonCall'[c].answer = answer
      /\ horizonCall'[c].request = horizonCall[c].request
      /\ \A d \in HorizonCalls \ {c} : horizonCall'[d] = horizonCall[d]
  BY EndsOne
<1>2. submissions[c] = 0 /\ c \notin landed
  BY DEF UnfinishedIsUnsent
<1>3. UnfinishedIsUnsent'
  BY <1>1 DEF UnfinishedIsUnsent
<1>4. PaymentSubmittedOnce'
  BY <1>1, <1>2 DEF PaymentSubmittedOnce
<1>. QED
  BY <1>1, <1>3, <1>4

\* The call that sends the payment ends with it, whatever becomes of it.
LEMMA SubmitKeeps ==
  ASSUME StellarInv, NEW c \in HorizonCalls, SubmitPayment(c)
  PROVE  StellarInv'
<1>. USE DEF StellarInv
<1>1. PICK answer \in {"value", "STELLAR_ERROR"} :
        /\ Ends(c, answer)
        /\ answer = "value" => landed' = landed \cup {c} /\ blamed' = blamed
        /\ answer = "STELLAR_ERROR" =>
             \/ blamed' = blamed /\ landed' = landed
             \/ blamed' = blamed \cup {c} /\ landed' \in {landed, landed \cup {c}}
  BY DEF SubmitPayment, Answered, Throws, IsRpcFailure
<1>2. /\ horizonCall' \in [HorizonCalls -> CallRecords]
      /\ horizonCall'[c].pc = "done" /\ horizonCall'[c].answer = answer
      /\ horizonCall'[c].request = horizonCall[c].request
      /\ \A d \in HorizonCalls \ {c} : horizonCall'[d] = horizonCall[d]
  BY <1>1, EndsOne
<1>3. horizonCall[c].pc = "submitting" /\ submissions' = [submissions EXCEPT ![c] = @ + 1]
  BY DEF SubmitPayment
<1>4. submissions[c] = 0 /\ c \notin landed
  BY <1>3 DEF UnfinishedIsUnsent
<1>5. /\ submissions' \in [HorizonCalls -> Nat] /\ submissions'[c] = 1
      /\ \A d \in HorizonCalls \ {c} : submissions'[d] = submissions[d]
  BY <1>3, <1>4
<1>6. UnfinishedIsUnsent'
  BY <1>1, <1>2, <1>5 DEF UnfinishedIsUnsent
<1>7. PaymentSubmittedOnce'
  <2> SUFFICES ASSUME NEW d \in HorizonCalls
               PROVE  /\ submissions'[d] <= 1
                      /\ horizonCall'[d].answer \in {"CIRCUIT_OPEN", "INVALID_STELLAR_ADDRESS"}
                           => submissions'[d] = 0
                      /\ horizonCall'[d].request.op = "payment"
                           /\ horizonCall'[d].answer = "value" => d \in landed'
                      /\ horizonCall'[d].answer = "STELLAR_ERROR" /\ d \notin blamed'
                           => d \notin landed'
    BY DEF PaymentSubmittedOnce
  <2>1. CASE d = c
    BY <2>1, <1>1, <1>2, <1>4, <1>5
  <2>2. CASE d # c
    BY <2>2, <1>1, <1>2, <1>5 DEF PaymentSubmittedOnce
  <2>. QED
    BY <2>1, <2>2
<1>. QED
  BY <1>2, <1>5, <1>6, <1>7

\* A new record of a call that had not entered: begun, or turned away.
LEMMA EnterKeeps ==
  ASSUME StellarInv,
         NEW c \in HorizonCalls, NEW r \in CallRecords,
         horizonCall[c].pc = "idle",
         \/ r.pc = "reading" /\ r.answer = "none"
         \/ r.pc = "done" /\ r.answer \in {"CIRCUIT_OPEN", "INVALID_STELLAR_ADDRESS"},
         horizonCall' = [horizonCall EXCEPT ![c] = r],
         UNCHANGED <<submissions, landed, blamed>>
  PROVE  StellarInv'
<1>. USE DEF StellarInv
<1>1. submissions[c] = 0 /\ c \notin landed
  BY DEF UnfinishedIsUnsent
<1>2. /\ horizonCall' \in [HorizonCalls -> CallRecords] /\ horizonCall'[c] = r
      /\ \A d \in HorizonCalls \ {c} : horizonCall'[d] = horizonCall[d]
  OBVIOUS
<1>3. UnfinishedIsUnsent'
  BY <1>1, <1>2 DEF UnfinishedIsUnsent
<1>4. PaymentSubmittedOnce'
  BY <1>1, <1>2 DEF PaymentSubmittedOnce
<1>. QED
  BY <1>2, <1>3, <1>4

-----------------------------------------------------------------------------

\* The reads of a call, answered, repeated or given up, keep the invariant.
LEMMA ReadKeeps ==
  ASSUME StellarInv, NEW c \in HorizonCalls,
         ThrowsAtOnce(c) \/ ReadOk(c) \/ ReadFails(c)
  PROVE  StellarInv'
<1>. USE DEF StellarInv
<1>1. horizonCall[c].pc = "reading" /\ UNCHANGED <<submissions, landed>>
  BY DEF ThrowsAtOnce, ReadOk, ReadFails
<1>2. CASE \E kind : Throws(c, kind)
  <2>1. Ends(c, "STELLAR_ERROR") /\ blamed' \in {blamed, blamed \cup {c}}
    BY <1>2 DEF Throws
  <2>. QED
    BY <1>1, <2>1, EndUnsent
<1>3. CASE \E answer \in {"value", "null"} :
             /\ Answered(c, answer)
             /\ answer = "value" => horizonCall[c].request.op # "payment"
  BY <1>1, <1>3, EndUnsent DEF Answered
<1>4. CASE \E r \in CallRecords :
             /\ horizonCall' = [horizonCall EXCEPT ![c] = r]
             /\ r.pc # "done" /\ r.answer = horizonCall[c].answer
             /\ r.request = horizonCall[c].request
             /\ UNCHANGED blamed
  <2>1. PICK r \in CallRecords :
             /\ horizonCall' = [horizonCall EXCEPT ![c] = r]
             /\ r.pc # "done" /\ r.answer = horizonCall[c].answer
             /\ r.request = horizonCall[c].request
             /\ UNCHANGED blamed
    BY <1>4, Zenon
  <2>2. /\ horizonCall' \in [HorizonCalls -> CallRecords] /\ horizonCall'[c] = r
        /\ \A d \in HorizonCalls \ {c} : horizonCall'[d] = horizonCall[d]
    BY <2>1
  <2>3. UnfinishedIsUnsent'
    BY <1>1, <2>1, <2>2 DEF UnfinishedIsUnsent
  <2>4. PaymentSubmittedOnce'
    BY <1>1, <2>1, <2>2 DEF PaymentSubmittedOnce
  <2>. QED
    BY <1>1, <2>2, <2>3, <2>4
<1>5. ASSUME ReadOk(c) PROVE StellarInv'
  <2>1. CASE horizonCall' = [horizonCall EXCEPT ![c].pc = "submitting"]
             /\ UNCHANGED blamed
    <3>1. horizonCall[c] \in CallRecords
      OBVIOUS
    <3>2. [horizonCall[c] EXCEPT !.pc = "submitting"] \in CallRecords
      BY <3>1 DEF CallRecords
    <3>. QED
      BY <2>1, <3>1, <3>2, <1>4, Zenon DEF CallRecords
  <2>. QED
    BY <1>5, <2>1, <1>2, <1>3 DEF ReadOk
<1>6. ASSUME ReadFails(c) PROVE StellarInv'
  <2>1. CASE horizonCall' = [horizonCall EXCEPT ![c].attempt = @ + 1]
             /\ UNCHANGED blamed
    <3>1. horizonCall[c] \in CallRecords
      OBVIOUS
    <3>2. [horizonCall[c] EXCEPT !.attempt = horizonCall[c].attempt + 1] \in CallRecords
      BY <3>1 DEF CallRecords
    <3>. QED
      BY <2>1, <3>1, <3>2, <1>1, <1>4, Zenon DEF CallRecords
  <2>. QED
    BY <1>6, <2>1, <1>2, <1>3 DEF ReadFails
<1>. QED
  BY <1>2, <1>5, <1>6 DEF ThrowsAtOnce

\* No call has sent anything yet.
LEMMA StellarStarts == StellarInit => StellarInv
  BY DEF StellarInit, StellarInv, CallRecords, UnfinishedIsUnsent, PaymentSubmittedOnce,
         NotAsked

\* Every step of a call and the breaker's clock keep the invariant.
LEMMA StellarStep == StellarInv /\ [StellarNext]_stellarVars => StellarInv'
<1> SUFFICES ASSUME StellarInv, [StellarNext]_stellarVars PROVE StellarInv'
  OBVIOUS
<1>1. ASSUME NEW c \in HorizonCalls, RefuseAddress(c) \/ FailsFast(c) \/ Enter(c)
      PROVE  StellarInv'
  <2>1. PICK r \in CallRecords :
          /\ horizonCall[c].pc = "idle"
          /\ \/ r.pc = "reading" /\ r.answer = "none"
             \/ r.pc = "done" /\ r.answer \in {"CIRCUIT_OPEN", "INVALID_STELLAR_ADDRESS"}
          /\ horizonCall' = [horizonCall EXCEPT ![c] = r]
          /\ UNCHANGED <<submissions, landed, blamed>>
    <3>1. CASE RefuseAddress(c)
      BY <3>1, Zenon DEF RefuseAddress, CallRecords, HorizonRequests
    <3>2. CASE FailsFast(c)
      BY <3>2, Zenon DEF FailsFast, CallRecords
    <3>3. CASE Enter(c)
      BY <3>3, Zenon DEF Enter, CallRecords
    <3>. QED
      BY <1>1, <3>1, <3>2, <3>3
  <2>. QED
    BY <2>1, EnterKeeps, Zenon
<1>2. CASE UNCHANGED <<horizonCall, submissions, landed, blamed>>
  BY <1>2 DEF StellarInv, UnfinishedIsUnsent, PaymentSubmittedOnce
<1>. QED
  BY <1>1, <1>2, ReadKeeps, SubmitKeeps DEF StellarNext, stellarVars

\* A call of StellarService submits its payment at most once and never when it was
\* turned away, its success is a payment on the ledger, and an error that Horizon blames
\* on the request is none (PaymentSubmittedOnce).
THEOREM PaymentsAreSubmittedOnce == StellarSpec => []PaymentSubmittedOnce
<1>1. StellarInv => PaymentSubmittedOnce
  BY DEF StellarInv
<1>. QED
  BY <1>1, StellarStarts, StellarStep, PTL DEF StellarSpec

-----------------------------------------------------------------------------
(* The breaker in an outage                                                *)

AnsweredCalls == {c \in HorizonCalls : horizonCall[c].answer \in {"value", "null"}}

\* The breaker's count never exceeds the calls that failed, and equals it as long as no
\* call was answered.
OutageInv ==
    /\ IsFiniteSet(blamed)
    /\ \A c \in blamed : c \in HorizonCalls /\ horizonCall[c].pc = "done"
    /\ circuitFailures \in Nat /\ circuitFailures <= Cardinality(blamed)
    /\ circuitState = "CLOSED" => circuitFailures < HorizonThreshold
    /\ circuitState # "CLOSED" => Cardinality(blamed) >= HorizonThreshold
    /\ circuitState = "CLOSED" /\ AnsweredCalls = {} => circuitFailures = Cardinality(blamed)

\* What a step of one call does to its record: calls that are over stay as they are.
OnlyUnfinished ==
    \A c \in HorizonCalls : horizonCall[c].pc = "done" => horizonCall'[c] = horizonCall[c]

LEMMA AnswersStay ==
  ASSUME StellarInv, OnlyUnfinished PROVE AnsweredCalls \subseteq AnsweredCalls'
  BY DEF StellarInv, UnfinishedIsUnsent, OnlyUnfinished, AnsweredCalls

\* Steps that the breaker does not judge.
LEMMA QuietKeeps ==
  ASSUME StellarInv, OutageInv, OnlyUnfinished, blamed' = blamed, circuitFailures' = circuitFailures,
         (circuitState' = "CLOSED") <=> (circuitState = "CLOSED")
  PROVE  OutageInv'
  BY AnswersStay DEF OutageInv, OnlyUnfinished

\* A call that is answered resets the count.
LEMMA AnsweredKeeps ==
  ASSUME StellarInv, OutageInv, OnlyUnfinished, NEW c \in HorizonCalls,
         NEW answer \in {"value", "null"}, Answered(c, answer)
  PROVE  OutageInv'
  <1>1. horizonCall'[c].answer = answer
    BY EndsOne DEF Answered, StellarInv
  <1>2. AnsweredCalls' # {}
    BY <1>1 DEF AnsweredCalls
  <1>3. blamed' = blamed /\ circuitFailures' = 0 /\ (circuitState' # "CLOSED" => circuitState # "CLOSED")
    BY DEF Answered, Breaker!OnSuccess, Breaker!TransitionToClosed
  <1>4. Cardinality(blamed) \in Nat
    BY FS_CardinalityType DEF OutageInv
  <1> QED
    BY <1>2, <1>3, <1>4, StellarAssumption DEF OutageInv, OnlyUnfinished

\* A call that fails is one more to blame, or none of Horizon's business.
LEMMA ThrowsKeeps ==
  ASSUME StellarInv, OutageInv, OnlyUnfinished, NEW c \in HorizonCalls, NEW kind, Throws(c, kind),
         horizonCall[c].pc # "done"
  PROVE  OutageInv'
  <1>1. CASE ~IsRpcFailure(kind)
    <2>1. blamed' = blamed /\ circuitFailures' = circuitFailures /\ circuitState' = circuitState
      BY <1>1 DEF Throws, Breaker!OnIgnoredError
    <2> QED
      BY <2>1, QuietKeeps
  <1>2. CASE IsRpcFailure(kind)
    <2>1. Breaker!OnFailure(c) /\ blamed' = blamed \cup {c} /\ Ends(c, "STELLAR_ERROR")
      BY <1>2 DEF Throws
    <2>2. c \notin blamed
      BY DEF OutageInv
    <2>3. IsFiniteSet(blamed') /\ Cardinality(blamed') = Cardinality(blamed) + 1 /\ Cardinality(blamed) \in Nat
      BY <2>1, <2>2, FS_AddElement, FS_CardinalityType DEF OutageInv
    <2>4. horizonCall'[c].pc = "done"
      BY <2>1, EndsOne DEF StellarInv
    <2>5. \A d \in blamed' : d \in HorizonCalls /\ horizonCall'[d].pc = "done"
      BY <2>1, <2>4 DEF OutageInv, OnlyUnfinished
    <2>6. AnsweredCalls' = {} => AnsweredCalls = {}
      BY AnswersStay
    <2>7. circuitFailures' = IF circuitFailures < HorizonThreshold + 1 THEN circuitFailures + 1 ELSE circuitFailures
      BY <2>1 DEF Breaker!OnFailure
    <2>8. circuitFailures' \in Nat /\ circuitFailures' <= Cardinality(blamed')
      BY <2>3, <2>7 DEF OutageInv
    <2>9. CASE circuitState = "CLOSED"
      <3>1. circuitFailures' = circuitFailures + 1
        BY <2>7, <2>9, StellarAssumption DEF OutageInv
      <3>2. circuitState' = IF circuitFailures + 1 >= HorizonThreshold THEN "OPEN" ELSE "CLOSED"
        BY <2>1, <2>9 DEF Breaker!OnFailure, Breaker!Trips, Breaker!TransitionToOpen
      <3> QED
        BY <2>3, <2>5, <2>6, <2>8, <2>9, <3>1, <3>2, StellarAssumption DEF OutageInv
    <2>10. CASE circuitState # "CLOSED"
      <3>1. circuitState' # "CLOSED"
        BY <2>1, <2>10 DEF Breaker!OnFailure, Breaker!Trips, Breaker!TransitionToOpen
      <3>2. Cardinality(blamed') >= HorizonThreshold
        BY <2>3, <2>10, StellarAssumption DEF OutageInv
      <3> QED
        BY <2>3, <2>5, <2>8, <3>1, <3>2 DEF OutageInv
    <2> QED
      BY <2>9, <2>10
  <1> QED
    BY <1>1, <1>2

\* Every step of the calls and of the breaker's clock keeps the invariant.
LEMMA OutageStep == StellarInv /\ OutageInv /\ [StellarNext]_stellarVars => OutageInv'
  <1> SUFFICES ASSUME StellarInv, OutageInv, [StellarNext]_stellarVars PROVE OutageInv'
    OBVIOUS
  <1>0. horizonCall \in [HorizonCalls -> CallRecords]
    BY DEF StellarInv
  <1>1. OnlyUnfinished
    <2>1. ASSUME NEW c \in HorizonCalls, horizonCall[c].pc # "done",
                 \E x : horizonCall' = [horizonCall EXCEPT ![c] = x]
          PROVE  OnlyUnfinished
      BY <1>0, <2>1 DEF OnlyUnfinished
    <2>2. CASE horizonCall' = horizonCall
      BY <2>2 DEF OnlyUnfinished
    <2>3. ASSUME NEW c \in HorizonCalls,
                 \/ RefuseAddress(c) \/ FailsFast(c) \/ Enter(c)
                 \/ ThrowsAtOnce(c) \/ ReadOk(c) \/ ReadFails(c) \/ SubmitPayment(c)
          PROVE  horizonCall[c].pc # "done" /\ \E x : horizonCall' = [horizonCall EXCEPT ![c] = x]
      BY <2>3 DEF RefuseAddress, FailsFast, Enter, ThrowsAtOnce, ReadOk, ReadFails, SubmitPayment,
                  Throws, Answered, Ends
    <2> QED
      BY <2>1, <2>2, <2>3 DEF StellarNext, stellarVars
  <1>2. CASE UNCHANGED <<blamed, circuitFailures, circuitState>>
    BY <1>1, <1>2, QuietKeeps
  <1>3. ASSUME NEW c \in HorizonCalls, RefuseAddress(c) \/ FailsFast(c) \/ Enter(c) PROVE OutageInv'
    <2>1. blamed' = blamed /\ circuitFailures' = circuitFailures
          /\ ((circuitState' = "CLOSED") <=> (circuitState = "CLOSED"))
      BY <1>3 DEF RefuseAddress, FailsFast, Enter, circuitVars, Breaker!HandleFailFast,
                  Breaker!ExecuteClosed, Breaker!ExecuteTrial
    <2> QED
      BY <1>1, <2>1, QuietKeeps, SMTT(30)
  <1>4. ASSUME NEW c \in HorizonCalls, ThrowsAtOnce(c) \/ ReadOk(c) \/ ReadFails(c) \/ SubmitPayment(c)
        PROVE  OutageInv'
    <2>1. horizonCall[c].pc # "done"
      BY <1>4 DEF ThrowsAtOnce, ReadOk, ReadFails, SubmitPayment
    <2>2. \/ UNCHANGED <<circuitVars, blamed>>
          \/ \E kind : Throws(c, kind)
          \/ \E answer \in {"value", "null"} : Answered(c, answer)
      BY <1>4 DEF ThrowsAtOnce, ReadOk, ReadFails, SubmitPayment
    <2> QED
      BY <1>1, <1>2, <2>1, <2>2, AnsweredKeeps, ThrowsKeeps, SMTT(30) DEF circuitVars
  <1>5. CASE Breaker!Tick /\ UNCHANGED <<horizonCall, submissions, landed, blamed>>
    BY <1>2, <1>5 DEF Breaker!Tick
  <1>6. CASE UNCHANGED stellarVars
    BY <1>2, <1>6 DEF stellarVars, circuitVars
  <1> QED
    BY <1>3, <1>4, <1>5, <1>6 DEF StellarNext

\* Nobody is to blame yet.
LEMMA OutageStarts == StellarInit => OutageInv
  <1> SUFFICES ASSUME StellarInit PROVE OutageInv
    OBVIOUS
  <1>1. IsFiniteSet(blamed) /\ Cardinality(blamed) = 0
    BY FS_EmptySet DEF StellarInit
  <1> QED
    BY <1>1, StellarAssumption DEF StellarInit, OutageInv

\* The threshold's worth of calls opens the circuit, no fewer.
LEMMA OutageMeans == OutageInv => OutageIsCounted
  <1> SUFFICES ASSUME OutageInv PROVE OutageIsCounted
    OBVIOUS
  <1>1. Cardinality(blamed) \in Nat
    BY FS_CardinalityType DEF OutageInv
  <1> QED
    BY <1>1, StellarAssumption DEF OutageInv, OutageIsCounted, AnsweredCalls

-----------------------------------------------------------------------------
(* Webhook subscriptions                                                   *)

HookJob(point, url, seen, used) == [pc |-> point, url |-> url, seen |-> seen, used |-> used]

\* An attempt that has started has seen the row as it stands, and what it reads of the
\* row is among what it has seen.
AttemptSees(j, now) ==
    /\ j = HookJob(j.pc, j.url, j.seen, j.used)
    /\ j.pc = "started" => now \in j.seen
    /\ j.pc \in {"resolved", "posted"} => j.used.there /\ j.used \in j.seen

HookDispatch(point, found, left, failed, urls) ==
    [pc |-> point, found |-> found, left |-> left, failed |-> failed, urls |-> urls]

\* Who wanted an event has a delivery, failed to be queued, or is still to be queued.
FanOut(w, queued) ==
    /\ w = HookDispatch(w.pc, w.found, w.left, w.failed, w.urls)
    /\ w.pc = "idle" => w.found = {}
    /\ w.found \subseteq Hooks /\ w.left \subseteq w.found /\ w.failed \subseteq w.found \ w.left
    /\ queued = w.found \ (w.left \cup w.failed)

Queued(v) == {h \in Hooks : hookJob[<<v, h>>].pc # "none"}

SubscriptionInv ==
    /\ hookRow = [h \in Hooks |-> hookRow[h]]
    /\ hookJob = [d \in Deliveries |-> hookJob[d]]
    /\ hookDispatch = [v \in HookEvents |-> hookDispatch[v]]
    /\ \A d \in Deliveries : AttemptSees(hookJob[d], hookRow[d[2]])
    /\ \A v \in HookEvents : FanOut(hookDispatch[v], Queued(v))

\* A row that is written reaches the attempts that run on it, and queues nothing.
LEMMA RowWrittenSeen ==
  ASSUME SubscriptionInv, NEW h, NEW now, RowWritten(h, now), hookDispatch' = hookDispatch
  PROVE  SubscriptionInv'
  <1> USE DEF SubscriptionInv
  <1>1. /\ hookRow' = [k \in Hooks |-> hookRow'[k]] /\ (h \in Hooks => hookRow'[h] = now)
        /\ \A k \in Hooks \ {h} : hookRow'[k] = hookRow[k]
    BY DEF RowWritten
  <1>2. ASSUME NEW d \in Deliveries
        PROVE  AttemptSees(hookJob'[d], hookRow'[d[2]]) /\ hookJob'[d].pc = hookJob[d].pc
    <2>1. d[2] \in Hooks /\ AttemptSees(hookJob[d], hookRow[d[2]])
      BY DEF Deliveries
    <2> DEFINE j == hookJob[d]
    <2>2. CASE d[2] = h /\ j.pc \in {"started", "resolved"}
      <3>1. hookJob'[d] = [j EXCEPT !.seen = j.seen \cup {now}]
        BY <2>2 DEF RowWritten
      <3>2. hookJob'[d] = HookJob(j.pc, j.url, j.seen \cup {now}, j.used)
        BY <2>1, <3>1, Zenon DEF AttemptSees, HookJob
      <3> QED
        BY <1>1, <2>1, <2>2, <3>2 DEF AttemptSees, HookJob
    <2>3. CASE ~(d[2] = h /\ j.pc \in {"started", "resolved"})
      <3>1. hookJob'[d] = j
        BY <2>3 DEF RowWritten
      <3> QED
        BY <1>1, <2>1, <2>3, <3>1 DEF AttemptSees
    <2> QED
      BY <2>2, <2>3
  <1>3. hookJob' = [d \in Deliveries |-> hookJob'[d]]
    BY DEF RowWritten
  <1>4. \A v \in HookEvents : Queued(v)' = Queued(v)
    BY <1>2 DEF Queued, Deliveries
  <1> QED
    BY <1>1, <1>2, <1>3, <1>4

\* An attempt that moves on leaves the dispatches and the other attempts alone.
LEMMA AttemptMoves ==
  ASSUME SubscriptionInv, NEW d \in Deliveries, NEW j,
         hookJob[d].pc # "none", j.pc # "none", AttemptSees(j, hookRow[d[2]]),
         hookJob' = [hookJob EXCEPT ![d] = hookJob'[d]], hookJob'[d] = j,
         hookRow' = hookRow, hookDispatch' = hookDispatch
  PROVE  SubscriptionInv'
  <1> USE DEF SubscriptionInv
  <1>1. /\ hookJob' = [k \in Deliveries |-> hookJob'[k]] /\ hookJob'[d] = j
        /\ \A k \in Deliveries \ {d} : hookJob'[k] = hookJob[k]
    OBVIOUS
  <1>2. \A v \in HookEvents : Queued(v)' = Queued(v)
    BY <1>1 DEF Queued, Deliveries
  <1> QED
    BY <1>1, <1>2

\* A webhook that is queued, or fails to be, is off its dispatch's list.
LEMMA QueueMoves ==
  ASSUME SubscriptionInv, NEW v \in HookEvents, QueueDelivery(v)
  PROVE  SubscriptionInv'
  <1> USE DEF SubscriptionInv
  <1> DEFINE w == hookDispatch[v]
  <1>1. hookRow' = hookRow
    BY DEF QueueDelivery
  <1>2. PICK h \in w.left : QueueSucceeds(v, h) \/ QueueFails(v, h)
    BY DEF QueueDelivery
  <1>3. FanOut(w, Queued(v)) /\ h \in Hooks /\ <<v, h>> \in Deliveries
    BY <1>2 DEF FanOut, Deliveries
  <1>4. ASSUME NEW x, hookDispatch' = [hookDispatch EXCEPT ![v] = x]
        PROVE  /\ hookDispatch' = [u \in HookEvents |-> hookDispatch'[u]] /\ hookDispatch'[v] = x
               /\ \A u \in HookEvents \ {v} : hookDispatch'[u] = hookDispatch[u]
    BY <1>4
  <1>5. CASE QueueSucceeds(v, h)
    <2> DEFINE j == HookJob("waiting", w.urls[h], {}, Gone)
               x == HookDispatch(w.pc, w.found, w.left \ {h}, w.failed, w.urls)
    <2>1. hookJob' = [hookJob EXCEPT ![<<v, h>>] = j]
      BY <1>5 DEF QueueSucceeds, HookJob
    <2>2. hookDispatch' = [hookDispatch EXCEPT ![v] = [w EXCEPT !.left = w.left \ {h}]]
      BY <1>5 DEF QueueSucceeds
    <2>3. /\ hookDispatch' = [u \in HookEvents |-> hookDispatch'[u]]
          /\ hookDispatch'[v] = [w EXCEPT !.left = w.left \ {h}]
          /\ \A u \in HookEvents \ {v} : hookDispatch'[u] = hookDispatch[u]
      BY <1>4, <2>2, SMTT(30)
    <2>4. AttemptSees(j, hookRow[h]) /\ j.pc = "waiting"
      BY DEF AttemptSees, HookJob
    <2> HIDE DEF j
    <2>5. /\ hookJob' = [k \in Deliveries |-> hookJob'[k]] /\ hookJob'[<<v, h>>] = j
          /\ \A k \in Deliveries \ {<<v, h>>} : hookJob'[k] = hookJob[k]
      BY <1>3, <2>1
    <2>6. \A k \in Deliveries : AttemptSees(hookJob'[k], hookRow'[k[2]])
      BY <1>1, <2>4, <2>5, SMTT(30)
    <2>7. Queued(v)' = Queued(v) \cup {h} /\ \A u \in HookEvents \ {v} : Queued(u)' = Queued(u)
      BY <1>3, <2>4, <2>5, SMTT(30) DEF Queued, Deliveries
    <2>8. FanOut(x, Queued(v)')
      BY <1>2, <1>3, <2>7 DEF FanOut, HookDispatch
    <2> HIDE DEF x
    <2>9. /\ hookDispatch' = [u \in HookEvents |-> hookDispatch'[u]] /\ hookDispatch'[v] = x
          /\ \A u \in HookEvents \ {v} : hookDispatch'[u] = hookDispatch[u]
      BY <1>3, <2>3, Zenon DEF FanOut, HookDispatch, x
    <2>10. \A u \in HookEvents : FanOut(hookDispatch'[u], Queued(u)')
      BY <2>7, <2>8, <2>9, Zenon
    <2> QED
      BY <1>1, <2>5, <2>6, <2>9, <2>10
  <1>6. CASE QueueFails(v, h)
    <2> DEFINE x == HookDispatch(w.pc, w.found, w.left \ {h}, w.failed \cup {h}, w.urls)
    <2>1. hookJob' = hookJob
      BY <1>6 DEF QueueFails
    <2>2. /\ hookDispatch' = [u \in HookEvents |-> hookDispatch'[u]]
          /\ hookDispatch'[v] = [w EXCEPT !.left = w.left \ {h}, !.failed = w.failed \cup {h}]
          /\ \A u \in HookEvents \ {v} : hookDispatch'[u] = hookDispatch[u]
      BY <1>6, SMTT(30) DEF QueueFails
    <2>3. FanOut(x, Queued(v))
      BY <1>2, <1>3 DEF FanOut, HookDispatch
    <2> HIDE DEF x
    <2>4. /\ hookDispatch' = [u \in HookEvents |-> hookDispatch'[u]] /\ hookDispatch'[v] = x
          /\ \A u \in HookEvents \ {v} : hookDispatch'[u] = hookDispatch[u]
      BY <1>3, <2>2, Zenon DEF FanOut, HookDispatch, x
    <2>5. \A u \in HookEvents : Queued(u)' = Queued(u)
      BY <2>1 DEF Queued
    <2> QED
      BY <1>1, <2>1, <2>3, <2>4, <2>5
  <1> QED
    BY <1>2, <1>5, <1>6

\* Every step keeps the invariant.
LEMMA SubscriptionStep == SubscriptionInv /\ [SubscriptionNext]_subscriptionVars => SubscriptionInv'
  <1> SUFFICES ASSUME SubscriptionInv, [SubscriptionNext]_subscriptionVars PROVE SubscriptionInv'
    OBVIOUS
  <1> USE DEF SubscriptionInv
  <1>0. CASE UNCHANGED <<hookRow, hookDispatch, hookJob>>
    BY <1>0 DEF Queued
  <1>1. ASSUME NEW e \in HookEdits, CreateHook(e) PROVE SubscriptionInv'
    BY <1>1, RowWrittenSeen, SMTT(30) DEF CreateHook
  <1>2. ASSUME NEW e \in HookEdits, BeginEdit(e) PROVE SubscriptionInv'
    BY <1>0, <1>2 DEF BeginEdit
  <1>3. ASSUME NEW e \in HookEdits, WriteEdit(e) PROVE SubscriptionInv'
    BY <1>0, <1>3, RowWrittenSeen DEF WriteEdit
  <1>4. ASSUME NEW v \in HookEvents, Dispatch(v) PROVE SubscriptionInv'
    <2> DEFINE x == HookDispatch("queueing", FindEnabledForEvent, FindEnabledForEvent, {},
                                 [h \in Hooks |-> hookRow[h].url])
    <2>1. hookDispatch' = [hookDispatch EXCEPT ![v] = x] /\ UNCHANGED <<hookRow, hookJob>>
      BY <1>4 DEF Dispatch, HookDispatch
    <2>2. Queued(v) = {}
      BY <1>4, SMTT(30) DEF Dispatch, FanOut
    <2>3. FanOut(x, Queued(v))
      BY <2>2 DEF FanOut, HookDispatch, FindEnabledForEvent
    <2> HIDE DEF x
    <2>4. /\ hookDispatch' = [u \in HookEvents |-> hookDispatch'[u]] /\ hookDispatch'[v] = x
          /\ \A u \in HookEvents \ {v} : hookDispatch'[u] = hookDispatch[u]
      BY <2>1
    <2>5. \A u \in HookEvents : Queued(u)' = Queued(u)
      BY <2>1 DEF Queued
    <2> QED
      BY <2>1, <2>3, <2>4, <2>5, SMTT(30)
  <1>5. ASSUME NEW d \in Deliveries, StartAttempt(d) \/ Resolve(d) \/ Post(d) PROVE SubscriptionInv'
    <2> DEFINE o == hookJob[d]
               now == hookRow[d[2]]
    <2>1. AttemptSees(o, now) /\ UNCHANGED <<hookRow, hookDispatch>> /\ o.pc # "none"
      BY <1>5, SMTT(30) DEF StartAttempt, Resolve, Post
    <2>2. ASSUME NEW j, hookJob' = [hookJob EXCEPT ![d] = hookJob'[d]], hookJob'[d] = j, j.pc # "none",
          AttemptSees(j, now)
          PROVE  SubscriptionInv'
      BY <2>1, <2>2, AttemptMoves, SMTT(30)
    <2>3. CASE StartAttempt(d)
      <3> DEFINE j == HookJob("started", o.url, {now}, o.used)
      <3>1. hookJob' = [hookJob EXCEPT ![d] = hookJob'[d]] /\ hookJob'[d] = j
        <4>1. hookJob' = [hookJob EXCEPT ![d] = hookJob'[d]] /\ hookJob'[d] = [o EXCEPT !.pc = "started", !.seen = {now}]
          BY <2>3 DEF StartAttempt
        <4> HIDE DEF o, SubscriptionInv
        <4>2. hookJob'[d] = j
          BY <2>1, <4>1, ZenonT(60) DEF AttemptSees, HookJob
        <4> QED
          BY <4>1, <4>2
      <3>2. AttemptSees(j, now) /\ j.pc # "none"
        BY DEF AttemptSees, HookJob
      <3> HIDE DEF j
      <3> QED
        BY <2>2, <3>1, <3>2
    <2>4. CASE Resolve(d)
      <3> DEFINE point == IF now.there THEN "resolved" ELSE "gone"
                 j == HookJob(point, o.url, o.seen, now)
      <3>1. hookJob' = [hookJob EXCEPT ![d] = hookJob'[d]] /\ hookJob'[d] = j
        <4>1. hookJob' = [hookJob EXCEPT ![d] = hookJob'[d]] /\ hookJob'[d] = [o EXCEPT !.pc = point, !.used = now]
          BY <2>4 DEF Resolve, ResolveSubscription
        <4> HIDE DEF o, point, SubscriptionInv
        <4>2. hookJob'[d] = j
          BY <2>1, <4>1, ZenonT(60) DEF AttemptSees, HookJob
        <4> QED
          BY <4>1, <4>2
      <3>2. AttemptSees(j, now) /\ j.pc # "none"
        BY <2>1, <2>4 DEF Resolve, AttemptSees, HookJob
      <3> HIDE DEF j
      <3> QED
        BY <2>2, <3>1, <3>2
    <2>5. CASE Post(d)
      <3>1. CASE hookJob' = [hookJob EXCEPT ![d].pc = "posted"]
        <4> DEFINE j == HookJob("posted", o.url, o.seen, o.used)
        <4>1. hookJob' = [hookJob EXCEPT ![d] = hookJob'[d]] /\ hookJob'[d] = j
          <5>1. hookJob' = [hookJob EXCEPT ![d] = hookJob'[d]] /\ hookJob'[d] = [o EXCEPT !.pc = "posted"]
            BY <3>1
          <5> HIDE DEF o, SubscriptionInv
          <5>2. hookJob'[d] = j
            BY <2>1, <5>1 DEF AttemptSees, HookJob
          <5> QED
            BY <5>1, <5>2
        <4>2. AttemptSees(j, now) /\ j.pc # "none"
          BY <2>1, <2>5 DEF Post, AttemptSees, HookJob
        <4> HIDE DEF j
        <4> QED
          BY <2>2, <4>1, <4>2
      <3>2. CASE hookJob' = [hookJob EXCEPT ![d] = [o EXCEPT !.pc = "waiting", !.seen = {},
            !.used = Gone]]
        <4> DEFINE j == HookJob("waiting", o.url, {}, Gone)
        <4>1. hookJob' = [hookJob EXCEPT ![d] = hookJob'[d]] /\ hookJob'[d] = j
          <5>1. hookJob' = [hookJob EXCEPT ![d] = hookJob'[d]] /\ hookJob'[d] = [o EXCEPT !.pc = "waiting", !.seen = {}, !.used = Gone]
            BY <3>2
          <5> HIDE DEF o, SubscriptionInv
          <5>2. hookJob'[d] = j
            BY <2>1, <5>1, Zenon DEF AttemptSees, HookJob
          <5> QED
            BY <5>1, <5>2
        <4>2. AttemptSees(j, now) /\ j.pc # "none"
          BY DEF AttemptSees, HookJob
        <4> HIDE DEF j
        <4> QED
          BY <2>2, <4>1, <4>2
      <3> QED
        BY <2>5, <3>1, <3>2 DEF Post
    <2> QED
      BY <1>5, <2>3, <2>4, <2>5
  <1>6. CASE UNCHANGED subscriptionVars
    BY <1>0, <1>6 DEF subscriptionVars
  <1> QED
    BY <1>1, <1>2, <1>3, <1>4, <1>5, <1>6, QueueMoves, SMTT(30) DEF SubscriptionNext

\* Nothing has been dispatched yet.
LEMMA SubscriptionStarts == SubscriptionInit => SubscriptionInv
  <1> SUFFICES ASSUME SubscriptionInit PROVE SubscriptionInv
    OBVIOUS
  <1>1. \A d \in Deliveries : hookJob[d] = HookJob("none", 0, {}, Gone)
    BY Zenon DEF SubscriptionInit, HookJob
  <1>2. \A v \in HookEvents : hookDispatch[v] = HookDispatch("idle", {}, {}, {}, [h \in Hooks |-> 0])
    BY DEF SubscriptionInit, HookDispatch
  <1>3. \A d \in Deliveries : AttemptSees(hookJob[d], hookRow[d[2]])
    BY <1>1 DEF AttemptSees, HookJob
  <1>4. \A v \in HookEvents : Queued(v) = {}
    BY <1>1, SMTT(30) DEF Queued, Deliveries, HookJob
  <1>5. \A v \in HookEvents : FanOut(hookDispatch[v], Queued(v))
    BY <1>2, <1>4, SMTT(30) DEF FanOut, HookDispatch
  <1>6. /\ hookRow = [h \in Hooks |-> hookRow[h]]
        /\ hookJob = [d \in Deliveries |-> hookJob[d]]
        /\ hookDispatch = [v \in HookEvents |-> hookDispatch[v]]
    BY DEF SubscriptionInit
  <1> QED
    BY <1>3, <1>5, <1>6, Zenon DEF SubscriptionInv

\* What an attempt uses it has seen, and what is left of a dispatch is nothing.
LEMMA SubscriptionMeans == SubscriptionInv => PostsUseCurrentRow /\ FanOutIsComplete
  <1> SUFFICES ASSUME SubscriptionInv PROVE PostsUseCurrentRow /\ FanOutIsComplete
    OBVIOUS
  <1>1. PostsUseCurrentRow
    BY DEF PostsUseCurrentRow, SubscriptionInv, AttemptSees
  <1>2. FanOutIsComplete
    BY Zenon DEF FanOutIsComplete, SubscriptionInv, FanOut, Queued
  <1> QED
    BY <1>1, <1>2

-----------------------------------------------------------------------------

\* What leaves the service does so once, to the right place, and its failures are
\* counted (OutboundIsSound): the calls of StellarService and the deliveries of
\* WebhookDispatcher and WebhooksProcessor.
THEOREM OutboundSound == StellarSpec /\ SubscriptionSpec => []OutboundIsSound
<1>1. StellarSpec => []OutageIsCounted
  BY StellarStarts, StellarStep, OutageStarts, OutageStep, OutageMeans, PTL DEF StellarSpec
<1>2. SubscriptionSpec => [](PostsUseCurrentRow /\ FanOutIsComplete)
  BY SubscriptionStarts, SubscriptionStep, SubscriptionMeans, PTL DEF SubscriptionSpec
<1>3. PaymentSubmittedOnce /\ OutageIsCounted /\ (PostsUseCurrentRow /\ FanOutIsComplete) => OutboundIsSound
  BY DEF OutboundIsSound
<1>. QED
  BY <1>1, <1>2, <1>3, PaymentsAreSubmittedOnce, PTL

-----------------------------------------------------------------------------
(* The lifecycle of a transaction                                          *)

\* The initial state is typed.
LEMMA InitTyped ==
    ASSUME Init
    PROVE  TypeOK
  <1>1. expired \in BOOLEAN /\ spendable \in BOOLEAN /\ lostTrack \in BOOLEAN
    BY Zenon DEF Init
  <1>2. pc \in [Handlers -> Steps]
    BY DEF Init, Steps
  <1> QED
    BY <1>1, <1>2 DEF Init, TypeOK, RowStatus, ProposalStatus

\* Every step of every request keeps the rows, the votes and the program
\* counters in their types.
THEOREM TypeCorrect == Spec => []TypeOK
  <1>1. Init => TypeOK
    BY InitTyped
  <1>2. TypeOK /\ [Next]_vars => TypeOK'
    <2> SUFFICES ASSUME TypeOK, [Next]_vars PROVE TypeOK'
      OBVIOUS
    <2> USE LifecycleAssumption
        DEF LifecycleAssumption, TypeOK, RowStatus, ProposalStatus, Steps, Handlers, Goto, Track
    <2>1. CASE Create
      BY <2>1, ZenonT(40) DEF Create, CreateRow, CreateProposal, MarkPending
    <2>2. ASSUME NEW r \in Requests, Decide(r) PROVE TypeOK'
      <3>1. CASE DecideRead(r) \/ DecideExpire(r)
        BY <3>1, ZenonT(40) DEF DecideRead, DecideExpire
      <3>2. CASE DecideCheckVote(r) \/ DecideVote(r)
        BY <3>2, ZenonT(40) DEF DecideCheckVote, DecideVote
      <3>3. CASE DecideReject(r) \/ DecideCancel(r)
        BY <3>3, ZenonT(40) DEF DecideReject, DecideCancel, CancelRow
      <3>4. CASE DecideCount(r) \/ DecideApprove(r) \/ DecideExecuted(r)
        BY <3>4, ZenonT(40) DEF DecideCount, DecideApprove, DecideExecuted
      <3> QED
        BY <2>2, <3>1, <3>2, <3>3, <3>4 DEF Decide
    <2>3. ASSUME NEW h \in Handlers, ExecuteStep(h) PROVE TypeOK'
      <3>1. CASE ExecuteRead(h) \/ ExecuteSubmit(h)
        BY <3>1, ZenonT(40) DEF ExecuteRead, ExecuteSubmit
      <3>2. CASE PaymentLands(h) \/ PaymentRefused(h)
        BY <3>2, ZenonT(40) DEF PaymentLands, PaymentRefused
      <3>3. CASE RecordResult(h) \/ ConsumeBudget(h)
        BY <3>3, ZenonT(40) DEF RecordResult, AfterExecute, ConsumeBudget
      <3>4. CASE SettlementThrows(h) \/ CatchFailure(h)
        BY <3>4, ZenonT(40) DEF SettlementThrows, CatchFailure
      <3> QED
        BY <2>3, <3>1, <3>2, <3>3, <3>4 DEF ExecuteStep
    <2>4. ASSUME NEW h \in Handlers, Stop(h) PROVE TypeOK'
      BY <2>4 DEF Stop
    <2>5. CASE Cancel \/ Expire \/ FreezeOrUnfreeze
      BY <2>5, ZenonT(40) DEF Cancel, CancelRow, Expire, FreezeOrUnfreeze
    <2>6. CASE UNCHANGED vars
      BY <2>6 DEF vars
    <2> QED
      BY <2>1, <2>2, <2>3, <2>4, <2>5, <2>6 DEF Next
  <1> QED
    BY <1>1, <1>2, PTL DEF Spec

-----------------------------------------------------------------------------
(* Quorum                                                                  *)

\* Requests past the approval threshold (or of a transaction that needs none).
ClearedSteps ==
    {"approving", "execute", "submit", "pay", "settle", "unsettle", "consume",
     "caught", "executed"}

Cleared ==
    \/ \E h \in Handlers : pc[h] \in ClearedSteps
    \/ paid # {}
    \/ proposal \in {"APPROVED", "EXECUTED"}

\* Before the row is created no other request has anything to work on.
NothingBeforeRow ==
    pc[Creator] = "idle" =>
        proposal = "NONE" /\ paid = {} /\ \A r \in Requests : pc[r] = "idle"

QuorumInv ==
    /\ TypeOK
    /\ NothingBeforeRow
    /\ Cleared => ApprovalCount >= required

\* Votes are only ever added, so the number of approvals never drops.
LEMMA ApprovalCountGrows ==
    ASSUME TypeOK, TypeOK', votes \subseteq votes'
    PROVE  /\ ApprovalCount \in Nat
           /\ ApprovalCount' \in Nat
           /\ ApprovalCount' >= ApprovalCount
  <1>1. /\ IsFiniteSet(votes' \cap Approvals)
        /\ IsFiniteSet(votes \cap Approvals)
    BY FS_Subset, LifecycleAssumption DEF LifecycleAssumption, TypeOK, Requests
  <1>2. votes \cap Approvals \subseteq votes' \cap Approvals
    OBVIOUS
  <1>3. /\ Cardinality(votes \cap Approvals) \in Nat
        /\ Cardinality(votes' \cap Approvals) \in Nat
        /\ Cardinality(votes \cap Approvals) <= Cardinality(votes' \cap Approvals)
    BY <1>1, <1>2, FS_CardinalityType, FS_Subset
  <1> QED
    BY <1>3 DEF ApprovalCount

\* The number of approvals is a natural number in every typed state.
LEMMA ApprovalCountNat ==
    ASSUME TypeOK
    PROVE  ApprovalCount \in Nat
  <1>1. IsFiniteSet(votes \cap Approvals)
    BY FS_Subset, LifecycleAssumption DEF LifecycleAssumption, TypeOK, Requests
  <1> QED
    BY <1>1, FS_CardinalityType DEF ApprovalCount

\* The strengthened quorum invariant is preserved by every step.
LEMMA QuorumStep ==
    ASSUME QuorumInv, [Next]_vars, TypeOK'
    PROVE  QuorumInv'
  <1> USE LifecycleAssumption
      DEF LifecycleAssumption, TypeOK, Handlers, Goto
  <1>0. ApprovalCount \in Nat
    BY ApprovalCountNat DEF QuorumInv
  <1>1. CASE CreateRow
    <2>1. NothingBeforeRow'
      BY <1>1 DEF CreateRow, NothingBeforeRow, QuorumInv, Steps
    <2>2. ApprovalCount' = ApprovalCount
      BY <1>1, SMTT(30) DEF CreateRow, ApprovalCount
    <2>3. \A r \in Requests : pc'[r] = "idle"
      BY <1>1, SMTT(30) DEF CreateRow, NothingBeforeRow, QuorumInv
    <2>4. proposal' = "NONE" /\ paid' = {}
      BY <1>1, SMTT(30) DEF CreateRow, NothingBeforeRow, QuorumInv
    <2>5. pc'[Creator] \in ClearedSteps => required' = 0
      BY <1>1 DEF CreateRow, ClearedSteps, QuorumInv
    <2>6. Cleared' => required' = 0
      BY <2>3, <2>4, <2>5, SMTT(30) DEF Cleared, ClearedSteps
    <2> QED
      BY <1>0, <2>1, <2>2, <2>6 DEF QuorumInv
  <1>2. CASE CreateProposal \/ MarkPending
    <2>1. NothingBeforeRow'
      BY <1>2 DEF CreateProposal, MarkPending, NothingBeforeRow, QuorumInv, Steps
    <2>2. ApprovalCount' = ApprovalCount /\ required' = required
      BY <1>2, Zenon DEF CreateProposal, MarkPending, ApprovalCount
    <2>3. Cleared' => Cleared
      BY <1>2 DEF CreateProposal, MarkPending, Cleared, ClearedSteps, QuorumInv
    <2> QED
      BY <2>1, <2>2, <2>3, SMTT(30) DEF QuorumInv
  <1>3. ASSUME NEW r \in Requests, Decide(r) PROVE QuorumInv'
    <2>1. NothingBeforeRow'
      BY <1>3, SMTT(30) DEF Decide, DecideRead, DecideExpire, DecideCheckVote, DecideVote,
                  DecideReject, DecideCancel, DecideCount, DecideApprove,
                  DecideExecuted, NothingBeforeRow, QuorumInv
    <2>2. votes \subseteq votes' /\ required' = required
      BY <1>3 DEF Decide, DecideRead, DecideExpire, DecideCheckVote, DecideVote,
                  DecideReject, DecideCancel, DecideCount, DecideApprove, DecideExecuted
    <2>3. ApprovalCount' \in Nat /\ ApprovalCount' >= ApprovalCount
      BY <2>2, ApprovalCountGrows DEF QuorumInv
    <2>4. Cleared' => Cleared \/ ApprovalCount >= required
      <3>1. CASE DecideCount(r)
        BY <1>0, <3>1, SMTT(30) DEF DecideCount, Cleared, ClearedSteps, QuorumInv
      <3>2. CASE DecideApprove(r) \/ DecideExecuted(r)
        BY <3>2, SMTT(30) DEF DecideApprove, DecideExecuted, Cleared, ClearedSteps, QuorumInv
      <3>3. CASE DecideRead(r) \/ DecideExpire(r) \/ DecideCheckVote(r) \/ DecideVote(r)
        BY <3>3, SMTT(30) DEF DecideRead, DecideExpire, DecideCheckVote, DecideVote, Cleared,
                    ClearedSteps, QuorumInv
      <3>4. CASE DecideReject(r) \/ DecideCancel(r)
        BY <3>4, SMTT(30) DEF DecideReject, DecideCancel, Cleared, ClearedSteps, QuorumInv
      <3> QED
        BY <1>3, <3>1, <3>2, <3>3, <3>4, SMTT(30) DEF Decide
    <2> QED
      BY <1>0, <2>1, <2>2, <2>3, <2>4, SMTT(30) DEF QuorumInv
  <1>4. ASSUME NEW h \in Handlers, ExecuteStep(h) \/ Stop(h) PROVE QuorumInv'
    <2>1. NothingBeforeRow'
      BY <1>4, SMTT(30) DEF ExecuteStep, ExecuteRead, ExecuteSubmit, PaymentLands,
                  PaymentRefused, RecordResult, AfterExecute, ConsumeBudget,
                  SettlementThrows, CatchFailure, Stop, NothingBeforeRow, QuorumInv
    <2>2. votes' = votes /\ required' = required /\ proposal' = proposal
      BY <1>4, SMTT(30) DEF ExecuteStep, ExecuteRead, ExecuteSubmit, PaymentLands,
                  PaymentRefused, RecordResult, ConsumeBudget,
                  SettlementThrows, CatchFailure, Stop
    <2>3. pc[h] \in ClearedSteps \/ (Stop(h) /\ paid' = paid)
      BY <1>4 DEF ExecuteStep, ExecuteRead, ExecuteSubmit, PaymentLands,
                  PaymentRefused, RecordResult, ConsumeBudget,
                  SettlementThrows, CatchFailure, Stop, ClearedSteps
    <2>4. Cleared' => Cleared
      BY <2>2, <2>3 DEF Cleared, Stop, ClearedSteps, QuorumInv
    <2>5. ApprovalCount' = ApprovalCount
      BY <2>2, SMTT(30) DEF ApprovalCount
    <2> QED
      BY <2>1, <2>2, <2>4, <2>5, SMTT(30) DEF QuorumInv
  <1>5. CASE Cancel \/ Expire \/ FreezeOrUnfreeze \/ UNCHANGED vars
    <2>1. /\ votes' = votes /\ required' = required /\ proposal' = proposal
          /\ pc' = pc /\ paid' = paid
      BY <1>5 DEF Cancel, Expire, FreezeOrUnfreeze, vars
    <2> QED
      BY <2>1 DEF QuorumInv, NothingBeforeRow, Cleared, ApprovalCount
  <1> QED
    BY <1>1, <1>2, <1>3, <1>4, <1>5, SMTT(30) DEF Next, Create

\* No money moves, and no proposal is APPROVED or EXECUTED, with fewer approval
\* rows than the proposal requires, however reviewers' requests interleave.
THEOREM QuorumHolds == Spec => []QuorumBeforeSpending
  <1>1. Init => QuorumInv
    <2> SUFFICES ASSUME Init PROVE QuorumInv
      OBVIOUS
    <2>1. TypeOK
      BY InitTyped
    <2>2. ~Cleared
      BY DEF Init, Cleared, ClearedSteps
    <2>3. NothingBeforeRow
      BY LifecycleAssumption DEF LifecycleAssumption, Init, NothingBeforeRow, Handlers
    <2> QED
      BY <2>1, <2>2, <2>3 DEF QuorumInv
  <1>2. QuorumInv /\ TypeOK' /\ [Next]_vars => QuorumInv'
    BY QuorumStep
  <1>3. QuorumInv => QuorumBeforeSpending
    <2>1. Spenders # {} => Cleared
      BY DEF Spenders, Cleared, ClearedSteps
    <2> QED
      BY <2>1 DEF QuorumInv, QuorumBeforeSpending, Cleared
  <1> QED
    BY <1>1, <1>2, <1>3, TypeCorrect, PTL DEF Spec

-----------------------------------------------------------------------------
(* Payments                                                                *)

\* The row is consulted by execute(), so what matters is that it shows every
\* payment (~Hidden); Track records the first state in which it does not.
SpenderInv ==
    /\ Hidden => lostTrack
    /\ OneSpenderUnlessHidden

\* A step that changes neither who spends nor the row, and a step that only
\* takes a spender away, keep the invariant.
LEMMA FewerSpenders ==
    ASSUME SpenderInv, Track, Spenders' \subseteq Spenders
    PROVE  SpenderInv'
  BY Zenon DEF SpenderInv, OneSpenderUnlessHidden, Track

\* The guarded transition of execute() and the payments keep the invariant.
LEMMA SpenderStep ==
    ASSUME TypeOK, SpenderInv, [Next]_vars
    PROVE  SpenderInv'
  <1> USE LifecycleAssumption DEF LifecycleAssumption, TypeOK, Handlers, Goto
  <1>1. ASSUME NEW h \in Handlers, ExecuteSubmit(h) PROVE SpenderInv'
    <2>1. CASE row \in EXECUTED_STATUSES
      <3>1. Spenders' \subseteq Spenders
        BY <1>1, <2>1 DEF ExecuteSubmit, Spenders
      <3> QED
        BY <1>1, <3>1, FewerSpenders DEF ExecuteSubmit
    <2>2. CASE row \notin EXECUTED_STATUSES
      <3>1. Spenders' \subseteq Spenders \cup {h}
        BY <1>1, <2>2 DEF ExecuteSubmit, Spenders
      <3>2. ~lostTrack => Spenders = {}
        BY <2>2 DEF SpenderInv, Hidden
      <3>3. Track
        BY <1>1 DEF ExecuteSubmit
      <3> QED
        BY <3>1, <3>2, <3>3, Zenon DEF SpenderInv, OneSpenderUnlessHidden, Track
    <2> QED
      BY <2>1, <2>2
  <1>2. ASSUME NEW h \in Handlers, ExecuteStep(h), ~ExecuteSubmit(h) PROVE SpenderInv'
    <2>1. Spenders' \subseteq Spenders
      BY <1>2, SMTT(30) DEF ExecuteStep, ExecuteRead, PaymentLands, PaymentRefused,
                  RecordResult, AfterExecute, ConsumeBudget, SettlementThrows,
                  CatchFailure, Spenders
    <2>2. Track
      BY <1>2 DEF ExecuteStep, ExecuteRead, PaymentLands, PaymentRefused,
                  RecordResult, ConsumeBudget, SettlementThrows, CatchFailure
    <2> QED
      BY <2>1, <2>2, FewerSpenders, SMTT(30)
  <1>3. ASSUME NEW r \in Requests, Decide(r) PROVE SpenderInv'
    <2>1. Spenders' \subseteq Spenders
      BY <1>3, SMTT(30) DEF Decide, DecideRead, DecideExpire, DecideCheckVote, DecideVote,
                  DecideReject, DecideCancel, DecideCount, DecideApprove,
                  DecideExecuted, Spenders
    <2>2. Track
      BY <1>3 DEF Decide, DecideRead, DecideExpire, DecideCheckVote, DecideVote,
                  DecideReject, DecideCancel, DecideCount, DecideApprove, DecideExecuted
    <2> QED
      BY <2>1, <2>2, FewerSpenders, SMTT(30)
  <1>4. CASE Create \/ \E h \in Handlers : Stop(h)
    <2>1. Spenders' \subseteq Spenders
      BY <1>4 DEF Create, CreateRow, CreateProposal, MarkPending, Stop, Spenders
    <2>2. Track
      BY <1>4 DEF Create, CreateRow, CreateProposal, MarkPending, Stop
    <2> QED
      BY <2>1, <2>2, FewerSpenders, SMTT(30)
  <1>5. CASE Cancel \/ Expire \/ FreezeOrUnfreeze
    <2>1. Spenders' = Spenders /\ Track
      BY <1>5 DEF Cancel, Expire, FreezeOrUnfreeze, Spenders
    <2> QED
      BY <2>1, FewerSpenders, SMTT(30)
  <1>6. CASE UNCHANGED vars
    <2>1. Spenders' = Spenders /\ row' = row /\ lostTrack' = lostTrack
      BY <1>6 DEF vars, Spenders
    <2> QED
      BY <2>1 DEF SpenderInv, Hidden, OneSpenderUnlessHidden
  <1> QED
    BY <1>1, <1>2, <1>3, <1>4, <1>5, <1>6, SMTT(30) DEF Next

\* execute() lets at most one request spend as long as the row has always shown
\* the payments that landed or are in flight: a second payment needs a write
\* that hid the first (the PENDING write of createTransaction, or the FAILED
\* write of the catch block).
THEOREM OneSpenderHolds == Spec => []OneSpenderUnlessHidden
  <1>1. Init => SpenderInv
    BY DEF Init, SpenderInv, Hidden, OneSpenderUnlessHidden, Spenders
  <1>2. TypeOK /\ SpenderInv /\ [Next]_vars => SpenderInv'
    BY SpenderStep
  <1>3. SpenderInv => OneSpenderUnlessHidden
    BY SMTT(30) DEF SpenderInv
  <1> QED
    BY <1>1, <1>2, <1>3, TypeCorrect, PTL DEF Spec

\* A request that is about to record a success has its payment on the ledger.
PaidBeforeRecord ==
    /\ \A h \in Handlers : pc[h] \in {"settle", "consume"} => h \in paid
    /\ CompletedIsPaid

\* A row that says COMPLETED always stands for a payment that landed.
THEOREM CompletedIsPaidHolds == Spec => []CompletedIsPaid
  <1>1. Init => PaidBeforeRecord
    BY SMTT(30) DEF Init, PaidBeforeRecord, CompletedIsPaid
  <1>2. TypeOK /\ PaidBeforeRecord /\ [Next]_vars => PaidBeforeRecord'
    <2> SUFFICES ASSUME TypeOK, PaidBeforeRecord, [Next]_vars
                 PROVE  PaidBeforeRecord'
      OBVIOUS
    <2> USE LifecycleAssumption
        DEF LifecycleAssumption, TypeOK, Handlers, Goto, PaidBeforeRecord, CompletedIsPaid
    <2>1. CASE Create
      BY <2>1, SMTT(30) DEF Create, CreateRow, CreateProposal, MarkPending
    <2>2. ASSUME NEW r \in Requests, Decide(r) PROVE PaidBeforeRecord'
      BY <2>2, SMTT(30) DEF Decide, DecideRead, DecideExpire, DecideCheckVote, DecideVote,
                  DecideReject, DecideCancel, CancelRow, DecideCount, DecideApprove,
                  DecideExecuted
    <2>3. ASSUME NEW h \in Handlers, ExecuteStep(h) \/ Stop(h) PROVE PaidBeforeRecord'
      BY <2>3, SMTT(30) DEF ExecuteStep, ExecuteRead, ExecuteSubmit, PaymentLands,
                  PaymentRefused, RecordResult, AfterExecute, ConsumeBudget,
                  SettlementThrows, CatchFailure, Stop
    <2>4. CASE Cancel \/ Expire \/ FreezeOrUnfreeze
      BY <2>4, SMTT(30) DEF Cancel, CancelRow, Expire, FreezeOrUnfreeze
    <2>5. CASE UNCHANGED vars
      BY <2>5 DEF vars
    <2> QED
      BY <2>1, <2>2, <2>3, <2>4, <2>5, SMTT(30) DEF Next
  <1>3. PaidBeforeRecord => CompletedIsPaid
    BY DEF PaidBeforeRecord
  <1> QED
    BY <1>1, <1>2, <1>3, TypeCorrect, PTL DEF Spec
=============================================================================
