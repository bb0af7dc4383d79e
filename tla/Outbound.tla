------------------------------ MODULE Outbound ------------------------------
(***************************************************************************)
(* What leaves the service, in two parts that share no state: the calls to *)
(* Horizon and the deliveries to webhooks.                                 *)
(***************************************************************************)
EXTENDS Integers, FiniteSets

-----------------------------------------------------------------------------
(***************************************************************************)
(* The calls that wallets and transactions make to Horizon: StellarService *)
(* (modules/stellar/stellar.service.ts) sends each through its circuit     *)
(* breaker (CircuitBreaker) to HorizonStellarClient                        *)
(* (integrations/stellar/horizon-stellar.client.ts), which repeats reads   *)
(* with retryWithBackoff and submits a payment once.  A call interleaves   *)
(* with the others at every request to Horizon.                            *)
(***************************************************************************)

CONSTANTS
  HorizonCalls,        \* calls of the service
  MaxReadAttempts,     \* maxAttempts of a read
  HorizonThreshold,    \* HORIZON_FAILURE_THRESHOLD
  HorizonReset         \* HORIZON_RESET_TIMEOUT_MS, in clock ticks

ASSUME StellarAssumption == HorizonThreshold \in Nat \ {0}

VARIABLES
  circuitState, circuitFailures, circuitElapsed, circuitTrials,
  admitted,            \* the breaker's view of each call
  horizonCall,         \* what each call asks for, how far it is, what it answered
  submissions,         \* [HorizonCalls -> Nat]: payments sent to Horizon
  landed,              \* calls whose payment is on the ledger
  blamed               \* calls that failed and counted as failures of Horizon

circuitVars == <<circuitState, circuitFailures, circuitElapsed, circuitTrials, admitted>>
stellarVars == <<circuitVars, horizonCall, submissions, landed, blamed>>

Breaker == INSTANCE CircuitBreaker WITH
  Callers <- HorizonCalls, FailureThreshold <- HorizonThreshold,
  ResetTimeout <- HorizonReset, HalfOpenMaxAttempts <- 1,
  IgnoredIn <- {"ordinary", "trial"}, MaxFailures <- HorizonThreshold + 1,
  state <- circuitState, failureCount <- circuitFailures, elapsed <- circuitElapsed,
  halfOpenAttempts <- circuitTrials, call <- admitted

\* What is asked for, and what is wrong with it: an address that is none, a
\* source secret that is missing, an asset without an issuer.
HorizonRequests ==
  {[op |-> "balances", defect |-> "none"], [op |-> "lookup", defect |-> "none"]}
  \cup {[op |-> "build", defect |-> d] : d \in {"none", "asset"}}
  \cup {[op |-> "payment", defect |-> d] : d \in {"none", "address", "secret", "asset"}}

NotAsked == [op |-> "none", defect |-> "none"]

\* isRpcFailure(): a 4xx is the client's fault, anything else is Horizon's.  An
\* error that the client raises itself has no status and counts as Horizon's.
IsRpcFailure(kind) == kind # "client"

-----------------------------------------------------------------------------
(* The breaker's completion and the service's answer are one step          *)

Ends(c, answer) ==
  horizonCall' = [horizonCall EXCEPT ![c] = [@ EXCEPT !.pc = "done", !.answer = answer]]

Answered(c, answer) ==
  /\ Breaker!OnSuccess(c)
  /\ Ends(c, answer)
  /\ UNCHANGED blamed

\* Mutant: the error is wrapped before the breaker sees it, which ignores it then.
Throws_Wrapped(c, kind) ==
  /\ Breaker!OnIgnoredError(c)
  /\ blamed' = IF IsRpcFailure(kind) THEN blamed \cup {c} ELSE blamed
  /\ Ends(c, "STELLAR_ERROR")

\* wrap(): whatever is not a DomainException becomes STELLAR_ERROR.
Throws(c, kind) ==
  /\ IF IsRpcFailure(kind)
     THEN Breaker!OnFailure(c) /\ blamed' = blamed \cup {c}
     ELSE Breaker!OnIgnoredError(c) /\ UNCHANGED blamed
  /\ Ends(c, "STELLAR_ERROR")

\* assertValidAddress() comes before the breaker.
RefuseAddress(c) ==
  /\ horizonCall[c].pc = "idle"
  /\ horizonCall' = [horizonCall EXCEPT ![c] =
       [pc |-> "done", request |-> [op |-> "payment", defect |-> "address"],
        attempt |-> 1, answer |-> "INVALID_STELLAR_ADDRESS"]]
  /\ UNCHANGED <<circuitVars, submissions, landed, blamed>>

FailsFast(c) ==
  /\ horizonCall[c].pc = "idle"
  /\ Breaker!HandleFailFast(c)
  /\ \E r \in {x \in HorizonRequests : x.defect # "address"} :
       horizonCall' = [horizonCall EXCEPT ![c] =
         [pc |-> "done", request |-> r, attempt |-> 1, answer |-> "CIRCUIT_OPEN"]]
  /\ UNCHANGED <<submissions, landed, blamed>>

Enter(c) ==
  /\ horizonCall[c].pc = "idle"
  /\ Breaker!ExecuteClosed(c) \/ Breaker!ExecuteTrial(c)
  /\ \E r \in {x \in HorizonRequests : x.defect # "address"} :
       horizonCall' = [horizonCall EXCEPT ![c] =
         [pc |-> "reading", request |-> r, attempt |-> 1, answer |-> "none"]]
  /\ UNCHANGED <<submissions, landed, blamed>>

-----------------------------------------------------------------------------
(* HorizonStellarClient                                                    *)

ThrowsAtOnce(c) ==
  /\ horizonCall[c].pc = "reading"
  /\ horizonCall[c].request.defect = "secret"
  /\ Throws(c, "local")
  /\ UNCHANGED <<submissions, landed>>

\* The account or the transaction is there: a payment is built, signed and ready.
ReadOk(c) ==
  LET r == horizonCall[c].request IN
  /\ horizonCall[c].pc = "reading"
  /\ r.defect # "secret"
  /\ \/ r.op \in {"balances", "lookup"} /\ Answered(c, "value")
     \/ r.defect = "asset" /\ Throws(c, "local")
     \/ r.op = "build" /\ r.defect = "none" /\ Answered(c, "value")
     \/ /\ r.op = "payment" /\ r.defect = "none"
        /\ horizonCall' = [horizonCall EXCEPT ![c].pc = "submitting"]
        /\ UNCHANGED <<circuitVars, blamed>>
  /\ UNCHANGED <<submissions, landed>>

\* Every error is tried again; the last of a lookup is answered as null.
ReadFails(c) ==
  /\ horizonCall[c].pc = "reading"
  /\ horizonCall[c].request.defect # "secret"
  /\ \/ /\ horizonCall[c].attempt < MaxReadAttempts
        /\ horizonCall' = [horizonCall EXCEPT ![c].attempt = @ + 1]
        /\ UNCHANGED <<circuitVars, blamed>>
     \/ /\ horizonCall[c].attempt = MaxReadAttempts
        /\ IF horizonCall[c].request.op = "lookup" THEN Answered(c, "null")
           ELSE \E kind \in {"client", "server"} : Throws(c, kind)
  /\ UNCHANGED <<submissions, landed>>

\* Mutant: a submission without an answer is repeated like a read.
SubmitPayment_Retried(c) ==
  /\ horizonCall[c].pc = "submitting"
  /\ submissions[c] < MaxReadAttempts
  /\ submissions' = [submissions EXCEPT ![c] = @ + 1]
  /\ landed' = landed \cup {c}
  /\ UNCHANGED <<circuitVars, horizonCall, blamed>>

\* The ledger takes the payment or not, and the answer arrives or not.
SubmitPayment(c) ==
  /\ horizonCall[c].pc = "submitting"
  /\ submissions' = [submissions EXCEPT ![c] = @ + 1]
  /\ \/ Answered(c, "value") /\ landed' = landed \cup {c}
     \/ Throws(c, "client") /\ UNCHANGED landed
     \/ Throws(c, "server") /\ landed' \in {landed, landed \cup {c}}

-----------------------------------------------------------------------------

StellarInit ==
  /\ circuitState = "CLOSED" /\ circuitFailures = 0 /\ circuitElapsed = HorizonReset
  /\ circuitTrials = 0 /\ admitted = [c \in HorizonCalls |-> "idle"]
  /\ horizonCall = [c \in HorizonCalls |->
       [pc |-> "idle", request |-> NotAsked, attempt |-> 1, answer |-> "none"]]
  /\ submissions = [c \in HorizonCalls |-> 0] /\ landed = {} /\ blamed = {}

StellarNext ==
  \/ \E c \in HorizonCalls :
       \/ RefuseAddress(c) \/ FailsFast(c) \/ Enter(c)
       \/ ThrowsAtOnce(c) \/ ReadOk(c) \/ ReadFails(c) \/ SubmitPayment(c)
  \/ Breaker!Tick /\ UNCHANGED <<horizonCall, submissions, landed, blamed>>

StellarSpec == StellarInit /\ [][StellarNext]_stellarVars

-----------------------------------------------------------------------------
(* Properties                                                              *)

\* A call submits its payment at most once, however often the reads before it were
\* repeated, and not at all when the circuit refuses it; success means that it is on
\* the ledger, and an error that Horizon blames on the request that it is not.
PaymentSubmittedOnce ==
  \A c \in HorizonCalls :
    LET answer == horizonCall[c].answer IN
    /\ submissions[c] <= 1
    /\ answer \in {"CIRCUIT_OPEN", "INVALID_STELLAR_ADDRESS"} => submissions[c] = 0
    /\ horizonCall[c].request.op = "payment" /\ answer = "value" => c \in landed
    /\ answer = "STELLAR_ERROR" /\ c \notin blamed => c \notin landed

\* A call counts as one failure, not one for each read it repeats: the circuit opens
\* only when as many calls failed as the threshold says.  And it does open in an outage,
\* as long as no call was answered: a lookup that fails answers null, which the
\* breaker takes for a sign of life.
OutageIsCounted ==
  LET answered == {c \in HorizonCalls : horizonCall[c].answer \in {"value", "null"}}
      enough == Cardinality(blamed) >= HorizonThreshold
  IN  /\ circuitState # "CLOSED" => enough
      /\ answered = {} /\ enough => circuitState # "CLOSED"

-----------------------------------------------------------------------------
(***************************************************************************)
(* Webhook subscriptions (modules/webhooks): WebhookService edits the rows *)
(* in two statements, a read that checks and a write by id; for each event *)
(* WebhookDispatcher reads the subscriptions that want it and queues one   *)
(* delivery for each; the worker reads the row again before it signs and   *)
(* posts.  What the worker makes of the answer is WebhookDelivery's        *)
(* subject.                                                                *)
(***************************************************************************)

CONSTANTS
  Hooks,            \* webhooks of one organization
  HookEdits,        \* calls of WebhookService
  HookEvents,       \* events the organization emits
  MaxQueueFaults    \* calls of queue.add() that may fail

VARIABLES
  hookRow,          \* [Hooks -> row or Gone]
  hookEdit,         \* each call: what it does, to which webhook, how far it is
  hookDispatch,     \* each event: who wants it, who is still to be queued
  hookJob,          \* [HookEvents \X Hooks -> the deliveries queued]
  queueFaults

subscriptionVars == <<hookRow, hookEdit, hookDispatch, hookJob, queueFaults>>

\* A row's url and secret are numbered by the writes that set them; `enabled` says that
\* it is and that its events hold the one at hand.
Gone == [there |-> FALSE, enabled |-> FALSE, url |-> 0, secret |-> 0]
FreshRow(enabled) == [there |-> TRUE, enabled |-> enabled, url |-> 0, secret |-> 0]

Deliveries == HookEvents \X Hooks

\* The attempts that run on a webhook while its row changes see the new row too.
RowWritten(h, row) ==
  /\ hookRow' = [hookRow EXCEPT ![h] = row]
  /\ hookJob' = [d \in Deliveries |->
       IF d[2] = h /\ hookJob[d].pc \in {"started", "resolved"}
       THEN [hookJob[d] EXCEPT !.seen = @ \cup {row}] ELSE hookJob[d]]

-----------------------------------------------------------------------------
(* WebhookService                                                          *)

EditOps == {"enable", "disable", "move", "rotate", "remove"}

\* A new row has an id that nobody can have named before.
CreateHook(e) ==
  /\ hookEdit[e].pc = "idle"
  /\ \E h \in Hooks, enabled \in BOOLEAN :
       /\ hookRow[h] = Gone
       /\ \A f \in HookEdits : hookEdit[f].hook # h
       /\ RowWritten(h, FreshRow(enabled))
       /\ hookEdit' = [hookEdit EXCEPT ![e] = [op |-> "create", hook |-> h, pc |-> "done"]]
  /\ UNCHANGED <<hookDispatch, queueFaults>>

\* getOrThrow(), and for a new url the destination's policy, which may refuse it.
BeginEdit(e) ==
  /\ hookEdit[e].pc = "idle"
  /\ \E op \in EditOps, h \in Hooks :
       \/ /\ hookRow[h].there
          /\ hookEdit' = [hookEdit EXCEPT ![e] = [op |-> op, hook |-> h, pc |-> "write"]]
       \/ /\ ~hookRow[h].there \/ op = "move"
          /\ hookEdit' = [hookEdit EXCEPT ![e] = [op |-> op, hook |-> h, pc |-> "refused"]]
  /\ UNCHANGED <<hookRow, hookDispatch, hookJob, queueFaults>>

EditedRow(op, row) ==
  CASE op = "enable" -> [row EXCEPT !.enabled = TRUE]
    [] op = "disable" -> [row EXCEPT !.enabled = FALSE]
    [] op = "move" -> [row EXCEPT !.url = @ + 1]
    [] op = "rotate" -> [row EXCEPT !.secret = @ + 1]
    [] op = "remove" -> Gone

\* update({ where: { id } }) and delete() fail on a row that has gone.
WriteEdit(e) ==
  LET op == hookEdit[e].op
      h == hookEdit[e].hook
  IN  /\ hookEdit[e].pc = "write"
      /\ IF hookRow[h].there
         THEN /\ RowWritten(h, EditedRow(op, hookRow[h]))
              /\ hookEdit' = [hookEdit EXCEPT ![e].pc = "done"]
         ELSE /\ hookEdit' = [hookEdit EXCEPT ![e].pc = "refused"]
              /\ UNCHANGED <<hookRow, hookJob>>
      /\ UNCHANGED <<hookDispatch, queueFaults>>

-----------------------------------------------------------------------------
(* WebhookDispatcher                                                       *)

FindEnabledForEvent == {h \in Hooks : hookRow[h].there /\ hookRow[h].enabled}

\* Of an organization's event that is among WEBHOOK_EVENTS; of others it does nothing.
Dispatch(v) ==
  /\ hookDispatch[v].pc = "idle"
  /\ hookDispatch' = [hookDispatch EXCEPT
       ![v] = [pc |-> "queueing", found |-> FindEnabledForEvent, left |-> FindEnabledForEvent,
               failed |-> {}, urls |-> [h \in Hooks |-> hookRow[h].url]]]
  /\ UNCHANGED <<hookRow, hookEdit, hookJob, queueFaults>>

QueueSucceeds(v, h) ==
  /\ hookJob' = [hookJob EXCEPT ![<<v, h>>] =
       [pc |-> "waiting", url |-> hookDispatch[v].urls[h], seen |-> {}, used |-> Gone]]
  /\ hookDispatch' = [hookDispatch EXCEPT ![v].left = @ \ {h}]
  /\ UNCHANGED queueFaults

\* Mutant: the first failure ends the dispatch.
QueueFails_Ends(v, h) ==
  /\ queueFaults < MaxQueueFaults
  /\ queueFaults' = queueFaults + 1
  /\ hookDispatch' = [hookDispatch EXCEPT ![v] = [hookDispatch[v] EXCEPT !.left = {}, !.failed = @ \cup {h}]]
  /\ UNCHANGED hookJob

\* The catch around each queueDelivery().
QueueFails(v, h) ==
  /\ queueFaults < MaxQueueFaults
  /\ queueFaults' = queueFaults + 1
  /\ hookDispatch' = [hookDispatch EXCEPT ![v] = [hookDispatch[v] EXCEPT !.left = @ \ {h}, !.failed = @ \cup {h}]]
  /\ UNCHANGED hookJob

QueueDelivery(v) ==
  /\ \E h \in hookDispatch[v].left : QueueSucceeds(v, h) \/ QueueFails(v, h)
  /\ UNCHANGED <<hookRow, hookEdit>>

-----------------------------------------------------------------------------
(* WebhooksProcessor, one attempt                                          *)

StartAttempt(d) ==
  /\ hookJob[d].pc = "waiting"
  /\ hookJob' = [hookJob EXCEPT ![d] = [@ EXCEPT !.pc = "started", !.seen = {hookRow[d[2]]}]]
  /\ UNCHANGED <<hookRow, hookEdit, hookDispatch, queueFaults>>

\* Mutant: the address that the job was queued with.
ResolveSubscription_JobUrl(d) == [hookRow[d[2]] EXCEPT !.url = hookJob[d].url]

\* The row is read again; whether it is still enabled is read and not asked.
ResolveSubscription(d) == hookRow[d[2]]

Resolve(d) ==
  /\ hookJob[d].pc = "started"
  /\ hookJob' = [hookJob EXCEPT ![d] =
       [@ EXCEPT !.pc = IF hookRow[d[2]].there THEN "resolved" ELSE "gone",
                 !.used = ResolveSubscription(d)]]
  /\ UNCHANGED <<hookRow, hookEdit, hookDispatch, queueFaults>>

\* Posted; the answer ends the attempt or leads to the next.
Post(d) ==
  /\ hookJob[d].pc = "resolved"
  /\ \/ hookJob' = [hookJob EXCEPT ![d].pc = "posted"]
     \/ hookJob' = [hookJob EXCEPT ![d] = [@ EXCEPT !.pc = "waiting", !.seen = {}, !.used = Gone]]
  /\ UNCHANGED <<hookRow, hookEdit, hookDispatch, queueFaults>>

-----------------------------------------------------------------------------

SubscriptionInit ==
  /\ hookRow \in [Hooks -> {Gone, FreshRow(TRUE), FreshRow(FALSE)}]
  /\ hookEdit = [e \in HookEdits |-> [op |-> "none", hook |-> "none", pc |-> "idle"]]
  /\ hookDispatch = [v \in HookEvents |->
       [pc |-> "idle", found |-> {}, left |-> {}, failed |-> {}, urls |-> [h \in Hooks |-> 0]]]
  /\ hookJob = [d \in Deliveries |-> [pc |-> "none", url |-> 0, seen |-> {}, used |-> Gone]]
  /\ queueFaults = 0

SubscriptionNext ==
  \/ \E e \in HookEdits : CreateHook(e) \/ BeginEdit(e) \/ WriteEdit(e)
  \/ \E v \in HookEvents : Dispatch(v) \/ QueueDelivery(v)
  \/ \E d \in Deliveries : StartAttempt(d) \/ Resolve(d) \/ Post(d)

SubscriptionSpec == SubscriptionInit /\ [][SubscriptionNext]_subscriptionVars

-----------------------------------------------------------------------------
(* Properties                                                              *)

\* An attempt posts to an address, and signs with a secret, that the row had while the
\* attempt ran: an edit that was over before never goes unnoticed, whatever the job was
\* queued with, and a webhook removed before is not posted to.
PostsUseCurrentRow ==
  \A d \in Deliveries :
    hookJob[d].pc \in {"resolved", "posted"} =>
      \E row \in hookJob[d].seen :
        row.there /\ row.url = hookJob[d].used.url /\ row.secret = hookJob[d].used.secret

\* "One failing endpoint never blocks others": when a dispatch is over, each webhook
\* that wanted the event has its delivery, but for the ones whose own queueing failed,
\* and no other webhook has one.
FanOutIsComplete ==
  \A v \in HookEvents :
    hookDispatch[v].left = {} =>
      {h \in Hooks : hookJob[<<v, h>>].pc # "none"} = hookDispatch[v].found \ hookDispatch[v].failed

-----------------------------------------------------------------------------

\* What leaves the service does so once, to the right place, and its failures are
\* counted: payments and reads through the Horizon breaker, events to the webhooks that
\* want them.  See PaymentSubmittedOnce, OutageIsCounted, PostsUseCurrentRow,
\* FanOutIsComplete.
OutboundIsSound ==
  /\ PaymentSubmittedOnce /\ OutageIsCounted
  /\ PostsUseCurrentRow /\ FanOutIsComplete
=============================================================================
