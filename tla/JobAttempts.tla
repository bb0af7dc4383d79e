---------------------------- MODULE JobAttempts -----------------------------
(***************************************************************************)
(* What becomes of a queue's jobs, in three parts that share no state: the *)
(* wrapper of every attempt, the transport of a webhook's attempt, and the *)
(* sweeps over jobs that have failed.                                      *)
(***************************************************************************)
EXTENDS Integers, Sequences, FiniteSets, Functions

-----------------------------------------------------------------------------
(***************************************************************************)
(* runWorkerJob (src/workers/job-worker.ts): the wrapper every queue       *)
(* worker runs its handler in. It classifies a failure (classifyJobError,  *)
(* queue-policy.ts), logs whether the job will be retried or is dead, lets *)
(* a hook react to that verdict, and rethrows for BullMQ, which decides on *)
(* its own whether there is another attempt.                               *)
(***************************************************************************)

CONSTANTS
  DefaultAttempts,   \* DEFAULT_JOB_OPTIONS.attempts
  AttemptsOptions        \* values of opts.attempts; 0 stands for an absent one

VARIABLES
  workerJob,   \* the job as BullMQ stores it
  workerRun    \* the attempt in progress: what the wrapper knows

workerVars == <<workerJob, workerRun>>

(* A thrown error: the class it is an instance of, the HTTP status it      *)
(* carries (0: none) and whether its name or message mentions              *)
(* UnrecoverableError, as a wrapped message may.                           *)
JobErrors ==
  [class : {"Permanent", "Retryable", "Zod", "Error"},
   status : {0, 400, 408, 429, 499, 500}, mentions : BOOLEAN]

Quiet == [pc |-> "idle", error |-> [class |-> "Error", status |-> 0, mentions |-> FALSE],
          terminal |-> FALSE, thrown |-> "none"]

-----------------------------------------------------------------------------

ClassifyJobError(e) ==
  IF e.class = "Permanent" THEN "permanent"
  ELSE IF e.class = "Retryable" THEN "retryable"
  ELSE IF e.status \in 400..499 \ {408, 425, 429} THEN "permanent"
  ELSE IF e.class = "Zod" THEN "permanent" ELSE "retryable"

MaxAttemptsOf(job) == IF job.attempts = 0 THEN DefaultAttempts ELSE job.attempts

TerminalVerdict_OffByOne(attemptsMade, max, mentions) ==
  mentions \/ attemptsMade + 1 >= max

TerminalVerdict(attemptsMade, max, mentions) == mentions \/ attemptsMade >= max

-----------------------------------------------------------------------------

StartAttempt ==
  /\ workerJob.state = "waiting" /\ workerRun.pc = "idle"
  /\ workerJob' = [workerJob EXCEPT !.state = "active"]
  /\ workerRun' = [workerRun EXCEPT !.pc = "handler"]

HandlerReturns ==
  /\ workerRun.pc = "handler"
  /\ workerJob' = [workerJob EXCEPT !.state = "completed"]
  /\ workerRun' = Quiet

\* The catch block up to the log line: attempt counts the one that failed.
HandlerThrows ==
  /\ workerRun.pc = "handler"
  /\ \E e \in JobErrors :
       LET attempt == workerJob.attemptsMade + 1
       IN  workerRun' = [pc |-> "hook", error |-> e,
                         terminal |-> \/ ClassifyJobError(e) = "permanent"
                                      \/ TerminalVerdict(attempt,
                                           MaxAttemptsOf(workerJob), e.mentions),
                         thrown |-> "none"]
  /\ UNCHANGED workerJob

\* onFailure may throw: nothing changes. Then the error is thrown again, as an
\* UnrecoverableError when it is permanent and not one already.
Rethrow ==
  /\ workerRun.pc = "hook"
  /\ workerRun' = [workerRun EXCEPT !.pc = "thrown",
                     !.thrown = IF ClassifyJobError(workerRun.error) = "permanent"
                                THEN "Unrecoverable" ELSE "original"]
  /\ UNCHANGED workerJob

\* BullMQ: the attempt counts; an UnrecoverableError ends the job.
QueueDecides ==
  /\ workerRun.pc = "thrown"
  /\ workerJob' = [workerJob EXCEPT
       !.attemptsMade = @ + 1,
       !.state = IF \/ workerRun.thrown = "Unrecoverable"
                    \/ workerJob.attemptsMade + 1 >= MaxAttemptsOf(workerJob)
                 THEN "failed" ELSE "waiting",
       !.verdict = IF workerRun.terminal THEN "deadLettered" ELSE "retrying",
       !.mentioned = workerRun.error.mentions]
  /\ workerRun' = Quiet

\* The process stops during the handler: BullMQ finds the job stalled and
\* gives it to a worker again without counting the attempt.
WorkerStalls ==
  /\ workerRun.pc = "handler" /\ ~workerJob.stalled
  /\ workerJob' = [workerJob EXCEPT !.state = "waiting", !.stalled = TRUE]
  /\ workerRun' = Quiet

WorkerInit ==
  /\ \E n \in AttemptsOptions :
       workerJob = [state |-> "waiting", attemptsMade |-> 0, attempts |-> n,
                    verdict |-> "none", mentioned |-> FALSE, stalled |-> FALSE]
  /\ workerRun = Quiet

WorkerNext ==
  \/ StartAttempt \/ HandlerReturns \/ HandlerThrows
  \/ Rethrow \/ QueueDecides \/ WorkerStalls

WorkerSpec == WorkerInit /\ [][WorkerNext]_workerVars

-----------------------------------------------------------------------------

(* What the wrapper told the log and the hook is what the queue does: a    *)
(* job it called dead-lettered has failed for good, and one it called      *)
(* retrying waits for another attempt. The one exception is an error whose *)
(* text mentions UnrecoverableError without being one: the wrapper matches *)
(* the text, the queue the class (isUnrecoverableFailure).                 *)
VerdictMatchesQueue ==
  workerJob.state \in {"waiting", "failed"} /\ workerJob.verdict # "none"
    /\ ~workerJob.mentioned
    => (workerJob.verdict = "deadLettered") = (workerJob.state = "failed")

-----------------------------------------------------------------------------
(***************************************************************************)
(* One webhook request on the wire (webhook-destination.policy.ts): the     *)
(* destination is vetted when the subscription is registered and again for  *)
(* every delivery, the body goes to the vetted addresses one after the      *)
(* other under one deadline, and the processor decides on the answer.       *)
(* WebhookDelivery, which counts attempts, has this whole exchange as its   *)
(* one Post step.  An address is public or not: the ranges are left out.    *)
(***************************************************************************)

CONSTANTS
  PublicAddresses, PrivateAddresses,
  Ipv4Addresses,    \* the addresses of family 4
  MaxAnswers,       \* addresses of one DNS answer
  Statuses,         \* HTTP statuses an endpoint answers with
  HttpTimeout,      \* webhookHttpTimeoutMs
  MaxDnsChanges

ASSUME TransportAssumption == HttpTimeout \in Nat \ {0} /\ MaxAnswers \in Nat

VARIABLES
  dns,          \* what the name resolves to: a sequence, <<>> when it does not
  dnsChanges,
  wireClock,
  endpoint,     \* "none", or "stored" once the subscription exists
  wire,         \* the delivery
  contacted,    \* addresses it opened a connection to
  vetted        \* addresses it may contact

transportVars == <<dns, dnsChanges, wireClock, endpoint, wire, contacted, vetted>>

Answers == UNION {[1..n -> PublicAddresses \cup PrivateAddresses] : n \in 0..MaxAnswers}

IsPublicAddress(a) == a \in PublicAddresses

Idle == [phase |-> "idle", index |-> 0, deadline |-> 0, status |-> 0, error |-> "none"]

TransportInit ==
  /\ dns \in Answers
  /\ dnsChanges = 0
  /\ wireClock = 0
  /\ endpoint = "none"
  /\ wire = Idle
  /\ contacted = {}
  /\ vetted = <<>>

\* sort() is stable: family 4 first, each family in the order of the answer.
\* Exactly one sequence is so ordered.
SortByFamily(answer) ==
  LET four(i) == answer[i] \in Ipv4Addresses
      precedes(i, k) == (four(i) /\ ~four(k)) \/ ((four(i) <=> four(k)) /\ i < k)
  IN  {[i \in DOMAIN answer |-> answer[order[i]]] :
         order \in {f \in [DOMAIN answer -> DOMAIN answer] :
                     \A i, k \in DOMAIN answer : i < k => precedes(f[i], f[k])}}

\* Mutant: only the address that is tried first is looked at.
ValidateWebhookDestination_First(answer) ==
  IF answer = <<>> THEN "unresolved"
  ELSE IF ~IsPublicAddress(answer[1]) THEN "rejected" ELSE "allowed"

ValidateWebhookDestination(answer) ==
  IF answer = <<>> THEN "unresolved"
  ELSE IF \E a \in Range(answer) : ~IsPublicAddress(a) THEN "rejected" ELSE "allowed"

\* WebhookService: any failure of the validation refuses the subscription.
ValidateDestination ==
  /\ endpoint = "none"
  /\ ValidateWebhookDestination(dns) = "allowed"
  /\ endpoint' = "stored"
  /\ UNCHANGED <<dns, dnsChanges, wireClock, wire, contacted, vetted>>

DnsChanges ==
  /\ dnsChanges < MaxDnsChanges
  /\ dns' \in Answers \ {dns}
  /\ dnsChanges' = dnsChanges + 1
  /\ UNCHANGED <<wireClock, endpoint, wire, contacted, vetted>>

\* post(): the name is resolved and vetted anew.
PostWebhook ==
  /\ endpoint = "stored"
  /\ wire.phase = "idle"
  /\ LET verdict == ValidateWebhookDestination(dns)
     IN  IF verdict = "allowed"
         THEN /\ vetted' \in SortByFamily(dns)
              /\ wire' = [Idle EXCEPT !.phase = "attempt", !.index = 1, !.deadline = wireClock + HttpTimeout]
         ELSE /\ wire' = [Idle EXCEPT !.phase = "settled", !.error = verdict]
              /\ UNCHANGED vetted
  /\ UNCHANGED <<dns, dnsChanges, wireClock, endpoint, contacted>>

\* attemptAddress(index): an elapsed deadline rejects, otherwise a request
\* with the rest of the time is made.
AttemptAddress ==
  /\ wire.phase = "attempt"
  /\ IF wire.deadline <= wireClock
     THEN wire' = [wire EXCEPT !.phase = "settled", !.error = "failed"] /\ UNCHANGED contacted
     ELSE /\ wire' = [wire EXCEPT !.phase = "waiting"]
          /\ contacted' = contacted \cup {vetted[wire.index]}
  /\ UNCHANGED <<dns, dnsChanges, wireClock, endpoint, vetted>>

ResponseArrives ==
  /\ wire.phase = "waiting"
  /\ \E s \in Statuses : wire' = [wire EXCEPT !.phase = "settled", !.status = s]
  /\ UNCHANGED <<dns, dnsChanges, wireClock, endpoint, contacted, vetted>>

\* The request's error handler: the next address, or the end.
RequestFails ==
  IF wire.index + 1 <= Len(vetted)
  THEN wire' = [wire EXCEPT !.phase = "attempt", !.index = @ + 1]
  ELSE wire' = [wire EXCEPT !.phase = "settled", !.error = "failed"]

ConnectionFails ==
  /\ wire.phase = "waiting"
  /\ RequestFails
  /\ UNCHANGED <<dns, dnsChanges, wireClock, endpoint, contacted, vetted>>

\* Mutant: every address gets the whole timeout.
TimeLeft_PerAddress == wireClock < wire.deadline + (wire.index - 1)

TimeLeft == wireClock < wire.deadline

\* The timer destroys the request, whose error handler then runs.
TimerFires ==
  /\ wire.phase = "waiting"
  /\ ~TimeLeft
  /\ RequestFails
  /\ UNCHANGED <<dns, dnsChanges, wireClock, endpoint, contacted, vetted>>

\* Time passes while a response is awaited, until the timer is due.
WireTick ==
  /\ wire.phase = "waiting"
  /\ TimeLeft
  /\ wireClock' = wireClock + 1
  /\ UNCHANGED <<dns, dnsChanges, endpoint, wire, contacted, vetted>>

\* The delivery has been dealt with: the next one.
NextDelivery ==
  /\ wire.phase = "settled"
  /\ wire' = Idle
  /\ contacted' = {}
  /\ vetted' = <<>>
  /\ wireClock' = 0
  /\ UNCHANGED <<dns, dnsChanges, endpoint>>

TransportNext ==
  \/ ValidateDestination \/ DnsChanges \/ PostWebhook \/ AttemptAddress
  \/ ResponseArrives \/ ConnectionFails \/ TimerFires \/ WireTick \/ NextDelivery

TransportSpec == TransportInit /\ [][TransportNext]_transportVars

-----------------------------------------------------------------------------
\* process(): does the worker abandon the delivery?
IsRedirect(s) == s >= 300 /\ s < 400

IsNonTransient(s) == IsRedirect(s) \/ (s >= 400 /\ s < 500 /\ s \notin {408, 425, 429})

Abandoned == wire.error = "rejected" \/ (wire.status # 0 /\ IsNonTransient(wire.status))

NON_TRANSIENT_WEBHOOK_STATUSES == {400, 401, 403, 404, 422}

ClassifyHttpStatus(s) ==
  IF IsRedirect(s) \/ s \in NON_TRANSIENT_WEBHOOK_STATUSES THEN "permanent" ELSE "transient"

\* The category the row gets.  The transport has one error for everything that
\* goes wrong on the wire, and its message names no timeout.
ClassifyWebhookFailure ==
  CASE wire.error = "rejected" -> "permanent"
    [] wire.error # "rejected" /\ wire.status # 0 -> ClassifyHttpStatus(wire.status)
    [] OTHER -> "transient"

PostSucceeded == wire.status >= 200 /\ wire.status < 300

(* What the delivery log calls permanent is not tried again: whenever the   *)
(* classifier says so, WebhooksProcessor abandons the delivery.  (The       *)
(* reverse fails: the worker also abandons a 410, which the row calls       *)
(* transient, although failure-classification.ts:45 says that the rules     *)
(* mirror the worker's decision.)                                           *)
PermanentIsAbandoned ==
  wire.phase = "settled" /\ ~PostSucceeded /\ ClassifyWebhookFailure = "permanent" => Abandoned

(* The body goes only to addresses of the answer this delivery vetted, all  *)
(* of them public, whatever the name resolved to at registration or         *)
(* resolves to by now; and the request settles no later than its timeout    *)
(* after it started, however many addresses it had to try.                  *)
VettedAndOnTime ==
  /\ \A a \in contacted : a \in Range(vetted) /\ a \in PublicAddresses
  /\ wire.phase \in {"attempt", "waiting"} => wireClock <= wire.deadline

-----------------------------------------------------------------------------
(***************************************************************************)
(* The administrative sweeps over the failed jobs of one queue:            *)
(* QueueManagementService.batchRetry and batchPurge and                    *)
(* DlqService.retryAllFailedJobs.  A retry sweep lists the failed jobs and *)
(* then retries them one by one while workers, other operators and another *)
(* sweep move the same jobs.  A sweep may carry a filter: it names the     *)
(* jobs of `Matching` only.                                                *)
(***************************************************************************)

CONSTANTS
    FailedJobs,  \* the jobs that are in the failed set at first
    Matching,    \* those that a filter on name, reason or time selects
    Sweeps       \* concurrent retry sweeps

VARIABLES
    jobState,  \* [FailedJobs -> states of a job]
    kind,      \* [Sweeps -> which operation the sweep is]
    todo,      \* [Sweeps -> listed jobs it has not come to]
    kept       \* history: [Sweeps -> jobs it should retry that have stayed failed]

sweepVars == <<jobState, kind, todo, kept>>

SweepKinds == {"batchRetry", "filtered", "retryAll"}

SweepInit ==
    /\ jobState = [j \in FailedJobs |-> "failed"]
    /\ kind = [w \in Sweeps |-> "none"]
    /\ todo = [w \in Sweeps |-> {}]
    /\ kept = [w \in Sweeps |-> {}]

Failed == {j \in FailedJobs : jobState[j] = "failed"}

\* The job leaves the failed set.
Move(j, s) ==
    /\ jobState' = [jobState EXCEPT ![j] = s]
    /\ kept' = [w \in Sweeps |-> kept[w] \ {j}]

\* The list is taken once, before the retries.
StartSweep(w, k) ==
    /\ kind[w] = "none"
    /\ kind' = [kind EXCEPT ![w] = k]
    /\ todo' = [todo EXCEPT ![w] = Failed]
    /\ kept' = [kept EXCEPT ![w] = IF k = "filtered" THEN Failed \cap Matching ELSE Failed]
    /\ UNCHANGED jobState

\* The jobs a sweep does not skip.
Selected(k) == IF k = "filtered" THEN Matching ELSE FailedJobs

\* A failing retry ends the sweep.
AfterError_Leave(w, j) == {}

\* job.retry() throws when the job has left the failed set: batchRetry notes it and
\* goes on, retryAllFailedJobs leaves the queue.
AfterError(w, j) == IF kind[w] = "retryAll" THEN {} ELSE todo[w] \ {j}

SweepJob(w, j) ==
    /\ j \in todo[w]
    /\ \/ /\ j \notin Selected(kind[w])
          /\ todo' = [todo EXCEPT ![w] = @ \ {j}]
          /\ UNCHANGED <<jobState, kept>>
       \/ /\ j \in Selected(kind[w]) /\ jobState[j] = "failed"
          /\ Move(j, "waiting")
          /\ todo' = [todo EXCEPT ![w] = @ \ {j}]
       \/ /\ j \in Selected(kind[w]) /\ jobState[j] # "failed"
          /\ todo' = [todo EXCEPT ![w] = AfterError(w, j)]
          /\ UNCHANGED <<jobState, kept>>
    /\ UNCHANGED kind

\* The jobs batchPurge removes: whatever the filter, all that failed.
PurgedByFilter == Failed

RemoveAll(js) ==
    /\ js # {}
    /\ jobState' = [j \in FailedJobs |-> IF j \in js THEN "removed" ELSE jobState[j]]
    /\ kept' = [w \in Sweeps |-> kept[w] \ js]
    /\ UNCHANGED <<kind, todo>>

BatchPurge == RemoveAll(PurgedByFilter)

\* DlqService.purgeQueue takes no filter but a grace period.
PurgeQueue == \E js \in SUBSET Failed : RemoveAll(js)

\* Workers run a retried job, which completes or fails again.
RunAgain(j) ==
    /\ jobState[j] = "waiting"
    /\ \E s \in {"completed", "failed"} : jobState' = [jobState EXCEPT ![j] = s]
    /\ UNCHANGED <<kind, todo, kept>>

\* retryJob and removeJob on one job.
OperateOn(j) ==
    /\ jobState[j] = "failed"
    /\ \E s \in {"waiting", "removed"} : Move(j, s)
    /\ UNCHANGED <<kind, todo>>

SweepNext ==
    \/ \E w \in Sweeps, k \in SweepKinds : StartSweep(w, k)
    \/ \E w \in Sweeps, j \in FailedJobs : SweepJob(w, j)
    \/ BatchPurge \/ PurgeQueue
    \/ \E j \in FailedJobs : RunAgain(j) \/ OperateOn(j)

SweepSpec == SweepInit /\ [][SweepNext]_sweepVars

-----------------------------------------------------------------------------
(* Properties                                                              *)

\* A sweep lists known jobs and is of a known kind.
SweepTypeOK ==
    /\ jobState \in [FailedJobs -> {"failed", "waiting", "completed", "removed"}]
    /\ kind \in [Sweeps -> SweepKinds \cup {"none"}]
    /\ todo \in [Sweeps -> SUBSET FailedJobs]
    /\ kept \in [Sweeps -> SUBSET FailedJobs]

\* When batchRetry returns, every job it listed and should retry has left the
\* failed set at some time, by its hand or another's: an error on one job costs no
\* other job its retry.  (retryAllFailedJobs does not promise this.)
BatchRetryIsComplete ==
    \A w \in Sweeps : kind[w] \in {"batchRetry", "filtered"} /\ todo[w] = {} => kept[w] = {}

\* One attempt is judged by what happened: it reaches only addresses that were vetted,
\* within its time; what the log calls permanent is abandoned; and what the wrapper of
\* a worker's job reports is what the queue does.  See VettedAndOnTime,
\* PermanentIsAbandoned, VerdictMatchesQueue.
AttemptsAreJudged == VettedAndOnTime /\ PermanentIsAbandoned /\ VerdictMatchesQueue
=============================================================================
