--------------------------- MODULE WebhookDelivery ---------------------------
(***************************************************************************)
(* The outbound deliveries of one webhook endpoint: WebhooksProcessor.     *)
(* process for each BullMQ job, around the circuit row that all workers    *)
(* share (WebhookCircuitService).  The endpoint lock is best-effort: a     *)
(* section that cannot acquire it runs without it, so the model has no     *)
(* lock and every database statement is a step.                            *)
(*                                                                         *)
(* Time is relative: `left` counts down to cooldownEndsAt and `wait` to a  *)
(* job's retryAt.  cooldownEndsAt is compared for equality only with a     *)
(* value read before; `fresh` holds the jobs whose value is still current. *)
(* The statements of one circuit section take less than a tick (the lock   *)
(* lives 5 seconds, the cooldown 5 minutes); an HTTP request may take      *)
(* any number of them.                                                     *)
(***************************************************************************)
EXTENDS Integers, FiniteSets

CONSTANTS
    Jobs,         \* the deliveries queued for the endpoint
    MaxAttempts,  \* maxAttempts of the queue's job options
    MaxStalls,    \* BullMQ's maxStalledCount
    Threshold,    \* circuitFailureThreshold
    Cooldown,     \* circuitCooldownMs, in ticks
    MaxFaults     \* bound of the model: writes that throw and workers that die

ASSUME DeliveryAssumption ==
    /\ MaxAttempts \in Nat \ {0}
    /\ MaxStalls \in Nat
    /\ Threshold \in Nat \ {0}
    /\ Cooldown \in Nat \ {0}
    /\ MaxFaults \in Nat

VARIABLES
    status,    \* WebhookCircuitState.status, "NONE" before the row exists
    failures,  \* consecutiveFailures, not counted past Threshold
    left,      \* ticks until cooldownEndsAt
    fresh,     \* jobs whose loaded cooldownEndsAt is the row's
    seen,      \* [Jobs -> status loaded by the job's current section]
    pc,        \* [Jobs -> Steps]
    wait,      \* [Jobs -> ticks until the delayed job is due]
    attempts,  \* [Jobs -> attemptsMade]
    stalls,    \* [Jobs -> BullMQ's stalled counter]
    posts,     \* history: [Jobs -> requests the endpoint received]
    row,       \* [Jobs -> WebhookDelivery.status, "NONE" before it exists]
    accepted,  \* history: jobs the endpoint answered 2xx
    audited,   \* jobs with a terminal failure in the audit trail
    excused,   \* history: jobs with a write that threw, or whose worker died
    faults,    \* how many of these there were
    probes,    \* history: jobs admitted by the lease that is running
    renewed    \* history: that lease replaced an expired one

circuitVars == <<status, failures, left, fresh, probes, renewed>>
jobVars == <<seen, pc, wait, attempts, stalls, posts, row, accepted, audited, excused, faults>>
deliveryVars == <<circuitVars, jobVars>>

CircuitStatus == {"NONE", "CLOSED", "OPEN", "HALF_OPEN"}
Ended == {"completed", "failed"}
InSection == {"probe", "count", "trip"}
Running == InSection \cup {"post", "reset", "close", "delivered", "failure", "settle"}
Steps == Running \cup Ended \cup {"queued"}

Goto(j, s) == pc' = [pc EXCEPT ![j] = s]

\* What a section has loaded is dropped at its end.
Forget(j) == seen' = [seen EXCEPT ![j] = "NONE"]

Fault(j) ==
    /\ faults < MaxFaults
    /\ faults' = faults + 1
    /\ excused' = excused \cup {j}

NoFault == UNCHANGED <<excused, faults>>

DeliveryInit ==
    /\ status = "NONE"
    /\ failures = 0
    /\ left = 0
    /\ fresh = {}
    /\ seen = [j \in Jobs |-> "NONE"]
    /\ pc = [j \in Jobs |-> "queued"]
    /\ wait = [j \in Jobs |-> 0]
    /\ attempts = [j \in Jobs |-> 0]
    /\ stalls = [j \in Jobs |-> 0]
    /\ posts = [j \in Jobs |-> 0]
    /\ row = [j \in Jobs |-> "NONE"]
    /\ accepted = {}
    /\ audited = {}
    /\ excused = {}
    /\ faults = 0
    /\ probes = {}
    /\ renewed = FALSE

-----------------------------------------------------------------------------
(* How an attempt ends                                                     *)

AttemptEnds_OneMore(j, unrecoverable) ==
    /\ attempts' = [attempts EXCEPT ![j] = @ + 1]
    /\ Goto(j, IF unrecoverable \/ attempts[j] + 1 > MaxAttempts THEN "failed" ELSE "queued")

\* BullMQ counts a thrown attempt; an unrecoverable error or the last attempt
\* ends the job.
AttemptEnds(j, unrecoverable) ==
    /\ attempts' = [attempts EXCEPT ![j] = @ + 1]
    /\ Goto(j, IF unrecoverable \/ attempts[j] + 1 >= MaxAttempts THEN "failed" ELSE "queued")

\* persistState: its errors are swallowed.
PersistState(j, s) ==
    \/ row' = [row EXCEPT ![j] = s] /\ NoFault
    \/ UNCHANGED row /\ Fault(j)

\* auditTerminalFailure: the events and the audit entry, whose errors are swallowed.
AuditTerminalFailure(j) == audited' = audited \cup {j}

\* A database call outside every catch throws: the attempt fails with nothing
\* recorded.
Throws(j) ==
    /\ pc[j] \in InSection \cup {"queued", "failure"} /\ wait[j] = 0
    /\ AttemptEnds(j, FALSE)
    /\ Fault(j)
    /\ Forget(j)
    /\ UNCHANGED <<circuitVars, wait, stalls, posts, row, accepted, audited>>

\* The worker dies: BullMQ runs the job again, at most MaxStalls times.
Stalls(j) ==
    /\ pc[j] \in Running
    /\ stalls' = [stalls EXCEPT ![j] = @ + 1]
    /\ Goto(j, IF stalls[j] + 1 > MaxStalls THEN "failed" ELSE "queued")
    /\ Fault(j)
    /\ Forget(j)
    /\ UNCHANGED <<circuitVars, wait, attempts, posts, row, accepted, audited>>

-----------------------------------------------------------------------------
(* beforeAttempt                                                           *)

\* The delivery row becomes RETRYING and the job is moved to `retryAt` without
\* an attempt being counted; if moveToDelayed throws, an ordinary error does.
Defer(j, ticks) ==
    /\ \/ /\ PersistState(j, "RETRYING")
          /\ wait' = [wait EXCEPT ![j] = ticks]
          /\ Goto(j, "queued")
          /\ UNCHANGED attempts
       \/ /\ row' \in {row, [row EXCEPT ![j] = "RETRYING"]}
          /\ Fault(j)
          /\ AttemptEnds(j, FALSE)
          /\ UNCHANGED wait
    /\ UNCHANGED <<stalls, posts, accepted, audited>>

\* An expired lease refuses like a running one.
CooldownOver_LeaseForever == left = 0 /\ status = "OPEN"

\* cooldownEndsAt has passed: the cooldown of an open circuit, the lease of a probe.
CooldownOver == left = 0

\* The load of the row, and the decisions that need nothing else.
BeforeAttempt(j) ==
    /\ pc[j] = "queued" /\ wait[j] = 0
    /\ \/ /\ status \in {"NONE", "CLOSED"}
          /\ Goto(j, "post")
          /\ UNCHANGED <<circuitVars, seen, wait, attempts, stalls, posts, row, accepted, audited, excused, faults>>
       \/ /\ status \in {"OPEN", "HALF_OPEN"} /\ ~CooldownOver
          /\ Defer(j, left)
          /\ UNCHANGED <<circuitVars, seen>>
       \/ /\ status \in {"OPEN", "HALF_OPEN"} /\ CooldownOver
          /\ Goto(j, "probe")
          /\ seen' = [seen EXCEPT ![j] = status]
          /\ fresh' = fresh \cup {j}
          /\ UNCHANGED <<status, failures, left, probes, renewed>>
          /\ UNCHANGED <<wait, attempts, stalls, posts, row, accepted, audited, excused, faults>>

\* `where` without the status.
MayProbe_AnyStatus(j) == seen[j] \in {"OPEN", "HALF_OPEN"}

\* The conditional update that moves an elapsed cooldown to HALF_OPEN compares
\* cooldownEndsAt; the one that renews an expired lease does not.
MayProbe(j) ==
    \/ seen[j] = "OPEN" /\ status = "OPEN" /\ j \in fresh
    \/ seen[j] = "HALF_OPEN" /\ status = "HALF_OPEN"

Probe(j) ==
    /\ pc[j] = "probe"
    /\ Forget(j)
    /\ \/ /\ MayProbe(j)
          /\ status' = "HALF_OPEN"
          /\ left' = Cooldown
          /\ fresh' = {}
          /\ renewed' = (seen[j] = "HALF_OPEN")
          /\ probes' = IF left > 0 THEN probes \cup {j} ELSE {j}
          /\ Goto(j, "post")
          /\ UNCHANGED <<failures, wait, attempts, stalls, posts, row, accepted, audited, excused, faults>>
       \/ /\ ~MayProbe(j)
          /\ Defer(j, IF status = "CLOSED" THEN 0 ELSE left)
          /\ UNCHANGED circuitVars

-----------------------------------------------------------------------------
(* The request and what follows it                                         *)

\* The endpoint answers 2xx; or the request fails in a way a retry may cure
\* (5xx, 408, 425, 429, network); or in a way none will (other 3xx and 4xx, no
\* signing secret, a forbidden destination), which is recorded at once and tells
\* the circuit nothing.
Post(j) ==
    /\ pc[j] = "post"
    /\ \E reached \in BOOLEAN :
          posts' = [posts EXCEPT ![j] = @ + (IF reached THEN 1 ELSE 0)]
    /\ \/ /\ posts'[j] > posts[j]
          /\ accepted' = accepted \cup {j}
          /\ Goto(j, "reset")
          /\ UNCHANGED <<attempts, row, audited, excused, faults>>
       \/ /\ Goto(j, "failure")
          /\ UNCHANGED <<attempts, row, accepted, audited, excused, faults>>
       \/ /\ PersistState(j, "FAILED")
          /\ AuditTerminalFailure(j)
          /\ AttemptEnds(j, TRUE)
          /\ UNCHANGED accepted
    /\ UNCHANGED <<circuitVars, seen, wait, stalls>>

\* recordSuccess resets the counter of a closed circuit ...
ResetCounter(j) ==
    /\ pc[j] = "reset"
    /\ failures' = IF status = "CLOSED" THEN 0 ELSE failures
    /\ Goto(j, "close")
    /\ UNCHANGED <<status, left, fresh, probes, renewed>>
    /\ UNCHANGED <<seen, wait, attempts, stalls, posts, row, accepted, audited, excused, faults>>

\* ... and closes any other.
CloseCircuit(j) ==
    /\ pc[j] = "close"
    /\ IF status \in {"OPEN", "HALF_OPEN"}
         THEN /\ status' = "CLOSED"
              /\ failures' = 0
              /\ left' = 0
              /\ fresh' = {}
              /\ probes' = {}
              /\ UNCHANGED renewed
         ELSE UNCHANGED circuitVars
    /\ Goto(j, "delivered")
    /\ UNCHANGED <<seen, wait, attempts, stalls, posts, row, accepted, audited, excused, faults>>

\* The delivery is recorded after the circuit.
Delivered(j) ==
    /\ pc[j] = "delivered"
    /\ PersistState(j, "DELIVERED")
    /\ Goto(j, "completed")
    /\ UNCHANGED <<circuitVars, seen, wait, attempts, stalls, posts, accepted, audited>>

\* recordSuccess runs in the try block of the request: if it throws, the
\* accepted delivery is handled as a failed one.
SuccessThrows(j) ==
    /\ pc[j] \in {"reset", "close"}
    /\ Goto(j, "failure")
    /\ Fault(j)
    /\ UNCHANGED <<circuitVars, seen, wait, attempts, stalls, posts, row, accepted, audited>>

\* recordFailure: load the row,
LoadPrevious(j) ==
    /\ pc[j] = "failure"
    /\ seen' = [seen EXCEPT ![j] = status]
    /\ Goto(j, "count")
    /\ UNCHANGED <<circuitVars, wait, attempts, stalls, posts, row, accepted, audited, excused, faults>>

\* increment the counter of the row, created if need be,
IncrementFailures(j) ==
    /\ pc[j] = "count"
    /\ status' = IF status = "NONE" THEN "CLOSED" ELSE status
    /\ failures' = IF failures < Threshold THEN failures + 1 ELSE failures
    /\ Goto(j, IF seen[j] = "HALF_OPEN" \/ failures' >= Threshold THEN "trip" ELSE "settle")
    /\ Forget(j)
    /\ UNCHANGED <<left, fresh, probes, renewed>>
    /\ UNCHANGED <<wait, attempts, stalls, posts, row, accepted, audited, excused, faults>>

\* and open a circuit that is not open.
TransitionToOpen(j) ==
    /\ pc[j] = "trip"
    /\ IF status \in {"CLOSED", "HALF_OPEN"}
         THEN /\ status' = "OPEN"
              /\ left' = Cooldown
              /\ fresh' = {}
              /\ probes' = {}
              /\ UNCHANGED <<failures, renewed>>
         ELSE UNCHANGED circuitVars
    /\ Goto(j, "settle")
    /\ UNCHANGED <<seen, wait, attempts, stalls, posts, row, accepted, audited, excused, faults>>

IsLastAttempt_OffByOne(j) == attempts[j] >= MaxAttempts

IsLastAttempt(j) == attempts[j] >= MaxAttempts - 1

\* The delivery row and, on the last attempt, the audit entry.
SettleAttempt(j) ==
    /\ pc[j] = "settle"
    /\ PersistState(j, IF IsLastAttempt(j) THEN "FAILED" ELSE "RETRYING")
    /\ IF IsLastAttempt(j) THEN AuditTerminalFailure(j) ELSE UNCHANGED audited
    /\ AttemptEnds(j, FALSE)
    /\ UNCHANGED <<circuitVars, seen, wait, stalls, posts, accepted>>

-----------------------------------------------------------------------------
(* Time                                                                    *)

Tick ==
    /\ \A j \in Jobs : pc[j] \notin InSection
    /\ left > 0 \/ \E j \in Jobs : wait[j] > 0
    /\ left' = IF left > 0 THEN left - 1 ELSE 0
    /\ wait' = [j \in Jobs |-> IF wait[j] > 0 THEN wait[j] - 1 ELSE 0]
    /\ UNCHANGED <<status, failures, fresh, probes, renewed>>
    /\ UNCHANGED <<seen, pc, attempts, stalls, posts, row, accepted, audited, excused, faults>>

Process(j) ==
    \/ BeforeAttempt(j) \/ Probe(j) \/ Post(j)
    \/ ResetCounter(j) \/ CloseCircuit(j) \/ Delivered(j)
    \/ LoadPrevious(j) \/ IncrementFailures(j) \/ TransitionToOpen(j) \/ SettleAttempt(j)

DeliveryNext ==
    \/ \E j \in Jobs : Process(j) \/ Throws(j) \/ SuccessThrows(j) \/ Stalls(j)
    \/ Tick

DeliverySpec == DeliveryInit /\ [][DeliveryNext]_deliveryVars

\* Workers take due jobs and finish what they run, and time passes.
DeliveryFairness ==
    /\ \A j \in Jobs : WF_deliveryVars(Process(j))
    /\ WF_deliveryVars(Tick)

-----------------------------------------------------------------------------
(* Properties                                                              *)

\* The circuit row, the jobs and the delivery rows have the types of the schema.
DeliveryTypeOK ==
    /\ status \in CircuitStatus
    /\ failures \in 0..Threshold
    /\ left \in 0..Cooldown
    /\ fresh \subseteq Jobs
    /\ seen \in [Jobs -> CircuitStatus]
    /\ pc \in [Jobs -> Steps]
    /\ wait \in [Jobs -> 0..Cooldown]
    /\ attempts \in [Jobs -> 0..MaxAttempts]
    /\ stalls \in [Jobs -> 0..(MaxStalls + 1)]
    /\ posts \in [Jobs -> Nat]
    /\ row \in [Jobs -> {"NONE", "RETRYING", "FAILED", "DELIVERED"}]
    /\ accepted \subseteq Jobs /\ audited \subseteq Jobs /\ excused \subseteq Jobs
    /\ probes \subseteq Jobs
    /\ renewed \in BOOLEAN
    /\ faults \in 0..MaxFaults

\* beforeAttempt admits one probe when a cooldown elapses: nobody else is admitted
\* until the probe is settled or its lease runs out.  (A lease that replaced an
\* expired one may be handed out twice, see MayProbe.)
OneProbePerCooldown ==
    status = "HALF_OPEN" /\ ~renewed => Cardinality(probes) <= 1

\* Deferrals cost no attempt and attempts are bounded: the endpoint receives at
\* most maxAttempts requests per delivery, and one more per worker that died.
PostsBounded == \A j \in Jobs : posts[j] <= MaxAttempts + stalls[j]

\* The delivery row tells what happened.  A delivery that ends failed is FAILED in
\* its row and in the audit trail (isLastAttempt agrees with BullMQ's count), and an
\* accepted event is given up or sent again, only after a write threw or a worker
\* died; a row says DELIVERED only if the endpoint accepted the event.
RowTellsOutcome ==
    \A j \in Jobs :
        /\ pc[j] = "failed" /\ j \notin excused => row[j] = "FAILED" /\ j \in audited
        /\ row[j] = "DELIVERED" => j \in accepted
        /\ j \in accepted /\ pc[j] \in {"queued", "post", "failed"} => j \in excused

\* Every delivery ends: no sequence of deferrals behind the circuit starves one.
EveryDeliveryEnds == \A j \in Jobs : <>(pc[j] \in Ended)

\* WebhooksProcessor posts no more often than its job has attempts and stalls, and the
\* delivery row ends with what the last post came to.  See PostsBounded,
\* RowTellsOutcome.
DeliveryIsAccountedFor == PostsBounded /\ RowTellsOutcome
=============================================================================
