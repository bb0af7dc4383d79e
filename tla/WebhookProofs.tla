---------------------------- MODULE WebhookProofs ----------------------------
(***************************************************************************)
(* Proofs about deliveries and the jobs of the queues (WebhookDelivery,    *)
(* JobAttempts), for every value of their constants.                       *)
(***************************************************************************)
EXTENDS WebhookDelivery, JobAttempts, FiniteSetTheorems, TLAPS

-----------------------------------------------------------------------------
(* Sweeps over failed jobs                                                 *)

\* What a sweep still owes is failed, selected by its filter and on its list.
SweepInv ==
    /\ SweepTypeOK
    /\ \A w \in Sweeps :
        /\ kept[w] \subseteq Failed
        /\ kind[w] \in {"batchRetry", "filtered"} => kept[w] \subseteq todo[w] \cap Selected(kind[w])

\* Every step of a sweep, a worker or an operator keeps the invariant.
LEMMA SweepStep == SweepInv /\ [SweepNext]_sweepVars => SweepInv'
  <1> SUFFICES ASSUME SweepInv, [SweepNext]_sweepVars PROVE SweepInv'
    OBVIOUS
  <1> USE DEF SweepInv, SweepTypeOK, Failed, Selected, SweepKinds
  <1>1. ASSUME NEW w \in Sweeps, NEW k \in SweepKinds, StartSweep(w, k) PROVE SweepInv'
    BY <1>1 DEF StartSweep
  <1>2. ASSUME NEW w \in Sweeps, NEW j \in FailedJobs, SweepJob(w, j) PROVE SweepInv'
    <2>1. CASE j \notin Selected(kind[w])
      BY <1>2, <2>1 DEF SweepJob
    <2>2. CASE j \in Selected(kind[w]) /\ jobState[j] = "failed"
      BY <1>2, <2>2 DEF SweepJob, Move
    <2>3. CASE j \in Selected(kind[w]) /\ jobState[j] # "failed"
      BY <1>2, <2>3 DEF SweepJob, AfterError
    <2> QED
      BY <2>1, <2>2, <2>3
  <1>3. CASE BatchPurge \/ PurgeQueue
    BY <1>3 DEF BatchPurge, PurgeQueue, PurgedByFilter, RemoveAll
  <1>4. ASSUME NEW j \in FailedJobs, RunAgain(j) PROVE SweepInv'
    BY <1>4 DEF RunAgain
  <1>5. ASSUME NEW j \in FailedJobs, OperateOn(j) PROVE SweepInv'
    BY <1>5 DEF OperateOn, Move
  <1>6. CASE UNCHANGED sweepVars
    BY <1>6 DEF sweepVars
  <1> QED
    BY <1>1, <1>2, <1>3, <1>4, <1>5, <1>6 DEF SweepNext

\* However sweeps, purges, operators and workers interleave over any set of jobs,
\* batchRetry returns only when each job it was to retry has left the failed set.
THEOREM BatchRetryComplete == SweepSpec => []BatchRetryIsComplete
  <1>1. SweepInit => SweepInv
    BY DEF SweepInit, SweepInv, SweepTypeOK, Failed
  <1>2. SweepInv => BatchRetryIsComplete
    BY SMTT(30) DEF SweepInv, BatchRetryIsComplete
  <1> QED
    BY <1>1, <1>2, SweepStep, PTL DEF SweepSpec

-----------------------------------------------------------------------------
(* Deliveries                                                              *)

\* Where a job is after its request, and where after an accepted one.
AfterPost == {"reset", "close", "delivered", "failure", "count", "trip", "settle", "completed"}

AfterSuccess == {"reset", "close", "delivered", "completed"}

\* Each attempt and each stall pays for one request; the one under way is not yet paid.
Paid(j) ==
    /\ posts[j] <= attempts[j] + stalls[j] + 1
    /\ pc[j] \notin AfterPost => posts[j] <= attempts[j] + stalls[j]
    /\ pc[j] # "failed" => attempts[j] < MaxAttempts /\ stalls[j] <= MaxStalls

\* The row, the audit trail and what the endpoint said agree but for a fault.
Told(j) ==
    /\ pc[j] = "failed" /\ j \notin excused => row[j] = "FAILED" /\ j \in audited
    /\ row[j] = "DELIVERED" => j \in accepted
    /\ pc[j] \in AfterSuccess => j \in accepted
    /\ j \in accepted /\ pc[j] \notin AfterSuccess => j \in excused

\* Nobody is probing a circuit that is not half open, and one job a half-open one
\* whose lease is the first.
ProbeAlone ==
    /\ status # "HALF_OPEN" => probes = {}
    /\ status = "HALF_OPEN" /\ ~renewed => \E j \in Jobs : probes = {j}

DeliveryInv ==
    /\ DeliveryTypeOK
    /\ \A j \in Jobs : Paid(j)
    /\ \A j \in Jobs : Told(j)
    /\ ProbeAlone

\* The types are kept.
LEMMA DeliveryTyped == DeliveryInv /\ [DeliveryNext]_deliveryVars => DeliveryTypeOK'
  <1> SUFFICES ASSUME DeliveryInv, [DeliveryNext]_deliveryVars PROVE DeliveryTypeOK'
    OBVIOUS
  <1> USE DeliveryAssumption DEF DeliveryAssumption, DeliveryInv, DeliveryTypeOK, CircuitStatus, Steps,
        Running, Ended, InSection
  <1>0. \A i \in Jobs : pc[i] # "failed" => attempts[i] < MaxAttempts /\ stalls[i] <= MaxStalls
    BY DEF Paid
  <1>1. ASSUME NEW j \in Jobs, BeforeAttempt(j) PROVE DeliveryTypeOK'
    <2>1. /\ status' \in CircuitStatus /\ failures' \in 0..Threshold /\ left' \in 0..Cooldown
          /\ fresh' \subseteq Jobs /\ probes' \subseteq Jobs /\ renewed' \in BOOLEAN
          /\ accepted' \subseteq Jobs /\ audited' \subseteq Jobs /\ excused' \subseteq Jobs
          /\ faults' \in 0..MaxFaults
      BY <1>1
      DEF BeforeAttempt, Defer, AttemptEnds, PersistState, NoFault, Fault, Goto, circuitVars,
          CooldownOver
    <2>2. /\ attempts' \in [Jobs -> 0..MaxAttempts] /\ stalls' \in [Jobs -> 0..(MaxStalls + 1)]
          /\ posts' \in [Jobs -> Nat] /\ wait' \in [Jobs -> 0..Cooldown]
      BY <1>0, <1>1
      DEF BeforeAttempt, Defer, AttemptEnds, PersistState, NoFault, Fault, Goto, circuitVars,
          CooldownOver
    <2>3. /\ seen' \in [Jobs -> CircuitStatus] /\ pc' \in [Jobs -> Steps]
          /\ row' \in [Jobs -> {"NONE", "RETRYING", "FAILED", "DELIVERED"}]
      BY <1>1
      DEF BeforeAttempt, Defer, AttemptEnds, PersistState, NoFault, Fault, Goto, circuitVars,
          CooldownOver
    <2> QED
      BY <2>1, <2>2, <2>3
  <1>2. ASSUME NEW j \in Jobs, Probe(j) PROVE DeliveryTypeOK'
    <2>1. /\ status' \in CircuitStatus /\ failures' \in 0..Threshold /\ left' \in 0..Cooldown
          /\ fresh' \subseteq Jobs /\ probes' \subseteq Jobs
      BY <1>2
      DEF Probe, Defer, AttemptEnds, PersistState, NoFault, Fault, Goto, Forget, MayProbe, circuitVars
    <2>2. renewed' \in BOOLEAN
      <3>1. renewed' = (seen[j] = "HALF_OPEN") \/ renewed' = renewed
        BY <1>2 DEF Probe, circuitVars
      <3> QED
        BY <3>1, Zenon
    <2>3. /\ accepted' \subseteq Jobs /\ audited' \subseteq Jobs /\ excused' \subseteq Jobs
          /\ faults' \in 0..MaxFaults
      BY <1>2
      DEF Probe, Defer, AttemptEnds, PersistState, NoFault, Fault, Goto, Forget, MayProbe, circuitVars
    <2>4. /\ attempts' \in [Jobs -> 0..MaxAttempts] /\ stalls' \in [Jobs -> 0..(MaxStalls + 1)]
          /\ posts' \in [Jobs -> Nat] /\ wait' \in [Jobs -> 0..Cooldown]
      BY <1>0, <1>2
      DEF Probe, Defer, AttemptEnds, PersistState, NoFault, Fault, Goto, Forget, MayProbe, circuitVars
    <2>5. /\ seen' \in [Jobs -> CircuitStatus] /\ pc' \in [Jobs -> Steps]
          /\ row' \in [Jobs -> {"NONE", "RETRYING", "FAILED", "DELIVERED"}]
      BY <1>2
      DEF Probe, Defer, AttemptEnds, PersistState, NoFault, Fault, Goto, Forget, MayProbe, circuitVars
    <2> QED
      BY <2>1, <2>2, <2>3, <2>4, <2>5
  <1>3. ASSUME NEW j \in Jobs, Post(j) PROVE DeliveryTypeOK'
    <2>1. /\ status' \in CircuitStatus /\ failures' \in 0..Threshold /\ left' \in 0..Cooldown
          /\ fresh' \subseteq Jobs /\ probes' \subseteq Jobs /\ renewed' \in BOOLEAN
          /\ accepted' \subseteq Jobs /\ audited' \subseteq Jobs /\ excused' \subseteq Jobs
          /\ faults' \in 0..MaxFaults
      BY <1>3
      DEF Post, PersistState, NoFault, Fault, Goto, AttemptEnds, AuditTerminalFailure, circuitVars
    <2>2. /\ attempts' \in [Jobs -> 0..MaxAttempts] /\ stalls' \in [Jobs -> 0..(MaxStalls + 1)]
          /\ posts' \in [Jobs -> Nat] /\ wait' \in [Jobs -> 0..Cooldown]
      BY <1>0, <1>3
      DEF Post, PersistState, NoFault, Fault, Goto, AttemptEnds, AuditTerminalFailure, circuitVars
    <2>3. /\ seen' \in [Jobs -> CircuitStatus] /\ pc' \in [Jobs -> Steps]
          /\ row' \in [Jobs -> {"NONE", "RETRYING", "FAILED", "DELIVERED"}]
      BY <1>3
      DEF Post, PersistState, NoFault, Fault, Goto, AttemptEnds, AuditTerminalFailure, circuitVars
    <2> QED
      BY <2>1, <2>2, <2>3
  <1>4. ASSUME NEW j \in Jobs, ResetCounter(j) PROVE DeliveryTypeOK'
    BY <1>4 DEF ResetCounter, Goto
  <1>5. ASSUME NEW j \in Jobs, CloseCircuit(j) PROVE DeliveryTypeOK'
    BY <1>5 DEF CloseCircuit, Goto, circuitVars
  <1>6. ASSUME NEW j \in Jobs, Delivered(j) PROVE DeliveryTypeOK'
    BY <1>6 DEF Delivered, PersistState, NoFault, Fault, Goto, circuitVars
  <1>7. ASSUME NEW j \in Jobs, LoadPrevious(j) PROVE DeliveryTypeOK'
    BY <1>7 DEF LoadPrevious, Goto, circuitVars
  <1>8. ASSUME NEW j \in Jobs, IncrementFailures(j) PROVE DeliveryTypeOK'
    BY <1>8 DEF IncrementFailures, Goto, Forget
  <1>9. ASSUME NEW j \in Jobs, TransitionToOpen(j) PROVE DeliveryTypeOK'
    BY <1>9 DEF TransitionToOpen, Goto, circuitVars
  <1>10. ASSUME NEW j \in Jobs, SettleAttempt(j) PROVE DeliveryTypeOK'
    <2>1. /\ status' \in CircuitStatus /\ failures' \in 0..Threshold /\ left' \in 0..Cooldown
          /\ fresh' \subseteq Jobs /\ probes' \subseteq Jobs /\ renewed' \in BOOLEAN
          /\ accepted' \subseteq Jobs /\ audited' \subseteq Jobs /\ excused' \subseteq Jobs
          /\ faults' \in 0..MaxFaults
      BY <1>10
      DEF SettleAttempt, PersistState, NoFault, Fault, Goto, AttemptEnds, AuditTerminalFailure,
          IsLastAttempt, circuitVars
    <2>2. /\ attempts' \in [Jobs -> 0..MaxAttempts] /\ stalls' \in [Jobs -> 0..(MaxStalls + 1)]
          /\ posts' \in [Jobs -> Nat] /\ wait' \in [Jobs -> 0..Cooldown]
      BY <1>0, <1>10
      DEF SettleAttempt, PersistState, NoFault, Fault, Goto, AttemptEnds, AuditTerminalFailure,
          IsLastAttempt, circuitVars
    <2>3. /\ seen' \in [Jobs -> CircuitStatus] /\ pc' \in [Jobs -> Steps]
          /\ row' \in [Jobs -> {"NONE", "RETRYING", "FAILED", "DELIVERED"}]
      BY <1>10
      DEF SettleAttempt, PersistState, NoFault, Fault, Goto, AttemptEnds, AuditTerminalFailure,
          IsLastAttempt, circuitVars
    <2> QED
      BY <2>1, <2>2, <2>3
  <1>11. ASSUME NEW j \in Jobs, Throws(j) PROVE DeliveryTypeOK'
    <2>1. /\ status' \in CircuitStatus /\ failures' \in 0..Threshold /\ left' \in 0..Cooldown
          /\ fresh' \subseteq Jobs /\ probes' \subseteq Jobs /\ renewed' \in BOOLEAN
          /\ accepted' \subseteq Jobs /\ audited' \subseteq Jobs /\ excused' \subseteq Jobs
          /\ faults' \in 0..MaxFaults
      BY <1>11 DEF Throws, AttemptEnds, Fault, Forget, Goto, circuitVars
    <2>2. /\ attempts' \in [Jobs -> 0..MaxAttempts] /\ stalls' \in [Jobs -> 0..(MaxStalls + 1)]
          /\ posts' \in [Jobs -> Nat] /\ wait' \in [Jobs -> 0..Cooldown]
      BY <1>0, <1>11 DEF Throws, AttemptEnds, Fault, Forget, Goto, circuitVars
    <2>3. /\ seen' \in [Jobs -> CircuitStatus] /\ pc' \in [Jobs -> Steps]
          /\ row' \in [Jobs -> {"NONE", "RETRYING", "FAILED", "DELIVERED"}]
      BY <1>11 DEF Throws, AttemptEnds, Fault, Forget, Goto, circuitVars
    <2> QED
      BY <2>1, <2>2, <2>3
  <1>12. ASSUME NEW j \in Jobs, SuccessThrows(j) PROVE DeliveryTypeOK'
    BY <1>12 DEF SuccessThrows, Goto, Fault, circuitVars
  <1>13. ASSUME NEW j \in Jobs, Stalls(j) PROVE DeliveryTypeOK'
    <2>1. /\ status' \in CircuitStatus /\ failures' \in 0..Threshold /\ left' \in 0..Cooldown
          /\ fresh' \subseteq Jobs /\ probes' \subseteq Jobs /\ renewed' \in BOOLEAN
          /\ accepted' \subseteq Jobs /\ audited' \subseteq Jobs /\ excused' \subseteq Jobs
          /\ faults' \in 0..MaxFaults
      BY <1>13 DEF Stalls, Goto, Fault, Forget, circuitVars
    <2>2. /\ attempts' \in [Jobs -> 0..MaxAttempts] /\ stalls' \in [Jobs -> 0..(MaxStalls + 1)]
          /\ posts' \in [Jobs -> Nat] /\ wait' \in [Jobs -> 0..Cooldown]
      BY <1>0, <1>13 DEF Stalls, Goto, Fault, Forget, circuitVars
    <2>3. /\ seen' \in [Jobs -> CircuitStatus] /\ pc' \in [Jobs -> Steps]
          /\ row' \in [Jobs -> {"NONE", "RETRYING", "FAILED", "DELIVERED"}]
      BY <1>13 DEF Stalls, Goto, Fault, Forget, circuitVars
    <2> QED
      BY <2>1, <2>2, <2>3
  <1>14. CASE Tick
    BY <1>14 DEF Tick
  <1>15. CASE UNCHANGED deliveryVars
    BY <1>15, SMTT(30) DEF deliveryVars, circuitVars, jobVars
  <1> QED
    BY <1>1, <1>2, <1>3, <1>4, <1>5, <1>6, <1>7, <1>8, <1>9, <1>10, <1>11, <1>12, <1>13, <1>14, <1>15,
       Zenon
    DEF DeliveryNext, Process

\* Every request is paid for by an attempt or a stall.
LEMMA PaidStep == DeliveryInv /\ [DeliveryNext]_deliveryVars => (\A i \in Jobs : Paid(i))'
  <1> SUFFICES ASSUME DeliveryInv, [DeliveryNext]_deliveryVars PROVE (\A i \in Jobs : Paid(i))'
    BY SMTT(30)
  <1> USE DeliveryAssumption DEF DeliveryAssumption, DeliveryInv, DeliveryTypeOK, Paid, AfterPost,
        Steps, Running, Ended, InSection
  <1>1. ASSUME NEW j \in Jobs, BeforeAttempt(j) PROVE (\A i \in Jobs : Paid(i))'
    BY <1>1, SMTT(30)
    DEF BeforeAttempt, Defer, AttemptEnds, PersistState, NoFault, Fault, Goto, circuitVars, CooldownOver
  <1>2. ASSUME NEW j \in Jobs, Probe(j) PROVE (\A i \in Jobs : Paid(i))'
    BY <1>2, SMTT(30)
    DEF Probe, Defer, AttemptEnds, PersistState, NoFault, Fault, Goto, Forget, MayProbe, circuitVars
  <1>3. ASSUME NEW j \in Jobs, Post(j) PROVE (\A i \in Jobs : Paid(i))'
    BY <1>3 DEF Post, PersistState, NoFault, Fault, Goto, AttemptEnds, AuditTerminalFailure, circuitVars
  <1>4. ASSUME NEW j \in Jobs, ResetCounter(j) PROVE (\A i \in Jobs : Paid(i))'
    BY <1>4 DEF ResetCounter, Goto
  <1>5. ASSUME NEW j \in Jobs, CloseCircuit(j) PROVE (\A i \in Jobs : Paid(i))'
    BY <1>5, SMTT(30) DEF CloseCircuit, Goto, circuitVars
  <1>6. ASSUME NEW j \in Jobs, Delivered(j) PROVE (\A i \in Jobs : Paid(i))'
    BY <1>6, SMTT(30) DEF Delivered, PersistState, NoFault, Fault, Goto, circuitVars
  <1>7. ASSUME NEW j \in Jobs, LoadPrevious(j) PROVE (\A i \in Jobs : Paid(i))'
    BY <1>7, SMTT(30) DEF LoadPrevious, Goto, circuitVars
  <1>8. ASSUME NEW j \in Jobs, IncrementFailures(j) PROVE (\A i \in Jobs : Paid(i))'
    BY <1>8, SMTT(30) DEF IncrementFailures, Goto, Forget
  <1>9. ASSUME NEW j \in Jobs, TransitionToOpen(j) PROVE (\A i \in Jobs : Paid(i))'
    BY <1>9, SMTT(30) DEF TransitionToOpen, Goto, circuitVars
  <1>10. ASSUME NEW j \in Jobs, SettleAttempt(j) PROVE (\A i \in Jobs : Paid(i))'
    BY <1>10, SMTT(30)
    DEF SettleAttempt, PersistState, NoFault, Fault, Goto, AttemptEnds, AuditTerminalFailure,
        IsLastAttempt, circuitVars
  <1>11. ASSUME NEW j \in Jobs, Throws(j) PROVE (\A i \in Jobs : Paid(i))'
    BY <1>11, SMTT(30) DEF Throws, AttemptEnds, Fault, Forget, Goto, circuitVars
  <1>12. ASSUME NEW j \in Jobs, SuccessThrows(j) PROVE (\A i \in Jobs : Paid(i))'
    BY <1>12, SMTT(30) DEF SuccessThrows, Goto, Fault, circuitVars
  <1>13. ASSUME NEW j \in Jobs, Stalls(j) PROVE (\A i \in Jobs : Paid(i))'
    BY <1>13, SMTT(30) DEF Stalls, Goto, Fault, Forget, circuitVars
  <1>14. CASE Tick
    BY <1>14, SMTT(30) DEF Tick
  <1>15. CASE UNCHANGED deliveryVars
    BY <1>15, SMTT(30) DEF deliveryVars, circuitVars, jobVars
  <1> QED
    BY <1>1, <1>2, <1>3, <1>4, <1>5, <1>6, <1>7, <1>8, <1>9, <1>10, <1>11, <1>12, <1>13, <1>14, <1>15,
       Zenon
    DEF DeliveryNext, Process

\* The rows follow what happens.
LEMMA ToldStep == DeliveryInv /\ [DeliveryNext]_deliveryVars => (\A i \in Jobs : Told(i))'
  <1> SUFFICES ASSUME DeliveryInv, [DeliveryNext]_deliveryVars PROVE (\A i \in Jobs : Told(i))'
    OBVIOUS
  <1> USE DeliveryAssumption DEF DeliveryAssumption, DeliveryInv, DeliveryTypeOK, Told, AfterSuccess,
        Steps, Running, Ended, InSection
  <1>1. ASSUME NEW j \in Jobs, BeforeAttempt(j) PROVE (\A i \in Jobs : Told(i))'
    BY <1>1, SMTT(30)
    DEF BeforeAttempt, Defer, AttemptEnds, PersistState, NoFault, Fault, Goto, circuitVars, CooldownOver
  <1>2. ASSUME NEW j \in Jobs, Probe(j) PROVE (\A i \in Jobs : Told(i))'
    BY <1>2, SMTT(30)
    DEF Probe, Defer, AttemptEnds, PersistState, NoFault, Fault, Goto, Forget, MayProbe, circuitVars
  <1>3. ASSUME NEW j \in Jobs, Post(j) PROVE (\A i \in Jobs : Told(i))'
    BY <1>3 DEF Post, PersistState, NoFault, Fault, Goto, AttemptEnds, AuditTerminalFailure, circuitVars
  <1>4. ASSUME NEW j \in Jobs, ResetCounter(j) PROVE (\A i \in Jobs : Told(i))'
    BY <1>4 DEF ResetCounter, Goto
  <1>5. ASSUME NEW j \in Jobs, CloseCircuit(j) PROVE (\A i \in Jobs : Told(i))'
    BY <1>5 DEF CloseCircuit, Goto, circuitVars
  <1>6. ASSUME NEW j \in Jobs, Delivered(j) PROVE (\A i \in Jobs : Told(i))'
    BY <1>6, SMTT(30) DEF Delivered, PersistState, NoFault, Fault, Goto, circuitVars
  <1>7. ASSUME NEW j \in Jobs, LoadPrevious(j) PROVE (\A i \in Jobs : Told(i))'
    BY <1>7, SMTT(30) DEF LoadPrevious, Goto, circuitVars
  <1>8. ASSUME NEW j \in Jobs, IncrementFailures(j) PROVE (\A i \in Jobs : Told(i))'
    BY <1>8, SMTT(30) DEF IncrementFailures, Goto, Forget
  <1>9. ASSUME NEW j \in Jobs, TransitionToOpen(j) PROVE (\A i \in Jobs : Told(i))'
    BY <1>9, SMTT(30) DEF TransitionToOpen, Goto, circuitVars
  <1>10. ASSUME NEW j \in Jobs, SettleAttempt(j) PROVE (\A i \in Jobs : Told(i))'
    BY <1>10, SMTT(30)
    DEF SettleAttempt, PersistState, NoFault, Fault, Goto, AttemptEnds, AuditTerminalFailure,
        IsLastAttempt, circuitVars
  <1>11. ASSUME NEW j \in Jobs, Throws(j) PROVE (\A i \in Jobs : Told(i))'
    BY <1>11, SMTT(30) DEF Throws, AttemptEnds, Fault, Forget, Goto, circuitVars
  <1>12. ASSUME NEW j \in Jobs, SuccessThrows(j) PROVE (\A i \in Jobs : Told(i))'
    BY <1>12, SMTT(30) DEF SuccessThrows, Goto, Fault, circuitVars
  <1>13. ASSUME NEW j \in Jobs, Stalls(j) PROVE (\A i \in Jobs : Told(i))'
    BY <1>13, SMTT(30) DEF Stalls, Goto, Fault, Forget, circuitVars
  <1>14. CASE Tick
    BY <1>14, SMTT(30) DEF Tick
  <1>15. CASE UNCHANGED deliveryVars
    BY <1>15, SMTT(30) DEF deliveryVars, circuitVars, jobVars
  <1> QED
    BY <1>1, <1>2, <1>3, <1>4, <1>5, <1>6, <1>7, <1>8, <1>9, <1>10, <1>11, <1>12, <1>13, <1>14, <1>15,
       ZenonT(60)
    DEF DeliveryNext, Process

\* The circuit is half open for one probe.
LEMMA ProbeStep == DeliveryInv /\ [DeliveryNext]_deliveryVars => ProbeAlone'
  <1> SUFFICES ASSUME DeliveryInv, [DeliveryNext]_deliveryVars PROVE ProbeAlone'
    OBVIOUS
  <1> USE DeliveryAssumption DEF DeliveryAssumption, DeliveryInv, DeliveryTypeOK, ProbeAlone,
        CircuitStatus
  <1>1. ASSUME NEW j \in Jobs, BeforeAttempt(j) PROVE ProbeAlone'
    BY <1>1, SMTT(30)
    DEF BeforeAttempt, Defer, AttemptEnds, PersistState, NoFault, Fault, Goto, circuitVars, CooldownOver
  <1>2. ASSUME NEW j \in Jobs, Probe(j) PROVE ProbeAlone'
    BY <1>2, Zenon
    DEF Probe, Defer, AttemptEnds, PersistState, NoFault, Fault, Goto, Forget, MayProbe, circuitVars
  <1>3. ASSUME NEW j \in Jobs, Post(j) PROVE ProbeAlone'
    BY <1>3 DEF Post, PersistState, NoFault, Fault, Goto, AttemptEnds, AuditTerminalFailure, circuitVars
  <1>4. ASSUME NEW j \in Jobs, ResetCounter(j) PROVE ProbeAlone'
    BY <1>4 DEF ResetCounter, Goto
  <1>5. ASSUME NEW j \in Jobs, CloseCircuit(j) PROVE ProbeAlone'
    BY <1>5 DEF CloseCircuit, Goto, circuitVars
  <1>6. ASSUME NEW j \in Jobs, Delivered(j) PROVE ProbeAlone'
    BY <1>6 DEF Delivered, PersistState, NoFault, Fault, Goto, circuitVars
  <1>7. ASSUME NEW j \in Jobs, LoadPrevious(j) PROVE ProbeAlone'
    BY <1>7, SMTT(30) DEF LoadPrevious, Goto, circuitVars
  <1>8. ASSUME NEW j \in Jobs, IncrementFailures(j) PROVE ProbeAlone'
    BY <1>8, SMTT(30) DEF IncrementFailures, Goto, Forget
  <1>9. ASSUME NEW j \in Jobs, TransitionToOpen(j) PROVE ProbeAlone'
    BY <1>9, SMTT(30) DEF TransitionToOpen, Goto, circuitVars
  <1>10. ASSUME NEW j \in Jobs, SettleAttempt(j) PROVE ProbeAlone'
    BY <1>10, SMTT(30)
    DEF SettleAttempt, PersistState, NoFault, Fault, Goto, AttemptEnds, AuditTerminalFailure,
        IsLastAttempt, circuitVars
  <1>11. ASSUME NEW j \in Jobs, Throws(j) PROVE ProbeAlone'
    BY <1>11, SMTT(30) DEF Throws, AttemptEnds, Fault, Forget, Goto, circuitVars
  <1>12. ASSUME NEW j \in Jobs, SuccessThrows(j) PROVE ProbeAlone'
    BY <1>12, SMTT(30) DEF SuccessThrows, Goto, Fault, circuitVars
  <1>13. ASSUME NEW j \in Jobs, Stalls(j) PROVE ProbeAlone'
    BY <1>13, SMTT(30) DEF Stalls, Goto, Fault, Forget, circuitVars
  <1>14. CASE Tick
    BY <1>14, SMTT(30) DEF Tick
  <1>15. CASE UNCHANGED deliveryVars
    BY <1>15 DEF deliveryVars, circuitVars, jobVars
  <1> QED
    BY <1>1, <1>2, <1>3, <1>4, <1>5, <1>6, <1>7, <1>8, <1>9, <1>10, <1>11, <1>12, <1>13, <1>14, <1>15,
       SMTT(30)
    DEF DeliveryNext, Process

\* All together: the invariant of deliveries is inductive.
LEMMA DeliveryHolds == DeliverySpec => []DeliveryInv
  <1>1. DeliveryInit => DeliveryInv
    <2> SUFFICES ASSUME DeliveryInit PROVE DeliveryInv
      BY SMTT(30)
    <2> USE DeliveryAssumption DEF DeliveryAssumption, DeliveryInit
    <2>1. DeliveryTypeOK
      <3>1. /\ status \in CircuitStatus /\ failures \in 0..Threshold /\ left \in 0..Cooldown
            /\ fresh \subseteq Jobs /\ probes \subseteq Jobs /\ accepted \subseteq Jobs
            /\ audited \subseteq Jobs /\ excused \subseteq Jobs /\ faults \in 0..MaxFaults
        BY DEF CircuitStatus
      <3>2. /\ wait \in [Jobs -> 0..Cooldown] /\ attempts \in [Jobs -> 0..MaxAttempts]
            /\ stalls \in [Jobs -> 0..(MaxStalls + 1)] /\ posts \in [Jobs -> Nat]
        OBVIOUS
      <3>3. /\ seen \in [Jobs -> CircuitStatus] /\ pc \in [Jobs -> Steps]
            /\ row \in [Jobs -> {"NONE", "RETRYING", "FAILED", "DELIVERED"}]
        BY DEF CircuitStatus, Steps
      <3>4. renewed \in BOOLEAN
        BY Zenon
      <3> QED
        BY <3>1, <3>2, <3>3, <3>4, SMTT(30) DEF DeliveryTypeOK
    <2>2. \A j \in Jobs : Paid(j) /\ Told(j)
      BY DEF Paid, Told, AfterPost, AfterSuccess
    <2>3. ProbeAlone
      BY DEF ProbeAlone
    <2> QED
      BY <2>1, <2>2, <2>3 DEF DeliveryInv
  <1>2. DeliveryInv /\ [DeliveryNext]_deliveryVars => DeliveryInv'
    <2> SUFFICES ASSUME DeliveryInv, [DeliveryNext]_deliveryVars PROVE DeliveryInv'
      OBVIOUS
    <2>1. DeliveryTypeOK' /\ (\A j \in Jobs : Paid(j))' /\ (\A j \in Jobs : Told(j))' /\ ProbeAlone'
      BY DeliveryTyped, PaidStep, ToldStep, ProbeStep
    <2> QED
      BY <2>1, Zenon DEF DeliveryInv
  <1> QED
    BY <1>1, <1>2, PTL DEF DeliverySpec

\* For any number of deliveries, attempts, stalls and faults, workers that share the
\* circuit row without a lock admit one probe per elapsed cooldown.
THEOREM OneProbe == DeliverySpec => []OneProbePerCooldown
  <1>1. DeliveryInv => OneProbePerCooldown
    BY FS_Singleton DEF DeliveryInv, ProbeAlone, OneProbePerCooldown
  <1> QED
    BY <1>1, DeliveryHolds, PTL

\* However attempts, deferrals, stalls and faults interleave, the endpoint receives at
\* most one request per attempt and stall, and the row and the audit trail tell how
\* the delivery ended unless a write threw or a worker died.
THEOREM DeliveryAccountedFor == DeliverySpec => []DeliveryIsAccountedFor
  <1>1. DeliveryInv => PostsBounded
    BY DeliveryAssumption, SMTT(30)
    DEF DeliveryAssumption, DeliveryInv, DeliveryTypeOK, PostsBounded, Paid, AfterPost
  <1>2. DeliveryInv => RowTellsOutcome
    BY DEF DeliveryInv, RowTellsOutcome, Told, AfterSuccess
  <1>3. PostsBounded /\ RowTellsOutcome => DeliveryIsAccountedFor
    BY DEF DeliveryIsAccountedFor
  <1> QED
    BY <1>1, <1>2, <1>3, DeliveryHolds, PTL

-----------------------------------------------------------------------------
(* The transport of one attempt                                            *)

WirePhases == {"idle", "attempt", "waiting", "settled"}

\* The addresses to try are those of an answer that was vetted as a whole, the one at
\* hand is among them, and what was contacted is one of those before.
TransportInv ==
    /\ wireClock \in Nat
    /\ wire \in [phase : WirePhases, index : Nat, deadline : Nat,
                 status : Statuses \cup {0}, error : {"none", "unresolved", "rejected", "failed"}]
    /\ dns \in Answers
    /\ vetted \in Seq(PublicAddresses)
    /\ contacted \subseteq Range(vetted)
    /\ wire.phase = "idle" => contacted = {}
    /\ wire.phase \in {"attempt", "waiting"} =>
         wireClock <= wire.deadline /\ wire.index \in 1..Len(vetted)

\* An answer that is allowed has addresses, all of them public, and so has it sorted.
LEMMA AllowedIsPublic ==
    ASSUME NEW answer \in Answers, ValidateWebhookDestination(answer) = "allowed",
           NEW s \in SortByFamily(answer)
    PROVE  s \in Seq(PublicAddresses) /\ Len(s) >= 1
  <1>1. PICK n \in 0..MaxAnswers : answer \in [1..n -> PublicAddresses \cup PrivateAddresses]
    BY DEF Answers
  <1>2. n \in Nat /\ n # 0
    <2>1. answer # <<>>
      BY DEF ValidateWebhookDestination
    <2> QED
      BY <1>1, <2>1, TransportAssumption DEF TransportAssumption
  <1>3. \A i \in 1..n : answer[i] \in PublicAddresses
    BY <1>1, SMTT(30) DEF ValidateWebhookDestination, Range, IsPublicAddress
  <1>4. s \in [1..n -> PublicAddresses]
    BY <1>1, <1>3, SMTT(30) DEF SortByFamily
  <1> QED
    BY <1>2, <1>4, SMTT(30)

\* Every step of a registration, a request or the name service keeps the invariant.
LEMMA TransportStep == TransportInv /\ [TransportNext]_transportVars => TransportInv'
  <1> SUFFICES ASSUME TransportInv, [TransportNext]_transportVars PROVE TransportInv'
    OBVIOUS
  <1> USE DEF TransportInv, WirePhases
  <1>1. CASE ValidateDestination \/ DnsChanges
    BY <1>1 DEF ValidateDestination, DnsChanges
  <1>2. CASE PostWebhook /\ ValidateWebhookDestination(dns) = "allowed"
    <2>1. vetted' \in Seq(PublicAddresses) /\ Len(vetted') >= 1
      BY <1>2, AllowedIsPublic DEF PostWebhook
    <2>2. /\ wire' = [Idle EXCEPT !.phase = "attempt", !.index = 1, !.deadline = wireClock + HttpTimeout]
          /\ contacted = {} /\ UNCHANGED <<dns, wireClock, contacted>>
      BY <1>2 DEF PostWebhook
    <2>3. /\ wire' = [phase |-> "attempt", index |-> 1, deadline |-> wireClock + HttpTimeout,
                      status |-> 0, error |-> "none"]
      <3> HIDE DEF TransportInv
      <3> QED
        BY <2>2, Zenon DEF Idle
    <2>4. wireClock + HttpTimeout \in Nat /\ wireClock <= wireClock + HttpTimeout
      BY TransportAssumption DEF TransportAssumption
    <2> QED
      BY <2>1, <2>2, <2>3, <2>4
  <1>3. CASE PostWebhook /\ ValidateWebhookDestination(dns) # "allowed"
    <2>1. ValidateWebhookDestination(dns) \in {"unresolved", "rejected"}
      BY <1>3 DEF ValidateWebhookDestination
    <2>2. /\ wire' = [Idle EXCEPT !.phase = "settled", !.error = ValidateWebhookDestination(dns)]
          /\ UNCHANGED <<dns, wireClock, contacted, vetted>>
      BY <1>3 DEF PostWebhook
    <2> QED
      BY <2>1, <2>2, Zenon DEF Idle
  <1>4. CASE AttemptAddress
    <2>1. CASE wire.deadline <= wireClock
      BY <1>4, <2>1, Zenon DEF AttemptAddress
    <2>2. CASE ~(wire.deadline <= wireClock)
      BY <1>4, <2>2 DEF AttemptAddress, Range
    <2> QED
      BY <2>1, <2>2
  <1>5. CASE ResponseArrives
    BY <1>5, Zenon DEF ResponseArrives
  <1>6. CASE ConnectionFails \/ TimerFires
    <2>1. wire.phase = "waiting" /\ RequestFails /\ UNCHANGED <<dns, wireClock, contacted, vetted>>
      BY <1>6 DEF ConnectionFails, TimerFires
    <2>2. CASE wire.index + 1 <= Len(vetted)
      <3> DEFINE next == [wire EXCEPT !.index = wire.index + 1]
      <3>1. /\ next \in [phase : WirePhases, index : Nat, deadline : Nat,
                        status : Statuses \cup {0}, error : {"none", "unresolved", "rejected", "failed"}]
            /\ next.index = wire.index + 1 /\ next.deadline = wire.deadline
        OBVIOUS
      <3>2. wire' = [next EXCEPT !.phase = "attempt"]
        BY <2>1, <2>2, Zenon DEF RequestFails
      <3> HIDE DEF next
      <3> QED
        BY <2>1, <2>2, <3>1, <3>2
    <2>3. CASE ~(wire.index + 1 <= Len(vetted))
      BY <2>1, <2>3, Zenon DEF RequestFails
    <2> QED
      BY <2>2, <2>3
  <1>7. CASE WireTick
    BY <1>7 DEF WireTick, TimeLeft
  <1>8. CASE NextDelivery
    BY <1>8 DEF NextDelivery, Idle, Range
  <1>9. CASE UNCHANGED transportVars
    BY <1>9, SMTT(30) DEF transportVars
  <1> QED
    BY <1>1, <1>2, <1>3, <1>4, <1>5, <1>6, <1>7, <1>8, <1>9, SMTT(30) DEF TransportNext

-----------------------------------------------------------------------------
(* The wrapper of a worker's job                                           *)

\* The failure under way is terminal for the reasons the queue will have, or because its
\* text says so; and no job that has been called dead is active again.
WorkerInv ==
    /\ workerJob \in [state : {"waiting", "active", "completed", "failed"}, attemptsMade : Nat,
                      attempts : AttemptsOptions, verdict : {"none", "deadLettered", "retrying"},
                      mentioned : BOOLEAN, stalled : BOOLEAN]
    /\ workerRun \in [pc : {"idle", "handler", "hook", "thrown"}, error : JobErrors,
                      terminal : BOOLEAN, thrown : {"none", "Unrecoverable", "original"}]
    /\ (workerJob.state = "active") <=> (workerRun.pc # "idle")
    /\ workerJob.state = "active" /\ ~workerJob.mentioned => workerJob.verdict # "deadLettered"
    /\ workerRun.pc \in {"hook", "thrown"} =>
         (workerRun.terminal <=>
            \/ ClassifyJobError(workerRun.error) = "permanent" \/ workerRun.error.mentions
            \/ workerJob.attemptsMade + 1 >= MaxAttemptsOf(workerJob))
    /\ workerRun.pc = "thrown" =>
         (workerRun.thrown = "Unrecoverable" <=> ClassifyJobError(workerRun.error) = "permanent")
    /\ VerdictMatchesQueue

\* Every step of the wrapper and of the queue keeps the invariant.
LEMMA WorkerStep == WorkerInv /\ [WorkerNext]_workerVars => WorkerInv'
  <1> SUFFICES ASSUME WorkerInv, [WorkerNext]_workerVars PROVE WorkerInv'
    OBVIOUS
  <1> USE DEF WorkerInv, VerdictMatchesQueue
  <1>1. CASE StartAttempt
    BY <1>1 DEF StartAttempt, MaxAttemptsOf
  <1>2. CASE HandlerReturns
    BY <1>2, SMTT(30) DEF HandlerReturns, Quiet, JobErrors
  <1>3. CASE HandlerThrows
    BY <1>3 DEF HandlerThrows, TerminalVerdict
  <1>4. CASE Rethrow
    BY <1>4, Zenon DEF Rethrow
  <1>5. CASE QueueDecides
    <2> DEFINE ends == \/ workerRun.thrown = "Unrecoverable"
                       \/ workerJob.attemptsMade + 1 >= MaxAttemptsOf(workerJob)
    <2>1. /\ workerRun.pc = "thrown" /\ workerRun' = Quiet
          /\ workerJob' = [state |-> IF ends THEN "failed" ELSE "waiting",
                           attemptsMade |-> workerJob.attemptsMade + 1, attempts |-> workerJob.attempts,
                           verdict |-> IF workerRun.terminal THEN "deadLettered" ELSE "retrying",
                           mentioned |-> workerRun.error.mentions, stalled |-> workerJob.stalled]
      BY <1>5, Zenon DEF QueueDecides
    <2>2. workerRun.terminal <=> ends \/ workerRun.error.mentions
      BY <2>1
    <2>3. workerRun.error.mentions \in BOOLEAN
      BY SMTT(30) DEF JobErrors
    <2> HIDE DEF ends
    <2>4. /\ workerJob'.state = IF ends THEN "failed" ELSE "waiting"
          /\ workerJob'.verdict = IF workerRun.terminal THEN "deadLettered" ELSE "retrying"
          /\ workerJob'.mentioned = workerRun.error.mentions
      BY <2>1, SMTT(30)
    <2>5. workerJob' \in [state : {"waiting", "active", "completed", "failed"}, attemptsMade : Nat,
                      attempts : AttemptsOptions, verdict : {"none", "deadLettered", "retrying"},
                      mentioned : BOOLEAN, stalled : BOOLEAN]
      BY <2>1, <2>3, SMTT(30)
    <2>6. workerRun' \in [pc : {"idle", "handler", "hook", "thrown"}, error : JobErrors,
                      terminal : BOOLEAN, thrown : {"none", "Unrecoverable", "original"}] /\ workerRun'.pc = "idle"
      BY <2>1, SMTT(30) DEF Quiet, JobErrors
    <2> QED
      BY <2>2, <2>4, <2>5, <2>6
  <1>6. CASE WorkerStalls
    <2>1. /\ workerRun.pc = "handler" /\ workerRun' = Quiet
          /\ workerJob' = [state |-> "waiting", attemptsMade |-> workerJob.attemptsMade,
                           attempts |-> workerJob.attempts, verdict |-> workerJob.verdict,
                           mentioned |-> workerJob.mentioned, stalled |-> TRUE]
      BY <1>6, Zenon DEF WorkerStalls
    <2>2. workerRun' \in [pc : {"idle", "handler", "hook", "thrown"}, error : JobErrors,
                      terminal : BOOLEAN, thrown : {"none", "Unrecoverable", "original"}] /\ workerRun'.pc = "idle"
      BY <2>1 DEF Quiet, JobErrors
    <2> QED
      BY <2>1, <2>2
  <1>7. CASE UNCHANGED workerVars
    BY <1>7 DEF workerVars
  <1> QED
    BY <1>1, <1>2, <1>3, <1>4, <1>5, <1>6, <1>7, Zenon DEF WorkerNext

\* Whatever the name service answers and however connections end, a body goes only to
\* addresses vetted for it and within its time; what is logged as permanent is
\* abandoned; and a worker's verdict on a job is the queue's.
THEOREM AttemptsJudged == TransportSpec /\ WorkerSpec => []AttemptsAreJudged
  <1>1. TransportInit => TransportInv
    BY SMTT(30) DEF TransportInit, TransportInv, WirePhases, Idle, Range
  <1>2. TransportInv => VettedAndOnTime
    BY DEF TransportInv, VettedAndOnTime, Range
  <1>3. PermanentIsAbandoned
    BY SMTT(30) DEF PermanentIsAbandoned, Abandoned, ClassifyWebhookFailure, ClassifyHttpStatus,
           NON_TRANSIENT_WEBHOOK_STATUSES, IsNonTransient
  <1>4. WorkerInit => WorkerInv
    BY DEF WorkerInit, WorkerInv, Quiet, JobErrors, VerdictMatchesQueue
  <1>5. WorkerInv => VerdictMatchesQueue
    BY DEF WorkerInv
  <1>6. VettedAndOnTime /\ PermanentIsAbandoned /\ VerdictMatchesQueue => AttemptsAreJudged
    BY DEF AttemptsAreJudged
  <1> QED
    BY <1>1, <1>2, <1>3, <1>4, <1>5, <1>6, TransportStep, WorkerStep, PTL
    DEF TransportSpec, WorkerSpec
=============================================================================
