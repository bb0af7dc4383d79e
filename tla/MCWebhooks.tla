----------------------------- MODULE MCWebhooks -----------------------------
(***************************************************************************)
(* Instances of the queue components for TLC: deliveries, their transport, *)
(* the attempts of a worker's job, dead letters and batch operations.      *)
(* They do not share state, so one run checks them side by side: a         *)
(* behaviour moves the component `part` and leaves the others in their     *)
(* initial states.                                                         *)
(***************************************************************************)
EXTENDS WebhookDelivery, DeadLetter, JobAttempts

VARIABLE part

Parts == {"delivery", "deadLetter", "sweep", "transport", "worker"}

plainVars == <<sweepVars, transportVars, workerVars>>

queueVars == <<deliveryVars, deadLetterVars, plainVars, part>>

\* What a component chooses initially is chosen only where it moves.
QueueInit ==
    /\ part \in Parts
    /\ DeliveryInit /\ DeadLetterInit /\ SweepInit
    /\ TransportInit /\ (part # "transport" => dns = <<>>)
    /\ WorkerInit /\ (part # "worker" => workerJob.attempts = CHOOSE n \in AttemptsOptions : TRUE)

Delivering(A) == part = "delivery" /\ A /\ UNCHANGED <<deadLetterVars, plainVars, part>>
DeadLettering(A) == part = "deadLetter" /\ A /\ UNCHANGED <<deliveryVars, plainVars, part>>

\* The components without fairness of their own.
Plain ==
    /\ \/ part = "sweep" /\ SweepNext
       \/ part = "transport" /\ TransportNext
       \/ part = "worker" /\ WorkerNext
    /\ UNCHANGED <<deliveryVars, deadLetterVars, part>>
    /\ part # "sweep" => UNCHANGED sweepVars
    /\ part # "transport" => UNCHANGED transportVars
    /\ part # "worker" => UNCHANGED workerVars

QueueNext == Delivering(DeliveryNext) \/ DeadLettering(DeadLetterNext) \/ Plain

QueueSpec == QueueInit /\ [][QueueNext]_queueVars

\* DeliveryFairness and DeadLetterFairness of the component that moves.
QueueFairSpec ==
    /\ QueueSpec
    /\ \A j \in Jobs : WF_deliveryVars(Delivering(Process(j)))
    /\ WF_deliveryVars(Delivering(Tick))
    /\ WF_deadLetterVars(DeadLettering(\E i \in Instances, j \in JobIds : Observe(i, j)))

-----------------------------------------------------------------------------
(* Properties                                                              *)

\* Work in a queue gets done: every delivery ends, and a job without attempts left is
\* handed to the dead letters.  See EveryDeliveryEnds, ExhaustedIsHandled.
QueuesProgress == (part = "delivery" => EveryDeliveryEnds) /\ ExhaustedIsHandled
=============================================================================
