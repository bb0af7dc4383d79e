----------------------------- MODULE DeadLetter -----------------------------
(***************************************************************************)
(* What happens to a BullMQ job that fails for good: BullMQ publishes a    *)
(* `failed` event, and on every API instance QueueFailureListener copies   *)
(* the job to the dead-letter queue and DeadLetterService writes a ledger  *)
(* entry, each after loading the job; operators meanwhile retry, re-drive  *)
(* and remove failed jobs (the sweeps over a queue are in JobAttempts).    *)
(* BullMQ is external: a job's attempts survive a retry, and events are    *)
(* not kept for an instance that is down.                                  *)
(***************************************************************************)
EXTENDS Integers, FiniteSets

CONSTANTS
    JobIds,       \* the jobs, and the ids of re-driven copies
    Queued,       \* those queued at first
    Instances,    \* API instances
    JobAttempts,  \* opts.attempts
    Redrives,     \* bound of the model: operator actions that run a job again
    ListenerFaults \* bound: calls of the listeners that fail, and restarts

ASSUME DeadLetterAssumption ==
    /\ Queued \subseteq JobIds
    /\ JobAttempts \in Nat \ {0}
    /\ Redrives \in Nat
    /\ ListenerFaults \in Nat

VARIABLES
    state,     \* [JobIds -> JobStates]
    made,      \* [JobIds -> attemptsMade]
    inbox,     \* [Listeners -> [JobIds -> failed events not yet handled]]
    letters,   \* [JobIds -> copies on the dead-letter queue]
    ledger,    \* [JobIds -> job.failed entries of the ledger]
    redriven,  \* operator actions so far
    losses     \* listener faults so far

deadLetterVars ==
    <<state, made, inbox, letters, ledger, redriven, losses>>

JobStates == {"absent", "waiting", "active", "completed", "failed", "removed"}
Listeners == Instances \X {"route", "ledger"}

DeadLetterInit ==
    /\ state = [j \in JobIds |-> IF j \in Queued THEN "waiting" ELSE "absent"]
    /\ made = [j \in JobIds |-> 0]
    /\ inbox = [l \in Listeners |-> [j \in JobIds |-> 0]]
    /\ letters = [j \in JobIds |-> 0]
    /\ ledger = [j \in JobIds |-> 0]
    /\ redriven = 0
    /\ losses = 0

Plus1(f, j) == [f EXCEPT ![j] = @ + 1]

ListenerFault == losses < ListenerFaults /\ losses' = losses + 1

-----------------------------------------------------------------------------
(* BullMQ                                                                  *)

Take(j) ==
    /\ state[j] = "waiting"
    /\ state' = [state EXCEPT ![j] = "active"]
    /\ UNCHANGED <<made, inbox, letters, ledger, redriven, losses>>

Complete(j) ==
    /\ state[j] = "active"
    /\ state' = [state EXCEPT ![j] = "completed"]
    /\ UNCHANGED <<made, inbox, letters, ledger, redriven, losses>>

\* An attempt throws.  An error that a retry may cure (buildJobOptions) leaves the
\* rest of the attempts; PermanentJobError does not.
Fail(j, permanent) ==
    /\ state[j] = "active"
    /\ made' = Plus1(made, j)
    /\ IF permanent \/ made'[j] >= JobAttempts
         THEN /\ state' = [state EXCEPT ![j] = "failed"]
              /\ inbox' = [l \in Listeners |-> Plus1(inbox[l], j)]
         ELSE /\ state' = [state EXCEPT ![j] = "waiting"]
              /\ UNCHANGED inbox
    /\ UNCHANGED <<letters, ledger, redriven, losses>>

-----------------------------------------------------------------------------
(* The listeners                                                           *)

\* isTerminalJobFailure: the attempts are used up.  Its other case looks for the
\* word UnrecoverableError in the failure's reason and stack, which a
\* PermanentJobError never shows: the reason is its message, and the first line of
\* the stack is written before the constructor sets a name.
IsTerminalJobFailure(j) == made[j] >= JobAttempts

Exists(j) == state[j] \notin {"absent", "removed"}

\* The listener's queue handle throws and it gives the event up.
GiveUp(l, j) ==
    /\ inbox[l][j] > 0
    /\ ListenerFault
    /\ inbox' = [inbox EXCEPT ![l][j] = @ - 1]
    /\ UNCHANGED <<state, made, letters, ledger, redriven>>

\* QueueFailureListener.handleFailed.
RouteToDeadLetter(i, j) ==
    LET l == <<i, "route">> IN
    /\ inbox[l][j] > 0
    /\ inbox' = [inbox EXCEPT ![l][j] = @ - 1]
    /\ letters' = IF Exists(j) /\ IsTerminalJobFailure(j) THEN Plus1(letters, j) ELSE letters
    /\ UNCHANGED <<state, made, ledger, redriven, losses>>

PersistLedgerEntry_OnlyLoaded(i, j) ==
    LET l == <<i, "ledger">> IN
    /\ inbox[l][j] > 0
    /\ inbox' = [inbox EXCEPT ![l][j] = @ - 1]
    /\ ledger' = IF Exists(j) /\ IsTerminalJobFailure(j) THEN Plus1(ledger, j) ELSE ledger
    /\ UNCHANGED <<state, made, letters, redriven, losses>>

\* DeadLetterService.handleFailed: a job that cannot be loaded is recorded too.
PersistLedgerEntry(i, j) ==
    LET l == <<i, "ledger">> IN
    /\ inbox[l][j] > 0
    /\ inbox' = [inbox EXCEPT ![l][j] = @ - 1]
    /\ ledger' = IF Exists(j) => IsTerminalJobFailure(j) THEN Plus1(ledger, j) ELSE ledger
    /\ UNCHANGED <<state, made, letters, redriven, losses>>

\* An instance restarts: QueueEvents reads the stream from its end.
Restart(i) ==
    /\ \E l \in Listeners, j \in JobIds : l[1] = i /\ inbox[l][j] > 0
    /\ ListenerFault
    /\ inbox' = [l \in Listeners |-> IF l[1] = i THEN [j \in JobIds |-> 0] ELSE inbox[l]]
    /\ UNCHANGED <<state, made, letters, ledger, redriven>>

-----------------------------------------------------------------------------
(* Operators                                                               *)

\* requeue: a copy under a new id; the original stays, in whatever state it is.
Requeue(j, copy) ==
    /\ Exists(j)
    /\ state[copy] = "absent"
    /\ redriven < Redrives
    /\ redriven' = redriven + 1
    /\ state' = [state EXCEPT ![copy] = "waiting"]
    /\ UNCHANGED <<made, inbox, letters, ledger, losses>>

\* retryJob: only a failed job, which BullMQ checks again.
RetryJob(j) ==
    /\ state[j] = "failed"
    /\ redriven < Redrives
    /\ redriven' = redriven + 1
    /\ state' = [state EXCEPT ![j] = "waiting"]
    /\ UNCHANGED <<made, inbox, letters, ledger, losses>>

\* purge, removeJob, purgeQueue, batchPurge and the retention of failed jobs.
Remove(j) ==
    /\ state[j] = "failed"
    /\ state' = [state EXCEPT ![j] = "removed"]
    /\ UNCHANGED <<made, inbox, letters, ledger, redriven, losses>>

Observe(i, j) == RouteToDeadLetter(i, j) \/ PersistLedgerEntry(i, j)

Operate(j) ==
    \/ RetryJob(j) \/ Remove(j)
    \/ \E copy \in JobIds : Requeue(j, copy)

DeadLetterNext ==
    \/ \E j \in JobIds : Take(j) \/ Complete(j) \/ Operate(j)
    \/ \E j \in JobIds, permanent \in BOOLEAN : Fail(j, permanent)
    \/ \E i \in Instances, j \in JobIds : Observe(i, j)
    \/ \E l \in Listeners, j \in JobIds : GiveUp(l, j)
    \/ \E i \in Instances : Restart(i)

DeadLetterSpec == DeadLetterInit /\ [][DeadLetterNext]_deadLetterVars

\* An instance that is up handles the events it received; a finite number of jobs
\* publishes a finite number of them.
DeadLetterFairness ==
    WF_deadLetterVars(\E i \in Instances, j \in JobIds : Observe(i, j))

-----------------------------------------------------------------------------
(* Properties                                                              *)

\* The queue, the dead-letter queue and the ledger have their types.
DeadLetterTypeOK ==
    /\ state \in [JobIds -> JobStates]
    /\ made \in [JobIds -> Nat]
    /\ inbox \in [Listeners -> [JobIds -> Nat]]
    /\ letters \in [JobIds -> Nat] /\ ledger \in [JobIds -> Nat]
    /\ redriven \in 0..Redrives
    /\ losses \in 0..ListenerFaults

\* A job that used up its attempts reaches the dead-letter queue, unless an
\* operator removes it first, and the ledger, even when it is removed before the
\* listeners load it, as long as fewer listeners fail than there are instances.
ExhaustedIsHandled ==
    \A j \in JobIds :
        LET exhausted == state[j] = "failed" /\ made[j] >= JobAttempts IN
        /\ exhausted ~> (letters[j] > 0 \/ state[j] = "removed")
        /\ exhausted ~> ledger[j] > 0

\* isTerminalJobFailure: a job that failed for good, because its attempts are used
\* up or because it is unrecoverable, is on the dead-letter queue once the
\* listeners have handled their events without a fault.
FailedIsRouted ==
    \A j \in JobIds :
        state[j] = "failed" /\ losses = 0 /\ (\A l \in Listeners : inbox[l][j] = 0)
            => letters[j] > 0
=============================================================================
