------------------------------ MODULE Shutdown ------------------------------
(***************************************************************************)
(* ShutdownCoordinator (src/common/shutdown): on a signal it drains HTTP   *)
(* requests, then the BullMQ workers, within a shared grace period; then   *)
(* app.close() runs the lifecycle hooks, from which the registered         *)
(* resources are closed phase by phase; then the process exits.  Requests, *)
(* jobs, hooks and close callbacks may take for ever: only the timers are  *)
(* sure to fire.                                                           *)
(***************************************************************************)
EXTENDS Naturals, FiniteSets

CONSTANTS
    Requests,      \* slots for HTTP requests in flight
    Workers,       \* BullMQ workers found at bootstrap
    Resources,     \* registered resources
    PhaseOf        \* [Resources -> 1..3]: queues, redis, database

ASSUME ShutdownAssumption == PhaseOf \in [Resources -> 1..3]

VARIABLES
    step,          \* where run() is
    graceOver,     \* the deadline has passed
    request,       \* [Requests -> "none", "active" or "cut"]
    worker,        \* [Workers -> state of the worker]
    job,           \* [Workers -> "none", "active" or "cut"]
    hooks,         \* app.close(): its onModuleDestroy hooks
    phase,         \* 0 before closeResources, 1..3 while it runs, 4 after
    resource,      \* [Resources -> state]
    failures       \* whether a failure has been collected

shutdownVars == <<step, graceOver, request, worker, job, hooks, phase, resource, failures>>

ShutdownInit ==
    /\ step = "serving"
    /\ graceOver = FALSE
    /\ request = [r \in Requests |-> "none"]
    /\ worker = [w \in Workers |-> "running"]
    /\ job = [w \in Workers |-> "none"]
    /\ hooks = "none"
    /\ phase = 0
    /\ resource = [r \in Resources |-> "open"]
    /\ failures = FALSE

-----------------------------------------------------------------------------
(* The work being drained                                                  *)

Arrive(r) ==
    /\ step = "serving" /\ request[r] = "none"
    /\ request' = [request EXCEPT ![r] = "active"]
    /\ UNCHANGED <<step, graceOver, worker, job, hooks, phase, resource, failures>>

Respond(r) ==
    /\ request[r] = "active"
    /\ request' = [request EXCEPT ![r] = "none"]
    /\ UNCHANGED <<step, graceOver, worker, job, hooks, phase, resource, failures>>

\* Workers go on fetching jobs while HTTP drains.
Fetch(w) ==
    /\ worker[w] = "running" /\ job[w] = "none"
    /\ job' = [job EXCEPT ![w] = "active"]
    /\ UNCHANGED <<step, graceOver, request, worker, hooks, phase, resource, failures>>

JobEnds(w) ==
    /\ job[w] = "active"
    /\ job' = [job EXCEPT ![w] = "none"]
    /\ UNCHANGED <<step, graceOver, request, worker, hooks, phase, resource, failures>>

-----------------------------------------------------------------------------
(* run()                                                                   *)

\* shutdown() runs once: a second signal is ignored.
Signal ==
    /\ step = "serving"
    /\ step' = "http"
    /\ UNCHANGED <<graceOver, request, worker, job, hooks, phase, resource, failures>>

GraceExpires ==
    /\ step \in {"http", "workers"} /\ ~graceOver
    /\ graceOver' = TRUE
    /\ UNCHANGED <<step, request, worker, job, hooks, phase, resource, failures>>

\* drainHttp, and the pause() of every worker that drainWorkers starts with.
PauseWorkers ==
    /\ step' = "workers"
    /\ worker' = [w \in Workers |-> "pausing"]

HttpDrained ==
    /\ step = "http"
    /\ \A r \in Requests : request[r] = "none"
    /\ PauseWorkers
    /\ UNCHANGED <<graceOver, request, job, hooks, phase, resource, failures>>

HttpTimeout_Unreported ==
    /\ step = "http" /\ graceOver
    /\ request' = [r \in Requests |-> IF request[r] = "active" THEN "cut" ELSE request[r]]
    /\ PauseWorkers
    /\ UNCHANGED <<graceOver, job, hooks, phase, resource, failures>>

HttpTimeout ==
    /\ step = "http" /\ graceOver
    /\ request' = [r \in Requests |-> IF request[r] = "active" THEN "cut" ELSE request[r]]
    /\ failures' = TRUE
    /\ PauseWorkers
    /\ UNCHANGED <<graceOver, job, hooks, phase, resource>>

\* drainWorkers, for each worker in parallel.
Paused(w) ==
    /\ worker[w] = "pausing" /\ job[w] # "active"
    /\ worker' = [worker EXCEPT ![w] = "closing"]
    /\ UNCHANGED <<step, graceOver, request, job, hooks, phase, resource, failures>>

\* close(true) does not wait for the job; the lapse of its lock re-queues it.
PauseTimeout(w) ==
    /\ worker[w] = "pausing" /\ graceOver
    /\ worker' = [worker EXCEPT ![w] = "forced"]
    /\ job' = [job EXCEPT ![w] = IF @ = "active" THEN "cut" ELSE @]
    /\ failures' = TRUE
    /\ UNCHANGED <<step, graceOver, request, hooks, phase, resource>>

\* close() returns, or throws or exceeds its three seconds.
WorkerCloses(w) ==
    /\ worker[w] = "closing"
    /\ worker' = [worker EXCEPT ![w] = "closed"]
    /\ UNCHANGED <<step, graceOver, request, job, hooks, phase, resource, failures>>

WorkerCloseFails(w) ==
    /\ worker[w] \in {"pausing", "closing"}
    /\ worker' = [worker EXCEPT ![w] = "failed"]
    /\ failures' = TRUE
    /\ UNCHANGED <<step, graceOver, request, job, hooks, phase, resource>>

WorkersDrained ==
    /\ step = "workers"
    /\ \A w \in Workers : worker[w] \in {"closed", "forced", "failed"}
    /\ step' = "app"
    /\ hooks' = "running"
    /\ UNCHANGED <<graceOver, request, worker, job, phase, resource, failures>>

-----------------------------------------------------------------------------
(* closeApplication and closeResources                                     *)

\* The first caller of closeResources starts the phases, later ones wait for it.
CloseResources ==
    /\ phase' = IF phase = 0 THEN 1 ELSE phase
    /\ resource' = IF phase = 0
                   THEN [r \in Resources |-> IF PhaseOf[r] = 1 THEN "closing" ELSE "open"]
                   ELSE resource

\* The onModuleDestroy hooks are done: beforeApplicationShutdown.
HooksDone ==
    /\ hooks = "running"
    /\ hooks' = "done"
    /\ CloseResources
    /\ UNCHANGED <<step, graceOver, request, worker, job, failures>>

HooksThrow ==
    /\ hooks = "running"
    /\ hooks' = "thrown"
    /\ UNCHANGED <<step, graceOver, request, worker, job, phase, resource, failures>>

\* app.close() has resolved, has rejected, or is past its fifteen seconds.
AppCloses ==
    /\ step = "app" /\ hooks = "done" /\ phase = 4
    /\ step' = "resources"
    /\ UNCHANGED <<graceOver, request, worker, job, hooks, phase, resource, failures>>

AppFailsOrTimesOut_OnlyFails ==
    /\ step = "app" /\ hooks = "thrown"
    /\ step' = "resources"
    /\ failures' = TRUE
    /\ CloseResources
    /\ UNCHANGED <<graceOver, request, worker, job, hooks>>

AppFailsOrTimesOut ==
    /\ step = "app"
    /\ step' = "resources"
    /\ failures' = TRUE
    /\ CloseResources
    /\ UNCHANGED <<graceOver, request, worker, job, hooks>>

\* closeResource: the callback resolves, or it rejects or exceeds three seconds.
ResourceCloses(r) ==
    /\ resource[r] = "closing"
    /\ resource' = [resource EXCEPT ![r] = "closed"]
    /\ UNCHANGED <<step, graceOver, request, worker, job, hooks, phase, failures>>

ResourceFails(r) ==
    /\ resource[r] = "closing"
    /\ resource' = [resource EXCEPT ![r] = "failed"]
    /\ failures' = TRUE
    /\ UNCHANGED <<step, graceOver, request, worker, job, hooks, phase>>

PhaseMembers(p) == {r \in Resources : PhaseOf[r] = p}

PhaseSettled_Any == \E r \in PhaseMembers(phase) : resource[r] \in {"closed", "failed"}

PhaseSettled == \A r \in PhaseMembers(phase) : resource[r] \in {"closed", "failed"}

NextPhase ==
    /\ phase \in 1..3
    /\ PhaseSettled
    /\ phase' = phase + 1
    /\ resource' = [r \in Resources |-> IF PhaseOf[r] = phase + 1 THEN "closing" ELSE resource[r]]
    /\ UNCHANGED <<step, graceOver, request, worker, job, hooks, failures>>

Exit ==
    /\ step = "resources" /\ phase = 4
    /\ step' = IF failures THEN "exit1" ELSE "exit0"
    /\ UNCHANGED <<graceOver, request, worker, job, hooks, phase, resource, failures>>

\* What the coordinator and its timers are sure to do.
CoordinatorStep ==
    \/ GraceExpires \/ HttpDrained \/ HttpTimeout \/ WorkersDrained
    \/ AppCloses \/ AppFailsOrTimesOut \/ NextPhase \/ Exit
    \/ \E w \in Workers : Paused(w) \/ PauseTimeout(w) \/ WorkerCloses(w) \/ WorkerCloseFails(w)
    \/ \E r \in Resources : ResourceCloses(r) \/ ResourceFails(r)

\* process.exit ends whatever still runs.
Exited == step \in {"exit0", "exit1"}

ShutdownNext ==
    /\ ~Exited
    /\ \/ Signal \/ CoordinatorStep \/ HooksDone \/ HooksThrow
       \/ \E r \in Requests : Arrive(r) \/ Respond(r)
       \/ \E w \in Workers : Fetch(w) \/ JobEnds(w)

ShutdownSpec == ShutdownInit /\ [][ShutdownNext]_shutdownVars

\* Every wait of the coordinator ends by a timer.
ShutdownFairSpec == ShutdownSpec /\ WF_shutdownVars(CoordinatorStep)

-----------------------------------------------------------------------------
(* Properties                                                              *)

\* The coordinator, the work it drains and the resources keep their types.
ShutdownTypeOK ==
    /\ step \in {"serving", "http", "workers", "app", "resources", "exit0", "exit1"}
    /\ request \in [Requests -> {"none", "active", "cut"}]
    /\ worker \in [Workers -> {"running", "pausing", "closing", "closed", "forced", "failed"}]
    /\ job \in [Workers -> {"none", "active", "cut"}]
    /\ hooks \in {"none", "running", "done", "thrown"}
    /\ phase \in 0..4 /\ resource \in [Resources -> {"open", "closing", "closed", "failed"}]
    /\ graceOver \in BOOLEAN /\ failures \in BOOLEAN

\* Exit code 0 is "everything drained and closed": no request or job was cut
\* short, and every worker and resource is closed.
ExitZeroIsClean ==
    step = "exit0" =>
        /\ \A r \in Requests : request[r] = "none"
        /\ \A w \in Workers : worker[w] = "closed" /\ job[w] = "none"
        /\ \A r \in Resources : resource[r] = "closed"

\* Queues close before Redis and Redis before the database, each once the phase
\* before it has settled, and none while a request is being served or a job that
\* was not given up is running.
ResourcesCloseInOrder ==
    \A r \in Resources : resource[r] # "open" =>
        /\ \A q \in Resources : PhaseOf[q] < PhaseOf[r] => resource[q] \in {"closed", "failed"}
        /\ \A q \in Requests : request[q] # "active"
        /\ \A w \in Workers : job[w] = "active" => worker[w] = "failed"

\* "Always bounded, so it cannot hang": once begun, shutdown exits, even when
\* requests, jobs and lifecycle hooks never end.
ShutdownEnds == (step # "serving") ~> Exited

\* ShutdownCoordinator exits with 0 only when everything was drained and closed, and
\* closes a resource only after those of the earlier phases.  See ExitZeroIsClean,
\* ResourcesCloseInOrder.
ShutdownIsOrderly == ExitZeroIsClean /\ ResourcesCloseInOrder
=============================================================================
