------------------------------ MODULE MCRuntime ------------------------------
(***************************************************************************)
(* Instances of the building blocks every process uses, for TLC: the       *)
(* circuit breaker, the distributed lock, the shutdown coordinator, the    *)
(* guarded database clients, the migration checks at boot, the health      *)
(* probes and the retry loop.                                              *)
(* They do not share state, so one run checks them side by side: a         *)
(* behaviour moves the component `part` and leaves the others as they are. *)
(***************************************************************************)
EXTENDS CircuitBreaker, RedisLock, Shutdown, Readiness

CONSTANTS p1, p2, p3, w1, b1, b2, q1, q2, k1, d1

\* p1 and p2 spend from one budget of the wallet, p3 from another one.
MCWalletOf == [p \in Procs |-> w1]
MCBudgetOf == [p \in Procs |-> IF p = p3 THEN b2 ELSE b1]

\* Two queues, the shared Redis client and the database.
MCPhaseOf == [r \in Resources |-> IF r \in {q1, q2} THEN 1 ELSE IF r = k1 THEN 2 ELSE 3]

VARIABLE part

Parts == {"breaker", "lock", "shutdown", "database", "boot", "health", "retry"}

plainVars == <<dbVars, bootVars, healthVars, retryVars>>

runtimeVars == <<vars, lockVars, shutdownVars, plainVars, part>>

\* What a component chooses initially is chosen only where it moves.
RuntimeInit ==
    /\ part \in Parts
    /\ Init /\ LockInit /\ ShutdownInit /\ DbInit /\ HealthInit
    /\ BootInit
    /\ part # "boot" => instance.mode = "off" /\ instance.default = {} /\ instance.configured = {}
    /\ part # "boot" => \A m \in Migrations : history[m] = "none"
    /\ RetryInit /\ (part # "retry" => retryMode = "always")

Breaking(A) == part = "breaker" /\ A /\ UNCHANGED <<lockVars, shutdownVars, plainVars, part>>
Locking(A) == part = "lock" /\ A /\ UNCHANGED <<vars, shutdownVars, plainVars, part>>
Stopping(A) == part = "shutdown" /\ A /\ UNCHANGED <<vars, lockVars, plainVars, part>>

\* The components without fairness of their own.
Plain ==
    /\ \/ part = "database" /\ DbNext
       \/ part = "boot" /\ BootNext
       \/ part = "health" /\ HealthNext
       \/ part = "retry" /\ RetryNext
    /\ UNCHANGED <<vars, lockVars, shutdownVars, part>>
    /\ part # "database" => UNCHANGED dbVars
    /\ part # "boot" => UNCHANGED bootVars
    /\ part # "health" => UNCHANGED healthVars
    /\ part # "retry" => UNCHANGED retryVars

RuntimeNext == Breaking(Next) \/ Locking(LockNext) \/ Stopping(ShutdownNext) \/ Plain

\* Fairness, LockFairness and ShutdownFairness of the component that moves.
RuntimeFairSpec ==
    /\ RuntimeInit /\ [][RuntimeNext]_runtimeVars
    /\ WF_vars(Breaking(Tick))
    /\ \A c \in Callers :
        /\ WF_vars(Breaking(Execute(c)))
        /\ WF_vars(Breaking(Complete(c)))
        /\ WF_vars(Breaking(RetryAfterFailFast(c)))
    /\ \A p \in Procs : WF_lockVars(Locking(Work(p)))
    /\ \A k \in Keys : WF_lockVars(Locking(Expire(k)))
    /\ WF_shutdownVars(Stopping(CoordinatorStep))

-----------------------------------------------------------------------------
(* Properties                                                              *)

\* What has started comes to an end: an open breaker is probed again, a lock is freed,
\* a shutdown finishes.  See RecoveryProbing, LockIsFreed, ShutdownEnds.
RuntimeProgress == RecoveryProbing /\ LockIsFreed /\ ShutdownEnds
=============================================================================
