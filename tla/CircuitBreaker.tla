--------------------------- MODULE CircuitBreaker ---------------------------
(***************************************************************************)
(* The in-process circuit breaker that wraps every Horizon / Soroban RPC   *)
(* call (src/common/circuit-breaker/circuit-breaker.ts).                   *)
(*                                                                         *)
(* execute() is one synchronous admission, an awaited operation, and one   *)
(* synchronous completion, so concurrent calls interleave exactly at the   *)
(* await.  A call therefore remembers how it was admitted while the        *)
(* breaker moves on underneath it.                                         *)
(*                                                                         *)
(* The clock is abstracted to `elapsed`, the time since the circuit opened *)
(* counted up to ResetTimeout.  A null openedAt reads as ResetTimeout,     *)
(* which is the default the code uses for it.                              *)
(***************************************************************************)
EXTENDS Integers, FiniteSets

CONSTANTS
    Callers,              \* concurrent calls through one breaker
    FailureThreshold,     \* options.failureThreshold
    ResetTimeout,         \* options.resetTimeoutMs, in clock ticks
    HalfOpenMaxAttempts,  \* options.halfOpenMaxAttempts
    IgnoredIn,            \* the calls that may meet an error isFailure rejects
    MaxFailures           \* failureCount saturates here, past every comparison

ASSUME BreakerAssumption ==
    /\ IsFiniteSet(Callers)
    /\ FailureThreshold \in Nat \ {0}
    /\ ResetTimeout \in Nat \ {0}
    /\ HalfOpenMaxAttempts \in Nat \ {0}
    /\ IgnoredIn \subseteq {"ordinary", "trial"}
    /\ MaxFailures \in Nat /\ MaxFailures >= FailureThreshold

VARIABLES
    state,             \* CircuitState
    failureCount,
    elapsed,           \* min(ResetTimeout, now - openedAt)
    halfOpenAttempts,
    call               \* [Callers -> CallStates]: each call of execute()

vars == <<state, failureCount, elapsed, halfOpenAttempts, call>>

CircuitState == {"CLOSED", "OPEN", "HALF_OPEN"}

\* A call awaits its operation as an ordinary call or as a trial; otherwise it
\* has not started, has returned, or failed fast with CircuitOpenException.
CallStates == {"idle", "ordinary", "trial", "failedFast"}

InFlight == {c \in Callers : call[c] \in {"ordinary", "trial"}}

Trials == {c \in Callers : call[c] = "trial"}

Init ==
    /\ state = "CLOSED"
    /\ failureCount = 0
    /\ elapsed = ResetTimeout
    /\ halfOpenAttempts = 0
    /\ call = [c \in Callers |-> "idle"]

-----------------------------------------------------------------------------
(* transitionTo                                                            *)

TransitionToOpen ==
    /\ state' = "OPEN"
    /\ elapsed' = 0
    /\ halfOpenAttempts' = 0

TransitionToClosed ==
    /\ state' = "CLOSED"
    /\ failureCount' = 0
    /\ elapsed' = ResetTimeout
    /\ halfOpenAttempts' = 0

-----------------------------------------------------------------------------
(* execute, up to the await                                                *)

MustFailFast ==
    \/ state = "OPEN" /\ elapsed < ResetTimeout
    \/ state = "HALF_OPEN" /\ halfOpenAttempts >= HalfOpenMaxAttempts

HandleFailFast(c) ==
    /\ call[c] = "idle"
    /\ MustFailFast
    /\ call' = [call EXCEPT ![c] = "failedFast"]
    /\ UNCHANGED <<state, failureCount, elapsed, halfOpenAttempts>>

ExecuteClosed(c) ==
    /\ call[c] = "idle"
    /\ state = "CLOSED"
    /\ call' = [call EXCEPT ![c] = "ordinary"]
    /\ UNCHANGED <<state, failureCount, elapsed, halfOpenAttempts>>

\* OPEN past the timeout becomes HALF_OPEN with no attempts, and the same call
\* then takes the first attempt.
ExecuteTrial(c) ==
    /\ call[c] = "idle"
    /\ state # "CLOSED"
    /\ ~MustFailFast
    /\ state' = "HALF_OPEN"
    /\ halfOpenAttempts' = IF state = "OPEN" THEN 1 ELSE halfOpenAttempts + 1
    /\ call' = [call EXCEPT ![c] = "trial"]
    /\ UNCHANGED <<failureCount, elapsed>>

-----------------------------------------------------------------------------
(* execute, after the await                                                *)

OnSuccess(c) ==
    /\ c \in InFlight
    /\ call' = [call EXCEPT ![c] = "idle"]
    /\ \/ state = "HALF_OPEN" /\ TransitionToClosed
       \/ /\ state # "HALF_OPEN"
          /\ failureCount' = 0
          /\ UNCHANGED <<state, elapsed, halfOpenAttempts>>

\* Mutants: re-opening an OPEN circuit; a failed trial that leaves
\* the circuit HALF_OPEN.
Trips_AnyState ==
    state = "HALF_OPEN" \/ failureCount + 1 >= FailureThreshold

Trips_ClosedOnly ==
    state = "CLOSED" /\ failureCount + 1 >= FailureThreshold

Trips ==
    \/ state = "HALF_OPEN"
    \/ state = "CLOSED" /\ failureCount + 1 >= FailureThreshold

OnFailure(c) ==
    /\ c \in InFlight
    /\ call' = [call EXCEPT ![c] = "idle"]
    /\ failureCount' = IF failureCount < MaxFailures THEN failureCount + 1 ELSE failureCount
    /\ IF Trips THEN TransitionToOpen
                ELSE UNCHANGED <<state, elapsed, halfOpenAttempts>>

\* An error isFailure does not count: onFailure returns before touching state.
OnIgnoredError(c) ==
    /\ c \in InFlight
    /\ call[c] \in IgnoredIn
    /\ call' = [call EXCEPT ![c] = "idle"]
    /\ UNCHANGED <<state, failureCount, elapsed, halfOpenAttempts>>

\* The caller that received CircuitOpenException may call again.
RetryAfterFailFast(c) ==
    /\ call[c] = "failedFast"
    /\ call' = [call EXCEPT ![c] = "idle"]
    /\ UNCHANGED <<state, failureCount, elapsed, halfOpenAttempts>>

Tick ==
    /\ elapsed < ResetTimeout
    /\ elapsed' = elapsed + 1
    /\ UNCHANGED <<state, failureCount, halfOpenAttempts, call>>

Execute(c) == HandleFailFast(c) \/ ExecuteClosed(c) \/ ExecuteTrial(c)

Complete(c) == OnSuccess(c) \/ OnFailure(c) \/ OnIgnoredError(c)

Next ==
    \/ \E c \in Callers : Execute(c) \/ Complete(c) \/ RetryAfterFailFast(c)
    \/ Tick

Spec == Init /\ [][Next]_vars

\* The event loop keeps running callbacks, time passes, operations settle and
\* callers keep calling; a failing operation is never required to happen, but
\* one that may settle either way settles.
Fairness ==
    /\ WF_vars(Tick)
    /\ \A c \in Callers :
          /\ WF_vars(Execute(c))
          /\ WF_vars(Complete(c))
          /\ WF_vars(RetryAfterFailFast(c))

FairSpec == Spec /\ Fairness

-----------------------------------------------------------------------------
(* Properties                                                              *)

\* The breaker's fields keep their types; no more than halfOpenMaxAttempts trials
\* are ever admitted.
TypeOK ==
    /\ state \in CircuitState
    /\ failureCount \in Nat
    /\ elapsed \in 0..ResetTimeout
    /\ halfOpenAttempts \in 0..HalfOpenMaxAttempts
    /\ call \in [Callers -> CallStates]

\* "Consecutive failures (while CLOSED) required to trip the circuit open":
\* however many calls were in flight when it closed or opened, a CLOSED circuit
\* never carries failureThreshold failures.
ClosedBelowThreshold ==
    state = "CLOSED" => failureCount < FailureThreshold

\* Trial calls are accounted for: a HALF_OPEN circuit has admitted at least one
\* and at most halfOpenMaxAttempts of them, and when isFailure counts every
\* error of a trial all of them are still awaiting their outcome.  Every admitted trial
\* can therefore still decide between CLOSED and OPEN, and a HALF_OPEN circuit
\* that fails calls fast is never left with nobody to decide it.
HalfOpenDecidable ==
    state = "HALF_OPEN" =>
        /\ halfOpenAttempts >= 1
        /\ "trial" \in IgnoredIn \/ halfOpenAttempts <= Cardinality(Trials)

\* "OPEN (within `resetTimeoutMs` of opening): fails fast": from the moment the
\* circuit opens, a full reset timeout passes in which no operation is invoked,
\* and the outcomes of calls that were in flight when it opened, or of the other
\* trials of the probe that failed, neither end that period nor start it again.
CooldownRespected ==
    [][state = "OPEN" =>
          /\ elapsed' >= elapsed
          /\ elapsed < ResetTimeout =>
                state' = "OPEN" /\ InFlight' \subseteq InFlight]_vars

\* "Half-open recovery probing is automatic: after `resetTimeoutMs` has elapsed,
\* trial calls are allowed through" (horizon-circuit-breaker.service.ts): a
\* circuit that keeps being called is, over and over, CLOSED or has a trial
\* awaiting its outcome.
RecoveryProbing == []<>(state = "CLOSED" \/ Trials # {})
=============================================================================
