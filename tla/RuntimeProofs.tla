---------------------------- MODULE RuntimeProofs ----------------------------
(***************************************************************************)
(* Proofs about the building blocks of MCRuntime, for every value of their *)
(* constants.                                                              *)
(***************************************************************************)
EXTENDS Shutdown, Readiness, FiniteSetTheorems, TLAPS

-----------------------------------------------------------------------------
(* Shutdown                                                                *)

\* What each step of run() has left behind: the workers run until HTTP is drained,
\* nothing is active once they are, and the hooks and the phases come after both.
StepsDone ==
    /\ step \in {"serving", "http"} => \A w \in Workers : worker[w] = "running"
    /\ step \notin {"serving", "http"} =>
         /\ \A r \in Requests : request[r] # "active"
         /\ \A w \in Workers : worker[w] # "running"
    /\ step \in {"serving", "http", "workers"} => hooks = "none" /\ phase = 0
    /\ step \in {"app", "resources", "exit0", "exit1"} =>
         \A w \in Workers : worker[w] \in {"closed", "forced", "failed"}
    /\ \A w \in Workers : worker[w] \in {"closing", "closed", "forced"} => job[w] # "active"

\* The phases before the current one have settled, those after it are untouched.
PhasesInOrder ==
    \A r \in Resources :
        /\ PhaseOf[r] < phase => resource[r] \in {"closed", "failed"}
        /\ PhaseOf[r] > phase => resource[r] = "open"

\* Whatever was cut short or failed has been collected.
FailuresCollected ==
    ~failures =>
        /\ \A r \in Requests : request[r] # "cut"
        /\ \A w \in Workers : worker[w] \notin {"forced", "failed"} /\ job[w] # "cut"
        /\ \A r \in Resources : resource[r] # "failed"

ShutdownInv ==
    /\ ShutdownTypeOK /\ StepsDone /\ PhasesInOrder /\ FailuresCollected
    /\ step = "exit0" => ~failures /\ phase = 4

\* Every step of the coordinator and of what it waits for keeps the invariant.
LEMMA ShutdownStep == ShutdownInv /\ [ShutdownNext]_shutdownVars => ShutdownInv'
  <1> SUFFICES ASSUME ShutdownInv, [ShutdownNext]_shutdownVars PROVE ShutdownInv'
    OBVIOUS
  <1> USE ShutdownAssumption DEF ShutdownAssumption, ShutdownInv, ShutdownTypeOK, StepsDone,
          PhasesInOrder, FailuresCollected, Exited
  <1>1. CASE ~Exited /\ Signal
    BY <1>1 DEF Signal
  <1>2. CASE ~Exited /\ GraceExpires
    <2>1. graceOver' \in BOOLEAN
      BY <1>2 DEF GraceExpires
    <2>2. UNCHANGED <<step, request, worker, job, hooks, phase, resource, failures>>
      BY <1>2 DEF GraceExpires
    <2> QED
      BY <2>1, <2>2
  <1>3. CASE ~Exited /\ HttpDrained
    BY <1>3 DEF HttpDrained, PauseWorkers
  <1>4. CASE ~Exited /\ HttpTimeout
    <2>1. ShutdownTypeOK' /\ PhasesInOrder' /\ FailuresCollected'
      BY <1>4 DEF HttpTimeout, PauseWorkers
    <2>2. StepsDone' /\ step' # "exit0"
      BY <1>4 DEF HttpTimeout, PauseWorkers
    <2> QED
      BY <2>1, <2>2
  <1>5. CASE ~Exited /\ WorkersDrained
    BY <1>5 DEF WorkersDrained
  <1>6. CASE ~Exited /\ AppCloses
    BY <1>6 DEF AppCloses
  <1>7. CASE ~Exited /\ AppFailsOrTimesOut
    <2>1. ShutdownTypeOK' /\ StepsDone'
      BY <1>7 DEF AppFailsOrTimesOut, CloseResources
    <2>2. PhasesInOrder'
      BY <1>7 DEF AppFailsOrTimesOut, CloseResources
    <2>3. FailuresCollected' /\ step' # "exit0"
      BY <1>7 DEF AppFailsOrTimesOut, CloseResources
    <2> QED
      BY <2>1, <2>2, <2>3, SMTT(30)
  <1>8. CASE ~Exited /\ NextPhase
    BY <1>8 DEF NextPhase, PhaseSettled, PhaseMembers
  <1>9. CASE ~Exited /\ Exit
    BY <1>9 DEF Exit
  <1>10. ASSUME NEW w \in Workers, ~Exited, Paused(w) PROVE ShutdownInv'
    BY <1>10 DEF Paused
  <1>11. ASSUME NEW w \in Workers, ~Exited, PauseTimeout(w) PROVE ShutdownInv'
    BY <1>11 DEF PauseTimeout
  <1>12. ASSUME NEW w \in Workers, ~Exited, WorkerCloses(w) PROVE ShutdownInv'
    BY <1>12 DEF WorkerCloses
  <1>13. ASSUME NEW w \in Workers, ~Exited, WorkerCloseFails(w) PROVE ShutdownInv'
    BY <1>13 DEF WorkerCloseFails
  <1>14. ASSUME NEW r \in Resources, ~Exited, ResourceCloses(r) PROVE ShutdownInv'
    BY <1>14 DEF ResourceCloses
  <1>15. ASSUME NEW r \in Resources, ~Exited, ResourceFails(r) PROVE ShutdownInv'
    BY <1>15 DEF ResourceFails
  <1>16. CASE ~Exited /\ (HooksDone \/ HooksThrow)
    BY <1>16 DEF HooksDone, HooksThrow, CloseResources
  <1>17. ASSUME NEW r \in Requests, ~Exited, Arrive(r) \/ Respond(r) PROVE ShutdownInv'
    BY <1>17 DEF Arrive, Respond
  <1>18. ASSUME NEW w \in Workers, ~Exited, Fetch(w) \/ JobEnds(w) PROVE ShutdownInv'
    BY <1>18 DEF Fetch, JobEnds
  <1>19. CASE UNCHANGED shutdownVars
    BY <1>19 DEF shutdownVars
  <1> QED
    BY <1>1, <1>3, <1>4, <1>5, <1>6, <1>7, <1>8, <1>9, <1>10, <1>11, <1>12, <1>13, <1>14,
       <1>15, <1>16, <1>17, <1>18, <1>19, <1>2, Zenon
    DEF ShutdownNext, CoordinatorStep

\* However requests, jobs, hooks and close callbacks behave, the exit code is 0 only
\* when nothing was cut short or left open, and a resource is closed only after the
\* phases before it, with no request or job still using it.
THEOREM ShutdownOrderly == ShutdownSpec => []ShutdownIsOrderly
  <1>1. ShutdownInit => ShutdownInv
    <2> SUFFICES ASSUME ShutdownInit PROVE ShutdownInv
      OBVIOUS
    <2>1. graceOver \in BOOLEAN /\ failures \in BOOLEAN
      BY Zenon DEF ShutdownInit
    <2>2. ShutdownTypeOK
      <3>1. step \in {"serving"} /\ hooks \in {"none"} /\ phase \in 0..4
        BY DEF ShutdownInit
      <3>2. /\ request \in [Requests -> {"none"}] /\ worker \in [Workers -> {"running"}]
            /\ job \in [Workers -> {"none"}] /\ resource \in [Resources -> {"open"}]
        BY DEF ShutdownInit
      <3> QED
        BY <2>1, <3>1, <3>2 DEF ShutdownTypeOK
    <2>3. StepsDone /\ step # "exit0"
      BY DEF ShutdownInit, StepsDone
    <2>4. PhasesInOrder
      BY ShutdownAssumption DEF ShutdownAssumption, ShutdownInit, PhasesInOrder
    <2>5. FailuresCollected
      BY DEF ShutdownInit, FailuresCollected
    <2> QED
      BY <2>2, <2>3, <2>4, <2>5 DEF ShutdownInv
  <1>2. ShutdownInv => ShutdownIsOrderly
    <2> SUFFICES ASSUME ShutdownInv PROVE ShutdownIsOrderly
      OBVIOUS
    <2> USE ShutdownAssumption DEF ShutdownAssumption, ShutdownInv, ShutdownTypeOK, StepsDone,
            PhasesInOrder
    <2>1. ExitZeroIsClean
      BY DEF ExitZeroIsClean, FailuresCollected
    <2>2. ResourcesCloseInOrder
      BY DEF ResourcesCloseInOrder
    <2> QED
      BY <2>1, <2>2 DEF ShutdownIsOrderly
  <1> QED
    BY <1>1, <1>2, ShutdownStep, PTL DEF ShutdownSpec

-----------------------------------------------------------------------------
(* The retry loop                                                          *)

\* The powers of two, counted as sets: a set with one more element has twice the subsets.
LEMMA Doubling ==
    ASSUME NEW n \in Nat
    PROVE  2^n \in Nat /\ 2^(n + 1) = 2 * 2^n
  <1> DEFINE A == SUBSET (1..n)
             B == {T \cup {n + 1} : T \in A}
             f == [T \in A |-> T \cup {n + 1}]
  <1>1. Cardinality(1..n) = n /\ IsFiniteSet(1..n)
    BY FS_Interval
  <1>2. Cardinality(1..(n + 1)) = n + 1 /\ IsFiniteSet(1..(n + 1))
    BY FS_Interval
  <1>3. IsFiniteSet(A) /\ Cardinality(A) = 2^n
    BY <1>1, FS_SUBSET, Zenon
  <1>4. Cardinality(SUBSET (1..(n + 1))) = 2^(n + 1)
    BY <1>2, FS_SUBSET, Zenon
  <1>5. SUBSET (1..(n + 1)) = A \cup B
    <2>1. ASSUME NEW T \in SUBSET (1..(n + 1)) PROVE T \in A \cup B
      <3>1. CASE n + 1 \in T
        <4>1. T \ {n + 1} \in A /\ T = (T \ {n + 1}) \cup {n + 1}
          BY <2>1, <3>1
        <4> QED
          BY <4>1, Zenon
      <3>2. CASE n + 1 \notin T
        BY <2>1, <3>2
      <3> QED
        BY <3>1, <3>2
    <2>2. ASSUME NEW T \in A PROVE T \subseteq 1..(n + 1) /\ T \cup {n + 1} \subseteq 1..(n + 1)
      BY <2>2
    <2>3. A \cup B \subseteq SUBSET (1..(n + 1))
      BY <2>2, ZenonT(60)
    <2> QED
      BY <2>1, <2>3, Zenon
  <1>6. A \cap B = {}
    OBVIOUS
  <1>7. f \in Bijection(A, B)
    <2>1. f \in [A -> B] /\ \A T \in B : \E U \in A : f[U] = T
      BY Zenon
    <2>2. \A T, U \in A : f[T] = f[U] => T = U
      <3>1. \A T \in A : n + 1 \notin T
        OBVIOUS
      <3> QED
        BY <3>1
    <2> HIDE DEF f
    <2> QED
      BY <2>1, <2>2, Zenon DEF Bijection, Injection, Surjection, IsInjective
  <1>8. IsFiniteSet(B) /\ Cardinality(B) = 2^n
    BY <1>3, <1>7, FS_Bijection DEF ExistsBijection
  <1>9. Cardinality(A \cup B) = Cardinality(A) + Cardinality(B) - Cardinality(A \cap B)
    BY <1>3, <1>8, FS_Union, Zenon
  <1>10. 2^n \in Nat
    BY <1>3, FS_CardinalityType
  <1> HIDE DEF A, B
  <1>11. 2^(n + 1) = Cardinality(A \cup B)
    BY <1>4, <1>5, Zenon
  <1>12. Cardinality(A \cup B) = Cardinality(A) + Cardinality(B) - 0
    BY <1>6, <1>9, FS_EmptySet
  <1> DEFINE c == Cardinality(A)
  <1>13. c \in Nat /\ 2^n = c /\ Cardinality(B) = c
    BY <1>3, <1>8, <1>10
  <1>14. Cardinality(A \cup B) = 2 * c
    <2> HIDE DEF c
    <2> QED
      BY <1>12, <1>13 DEF c
  <1> QED
    BY <1>11, <1>13, <1>14

\* What is drawn for an attempt is no more than what the doubling adds for the next.
LEMMA JitterBelowDoubling ==
    ASSUME NEW n \in Nat \ {0}, n <= 2^(n - 1), NEW j \in 0..JitterRange(n)
    PROVE  /\ ExponentialBackoffDelay(n) \in Nat
           /\ ExponentialBackoffDelay(n) + j <= ExponentialBackoffDelay(n + 1)
  <1> DEFINE d == 2^(n - 1)
             k == BaseDelay * n
  <1>1. d \in Nat /\ 2^n = 2 * d
    BY Doubling, n - 1 \in Nat, (n - 1) + 1 = n
  <1>2. k \in Nat /\ BaseDelay * JitterPercent * n = JitterPercent * k
    BY RetryAssumption DEF RetryAssumption
  <1>3. JitterPercent * k <= 100 * k /\ JitterPercent * k \in Nat
    <2> HIDE DEF k
    <2> QED
      BY <1>2, RetryAssumption DEF RetryAssumption
  <1>4. JitterRange(n) <= k /\ JitterRange(n) \in Nat
    <2> DEFINE m == JitterPercent * k
    <2>1. JitterRange(n) = m \div 100
      BY <1>2 DEF JitterRange
    <2>2. m \in Nat /\ m <= 100 * k /\ k \in Nat
      BY <1>2, <1>3
    <2> HIDE DEF m, k
    <2> QED
      BY <2>1, <2>2
  <1>5. k <= BaseDelay * d /\ BaseDelay * d \in Nat
    BY <1>1, RetryAssumption DEF RetryAssumption
  <1>6. ExponentialBackoffDelay(n) = BaseDelay * d
    BY DEF ExponentialBackoffDelay
  <1>7. ExponentialBackoffDelay(n + 1) = 2 * (BaseDelay * d)
    <2>1. ExponentialBackoffDelay(n + 1) = BaseDelay * 2^n
      BY (n + 1) - 1 = n DEF ExponentialBackoffDelay
    <2> HIDE DEF d
    <2> QED
      BY <1>1, <2>1, RetryAssumption DEF RetryAssumption
  <1> HIDE DEF d, k
  <1> QED
    BY <1>4, <1>5, <1>6, <1>7, <1>2

\* The delay is bounded by what doubling gives for the attempt at hand or, asleep, for
\* the next one; the attempt's number is no more than its power of two; and a loop that
\* asks for transient errors sleeps after one.
RetryInv ==
  /\ retryLoop \in [pc : {"calling", "sleeping", "returned", "thrown"},
                    attempt : 1..MaxRetryAttempts, error : RetryErrors]
  /\ retryDelay \in 0..MaxDelay
  /\ retryLoop.attempt <= 2^(retryLoop.attempt - 1)
  /\ retryLoop.pc = "calling" => retryDelay <= ExponentialBackoffDelay(retryLoop.attempt)
  /\ retryLoop.pc = "sleeping" =>
       /\ retryLoop.attempt < MaxRetryAttempts
       /\ retryDelay <= ExponentialBackoffDelay(retryLoop.attempt + 1)
       /\ retryMode = "transient" => IsTransientNetworkError(retryLoop.error)

\* One step of the loop keeps the invariant, and no delay is shorter than the one before.
LEMMA RetryStep == RetryInv /\ [RetryNext]_retryVars => RetryInv' /\ DelaysNeverShrink
  <1> SUFFICES ASSUME RetryInv, [RetryNext]_retryVars PROVE RetryInv' /\ DelaysNeverShrink
    OBVIOUS
  <1> DEFINE n == retryLoop.attempt
  <1>0. n \in Nat \ {0} /\ n <= MaxRetryAttempts /\ n <= 2^(n - 1) /\ retryDelay \in Nat /\ MaxDelay \in Nat
    BY RetryAssumption DEF RetryAssumption, RetryInv
  <1>1. CASE RetrySucceeds \/ RetryThrows
    <2>1. /\ retryLoop' \in [pc : {"calling", "sleeping", "returned", "thrown"},
                             attempt : 1..MaxRetryAttempts, error : RetryErrors]
          /\ retryLoop'.pc \in {"returned", "thrown"} /\ retryLoop'.attempt = n
          /\ retryDelay' = retryDelay
      BY <1>1, Zenon DEF RetrySucceeds, RetryThrows, RetryInv
    <2> QED
      BY <2>1, <1>0, SMTT(30) DEF RetryInv, DelaysNeverShrink
  <1>2. CASE RetrySleeps
    <2>1. PICK e \in RetryErrors, j \in 0..JitterRange(n) :
            /\ retryMode = "transient" => IsTransientNetworkError(e)
            /\ retryLoop' = [retryLoop EXCEPT !.pc = "sleeping", !.error = e]
            /\ retryDelay' = ComputeDelay(n, j)
      BY <1>2, Zenon DEF RetrySleeps
    <2>2. /\ retryLoop' \in [pc : {"calling", "sleeping", "returned", "thrown"},
                             attempt : 1..MaxRetryAttempts, error : RetryErrors]
          /\ retryLoop'.pc = "sleeping" /\ retryLoop'.attempt = n /\ retryLoop'.error = e
          /\ n < MaxRetryAttempts /\ retryMode' = retryMode
      BY <1>2, <2>1, Zenon DEF RetrySleeps, RetryInv
    <2>3. /\ ExponentialBackoffDelay(n) \in Nat
          /\ ExponentialBackoffDelay(n) + j <= ExponentialBackoffDelay(n + 1)
      BY <1>0, JitterBelowDoubling
    <2>4. retryDelay <= ExponentialBackoffDelay(n) /\ j \in Nat
      BY <1>2, <2>1 DEF RetrySleeps, RetryInv
    <2> HIDE DEF n
    <2>5. ExponentialBackoffDelay(n + 1) \in Int
      BY <1>0, <2>3, Doubling, n + 1 - 1 = n, RetryAssumption
      DEF ExponentialBackoffDelay, RetryAssumption
    <2>6. /\ retryDelay' \in 0..MaxDelay /\ retryDelay' >= retryDelay
          /\ retryDelay' <= ExponentialBackoffDelay(n + 1)
      BY <1>0, <2>1, <2>3, <2>4, <2>5 DEF ComputeDelay, RetryInv
    <2> QED
      BY <1>0, <2>1, <2>2, <2>6, SMTT(30) DEF RetryInv, DelaysNeverShrink
  <1>3. CASE RetryWakes
    <2>4. /\ retryLoop.pc = "sleeping" /\ retryDelay' = retryDelay
          /\ retryLoop' = [retryLoop EXCEPT !.pc = "calling", !.attempt = n + 1]
      BY <1>3 DEF RetryWakes
    <2>5. n + 1 \in 1..MaxRetryAttempts /\ retryDelay <= ExponentialBackoffDelay(n + 1)
      BY <2>4, <1>0, RetryAssumption DEF RetryInv, RetryAssumption
    <2>1. /\ retryLoop' \in [pc : {"calling", "sleeping", "returned", "thrown"},
                             attempt : 1..MaxRetryAttempts, error : RetryErrors]
          /\ retryLoop'.pc = "calling" /\ retryLoop'.attempt = n + 1 /\ retryDelay' = retryDelay
          /\ retryDelay <= ExponentialBackoffDelay(n + 1)
      BY <2>4, <2>5, Zenon DEF RetryInv
    <2>2. n + 1 <= 2^n
      <3>1. 2^(n - 1) \in Nat /\ 2^n = 2 * 2^(n - 1)
        BY <1>0, Doubling, n - 1 \in Nat, (n - 1) + 1 = n
      <3> DEFINE d == 2^(n - 1)
      <3> HIDE DEF d, n
      <3> QED
        BY <1>0, <3>1 DEF d
    <2>3. retryLoop'.attempt <= 2^(retryLoop'.attempt - 1)
      BY <2>1, <2>2, <1>0, (n + 1) - 1 = n
    <2> QED
      BY <2>1, <2>3, <1>0 DEF RetryInv, DelaysNeverShrink
  <1>4. CASE UNCHANGED retryVars
    BY <1>4, <1>0 DEF retryVars, RetryInv, DelaysNeverShrink
  <1> QED
    BY <1>1, <1>2, <1>3, <1>4 DEF RetryNext

\* The first attempt is made at once.
LEMMA RetryStarts == RetryInit => RetryInv
  <1> SUFFICES ASSUME RetryInit PROVE RetryInv
    OBVIOUS
  <1>1. /\ retryLoop \in [pc : {"calling", "sleeping", "returned", "thrown"},
                          attempt : 1..MaxRetryAttempts, error : RetryErrors]
        /\ retryLoop.pc = "calling" /\ retryLoop.attempt = 1 /\ retryDelay = 0
    BY RetryAssumption, SMTT(30) DEF RetryInit, RetryErrors, RetryAssumption
  <1>2. 2^0 = 1
    BY FS_EmptySet, FS_SUBSET, FS_Singleton, SUBSET {} = {{}}, SMTT(30)
  <1>3. 1 <= 2^(1 - 1) /\ ExponentialBackoffDelay(1) = BaseDelay
    BY <1>2, RetryAssumption DEF RetryAssumption, ExponentialBackoffDelay
  <1> QED
    BY <1>1, <1>3, RetryAssumption, SMTT(30) DEF RetryInv, RetryAssumption

-----------------------------------------------------------------------------
(* The guarded database clients                                            *)

\* The record of one operation.
DbQuery ==
  [client : {"api", "worker"}, issued : Nat, pc : {"queued", "running", "over"}, ran : Nat,
   caller : {"waiting", "ok", "error", "DB_POOL_EXHAUSTED", "DB_QUERY_TIMEOUT"}, effect : BOOLEAN]

\* What holds of one operation at a time: it has an effect only when it is over, until
\* then its caller waits or was told of the timeout, and no timer is late.
QueryInOrder(q, now) ==
  /\ q.issued <= now /\ q.ran <= now
  /\ q.effect => q.pc = "over" /\ q.caller \in {"ok", "DB_QUERY_TIMEOUT"}
  /\ q.caller = "ok" => q.effect
  /\ q.pc # "over" => q.caller \in {"waiting", "DB_QUERY_TIMEOUT"}
  /\ q.caller = "waiting" => now - q.issued <= QueryTimeoutOf(q.client)
  /\ q.client = "api" /\ q.pc = "running" => now - q.ran <= ApiStatementTimeout
  /\ q.pc = "queued" => now - q.issued <= PoolTimeout

DbInv ==
  /\ dbClock \in Nat
  /\ dbQueries \in Seq(DbQuery)
  /\ \A i \in DOMAIN dbQueries : QueryInOrder(dbQueries[i], dbClock)
  /\ \A client \in {"api", "worker"} : InUse(client) <= Connections(client)

\* The connections in use are finitely many.
LEMMA ConnectedFinite ==
    ASSUME dbQueries \in Seq(DbQuery), NEW client
    PROVE  IsFiniteSet(Connected(client)) /\ InUse(client) \in Nat
  <1>1. Connected(client) \subseteq 1..Len(dbQueries) /\ Len(dbQueries) \in Nat
    BY DEF Connected
  <1>2. IsFiniteSet(1..Len(dbQueries))
    BY <1>1, FS_Interval, SMTT(30)
  <1> QED
    BY <1>1, <1>2, FS_Subset, FS_CardinalityType, SMTT(30) DEF InUse

\* An operation that gets no connection adds none to those in use.
LEMMA NoMoreInUse ==
    ASSUME DbInv, NEW client \in {"api", "worker"}, Connected(client)' \subseteq Connected(client)
    PROVE  InUse(client)' <= Connections(client)
  <1>1. IsFiniteSet(Connected(client)) /\ InUse(client) \in Nat
    BY ConnectedFinite DEF DbInv
  <1>2. IsFiniteSet(Connected(client)') /\ Cardinality(Connected(client)') <= Cardinality(Connected(client))
    BY <1>1, FS_Subset
  <1>3. Cardinality(Connected(client)') \in Nat /\ Connections(client) \in Nat
    BY <1>2, FS_CardinalityType, DatabaseGuardAssumption DEF DatabaseGuardAssumption, Connections
  <1> QED
    BY <1>1, <1>2, <1>3 DEF InUse, DbInv

\* One operation is replaced by another that is in order and holds no new connection.
LEMMA QueryReplaced ==
    ASSUME DbInv, NEW i \in DOMAIN dbQueries, NEW q \in DbQuery, QueryInOrder(q, dbClock),
           q.pc = "running" => dbQueries[i].pc = "running",
           q.client = dbQueries[i].client,
           dbQueries' = [dbQueries EXCEPT ![i] = q], UNCHANGED dbClock
    PROVE  DbInv'
  <1>1. dbQueries' \in Seq(DbQuery) /\ DOMAIN dbQueries' = DOMAIN dbQueries
    BY DEF DbInv
  <1>2. \A j \in DOMAIN dbQueries' : QueryInOrder(dbQueries'[j], dbClock')
    BY <1>1 DEF DbInv
  <1>3. \A client \in {"api", "worker"} : Connected(client)' \subseteq Connected(client)
    BY <1>1 DEF Connected, DbInv
  <1>4. \A client \in {"api", "worker"} : (InUse(client) <= Connections(client))'
    BY <1>3, NoMoreInUse DEF Connections
  <1> QED
    BY <1>1, <1>2, <1>4 DEF DbInv

\* Forgetting the times of an operation that is over and answered keeps it in order.
LEMMA KeptInOrder ==
    ASSUME DbInv, NEW e \in DbQuery, QueryInOrder(e, dbClock)
    PROVE  /\ Kept(e) \in DbQuery /\ QueryInOrder(Kept(e), dbClock)
           /\ Kept(e).pc = e.pc /\ Kept(e).client = e.client
  <1>1. CASE e.pc = "over" /\ e.caller # "waiting"
    <2> DEFINE k == Kept(e)
    <2>1. /\ k \in DbQuery /\ k.pc = e.pc /\ k.client = e.client /\ k.effect = e.effect
          /\ k.caller = e.caller /\ k.issued = 0 /\ k.ran = 0
      BY <1>1, Zenon DEF Kept, DbQuery
    <2> HIDE DEF k
    <2>2. QueryInOrder(k, dbClock)
      BY <1>1, <2>1 DEF QueryInOrder, DbInv
    <2> QED
      BY <2>1, <2>2 DEF k
  <1>2. CASE ~(e.pc = "over" /\ e.caller # "waiting")
    BY <1>2 DEF Kept
  <1> QED
    BY <1>1, <1>2, SMTT(30)

\* Every step of the clients, the pools and the timers keeps the invariant.
LEMMA DbStep == DbInv /\ [DbNext]_dbVars => DbInv'
  <1> SUFFICES ASSUME DbInv, [DbNext]_dbVars PROVE DbInv'
    OBVIOUS
  <1>1. ASSUME NEW client \in {"api", "worker"}, IssueQuery(client) PROVE DbInv'
    <2> DEFINE q == [client |-> client, issued |-> dbClock, pc |-> "queued", ran |-> 0,
                     caller |-> "waiting", effect |-> FALSE]
    <2>1. q \in DbQuery /\ QueryInOrder(q, dbClock)
      BY DatabaseGuardAssumption, SMTT(30)
      DEF DatabaseGuardAssumption, DbQuery, DbInv, QueryInOrder, QueryTimeoutOf
    <2>2. dbQueries' = Append(dbQueries, q) /\ dbClock' = dbClock /\ q.pc = "queued"
      BY <1>1, SMTT(30) DEF IssueQuery
    <2> HIDE DEF q
    <2>3. dbQueries' \in Seq(DbQuery)
      BY <2>1, <2>2, SMTT(30) DEF DbInv
    <2>4. \A i \in DOMAIN dbQueries' : QueryInOrder(dbQueries'[i], dbClock')
      BY <2>1, <2>2, SMTT(30) DEF DbInv
    <2>5. \A c \in {"api", "worker"} : Connected(c)' \subseteq Connected(c)
      BY <2>2 DEF Connected, DbInv
    <2>6. \A c \in {"api", "worker"} : (InUse(c) <= Connections(c))'
      BY <2>5, NoMoreInUse DEF Connections
    <2> QED
      BY <2>2, <2>3, <2>4, <2>6, SMTT(30) DEF DbInv
  <1>2. ASSUME NEW i \in DOMAIN dbQueries, AcquireConnection(i) PROVE DbInv'
    <2> DEFINE q == dbQueries[i]
               r == [dbQueries[i] EXCEPT !.pc = "running", !.ran = dbClock]
    <2>1. q \in DbQuery /\ q.pc = "queued" /\ InUse(q.client) < Connections(q.client)
      BY <1>2 DEF AcquireConnection, DbInv
    <2>2. dbQueries' = [dbQueries EXCEPT ![i] = r] /\ dbClock' = dbClock
      BY <1>2, Zenon DEF AcquireConnection, DbInv
    <2>3. r \in DbQuery /\ QueryInOrder(r, dbClock) /\ r.pc = "running" /\ r.client = q.client
      <3>1. q.caller \in {"waiting", "DB_QUERY_TIMEOUT"} /\ q.issued <= dbClock /\ ~q.effect
        BY <2>1, Zenon DEF DbInv, QueryInOrder
      <3>2. q.caller = "waiting" => dbClock - q.issued <= QueryTimeoutOf(q.client)
        BY DEF DbInv, QueryInOrder
      <3>3. /\ r \in DbQuery /\ r.pc = "running" /\ r.ran = dbClock
            /\ r.client = q.client /\ r.issued = q.issued /\ r.caller = q.caller /\ r.effect = q.effect
        BY <2>1, Zenon DEF DbQuery, DbInv
      <3> HIDE DEF r, q
      <3>4. QueryInOrder(r, dbClock)
        BY <3>1, <3>2, <3>3, DatabaseGuardAssumption DEF DatabaseGuardAssumption, DbInv, QueryInOrder
      <3> QED
        BY <3>3, <3>4
    <2> HIDE DEF r
    <2>4. dbQueries' \in Seq(DbQuery) /\ DOMAIN dbQueries' = DOMAIN dbQueries
      BY <2>2, <2>3 DEF DbInv
    <2>5. \A j \in DOMAIN dbQueries' : QueryInOrder(dbQueries'[j], dbClock')
      BY <2>2, <2>3, <2>4 DEF DbInv
    <2>6. ASSUME NEW c \in {"api", "worker"} PROVE (InUse(c) <= Connections(c))'
      <3>1. CASE c # q.client
        <4>1. Connected(c)' \subseteq Connected(c)
          BY <2>2, <2>3, <2>4, <3>1, SMTT(30) DEF Connected, DbInv
        <4> QED
          BY <4>1, NoMoreInUse, SMTT(30) DEF Connections
      <3>2. CASE c = q.client
        <4>1. Connected(c)' = Connected(c) \cup {i}
          BY <2>2, <2>3, <2>4, <3>2, SMTT(30) DEF Connected, DbInv
        <4>2. IsFiniteSet(Connected(c)) /\ InUse(c) \in Nat
          BY ConnectedFinite, SMTT(30) DEF DbInv
        <4>3. InUse(c)' <= InUse(c) + 1 /\ InUse(c)' \in Nat
          <5>1. Cardinality(Connected(c) \cup {i}) =
                  IF i \in Connected(c) THEN InUse(c) ELSE InUse(c) + 1
            BY <4>2, FS_AddElement, Zenon DEF InUse
          <5>2. InUse(c)' = Cardinality(Connected(c) \cup {i})
            BY <4>1, Zenon DEF InUse
          <5> QED
            BY <4>2, <5>1, <5>2, SMTT(30)
        <4>4. Connections(c) \in Nat
          BY DatabaseGuardAssumption DEF DatabaseGuardAssumption, Connections
        <4> QED
          BY <2>1, <3>2, <4>2, <4>3, <4>4, SMTT(30) DEF Connections
      <3> QED
        BY <3>1, <3>2
    <2> QED
      BY <2>2, <2>4, <2>5, <2>6 DEF DbInv
  <1>3. ASSUME NEW i \in DOMAIN dbQueries, StatementEnds(i) PROVE DbInv'
    <2> DEFINE q == dbQueries[i]
    <2>1. q \in DbQuery /\ QueryInOrder(q, dbClock) /\ q.pc = "running" /\ dbClock' = dbClock
      BY <1>3 DEF StatementEnds, DbInv
    <2>2. PICK ok \in BOOLEAN :
            dbQueries' = [dbQueries EXCEPT ![i] =
              Kept([q EXCEPT !.pc = "over", !.effect = ok,
                             !.caller = Told(q, IF ok THEN "ok" ELSE "error")])]
      BY <1>3, Zenon DEF StatementEnds
    <2> DEFINE e == [q EXCEPT !.pc = "over", !.effect = ok,
                              !.caller = Told(q, IF ok THEN "ok" ELSE "error")]
    <2>3. /\ e \in DbQuery /\ e.pc = "over" /\ e.client = q.client /\ e.effect = ok
          /\ e.issued = q.issued /\ e.ran = q.ran
          /\ e.caller = Told(q, IF ok THEN "ok" ELSE "error")
      BY <2>1, Zenon DEF DbQuery, Told
    <2> HIDE DEF e, q
    <2>4. QueryInOrder(e, dbClock)
      <3>1. CASE q.caller = "waiting"
        BY <2>1, <2>3, <3>1 DEF QueryInOrder, Told
      <3>2. CASE q.caller = "DB_QUERY_TIMEOUT"
        BY <2>1, <2>3, <3>2, SMTT(30) DEF QueryInOrder, Told
      <3> QED
        BY <2>1, <3>1, <3>2 DEF QueryInOrder
    <2>5. Kept(e) \in DbQuery /\ QueryInOrder(Kept(e),
          dbClock) /\ Kept(e).pc = "over" /\ Kept(e).client = q.client
      BY <2>3, <2>4, KeptInOrder
    <2> QED
      BY <2>1, <2>2, <2>5, QueryReplaced, Zenon DEF e, q
  <1>4. ASSUME NEW i \in DOMAIN dbQueries, StatementTimesOut(i) \/ PoolTimesOut(i) PROVE DbInv'
    <2> DEFINE q == dbQueries[i]
    <2>1. q \in DbQuery /\ QueryInOrder(q, dbClock) /\ q.pc # "over" /\ dbClock' = dbClock
      BY <1>4 DEF StatementTimesOut, PoolTimesOut, DbInv
    <2>2. PICK answer \in {"error", "DB_POOL_EXHAUSTED"} :
            dbQueries' = [dbQueries EXCEPT ![i] =
              Kept([q EXCEPT !.pc = "over", !.caller = Told(q, answer)])]
      BY <1>4 DEF StatementTimesOut, PoolTimesOut
    <2> DEFINE e == [q EXCEPT !.pc = "over", !.caller = Told(q, answer)]
    <2>3. /\ e \in DbQuery /\ e.pc = "over" /\ e.client = q.client /\ e.effect = q.effect
          /\ e.issued = q.issued /\ e.ran = q.ran /\ e.caller = Told(q, answer)
      BY <2>1, Zenon DEF DbQuery, Told
    <2> HIDE DEF e, q
    <2>4. QueryInOrder(e, dbClock)
      BY <2>1, <2>3 DEF QueryInOrder, Told
    <2>5. Kept(e) \in DbQuery /\ QueryInOrder(Kept(e),
          dbClock) /\ Kept(e).pc = "over" /\ Kept(e).client = q.client
      BY <2>3, <2>4, KeptInOrder
    <2> QED
      BY <2>1, <2>2, <2>5, QueryReplaced, Zenon DEF e, q
  <1>5. ASSUME NEW i \in DOMAIN dbQueries, QueryTimesOut(i) PROVE DbInv'
    <2> DEFINE q == dbQueries[i]
               e == [q EXCEPT !.caller = "DB_QUERY_TIMEOUT"]
    <2>1. q \in DbQuery /\ QueryInOrder(q, dbClock) /\ q.caller = "waiting" /\ dbClock' = dbClock
      BY <1>5 DEF QueryTimesOut, DbInv
    <2>2. dbQueries' = [dbQueries EXCEPT ![i] = Kept(e)]
      BY <1>5 DEF QueryTimesOut
    <2>3. /\ e \in DbQuery /\ e.pc = q.pc /\ e.client = q.client /\ e.effect = q.effect
          /\ e.issued = q.issued /\ e.ran = q.ran /\ e.caller = "DB_QUERY_TIMEOUT"
      BY <2>1 DEF DbQuery
    <2> HIDE DEF e, q
    <2>4. QueryInOrder(e, dbClock)
      BY <2>1, <2>3 DEF QueryInOrder
    <2>5. Kept(e) \in DbQuery /\ QueryInOrder(Kept(e),
          dbClock) /\ Kept(e).pc = q.pc /\ Kept(e).client = q.client
      BY <2>3, <2>4, KeptInOrder
    <2> QED
      BY <2>1, <2>2, <2>5, QueryReplaced, Zenon DEF e, q
  <1>6. CASE DbTick
    <2>1. dbClock \in Nat /\ dbClock' = dbClock + 1 /\ dbQueries' = dbQueries
      BY <1>6 DEF DbTick, DbInv
    <2>2. ASSUME NEW i \in DOMAIN dbQueries PROVE QueryInOrder(dbQueries[i], dbClock + 1)
      <3> DEFINE q == dbQueries[i]
      <3>1. q \in DbQuery /\ QueryInOrder(q, dbClock)
        BY <2>2, SMTT(30) DEF DbInv
      <3>2. /\ q.caller = "waiting" => ~(dbClock - q.issued >= QueryTimeoutOf(q.client))
            /\ q.pc = "queued" => ~(dbClock - q.issued >= PoolTimeout)
        BY <1>6, <2>2, SMTT(30) DEF DbTick, TimerIsDue
      <3>3. q.pc = "running" /\ q.client = "api" => ~(dbClock - q.ran >= ApiStatementTimeout)
        BY <1>6, <2>2, DatabaseGuardAssumption, SMTT(30)
        DEF DbTick, TimerIsDue, StatementTimeoutOf, DatabaseGuardAssumption
      <3>4. q.issued \in Nat /\ q.ran \in Nat /\ QueryTimeoutOf(q.client) \in Nat
        BY <3>1, DatabaseGuardAssumption, SMTT(30) DEF DbQuery, DatabaseGuardAssumption, QueryTimeoutOf
      <3> HIDE DEF q
      <3>5. QueryInOrder(q, dbClock + 1)
        BY <2>1, <3>1, <3>2, <3>3, <3>4, DatabaseGuardAssumption, SMTT(30)
        DEF QueryInOrder, DatabaseGuardAssumption
      <3> QED
        BY <3>5 DEF q
    <2>3. \A c \in {"api", "worker"} : Connected(c)' = Connected(c)
      BY <2>1, SMTT(30) DEF Connected
    <2> QED
      BY <2>1, <2>2, <2>3 DEF DbInv, InUse, Connections
  <1>7. CASE UNCHANGED dbVars
    BY <1>7 DEF dbVars, DbInv, InUse, Connected, Connections
  <1> QED
    BY <1>1, <1>2, <1>3, <1>4, <1>5, <1>6, <1>7 DEF DbNext

\* Both clients start without operations.
LEMMA DbStarts == DbInit => DbInv
  <1> SUFFICES ASSUME DbInit PROVE DbInv
    OBVIOUS
  <1>1. \A client : Connected(client) = {}
    BY DEF DbInit, Connected
  <1>2. \A client : InUse(client) = 0 /\ Connections(client) \in Nat
    BY <1>1, FS_EmptySet, DatabaseGuardAssumption, SMTT(30)
    DEF InUse, Connections, DatabaseGuardAssumption
  <1> QED
    BY <1>2 DEF DbInit, DbInv

\* The invariant holds what callers may rely on.
LEMMA DbMeans == DbInv => LateEffectNeedsTimeout /\ ConnectionsComeBack
  BY DEF DbInv, QueryInOrder, LateEffectNeedsTimeout, ConnectionsComeBack

\* For any pool sizes, timeouts and number of operations: a statement takes effect after
\* its caller was answered only on DB_QUERY_TIMEOUT, every wait ends at its timeout and
\* no pool is overdrawn; and the retry loop sleeps only after an error worth a retry.
THEOREM CallsAccountedFor == DbSpec /\ RetrySpec => []CallsAreAccountedFor
  <1>1. RetryInv => RetriesAreJustified
    BY DEF RetryInv, RetriesAreJustified, IsTransientNetworkError, RetryErrors
  <1>2. LateEffectNeedsTimeout /\ ConnectionsComeBack /\ RetriesAreJustified => CallsAreAccountedFor
    BY SMTT(30) DEF CallsAreAccountedFor
  <1> QED
    BY <1>1, <1>2, DbStarts, DbStep, DbMeans, RetryStarts, RetryStep, PTL DEF DbSpec, RetrySpec

-----------------------------------------------------------------------------
(* Booting                                                                 *)

\* Where a boot may be, and how it checks its migrations.
BootSteps == {"connectApi", "connectWorker", "validate", "gate", "listening", "exited"}

Modes == {"strict", "warn", "off"}

BootRecord ==
  [pc : BootSteps, mode : Modes, attempt : Int, default : SUBSET Migrations,
   configured : SUBSET Migrations]

\* The history of a booted instance is complete as long as nobody has written to it
\* since the check, and a destructive command that runs has passed the safety check.
BootInv ==
  /\ instance \in BootRecord
  /\ history \in [Migrations -> {"none", "started", "finished"}]
  /\ instance.pc \in {"gate", "listening"} /\ ~migratedSince => UpToDate(instance.default)

\* Only what the safety check let through is under way.
CliAllowed == cli.command \in {"down", "reset"} => ~cli.production \/ cli.force

\* Nothing is checked and nothing runs at first.
LEMMA BootStarts == BootInit => BootInv /\ CliAllowed
  BY SMTT(30) DEF BootInit, BootInv, BootRecord, CliAllowed, BootSteps, Modes, NoCommand

\* Every step of the boot, the command line and the database keeps the invariant.
LEMMA BootStep == BootInv /\ [BootNext]_bootVars => BootInv'
  <1> SUFFICES ASSUME BootInv, [BootNext]_bootVars PROVE BootInv'
    OBVIOUS
  <1> USE DEF BootInv, BootRecord, BootSteps, Modes, UpToDate
  <1>1. CASE Connect
    <2>1. instance.pc \in {"connectApi", "connectWorker"} /\ UNCHANGED <<history, migratedSince>>
      BY <1>1 DEF Connect
    <2>2. CASE instance' = [instance EXCEPT
             !.pc = IF @ = "connectApi" THEN "connectWorker" ELSE "validate", !.attempt = 1]
      <3>1. PICK next \in {"connectWorker", "validate"} :
              instance' = [instance EXCEPT !.pc = next, !.attempt = 1]
        BY <2>1, <2>2, Zenon
      <3>2. instance \in BootRecord /\ UNCHANGED history
        BY <2>1
      <3>3. instance' \in BootRecord /\ instance'.pc = next
        <4> HIDE DEF BootInv, Modes
        <4>1. next \in BootSteps
          OBVIOUS
        <4> HIDE DEF BootSteps
        <4> DEFINE connected == [instance EXCEPT !.pc = next]
        <4>2. connected \in BootRecord /\ connected.pc = next
          BY <3>2, <4>1 DEF BootRecord
        <4>3. instance' = [connected EXCEPT !.attempt = 1]
          BY <3>1, <3>2 DEF BootRecord
        <4> HIDE DEF connected
        <4> QED
          BY <4>2, <4>3 DEF BootRecord
      <3> QED
        BY <2>1, <3>1, <3>3
    <2>3. CASE instance' = [instance EXCEPT !.attempt = @ + 1]
      BY <2>1, <2>3
    <2>4. CASE instance' = [instance EXCEPT !.pc = "exited"]
      BY <2>1, <2>4
    <2> QED
      BY <1>1, <2>2, <2>3, <2>4 DEF Connect
  <1>2. CASE ValidateMigrations
    BY <1>2 DEF ValidateMigrations
  <1>3. CASE VerifyMigrations
    BY <1>3 DEF VerifyMigrations
  <1>4. CASE CheckMigrationHealth \/ EndDeploy \/ CommandFails \/ RunCli \/ Outage \/ UNCHANGED bootVars
    <2>1. UNCHANGED <<instance, history, migratedSince>>
      BY <1>4 DEF CheckMigrationHealth, EndDeploy, CommandFails, RunCli, Outage, bootVars
    <2> QED
      BY <2>1
  <1>5. CASE StartMigration \/ FinishMigration \/ MigrateDown \/ MigrateReset \/ ResolveRolledBack
    <2>1. /\ UNCHANGED instance /\ migratedSince' = TRUE
          /\ history' \in [Migrations -> {"none", "started", "finished"}]
      BY <1>5
      DEF StartMigration, FinishMigration, MigrateDown, MigrateReset, ResolveRolledBack, WriteHistory
    <2> QED
      BY <2>1
  <1> QED
    BY <1>1, <1>2, <1>3, <1>4, <1>5 DEF BootNext

\* A destructive command gets under way only through checkMigrationSafety.
LEMMA CliStep == CliAllowed /\ [BootNext]_bootVars => CliAllowed'
  <1> SUFFICES ASSUME CliAllowed, [BootNext]_bootVars PROVE CliAllowed'
    OBVIOUS
  <1>1. CASE RunCli
    BY <1>1, SMTT(30) DEF RunCli, CliAllowed, SafetyAllows, Destructive, NoCommand
  <1>2. CASE EndDeploy \/ CommandFails \/ MigrateDown
    BY <1>2 DEF EndDeploy, CommandFails, MigrateDown, CliAllowed, NoCommand
  <1>3. CASE MigrateReset
    <2>1. cli'.command = "deploy"
      BY <1>3 DEF MigrateReset
    <2> QED
      BY <2>1 DEF CliAllowed
  <1>4. CASE UNCHANGED cli
    BY <1>4, SMTT(30) DEF CliAllowed
  <1> QED
    BY <1>1, <1>2, <1>3, <1>4, SMTT(30)
    DEF BootNext, bootVars, Connect, ValidateMigrations, VerifyMigrations, CheckMigrationHealth,
        StartMigration, FinishMigration, ResolveRolledBack, Outage

\* So a migration is undone only as that check allows.
LEMMA UndoStep == BootInv /\ CliAllowed /\ [BootNext]_bootVars => ProductionUndoNeedsForce
  <1> SUFFICES ASSUME BootInv, CliAllowed, [BootNext]_bootVars,
                      NEW m \in Migrations, history[m] = "finished", history'[m] = "none"
               PROVE  ~cli.production \/ cli.force
    BY DEF ProductionUndoNeedsForce
  <1>1. ~UNCHANGED history
    BY SMTT(30)
  <1>2. ~StartMigration /\ ~FinishMigration /\ ~ResolveRolledBack
    BY DEF StartMigration, FinishMigration, ResolveRolledBack, WriteHistory, BootInv
  <1>3. MigrateDown \/ MigrateReset
    BY <1>1, <1>2
    DEF BootNext, bootVars, Connect, ValidateMigrations, VerifyMigrations, CheckMigrationHealth,
        RunCli, EndDeploy, CommandFails, Outage
  <1>4. cli.command \in {"down", "reset"}
    BY <1>3 DEF MigrateDown, MigrateReset
  <1> QED
    BY <1>4, SMTT(30) DEF CliAllowed

\* Delays never shrink however jitter is drawn, up to a jitter factor of one; and no
\* sequence of commands and outages undoes a migration in production without --force.
THEOREM StepsCautious == RetrySpec /\ BootSpec => StepsAreCautious
  <1>1. DelaysNeverShrink /\ ProductionUndoNeedsForce
          => [DelaysNeverShrink /\ ProductionUndoNeedsForce]_<<retryVars, bootVars>>
    BY SMTT(30)
  <1> QED
    BY <1>1, RetryStarts, RetryStep, BootStarts, BootStep, CliStep, UndoStep, PTL
    DEF RetrySpec, BootSpec, StepsAreCautious

-----------------------------------------------------------------------------
(* Readiness                                                               *)

\* A probe that says up has seen its dependency up during the request.
HealthInv ==
  /\ dependency \in [Dependencies -> {"up", "bad", "hung"}]
  /\ readiness = [pc |-> readiness.pc, route |-> readiness.route, started |-> readiness.started,
                  results |-> readiness.results, code |-> readiness.code]
  /\ readiness.pc \in {"idle", "probing", "answered"} /\ readiness.route \in {"ready", "readiness"}
  /\ readiness.pc # "answered" => readiness.code = 0
  /\ readiness.pc # "idle" =>
       /\ readiness.results = [d \in ProbesOf(readiness.route) |-> readiness.results[d]]
       /\ \A d \in Dependencies : dependency[d] = "up" => d \in wasUp
       /\ \A d \in ProbesOf(readiness.route) : readiness.results[d] = "up" => d \in wasUp
       /\ readiness.code = 200 => \A d \in ProbesOf(readiness.route) : readiness.results[d] = "up"

\* Every step of the request, its probes and their dependencies keeps the invariant.
LEMMA HealthStep == HealthInv /\ [HealthNext]_healthVars => HealthInv'
  <1> SUFFICES ASSUME HealthInv, [HealthNext]_healthVars PROVE HealthInv'
    OBVIOUS
  <1> USE DEF HealthInv
  <1>0. \A route \in {"ready", "readiness"} : ProbesOf(route) \subseteq Dependencies
    BY SMTT(30) DEF ProbesOf, Dependencies
  <1>1. CASE StartReadiness
    <2>1. PICK route \in {"ready", "readiness"} :
            readiness' = [pc |-> "probing", route |-> route, started |-> probeClock, code |-> 0,
                          results |-> [d \in ProbesOf(route) |-> "pending"]]
      BY <1>1, SMTT(30) DEF StartReadiness
    <2>2. /\ wasUp' = {d \in Dependencies : dependency[d] = "up"} /\ dependency' = dependency
      BY <1>1, SMTT(30) DEF StartReadiness
    <2>3. /\ readiness'.pc = "probing" /\ readiness'.code = 0 /\ readiness'.route = route
          /\ readiness'.results = [d \in ProbesOf(route) |-> "pending"]
          /\ readiness' = [pc |-> readiness'.pc, route |-> readiness'.route, started |-> readiness'.started,
                           results |-> readiness'.results, code |-> readiness'.code]
      BY <2>1
    <2> QED
      BY <2>2, <2>3, SMTT(30)
  <1>2. ASSUME NEW d \in Dependencies, NEW s \in {"up", "degraded", "down"}, Probing(d), Settle(d, s),
               s = "up" => dependency[d] = "up"
        PROVE  HealthInv'
    <2>1. /\ readiness.pc = "probing" /\ d \in ProbesOf(readiness.route)
          /\ readiness.results[d] = "pending"
      BY <1>2 DEF Probing
    <2>2. UNCHANGED <<dependency, wasUp>> /\ readiness' = [readiness EXCEPT !.results[d] = s]
      BY <1>2 DEF Settle
    <2>3. /\ readiness'.pc = "probing" /\ readiness'.code = 0 /\ readiness'.route = readiness.route
          /\ readiness'.results = [readiness.results EXCEPT ![d] = s]
          /\ readiness' = [pc |-> readiness'.pc, route |-> readiness'.route, started |-> readiness'.started,
                           results |-> readiness'.results, code |-> readiness'.code]
      BY <2>1, <2>2, SMTT(30)
    <2> DEFINE old == readiness.results
               new == readiness'.results
    <2>4. old = [x \in ProbesOf(readiness.route) |-> old[x]] /\ \A x \in ProbesOf(readiness.route) : old[x] = "up" => x \in wasUp
      BY <2>1, SMTT(30)
    <2>5. new = [old EXCEPT ![d] = s] /\ d \in ProbesOf(readiness.route) /\ d \in Dependencies
      BY <2>1, <2>3, SMTT(30)
    <2>6. s = "up" => d \in wasUp
      BY <1>2, <2>1, SMTT(30)
    <2> HIDE DEF old, new
    <2>7. new = [x \in ProbesOf(readiness.route) |-> new[x]] /\ \A x \in ProbesOf(readiness.route) : new[x] = "up" => x \in wasUp
      BY <2>4, <2>5, <2>6
    <2> QED
      BY <2>1, <2>2, <2>3, <2>7, SMTT(30) DEF new
  <1>3. ASSUME NEW d \in Dependencies, ProbeAnswers(d) PROVE HealthInv'
    BY <1>2, <1>3, SMTT(30) DEF ProbeAnswers
  <1>4. ASSUME NEW d \in Dependencies, ProbeTimesOut(d) PROVE HealthInv'
    BY <1>2, <1>4 DEF ProbeTimesOut
  <1>5. CASE RespondReady
    <2>1. PICK code \in {200, 503} :
            /\ readiness' = [readiness EXCEPT !.pc = "answered", !.code = code]
            /\ code = 200 => \A d \in DOMAIN readiness.results : readiness.results[d] = "up"
      <3> DEFINE healthy == IsHealthy(readiness.results)
      <3>1. readiness' = [readiness EXCEPT !.pc = "answered", !.code = IF healthy THEN 200 ELSE 503]
        BY <1>5, SMTT(30) DEF RespondReady
      <3>2. healthy => \A d \in DOMAIN readiness.results : readiness.results[d] = "up"
        BY DEF IsHealthy
      <3>3. CASE healthy
        <4>1. readiness' = [readiness EXCEPT !.pc = "answered", !.code = 200]
          BY <3>1, <3>3
        <4> QED
          BY <3>2, <3>3, <4>1
      <3>4. CASE ~healthy
        <4>1. readiness' = [readiness EXCEPT !.pc = "answered", !.code = 503]
          BY <3>1, <3>4
        <4> QED
          BY <4>1
      <3> QED
        BY <3>3, <3>4
    <2>2. readiness.pc = "probing" /\ UNCHANGED <<dependency, wasUp>>
      BY <1>5 DEF RespondReady
    <2>3. /\ readiness'.pc = "answered" /\ readiness'.code = code /\ readiness'.route = readiness.route
          /\ readiness'.results = readiness.results
          /\ readiness' = [pc |-> readiness'.pc, route |-> readiness'.route, started |-> readiness'.started,
                           results |-> readiness'.results, code |-> readiness'.code]
      BY <2>1, ZenonT(60)
    <2>4. DOMAIN readiness.results = ProbesOf(readiness.route)
      BY <2>2
    <2> QED
      BY <2>1, <2>2, <2>3, <2>4
  <1>6. CASE DependencyChanges
    BY <1>6 DEF DependencyChanges
  <1>7. CASE ProbeTick \/ UNCHANGED healthVars
    BY <1>7, SMTT(30) DEF ProbeTick, healthVars
  <1> QED
    BY <1>1, <1>3, <1>4, <1>5, <1>6, <1>7, ZenonT(60) DEF HealthNext

\* No request is under way at first.
LEMMA HealthStarts == HealthInit => HealthInv
  BY SMTT(30) DEF HealthInit, HealthInv, NoReadiness, ProbesOf, Dependencies

\* 200 is the answer of probes that all saw their dependency up.
LEMMA HealthMeans == HealthInv => ReadyMeansSeenUp
  BY DEF HealthInv, ReadyMeansSeenUp, NoReadiness

\* For any number of migrations, commands and outages an instance serves only on a
\* schema it has seen complete, and 200 is answered only for dependencies seen up.
THEOREM ServingChecked == BootSpec /\ HealthSpec => []ServingIsChecked
  <1>1. BootInv => ServingMeansMigrated
    BY DEF BootInv, UpToDate, ServingMeansMigrated
  <1>2. ServingMeansMigrated /\ ReadyMeansSeenUp => ServingIsChecked
    BY DEF ServingIsChecked
  <1> QED
    BY <1>1, <1>2, BootStarts, BootStep, HealthStarts, HealthStep, HealthMeans, PTL
    DEF BootSpec, HealthSpec
=============================================================================
