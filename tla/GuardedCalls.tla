---------------------------- MODULE GuardedCalls ----------------------------
(***************************************************************************)
(* What stands around every call to a database or a service, in two parts  *)
(* that share no state: pools and timeouts, and the retry loop.            *)
(***************************************************************************)
EXTENDS Integers, Sequences, FiniteSets

-----------------------------------------------------------------------------
(***************************************************************************)
(* The query guards of the Prisma layer (database/prisma.service.ts,       *)
(* database/query-timeout.extension.ts): two connection pools, a           *)
(* client-side race that answers the caller when the query timeout is      *)
(* over, and a statement timeout that only the API pool has.  The race     *)
(* answers the caller; it does not stop the statement.  The pools and the  *)
(* statement timeout themselves are Prisma's and Postgres's.               *)
(***************************************************************************)

CONSTANTS MaxDbQueries,
          ApiConnections, WorkerConnections,
          PoolTimeout,
          ApiQueryTimeout, WorkerQueryTimeout,
          ApiStatementTimeout,
          MaxDbClock

ASSUME DatabaseGuardAssumption ==
  /\ MaxDbQueries \in Nat /\ MaxDbClock \in Nat
  /\ ApiConnections \in Nat \ {0} /\ WorkerConnections \in Nat \ {0}
  /\ PoolTimeout \in Nat \ {0} /\ ApiStatementTimeout \in Nat \ {0}
  /\ ApiQueryTimeout \in Nat \ {0} /\ WorkerQueryTimeout \in Nat \ {0}

VARIABLES dbClock,
          dbQueries   \* sequence of the operations issued so far

dbVars == <<dbClock, dbQueries>>

DbInit ==
  /\ dbClock = 0
  /\ dbQueries = <<>>

Connections(client) == IF client = "api" THEN ApiConnections ELSE WorkerConnections

QueryTimeoutOf(client) == IF client = "api" THEN ApiQueryTimeout ELSE WorkerQueryTimeout

\* Mutant: the API datasource is built without the statement timeout.
StatementTimeoutOf_None(client) == 0

\* buildDatasourceUrl: 0 leaves the option out of the worker's URL.
StatementTimeoutOf(client) == IF client = "api" THEN ApiStatementTimeout ELSE 0

Connected(client) ==
  {i \in DOMAIN dbQueries : dbQueries[i].client = client /\ dbQueries[i].pc = "running"}

InUse(client) == Cardinality(Connected(client))

\* $allOperations starts the query and the timer together, so the wait for
\* a connection counts against the query timeout.
IssueQuery(client) ==
  /\ Len(dbQueries) < MaxDbQueries
  /\ dbQueries' = Append(dbQueries,
       [client |-> client, issued |-> dbClock, pc |-> "queued", ran |-> 0,
        caller |-> "waiting", effect |-> FALSE])
  /\ UNCHANGED dbClock

\* What the caller is told when the statement ends: nothing new when the
\* timer already answered.
Told(q, answer) == IF q.caller = "waiting" THEN answer ELSE q.caller

\* An operation that is over and answered keeps only its outcome.
Kept(q) == IF q.pc = "over" /\ q.caller # "waiting" THEN [q EXCEPT !.issued = 0, !.ran = 0] ELSE q

AcquireConnection(i) ==
  LET q == dbQueries[i] IN
  /\ q.pc = "queued"
  /\ \A j \in 1..(i - 1) : dbQueries[j].client = q.client => dbQueries[j].pc # "queued"
  /\ InUse(q.client) < Connections(q.client)
  /\ dbQueries' = [dbQueries EXCEPT ![i].pc = "running", ![i].ran = dbClock]
  /\ UNCHANGED dbClock

StatementEnds(i) ==
  LET q == dbQueries[i] IN
  /\ q.pc = "running"
  /\ \E ok \in BOOLEAN :
       dbQueries' = [dbQueries EXCEPT ![i] =
         Kept([q EXCEPT !.pc = "over", !.effect = ok,
                        !.caller = Told(q, IF ok THEN "ok" ELSE "error")])]
  /\ UNCHANGED dbClock

\* Postgres cancels the statement, which rolls it back and frees the
\* connection.
StatementTimesOut(i) ==
  LET q == dbQueries[i]
      limit == StatementTimeoutOf(q.client)
  IN
  /\ q.pc = "running"
  /\ limit > 0 /\ dbClock - q.ran >= limit
  /\ dbQueries' = [dbQueries EXCEPT ![i] =
       Kept([q EXCEPT !.pc = "over", !.caller = Told(q, "error")])]
  /\ UNCHANGED dbClock

\* P2024, mapped to ConnectionPoolExhaustedError: the statement never ran.
PoolTimesOut(i) ==
  LET q == dbQueries[i] IN
  /\ q.pc = "queued"
  /\ dbClock - q.issued >= PoolTimeout
  /\ dbQueries' = [dbQueries EXCEPT ![i] =
       Kept([q EXCEPT !.pc = "over", !.caller = Told(q, "DB_POOL_EXHAUSTED")])]
  /\ UNCHANGED dbClock

\* Mutant: the race reports every expiry as an exhausted pool.
QueryTimesOut_AsPool(i) ==
  LET q == dbQueries[i] IN
  /\ q.caller = "waiting"
  /\ dbClock - q.issued >= QueryTimeoutOf(q.client)
  /\ dbQueries' = [dbQueries EXCEPT ![i] = Kept([q EXCEPT !.caller = "DB_POOL_EXHAUSTED"])]
  /\ UNCHANGED dbClock

\* withQueryTimeout: the timer wins the race; the statement goes on.
QueryTimesOut(i) ==
  LET q == dbQueries[i] IN
  /\ q.caller = "waiting"
  /\ dbClock - q.issued >= QueryTimeoutOf(q.client)
  /\ dbQueries' = [dbQueries EXCEPT ![i] = Kept([q EXCEPT !.caller = "DB_QUERY_TIMEOUT"])]
  /\ UNCHANGED dbClock

\* Some timer is due: timers are served before the clock moves on.
TimerIsDue ==
  \E i \in DOMAIN dbQueries :
    LET q == dbQueries[i]
        limit == StatementTimeoutOf(q.client)
    IN
    \/ q.caller = "waiting" /\ dbClock - q.issued >= QueryTimeoutOf(q.client)
    \/ q.pc = "running" /\ limit > 0 /\ dbClock - q.ran >= limit
    \/ q.pc = "queued" /\ dbClock - q.issued >= PoolTimeout

DbTick ==
  /\ dbClock < MaxDbClock
  /\ ~TimerIsDue
  /\ dbClock' = dbClock + 1
  /\ UNCHANGED dbQueries

DbNext ==
  \/ \E client \in {"api", "worker"} : IssueQuery(client)
  \/ \E i \in DOMAIN dbQueries :
       \/ AcquireConnection(i) \/ StatementEnds(i) \/ StatementTimesOut(i)
       \/ PoolTimesOut(i) \/ QueryTimesOut(i)
  \/ DbTick

DbSpec == DbInit /\ [][DbNext]_dbVars

\* A statement takes effect behind its caller's back only when the caller
\* was told DB_QUERY_TIMEOUT: an exhausted pool, an error and an aborted
\* statement leave nothing behind, and ok means done
\* (query-timeout.extension.ts:43).
LateEffectNeedsTimeout ==
  \A i \in DOMAIN dbQueries :
    LET q == dbQueries[i] IN
    /\ q.effect => q.caller \in {"ok", "DB_QUERY_TIMEOUT"}
    /\ q.caller = "ok" => q.effect

\* A caller waits no longer than its query timeout, an API connection is
\* held no longer than the statement timeout however the caller was
\* answered, and no pool hands out more connections than it has
\* (prisma.service.ts:28).
ConnectionsComeBack ==
  /\ \A i \in DOMAIN dbQueries :
       LET q == dbQueries[i] IN
       /\ q.caller = "waiting" => dbClock - q.issued <= QueryTimeoutOf(q.client)
       /\ q.client = "api" /\ q.pc = "running" => dbClock - q.ran <= ApiStatementTimeout
       /\ q.pc = "queued" => dbClock - q.issued <= PoolTimeout
  /\ \A client \in {"api", "worker"} : InUse(client) <= Connections(client)

-----------------------------------------------------------------------------
(***************************************************************************)
(* retryWithBackoff (src/utils/retry.util.ts) with the classifier          *)
(* isTransientNetworkError and the jittered delays of backoff.util.ts:     *)
(* the loop around every Horizon, subgraph and dead-letter call.           *)
(*                                                                         *)
(* Delays are in milliseconds of a small base; the random jitter is an     *)
(* arbitrary number of its range.                                          *)
(***************************************************************************)

CONSTANTS
  MaxRetryAttempts,   \* options.maxAttempts
  BaseDelay,          \* options.baseDelayMs
  MaxDelay,           \* options.maxDelayMs
  JitterPercent,      \* DEFAULT_JITTER_FACTOR, in percent
  CauseDepths         \* how deep in the cause chain a transport code may sit

ASSUME RetryAssumption ==
  /\ MaxRetryAttempts \in Nat \ {0} /\ BaseDelay \in Nat \ {0} /\ MaxDelay \in Nat
  /\ JitterPercent \in 0..100

VARIABLES
  retryLoop,   \* attempt, pc, the error caught last
  retryDelay,  \* the sleep chosen last, 0 before the first
  retryMode    \* whether the caller passes isTransientNetworkError

retryVars == <<retryLoop, retryDelay, retryMode>>

(* status: 0 when the error carries none. flag: "permanent" for retryable: *)
(* false. depth: where in the cause chain a transport error sits, -1 for   *)
(* nowhere.                                                                *)
RetryErrors ==
  [status : {0, 400, 429, 499, 500, 599, 600}, flag : {"none", "permanent"},
   depth : CauseDepths \cup {-1}]

-----------------------------------------------------------------------------

\* collectErrorSignals() stops below depth 5.
CollectsSignal(e) == e.depth \in 0..5

IsTransientNetworkError_SignalsFirst(e) ==
  CollectsSignal(e) \/ e.status \in 500..599

IsTransientNetworkError(e) ==
  IF e.status # 0 THEN e.status \in 500..599
  ELSE e.flag # "permanent" /\ CollectsSignal(e)

ExponentialBackoffDelay(attempt) == BaseDelay * 2^(attempt - 1)

JitterRange(attempt) == (BaseDelay * JitterPercent * attempt) \div 100

ComputeDelay_CapsFirst(attempt, j) ==
  (IF ExponentialBackoffDelay(attempt) > MaxDelay THEN MaxDelay
   ELSE ExponentialBackoffDelay(attempt)) + j

ComputeDelay(attempt, j) ==
  LET raw == ExponentialBackoffDelay(attempt) + j
  IN  IF raw > MaxDelay THEN MaxDelay ELSE raw

-----------------------------------------------------------------------------

RetrySucceeds ==
  /\ retryLoop.pc = "calling"
  /\ retryLoop' = [retryLoop EXCEPT !.pc = "returned"]
  /\ UNCHANGED <<retryDelay, retryMode>>

\* A refused error and the one of the last attempt are thrown at once.
RetryThrows ==
  /\ retryLoop.pc = "calling"
  /\ \E e \in RetryErrors :
       /\ \/ retryMode = "transient" /\ ~IsTransientNetworkError(e)
          \/ retryLoop.attempt = MaxRetryAttempts
       /\ retryLoop' = [retryLoop EXCEPT !.pc = "thrown", !.error = e]
  /\ UNCHANGED <<retryDelay, retryMode>>

RetrySleeps ==
  /\ retryLoop.pc = "calling"
  /\ retryLoop.attempt < MaxRetryAttempts
  /\ \E e \in RetryErrors, j \in 0..JitterRange(retryLoop.attempt) :
       /\ retryMode = "transient" => IsTransientNetworkError(e)
       /\ retryLoop' = [retryLoop EXCEPT !.pc = "sleeping", !.error = e]
       /\ retryDelay' = ComputeDelay(retryLoop.attempt, j)
  /\ UNCHANGED retryMode

RetryWakes ==
  /\ retryLoop.pc = "sleeping"
  /\ retryLoop' = [retryLoop EXCEPT !.pc = "calling", !.attempt = @ + 1]
  /\ UNCHANGED <<retryDelay, retryMode>>

RetryInit ==
  /\ retryLoop = [pc |-> "calling", attempt |-> 1,
                  error |-> [status |-> 0, flag |-> "none", depth |-> -1]]
  /\ retryDelay = 0
  /\ retryMode \in {"always", "transient"}

RetryNext == RetrySucceeds \/ RetryThrows \/ RetrySleeps \/ RetryWakes

RetrySpec == RetryInit /\ [][RetryNext]_retryVars

-----------------------------------------------------------------------------

(* Backing off: whatever jitter is drawn, a delay never exceeds the cap    *)
(* and is never shorter than the one before it, so that retries thin out   *)
(* until the cap; the jitter of one attempt cannot overtake the doubling.  *)
DelaysNeverShrink ==
  retryDelay' >= retryDelay /\ retryDelay' <= MaxDelay

(* A loop that asks for transient errors goes to sleep only after one: a   *)
(* 4xx or a failure marked permanent is thrown at once, whatever transport *)
(* error its cause chain holds, and the loop sleeps fewer times than it    *)
(* may call.                                                               *)
RetriesAreJustified ==
  retryLoop.pc = "sleeping" =>
    /\ retryLoop.attempt < MaxRetryAttempts
    /\ retryMode = "transient" =>
         /\ retryLoop.error.status \notin 400..499
         /\ retryLoop.error.flag = "permanent" => retryLoop.error.status # 0

\* Calls to the database and to other services end as they are reported: a statement
\* takes effect after its caller gave up only on a query timeout, no connection is held
\* for ever, and no attempt is made again that the classifiers call pointless.  See
\* LateEffectNeedsTimeout, ConnectionsComeBack, RetriesAreJustified.
CallsAreAccountedFor == LateEffectNeedsTimeout /\ ConnectionsComeBack /\ RetriesAreJustified
=============================================================================
