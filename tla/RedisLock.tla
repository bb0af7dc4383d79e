------------------------------ MODULE RedisLock ------------------------------
(***************************************************************************)
(* The distributed lock (src/common/locks/redis-lock.util.ts) as the route *)
(* that creates a transaction uses it.  LocksModule registers the wallet   *)
(* interceptor before the transaction interceptor, so a request runs its   *)
(* handler inside two nested withLock calls: the outer one on the wallet,  *)
(* the inner one on the wallet and the budget.  A process is one such      *)
(* request on some instance of the API.  Redis is a map of expiring keys.  *)
(***************************************************************************)
EXTENDS Integers, Sequences

CONSTANTS
    Procs,       \* requests
    Wallets,     \* body.walletId
    Budgets,     \* body.budgetId
    NoBudget,    \* the request carries no budget
    WalletOf,    \* [Procs -> Wallets]
    BudgetOf,    \* [Procs -> Budgets \cup {NoBudget}]
    Attempts,    \* options.attempts of @UseTransactionLock
    Prompt,      \* the requests whose withLock calls end before the TTLs do
    None         \* no token

ASSUME LockAssumption ==
    /\ WalletOf \in [Procs -> Wallets]
    /\ BudgetOf \in [Procs -> Budgets \cup {NoBudget}]
    /\ NoBudget \notin Budgets
    /\ Attempts \in Nat \ {0}
    /\ Prompt \subseteq Procs
    /\ None \notin Procs

VARIABLES
    lock,      \* [Keys -> Procs \cup {None}]: whose token is stored under a key
    depth,     \* [Procs -> 0..2]: the withLock calls whose body p is in
    attempt,   \* [Procs -> 0..Attempts]: failed attempts of the current acquire call
    outcome,   \* [Procs -> Outcomes]: what p returns or throws
    pc         \* [Procs -> LockSteps]

lockVars == <<lock, depth, attempt, outcome, pc>>

WalletKeys == {"wallet"} \X Wallets \X {NoBudget}

TransactionKeys == {"transaction"} \X Wallets \X (Budgets \cup {NoBudget})

Keys == WalletKeys \cup TransactionKeys

\* defaultWalletKeyResolver: on this route params.id is undefined.
WalletKey(p) == <<"wallet", WalletOf[p], NoBudget>>

\* defaultTransactionKeyResolver
TransactionKey(p) == <<"transaction", WalletOf[p], BudgetOf[p]>>

\* The key of the i-th nested withLock call.
KeyAt(p, i) == IF i = 1 THEN WalletKey(p) ELSE TransactionKey(p)

\* WalletLockInterceptor passes no attempts: withLock tries once.
AttemptsAt(i) == IF i = 1 THEN 1 ELSE Attempts

\* Acquiring the next key, running the handler, unwinding the finally blocks,
\* answered, dead.
LockSteps == {"acquire", "handler", "release", "ended", "dead"}

Outcomes == {"none", "handled", "refused", "error"}

\* p is in the body of its i-th withLock call.
Holds(p, i) == i <= depth[p] /\ pc[p] # "dead"

\* The requests that run the route's handler.
Inside == {p \in Procs : pc[p] = "handler"}

LockInit ==
    /\ lock = [k \in Keys |-> None]
    /\ depth = [p \in Procs |-> 0]
    /\ attempt = [p \in Procs |-> 0]
    /\ outcome = [p \in Procs |-> "none"]
    /\ pc = [p \in Procs |-> "acquire"]

\* Entering the body of a withLock call: the next acquire, or the handler.
EnterBody(p) ==
    /\ depth' = [depth EXCEPT ![p] = @ + 1]
    /\ attempt' = [attempt EXCEPT ![p] = 0]
    /\ pc' = [pc EXCEPT ![p] = IF depth[p] = 1 THEN "handler" ELSE "acquire"]
    /\ UNCHANGED outcome

\* An exception or a result leaves the innermost body: the finally block of the
\* enclosing withLock call is next, if there is one.
Leave(p, result) ==
    /\ outcome' = [outcome EXCEPT ![p] = result]
    /\ pc' = [pc EXCEPT ![p] = IF depth[p] = 0 THEN "ended" ELSE "release"]

\* Mutant: SET without NX.
Acquire_Overwrite(p) ==
    /\ pc[p] = "acquire"
    /\ lock' = [lock EXCEPT ![KeyAt(p, depth[p] + 1)] = p]
    /\ EnterBody(p)

\* SET key token PX ttl NX answers OK.
Acquire(p) ==
    /\ pc[p] = "acquire"
    /\ lock[KeyAt(p, depth[p] + 1)] = None
    /\ lock' = [lock EXCEPT ![KeyAt(p, depth[p] + 1)] = p]
    /\ EnterBody(p)

\* SET answers nil: try again after retryDelayMs, or LockNotAcquiredException.
AcquireFails(p) ==
    /\ pc[p] = "acquire"
    /\ lock[KeyAt(p, depth[p] + 1)] # None
    /\ attempt' = [attempt EXCEPT ![p] = @ + 1]
    /\ \/ attempt[p] + 1 < AttemptsAt(depth[p] + 1) /\ UNCHANGED <<outcome, pc>>
       \/ attempt[p] + 1 >= AttemptsAt(depth[p] + 1) /\ Leave(p, "refused")
    /\ UNCHANGED <<lock, depth>>

\* The SET throws (Redis is unreachable); it may have been applied.
AcquireThrows(p) ==
    /\ pc[p] = "acquire"
    /\ \/ UNCHANGED lock
       \/ /\ lock[KeyAt(p, depth[p] + 1)] = None
          /\ lock' = [lock EXCEPT ![KeyAt(p, depth[p] + 1)] = p]
    /\ Leave(p, "error")
    /\ UNCHANGED <<depth, attempt>>

\* The route's handler returns or throws.
HandlerEnds(p) ==
    /\ pc[p] = "handler"
    /\ \E result \in {"handled", "error"} : Leave(p, result)
    /\ UNCHANGED <<lock, depth, attempt>>

\* RELEASE_SCRIPT: DEL if the key still holds this call's token.
ReleaseScript(p) ==
    lock' = IF lock[KeyAt(p, depth[p])] = p
            THEN [lock EXCEPT ![KeyAt(p, depth[p])] = None]
            ELSE lock

\* The end of a finally block.
LeaveBody(p) ==
    /\ depth' = [depth EXCEPT ![p] = @ - 1]
    /\ pc' = [pc EXCEPT ![p] = IF depth[p] = 1 THEN "ended" ELSE "release"]
    /\ UNCHANGED attempt

\* Mutant: DEL without comparing the token.
Release_Unconditional(p) ==
    /\ pc[p] = "release"
    /\ lock' = [lock EXCEPT ![KeyAt(p, depth[p])] = None]
    /\ LeaveBody(p)
    /\ UNCHANGED outcome

\* The finally block.  When the script's call throws, the key may stay and the
\* error replaces the result.
Release(p) ==
    /\ pc[p] = "release"
    /\ \/ ReleaseScript(p) /\ UNCHANGED outcome
       \/ /\ ReleaseScript(p) \/ UNCHANGED lock
          /\ outcome' = [outcome EXCEPT ![p] = "error"]
    /\ LeaveBody(p)

Crash(p) ==
    /\ pc[p] \in {"acquire", "handler", "release"}
    /\ pc' = [pc EXCEPT ![p] = "dead"]
    /\ UNCHANGED <<lock, depth, attempt, outcome>>

\* Mutant: a lock without a TTL.
Expire_Never(k) == FALSE /\ UNCHANGED lockVars

\* The TTL of a key runs out.  Nothing ties it to the progress of the request,
\* unless the request is assumed to be prompt.  The outer key is set first and has
\* the shorter TTL (5 s and 8 s), so it is gone before the inner one.
Expire(k) ==
    \E p \in Procs, i \in 1..2 :
        /\ k = KeyAt(p, i)
        /\ lock[k] = p
        /\ i = 2 => lock[KeyAt(p, 1)] # p
        /\ p \in Prompt => ~Holds(p, i)
        /\ lock' = [lock EXCEPT ![k] = None]
        /\ UNCHANGED <<depth, attempt, outcome, pc>>

Work(p) ==
    \/ Acquire(p) \/ AcquireFails(p) \/ AcquireThrows(p)
    \/ HandlerEnds(p) \/ Release(p)

LockNext ==
    \/ \E p \in Procs : Work(p) \/ Crash(p)
    \/ \E k \in Keys : Expire(k)

LockSpec == LockInit /\ [][LockNext]_lockVars

\* Redis expires keys, and an instance that does not crash runs on.
LockFairness ==
    /\ \A p \in Procs : WF_lockVars(Work(p))
    /\ \A k \in Keys : WF_lockVars(Expire(k))

LockFairSpec == LockSpec /\ LockFairness

-----------------------------------------------------------------------------
(* Properties                                                              *)

\* The types; no acquire call makes more than options.attempts attempts.
LockTypeOK ==
    /\ lock \in [Keys -> Procs \cup {None}]
    /\ depth \in [Procs -> 0..2]
    /\ attempt \in [Procs -> 0..Attempts]
    /\ outcome \in [Procs -> Outcomes]
    /\ pc \in [Procs -> LockSteps]

\* "This prevents concurrent transaction submissions from the same wallet across
\* multiple worker nodes": two requests that are prompt never run their handlers
\* for one wallet at the same time, whatever slower requests do.
PromptExcludePrompt ==
    \A p, q \in Inside \cap Prompt : WalletOf[p] = WalletOf[q] => p = q

\* "prevents a process from releasing a lock that already expired and was
\* re-acquired by another process": the finally block of one request never takes
\* the lock of another.
ReleaseTakesOnlyOwn ==
    [][\A p \in Procs :
          pc[p] = "release" /\ depth'[p] < depth[p] =>
              \A k \in Keys : lock[k] # p => lock'[k] = lock[k]]_lockVars

\* "a crashed holder can never deadlock a resource": no request keeps a key for
\* ever, whether it answers, fails or dies.
LockIsFreed ==
    \A p \in Procs, i \in 1..2 : lock[KeyAt(p, i)] = p ~> lock[KeyAt(p, i)] # p

\* The mutex the prompt requests make up: each holds its wallet while it is in
\* the body of its wallet lock.
Holding == {p \in Prompt : Holds(p, 1)}

HolderOf(holding) ==
    [w \in Wallets |->
        IF \E p \in holding : WalletOf[p] = w
        THEN CHOOSE p \in holding : WalletOf[p] = w
        ELSE None]

mutexHolder == HolderOf(Holding)

M == INSTANCE Mutex WITH Procs <- Prompt, Keys <- Wallets, KeyOf <- WalletOf, holder <- mutexHolder

\* What the interceptors promise to the requests that end within their TTLs.
ImplementsMutex == M!Spec
=============================================================================
