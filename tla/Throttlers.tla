----------------------------- MODULE Throttlers -----------------------------
(***************************************************************************)
(* The throttlers of authenticated routes, in two parts that share no      *)
(* state: the sliding windows of clients and agents, and the fixed windows *)
(* of the named tiers.                                                     *)
(***************************************************************************)
EXTENDS Integers, Sequences, FiniteSets

-----------------------------------------------------------------------------
(***************************************************************************)
(* SlidingWindowThrottlerGuard (src/common/guards) and                     *)
(* AgentRateLimiterGuard (src/modules/agents/guards): a sorted set of      *)
(* request stamps per client, updated in one MULTI.  Unlike the log of     *)
(* PublicRateLimit it records refused requests too, and the guards let a   *)
(* request through when Redis fails.  The limit of an agent comes from its *)
(* row and is cached; one bucket of either guard is modelled.              *)
(***************************************************************************)

CONSTANTS
    MaxThrottled,     \* requests, that arrive in the order of their numbers
    TierLimits,       \* limits the route and the caller's tier may give
    AgentLimits,      \* <<rateLimit of the agent at first, after an update>>
    DefaultLimit,     \* rateLimit.agentExecutions
    SlidingWindow,    \* windowSeconds
    LimitTtl,         \* cacheTtlSeconds
    MaxThrottleFaults, \* bound on the failed calls
    MaxThrottleDelay, \* bound on the time a request spends in the guard
    MaxThrottleClock  \* bound on the clock

ASSUME ThrottleAssumption ==
    /\ SlidingWindow \in Nat \ {0} /\ MaxThrottleDelay \in 0..(SlidingWindow - 1)

VARIABLES
    limiter,          \* the guard whose bucket this is
    throttleClock,    \* Date.now()
    updatedAt,        \* when the agent's rateLimit was changed, or Never
    limitCache,       \* [value, until] of rate_limit_config:agent:<id>
    throttled,        \* [1..MaxThrottled -> the request]
    window,           \* requests in the sorted set
    windowEnds,       \* end of its TTL
    throttleFaults    \* calls that failed

throttlerVars == <<limiter, throttleClock, updatedAt, limitCache, throttled, window, windowEnds, throttleFaults>>

Never == 99

Throttled == 1..MaxThrottled

ThrottlerInit ==
    /\ limiter \in {"route", "agent"}
    /\ throttleClock = 0
    /\ updatedAt = Never
    /\ limitCache = [value |-> 0, until |-> 0]
    /\ throttled = [r \in Throttled |-> [step |-> "none"]]
    /\ window = {}
    /\ windowEnds = 0
    /\ throttleFaults = 0

ThrottleFault ==
    /\ throttleFaults < MaxThrottleFaults
    /\ throttleFaults' = throttleFaults + 1

AgentLimit == IF updatedAt = Never THEN AgentLimits[1] ELSE AgentLimits[2]

InOrder(r) ==
    /\ throttled[r].step = "none"
    /\ \A q \in 1..(r - 1) : throttled[q].step # "none"

ToMulti(r, limit) ==
    throttled' = [throttled EXCEPT ![r] = [step |-> "multi", since |-> @.since, now |-> throttleClock,
                                           limit |-> limit]]

\* SlidingWindowThrottlerGuard.canActivate: the limit is known at once, and the
\* request is stamped with it.
EnterRoute(r) ==
    /\ InOrder(r) /\ limiter = "route"
    /\ \E limit \in TierLimits :
        throttled' = [throttled EXCEPT ![r] = [step |-> "multi", since |-> throttleClock,
                                               now |-> throttleClock, limit |-> limit]]
    /\ UNCHANGED <<limiter, throttleClock, updatedAt, limitCache, window, windowEnds, throttleFaults>>

\* AgentRateLimiterGuard.canActivate begins with the cached limit; the request
\* fails when that read does.
EnterAgent(r) ==
    /\ InOrder(r) /\ limiter = "agent"
    /\ throttled' = [throttled EXCEPT ![r] =
           IF throttleClock < limitCache.until
           THEN [step |-> "multi", since |-> throttleClock, now |-> throttleClock, limit |-> limitCache.value]
           ELSE [step |-> "row", since |-> throttleClock]]
    /\ UNCHANGED <<limiter, throttleClock, updatedAt, limitCache, window, windowEnds, throttleFaults>>

EnterFails(r) ==
    /\ InOrder(r) /\ limiter = "agent" /\ ThrottleFault
    /\ throttled' = [throttled EXCEPT ![r] = [step |-> "failed"]]
    /\ UNCHANGED <<limiter, throttleClock, updatedAt, limitCache, window, windowEnds>>

\* The agent's row is read; when that fails the default limit holds.
ReadRow(r) ==
    /\ throttled[r].step = "row"
    /\ \/ /\ throttled' = [throttled EXCEPT ![r] = [step |-> "set", since |-> @.since, limit |-> AgentLimit]]
          /\ UNCHANGED throttleFaults
       \/ ToMulti(r, DefaultLimit) /\ ThrottleFault
    /\ UNCHANGED <<limiter, throttleClock, updatedAt, limitCache, window, windowEnds>>

\* The limit that was read is cached for LimitTtl; a failure is only logged.
CacheLimit_Forever(r) ==
    /\ throttled[r].step = "set"
    /\ \/ limitCache' = [value |-> throttled[r].limit, until |-> Never] /\ UNCHANGED throttleFaults
       \/ UNCHANGED limitCache /\ ThrottleFault
    /\ ToMulti(r, throttled[r].limit)
    /\ UNCHANGED <<limiter, throttleClock, updatedAt, window, windowEnds>>

CacheLimit(r) ==
    /\ throttled[r].step = "set"
    /\ \/ /\ limitCache' = [value |-> throttled[r].limit, until |-> throttleClock + LimitTtl]
          /\ UNCHANGED throttleFaults
       \/ UNCHANGED limitCache /\ ThrottleFault
    /\ ToMulti(r, throttled[r].limit)
    /\ UNCHANGED <<limiter, throttleClock, updatedAt, window, windowEnds>>

\* What the sorted set holds once it is pruned by the stamp of request r.
Pruned(r) ==
    {q \in (IF throttleClock >= windowEnds THEN {} ELSE window) :
        throttled[q].now > throttled[r].now - SlidingWindow}

\* prune, count, add and expire in one MULTI.
Recorded(r, step) ==
    /\ window' = Pruned(r) \cup {r}
    /\ windowEnds' = throttleClock + SlidingWindow
    /\ throttled' = [throttled EXCEPT ![r] = [step |-> step, now |-> @.now, at |-> throttleClock]]

\* The count is taken before the insert.
Multi_CountAfter(r) ==
    /\ throttled[r].step = "multi"
    /\ Recorded(r, IF Cardinality(Pruned(r)) <= throttled[r].limit THEN "allowed" ELSE "refused")
    /\ UNCHANGED <<limiter, throttleClock, updatedAt, limitCache, throttleFaults>>

Multi(r) ==
    /\ throttled[r].step = "multi"
    /\ Recorded(r, IF Cardinality(Pruned(r)) < throttled[r].limit THEN "allowed" ELSE "refused")
    /\ UNCHANGED <<limiter, throttleClock, updatedAt, limitCache, throttleFaults>>

\* The MULTI fails, executed or not: the request is let through.
MultiFails(r) ==
    /\ throttled[r].step = "multi" /\ ThrottleFault
    /\ \/ Recorded(r, "open")
       \/ /\ throttled' = [throttled EXCEPT ![r] = [step |-> "failed"]]
          /\ UNCHANGED <<window, windowEnds>>
    /\ UNCHANGED <<limiter, throttleClock, updatedAt, limitCache>>

\* The agent's metadata is updated (AgentService.update): the cache is not told.
UpdateRateLimit ==
    /\ limiter = "agent" /\ updatedAt = Never
    /\ updatedAt' = throttleClock
    /\ UNCHANGED <<limiter, throttleClock, limitCache, throttled, window, windowEnds, throttleFaults>>

ThrottleTick ==
    /\ throttleClock < MaxThrottleClock
    /\ \A r \in Throttled : throttled[r].step \in {"row", "set", "multi"} =>
            throttleClock < throttled[r].since + MaxThrottleDelay
    /\ throttleClock' = throttleClock + 1
    /\ UNCHANGED <<limiter, updatedAt, limitCache, throttled, window, windowEnds, throttleFaults>>

ThrottlerNext ==
    \/ \E r \in Throttled :
        \/ EnterRoute(r) \/ EnterAgent(r) \/ EnterFails(r) \/ ReadRow(r) \/ CacheLimit(r)
        \/ Multi(r) \/ MultiFails(r)
    \/ UpdateRateLimit \/ ThrottleTick

ThrottlerSpec == ThrottlerInit /\ [][ThrottlerNext]_throttlerVars

-----------------------------------------------------------------------------
(* Properties                                                              *)

Allows(r) == throttled[r].step = "multi" /\ throttled'[r].step = "allowed"

\* "concurrent requests cannot slip past the limit": a request is let through
\* only when fewer than its limit were recorded, allowed or refused, in the time
\* before it that no delay can take out of the window.
FewerThanLimitBefore ==
    \A r \in Throttled : Allows(r) =>
        Cardinality({q \in Throttled :
            /\ throttled[q].step \in {"allowed", "refused", "open"}
            /\ throttled[q].at > throttleClock - (SlidingWindow - MaxThrottleDelay)}) < throttled[r].limit

\* An agent's old limit is enforced for at most LimitTtl after the update, plus
\* the delay of the request that cached it and of the one that uses it.
OldLimitExpires ==
    \A r \in Throttled :
        /\ limiter = "agent" /\ updatedAt # Never
        /\ throttled[r].step = "multi" /\ throttled[r].limit = AgentLimits[1]
        => throttleClock < updatedAt + LimitTtl + 2 * MaxThrottleDelay

-----------------------------------------------------------------------------
(***************************************************************************)
(* AstroidThrottlerGuard and AgentThrottlerGuard (src/common/guards) over  *)
(* RedisThrottlerStorage (src/common/throttler), for one client: which of  *)
(* the named throttlers of src/config/throttler.config.ts govern a         *)
(* request, and the fixed window with a block that each of them keeps.     *)
(* The guard stamps the request before it awaits the script.               *)
(***************************************************************************)

CONSTANTS
    MaxTierRequests,  \* requests, that arrive in the order of their numbers
    LimitOf,          \* [name of a registered throttler -> limit]
    TtlOf,            \* [name of a registered throttler -> ttl = blockDuration]
    MaxTierDelay,     \* bound on the time from stamp to script
    MaxTierClock      \* bound on the clock

ASSUME TierAssumption ==
    /\ DOMAIN LimitOf = DOMAIN TtlOf /\ {"api", "auth", "agent"} \subseteq DOMAIN LimitOf
    /\ \A n \in DOMAIN LimitOf : LimitOf[n] \in Nat \ {0} /\ TtlOf[n] \in Nat \ {0}

VARIABLES
    tierClock,    \* Date.now() and the clock of Redis
    bucket,       \* [name -> [hits, blockUntil, ends]]: the hash and its TTL
    tierRequest,  \* [1..MaxTierRequests -> the request]
    blockedTill,  \* [name -> end of a block no request has followed yet] (history)
    inWindow      \* [name -> requests let through since the window began] (history)

tierVars == <<tierClock, bucket, tierRequest, blockedTill, inWindow>>

Names == DOMAIN LimitOf

TierRequests == 1..MaxTierRequests

TierInit ==
    /\ tierClock = 0
    /\ bucket = [n \in Names |-> [hits |-> 0, blockUntil |-> 0, ends |-> 0]]
    /\ tierRequest = [r \in TierRequests |-> [step |-> "none"]]
    /\ blockedTill = [n \in Names |-> 0]
    /\ inWindow = [n \in Names |-> 0]

-----------------------------------------------------------------------------
(* Tiers                                                                   *)

Tiers == {"api", "auth", "webhook", "agent"}

\* TIER_RESTRICTIVENESS
Restrictiveness == [auth |-> 3, webhook |-> 2, agent |-> 1, api |-> 0]

\* matchApiKeyScopeTier: scopes stand for the rule they match, "other" for none.
MatchApiKeyScopeTier(scope) == IF scope = "other" THEN {} ELSE {scope}

\* resolveApiKeyScopeTier: the most restrictive of the tiers the scopes match.
ResolveApiKeyScopeTier(scopes) ==
    LET matched == UNION {MatchApiKeyScopeTier(s) : s \in scopes}
    IN  {t \in matched : \A u \in matched : Restrictiveness[t] >= Restrictiveness[u]}

\* isStricter compares the configured limits, or the ranking when one is missing.
IsStricter_Ranked(candidate, current) == Restrictiveness[candidate] > Restrictiveness[current]

IsStricter(candidate, current) ==
    IF {candidate, current} \subseteq Names
    THEN LimitOf[candidate] < LimitOf[current]
    ELSE Restrictiveness[candidate] > Restrictiveness[current]

\* resolveEffectiveTier of AstroidThrottlerGuard; only API keys have scopes.
ResolveEffectiveTier(routeTier, scopes) ==
    LET stricter == {t \in ResolveApiKeyScopeTier(scopes) : t # routeTier /\ IsStricter(t, routeTier)}
    IN  IF stricter = {} THEN routeTier ELSE CHOOSE t \in stricter : TRUE

\* resolveTier of AgentThrottlerGuard: what the route declares, else by caller.
ResolveTier(declared, hasAgent) ==
    IF declared # "none" THEN declared ELSE IF hasAgent THEN "agent" ELSE "api"

\* createThrottlerOptions registers the steady tiers before the bursts, and
\* handleRequest lets pass every throttler whose base tier is not the one wanted.
BurstOf(tier) == IF tier = "api" THEN "api-burst" ELSE IF tier = "auth" THEN "auth-burst" ELSE "webhook-burst"

Governing(guard, tier) ==
    SelectSeq(IF guard = "agent" THEN <<tier>> ELSE <<tier, BurstOf(tier)>>, LAMBDA n : n \in Names)

-----------------------------------------------------------------------------
(* Requests                                                                *)

\* The throttlers that remain are asked one after the other.
Pass(r, list, declared) ==
    tierRequest' = [tierRequest EXCEPT ![r] =
        IF list = <<>> THEN [step |-> "passed"]
        ELSE [step |-> "increment", list |-> list, now |-> tierClock, declared |-> declared]]

HandleTier(r) ==
    /\ tierRequest[r].step = "none" /\ \A q \in 1..(r - 1) : tierRequest[q].step # "none"
    /\ \E routeTier \in Tiers \cap Names, scopes \in SUBSET {"auth", "agent", "other"} :
        \/ Pass(r, Governing("astroid", ResolveEffectiveTier(routeTier, scopes)), routeTier)
        \/ Pass(r, Governing("agent", ResolveTier(IF routeTier = "auth" THEN "auth" ELSE "none", "agent" \in scopes)), "none")
    /\ UNCHANGED <<tierClock, bucket, blockedTill, inWindow>>

\* The hash as the script finds it: nothing once its TTL is over.
Found(n) == IF tierClock < bucket[n].ends THEN bucket[n] ELSE [hits |-> 0, blockUntil |-> 0, ends |-> 0]

Larger(a, b) == IF a > b THEN a ELSE b

\* INCREMENT_SCRIPT at time now.  An open block refuses without counting; an
\* expired one starts a clean window, though the hash keeps blockUntil.
IncrementScript_NoBlock(n, now) ==
    LET old == Found(n)
        hits == (IF old.blockUntil > 0 THEN 0 ELSE old.hits) + 1
        ttl == IF old.ends > tierClock THEN old.ends - tierClock ELSE TtlOf[n]
    IN  [refused |-> hits > LimitOf[n],
         row |-> [hits |-> hits, blockUntil |-> old.blockUntil, ends |-> tierClock + ttl],
         fresh |-> old.ends = 0,
         opens |-> hits > LimitOf[n]]

IncrementScript(n, now) ==
    LET old == Found(n)
        hits == (IF old.blockUntil > 0 THEN 0 ELSE old.hits) + 1
        ttl == IF old.ends > tierClock THEN old.ends - tierClock ELSE TtlOf[n]
        over == hits > LimitOf[n]
        until == IF over THEN now + TtlOf[n] ELSE old.blockUntil
    IN  IF old.blockUntil > now
        THEN [refused |-> TRUE, row |-> old, fresh |-> FALSE, opens |-> FALSE]
        ELSE [refused |-> over,
              row |-> [hits |-> hits, blockUntil |-> until,
                       ends |-> tierClock + (IF until > now THEN Larger(ttl, until - now) ELSE ttl)],
              fresh |-> old.ends = 0,
              opens |-> over]

Increment(r) ==
    /\ tierRequest[r].step = "increment"
    /\ LET n == Head(tierRequest[r].list)
           now == tierRequest[r].now
           result == IncrementScript(n, now)
       IN  /\ bucket' = [bucket EXCEPT ![n] = result.row]
           /\ blockedTill' = [blockedTill EXCEPT ![n] = IF result.opens THEN now + TtlOf[n]
                                                        ELSE IF result.refused THEN @ ELSE 0]
           /\ inWindow' = [inWindow EXCEPT ![n] =
                  (IF result.fresh \/ (~result.refused /\ blockedTill[n] > 0) THEN 0 ELSE @)
                  + (IF result.refused THEN 0 ELSE 1)]
           /\ IF result.refused
              THEN tierRequest' = [tierRequest EXCEPT ![r] = [step |-> "refused"]]
              ELSE Pass(r, Tail(tierRequest[r].list), tierRequest[r].declared)
    /\ UNCHANGED tierClock

\* increment catches what the script throws: the throttler lets the request pass.
IncrementFails(r) ==
    /\ tierRequest[r].step = "increment"
    /\ Pass(r, Tail(tierRequest[r].list), tierRequest[r].declared)
    /\ UNCHANGED <<tierClock, bucket, blockedTill, inWindow>>

TierTick ==
    /\ tierClock < MaxTierClock
    /\ \A r \in TierRequests : tierRequest[r].step = "increment" =>
            tierClock < tierRequest[r].now + MaxTierDelay
    /\ tierClock' = tierClock + 1
    /\ UNCHANGED <<bucket, tierRequest, blockedTill, inWindow>>

TierNext ==
    \/ \E r \in TierRequests : HandleTier(r) \/ Increment(r) \/ IncrementFails(r)
    \/ TierTick

TierSpec == TierInit /\ [][TierNext]_tierVars

-----------------------------------------------------------------------------
(* Properties                                                              *)

Counts(r, n) ==
    /\ tierRequest[r].step = "increment" /\ Head(tierRequest[r].list) = n
    /\ ~IncrementScript(n, tierRequest[r].now).refused /\ bucket'[n] = IncrementScript(n, tierRequest[r].now).row

\* "exceeding `limit` opens a block that lasts `blockDuration`": no throttler
\* counts a request before the end of the last block it opened.
BlockHolds ==
    \A r \in TierRequests, n \in Names : Counts(r, n) => tierClock >= blockedTill[n]

\* Until a block has been opened on the key, no throttler lets more than its
\* limit through from the request that starts a window to the end of the key.
\* (After a block the field stays in the hash, and resets the count of every later
\* request until the key expires.)
LimitUntilBlocked == \A n \in Names : bucket[n].blockUntil = 0 => inWindow[n] <= LimitOf[n]

\* "The effective tier is the most restrictive of the route-declared tier and
\* the tier the caller's API key scopes map to": of two registered tiers the one
\* with the smaller limit governs, and the scopes never loosen what a route says.
EffectiveTierIsTightest ==
    \A r \in TierRequests :
        /\ tierRequest[r].step = "increment"
        /\ tierRequest[r].declared # "none" /\ Head(tierRequest[r].list) \in Tiers
        => LimitOf[Head(tierRequest[r].list)] <= LimitOf[tierRequest[r].declared]
=============================================================================
