--------------------------- MODULE PublicRateLimit ---------------------------
(***************************************************************************)
(* PublicRateLimitGuard (src/common/guards) over its sliding-window logs   *)
(* (src/common/throttler), for one client: the sorted set in Redis that    *)
(* all instances share and the log in memory that each falls back on.  The *)
(* guard reads the clock before it awaits Redis, so hits are recorded      *)
(* later than they are stamped, and not in the order of their stamps.      *)
(***************************************************************************)
EXTENDS Integers, Sequences, FiniteSets, SequencesExt

CONSTANTS
    Hits,          \* requests of the client
    Replicas,      \* API instances
    Limit,         \* rule.max
    Window,        \* rule.windowSeconds
    MaxDelay,      \* bound on the time from stamp to record
    MaxClock       \* bound on the clock

ASSUME RateAssumption ==
    /\ Limit \in Nat \ {0} /\ Window \in Nat \ {0}
    /\ MaxDelay \in 0..(Window - 1) /\ MaxClock \in Nat

VARIABLES
    clock,         \* Date.now(), the same everywhere
    hit,           \* [Hits -> [step, replica, now]]: the calls of check()
    redisLog,      \* hits in the sorted set
    expiresAt,     \* end of the sorted set's TTL
    memoryLog,     \* [Replicas -> hits in order of recording]
    lastSweep,     \* [Replicas -> time]
    recorded       \* <<hit, store>> -> when the store counted it (history)

rateVars == <<clock, hit, redisLog, expiresAt, memoryLog, lastSweep, recorded>>

Stores == {"redis"} \cup Replicas

RateInit ==
    /\ clock = 0
    /\ hit = [h \in Hits |-> [step |-> "none", replica |-> "none", now |-> 0]]
    /\ redisLog = {}
    /\ expiresAt = 0
    /\ memoryLog = [i \in Replicas |-> <<>>]
    /\ lastSweep = [i \in Replicas |-> 0]
    /\ recorded = [x \in {} |-> 0]

\* check() stamps the request; record() goes to Redis when the client is ready.
Check(h, i) ==
    /\ hit[h].step = "none"
    /\ \E step \in {"redis", "memory"} :
        hit' = [hit EXCEPT ![h] = [step |-> step, replica |-> i, now |-> clock]]
    /\ UNCHANGED <<clock, redisLog, expiresAt, memoryLog, lastSweep, recorded>>

Recent(hs, now) == {h \in hs : hit[h].now > now - Window}

Record(h, store) == [x \in DOMAIN recorded \cup {<<h, store>>} |->
                        IF x = <<h, store>> THEN clock ELSE recorded[x]]

\* An expired key is gone before the script sees it.
Stored == IF clock >= expiresAt THEN {} ELSE redisLog

\* SLIDING_WINDOW_SCRIPT, and how the caller goes on.
SlidingWindowScript_OneMore(h, onAllowed, onRefused) ==
    LET log == Recent(Stored, hit[h].now)
        allowed == Cardinality(log) <= Limit
    IN  /\ redisLog' = IF allowed THEN log \cup {h} ELSE log
        /\ expiresAt' = clock + Window
        /\ recorded' = IF allowed THEN Record(h, "redis") ELSE recorded
        /\ hit' = [hit EXCEPT ![h].step = IF allowed THEN onAllowed ELSE onRefused]

SlidingWindowScript(h, onAllowed, onRefused) ==
    LET log == Recent(Stored, hit[h].now)
        allowed == Cardinality(log) < Limit
    IN  /\ redisLog' = IF allowed THEN log \cup {h} ELSE log
        /\ expiresAt' = clock + Window
        /\ recorded' = IF allowed THEN Record(h, "redis") ELSE recorded
        /\ hit' = [hit EXCEPT ![h].step = IF allowed THEN onAllowed ELSE onRefused]

RedisHit(h) ==
    /\ hit[h].step = "redis"
    /\ SlidingWindowScript(h, "allowed", "refused")
    /\ UNCHANGED <<clock, memoryLog, lastSweep>>

\* The call throws, the script having run or not: enterFallback.
RedisThrows(h) ==
    /\ hit[h].step = "redis"
    /\ \/ SlidingWindowScript(h, "memory", "memory")
       \/ /\ hit' = [hit EXCEPT ![h].step = "memory"]
          /\ UNCHANGED <<redisLog, expiresAt, recorded>>
    /\ UNCHANGED <<clock, memoryLog, lastSweep>>

\* sweep drops the log when its last entry has aged out, once per window.
Sweeps(i, now) == now - lastSweep[i] >= Window

Swept(i, now) ==
    IF Sweeps(i, now) /\ memoryLog[i] # <<>> /\ hit[Last(memoryLog[i])].now <= now - Window
    THEN <<>> ELSE memoryLog[i]

\* MemorySlidingWindowStore.hit
MemoryHit_NoPrune(h) ==
    LET i == hit[h].replica
        log == Swept(i, hit[h].now)
        allowed == Len(log) < Limit
    IN  /\ hit[h].step = "memory"
        /\ memoryLog' = [memoryLog EXCEPT ![i] = IF allowed THEN Append(log, h) ELSE log]
        /\ lastSweep' = [lastSweep EXCEPT ![i] = IF Sweeps(i, hit[h].now) THEN hit[h].now ELSE @]
        /\ recorded' = IF allowed THEN Record(h, i) ELSE recorded
        /\ hit' = [hit EXCEPT ![h].step = IF allowed THEN "allowed" ELSE "refused"]
        /\ UNCHANGED <<clock, redisLog, expiresAt>>

MemoryHit(h) ==
    LET i == hit[h].replica
        log == SelectSeq(Swept(i, hit[h].now), LAMBDA g : hit[g].now > hit[h].now - Window)
        allowed == Len(log) < Limit
    IN  /\ hit[h].step = "memory"
        /\ memoryLog' = [memoryLog EXCEPT ![i] = IF allowed THEN Append(log, h) ELSE log]
        /\ lastSweep' = [lastSweep EXCEPT ![i] = IF Sweeps(i, hit[h].now) THEN hit[h].now ELSE @]
        /\ recorded' = IF allowed THEN Record(h, i) ELSE recorded
        /\ hit' = [hit EXCEPT ![h].step = IF allowed THEN "allowed" ELSE "refused"]
        /\ UNCHANGED <<clock, redisLog, expiresAt>>

\* Time passes, but no call is held up for more than MaxDelay.
ClockTick ==
    /\ clock < MaxClock
    /\ \A h \in Hits : hit[h].step \in {"redis", "memory"} => clock < hit[h].now + MaxDelay
    /\ clock' = clock + 1
    /\ UNCHANGED <<hit, redisLog, expiresAt, memoryLog, lastSweep, recorded>>

RateNext ==
    \/ \E h \in Hits, i \in Replicas : Check(h, i)
    \/ \E h \in Hits : RedisHit(h) \/ RedisThrows(h) \/ MemoryHit(h)
    \/ ClockTick

RateSpec == RateInit /\ [][RateNext]_rateVars

-----------------------------------------------------------------------------
(* Properties                                                              *)

\* Calls, logs and times keep their types.
RateTypeOK ==
    /\ clock \in 0..MaxClock
    /\ \A h \in Hits : /\ hit[h].step \in {"none", "redis", "memory", "allowed", "refused"}
                       /\ hit[h].replica \in Replicas \cup {"none"} /\ hit[h].now \in 0..clock
    /\ redisLog \subseteq Hits /\ Cardinality(redisLog) <= Limit
    /\ \A i \in Replicas : Range(memoryLog[i]) \subseteq Hits /\ Len(memoryLog[i]) <= Limit
    /\ DOMAIN recorded \subseteq Hits \X Stores

CountedBy(store) == {h \in Hits : <<h, store>> \in DOMAIN recorded}

\* The limit applies to the requests of the trailing window.  Stamps are up to
\* MaxDelay old when they are counted and come out of order, so a log may forget
\* a request that much too early: each log lets at most Limit requests through in
\* any period of Window - MaxDelay, whatever the other instances and Redis do.
LimitPerWindow ==
    \A store \in Stores :
        Cardinality({h \in CountedBy(store) : recorded[<<h, store>>] > clock - (Window - MaxDelay)}) <= Limit

\* "Rejected requests are not recorded, so a client that keeps retrying while
\* limited regains capacity": whoever is refused was preceded, within Window of
\* their own stamp, by Limit requests that one log did count.
RefusalJustified ==
    \A h \in Hits : hit[h].step = "refused" =>
        \E store \in {"redis", hit[h].replica} :
            Cardinality(Recent(CountedBy(store) \ {h}, hit[h].now)) >= Limit
=============================================================================
