------------------------------- MODULE Caches -------------------------------
(***************************************************************************)
(* The caches, in three parts that share no state: the bounded ones in     *)
(* memory, the cached balances of wallets and the quotes of the price      *)
(* oracle.                                                                 *)
(***************************************************************************)
EXTENDS Integers, Sequences, FiniteSets

-----------------------------------------------------------------------------
(***************************************************************************)
(* The two bounded in-memory caches: TtlCache (utils/ttl-cache.util.ts),    *)
(* used through getOrSet by the subgraph queries, and                       *)
(* AddressResolutionCacheService.  Both keep a Map, whose order is the      *)
(* order of insertion, as the record of recency.  Every synchronous stretch *)
(* is one step; the loader is awaited between the lookup and the insert.    *)
(***************************************************************************)

CONSTANTS CacheKeys, MaxEntries, CacheTtl,
          MaxLoads,       \* bound on the lookups
          MaxInFlight,    \* bound on the loads under way at once
          MaxCacheClock

ASSUME CacheAssumption == MaxEntries \in Nat \ {0} /\ CacheTtl \in Nat \ {0}

VARIABLES kind,        \* which of the two caches this is
          cacheClock,
          entries,     \* the Map: a sequence of entries, oldest insertion first
          source,      \* the version of the data behind every key
          loading,     \* loads in flight
          used,        \* <<k, l>>: key l was hit or inserted after k last was
          outrun,      \* keys deleted while a load of theirs was in flight
          servedOld    \* keys whose value from before a delete was served after it

lruVars == <<kind, cacheClock, entries, source, loading, used, outrun, servedOld>>

Loads == 1..MaxLoads

LruInit ==
    /\ kind \in {"ttl", "address"} /\ cacheClock = 0 /\ entries = <<>>
    /\ source = [k \in CacheKeys |-> 0]
    /\ loading = [l \in Loads |-> [at |-> "new"]]
    /\ used = {} /\ outrun = {} /\ servedOld = {}

(* A Map holds a key once, and delete() closes the gap.                     *)
IndexOf(key) == {i \in DOMAIN entries : entries[i].key = key}
Without(i) == [j \in 1..(Len(entries) - 1) |-> IF j < i THEN entries[j] ELSE entries[j + 1]]
Dropping(key) ==
    IF IndexOf(key) = {} THEN entries ELSE Without(CHOOSE i \in IndexOf(key) : TRUE)

Touch(key) ==
    used' = {p \in used : key \notin {p[1], p[2]}} \cup ((CacheKeys \ {key}) \X {key})

(* set(): replace, then drop from the old end while over capacity.          *)
SetTtl(key, entry) ==
    LET longer == Append(Dropping(key), entry)
    IN SubSeq(longer, 1 + (IF Len(longer) > MaxEntries THEN Len(longer) - MaxEntries ELSE 0),
              Len(longer))

(* One entry more than the bound before room is made.                       *)
SetAddress_OneMore(key, entry) ==
    LET room == IF Len(entries) > MaxEntries THEN Tail(entries) ELSE entries
        at == {i \in DOMAIN room : room[i].key = key}
    IN IF at = {} THEN Append(room, entry)
       ELSE [room EXCEPT ![CHOOSE i \in at : TRUE] = entry]

(* resolve(): make room first, then Map.set, which keeps the place of a key *)
(* that is already there.                                                   *)
SetAddress(key, entry) ==
    LET room == IF Len(entries) >= MaxEntries THEN Tail(entries) ELSE entries
        at == {i \in DOMAIN room : room[i].key = key}
    IN IF at = {} THEN Append(room, entry)
       ELSE [room EXCEPT ![CHOOSE i \in at : TRUE] = entry]

(* The first lookup of getOrSet() or resolve(): a fresh entry is served and *)
(* moved to the young end, an expired one is dropped, a miss starts a load. *)
(* A hit that leaves the entry where it is.                                 *)
Hit_InPlace(key, entry) == entries
Hit(key, entry) == Append(Dropping(key), entry)

Lookup(l) ==
    /\ loading[l].at = "new" /\ \A m \in 1..(l - 1) : loading[m].at # "new"
    /\ Cardinality({m \in Loads : loading[m].at \in {"load", "insert"}}) < MaxInFlight
    /\ \E key \in CacheKeys :
         \/ \E i \in IndexOf(key) :
              /\ entries[i].expiresAt > cacheClock
              /\ loading' = [loading EXCEPT ![l] = [at |-> "done"]]
              /\ entries' = Hit(key, entries[i])
              /\ servedOld' = IF entries[i].version = source[key] THEN servedOld
                              ELSE servedOld \cup {key}
              /\ Touch(key)
         \/ /\ \A i \in IndexOf(key) : entries[i].expiresAt <= cacheClock
            /\ loading' = [loading EXCEPT ![l] = [at |-> "load", key |-> key, since |-> cacheClock]]
            /\ entries' = Dropping(key)
            /\ UNCHANGED <<used, servedOld>>
    /\ UNCHANGED <<kind, cacheClock, source, outrun>>

(* The loader reads the source; the answer may arrive later.                *)
Answer(l) ==
    /\ loading[l].at = "load"
    /\ loading' = [loading EXCEPT ![l] = [at |-> "insert", key |-> loading[l].key,
                                          since |-> loading[l].since,
                                          version |-> source[loading[l].key]]]
    /\ UNCHANGED <<kind, cacheClock, entries, source, used, outrun, servedOld>>

InsertLoaded(l) ==
    LET key == loading[l].key
        entry == [key |-> key, version |-> loading[l].version,
                  expiresAt |-> (IF kind = "ttl" THEN cacheClock ELSE loading[l].since) + CacheTtl]
    IN /\ loading[l].at = "insert"
       /\ entries' = IF kind = "ttl" THEN SetTtl(key, entry) ELSE SetAddress(key, entry)
       /\ loading' = [loading EXCEPT ![l] = [at |-> "done"]]
       /\ Touch(key)
       /\ UNCHANGED <<kind, cacheClock, source, outrun, servedOld>>

(* A failure of the loader is not cached.                                   *)
LoadFails(l) ==
    /\ loading[l].at = "load"
    /\ loading' = [loading EXCEPT ![l] = [at |-> "done"]]
    /\ UNCHANGED <<kind, cacheClock, entries, source, used, outrun, servedOld>>

(* The data behind a key changes, once, and the entry is deleted.           *)
ChangeAndDelete ==
    /\ \E key \in CacheKeys :
         /\ \A k \in CacheKeys : source[k] = 0
         /\ source' = [source EXCEPT ![key] = @ + 1]
         /\ entries' = Dropping(key)
         /\ outrun' = IF \E l \in Loads : loading[l].at = "insert" /\ loading[l].key = key
                      THEN outrun \cup {key} ELSE outrun
    /\ UNCHANGED <<kind, cacheClock, loading, used, servedOld>>

LruTick ==
    /\ cacheClock < MaxCacheClock /\ cacheClock' = cacheClock + 1
    /\ UNCHANGED <<kind, entries, source, loading, used, outrun, servedOld>>

LruNext ==
    \/ \E l \in Loads : Lookup(l) \/ Answer(l) \/ InsertLoaded(l) \/ LoadFails(l)
    \/ ChangeAndDelete \/ LruTick

LruSpec == LruInit /\ [][LruNext]_lruVars

----------------------------------------------------------------------------
(* Neither cache outgrows its bound or holds a key twice; after a delete    *)
(* the old value is served again only if a load of it was in flight; and    *)
(* the Map of the TtlCache is in order of last use, so that the entry which *)
(* an insert pushes out is the one used longest ago.                        *)
CacheIsBounded ==
    /\ Len(entries) <= MaxEntries
    /\ \A i, j \in DOMAIN entries : i # j => entries[i].key # entries[j].key
    /\ servedOld \subseteq outrun
    /\ kind = "ttl" => \A i, j \in DOMAIN entries :
          i < j => <<entries[i].key, entries[j].key>> \in used

-----------------------------------------------------------------------------
(***************************************************************************)
(* Cached wallet balances: BalanceCacheService                              *)
(* (modules/wallets/services/balance-cache.service.ts) with its Redis entry *)
(* and its in-memory fallback, and the sync jobs of BalanceWorker           *)
(* (workers/balance.worker.ts) that fill it.  One wallet; its balance is    *)
(* either low or not, and `versions` counts its changes.                    *)
(***************************************************************************)

CONSTANTS MaxSyncs, BalanceTtl, MaxBalanceClock, MaxChanges, MaxRedisFaults

VARIABLES balanceClock,
          onChain,        \* the account on the network: version, and whether it is low
          redisEntry, memoryEntry,
          syncJob,
          alerts,        \* versions a low-balance event was emitted for
          balanceFaults,
          lastRead,      \* what the last get() returned
          crossed        \* Redis was written between another job's two writes

balanceVars ==
    <<balanceClock, onChain, redisEntry, memoryEntry, syncJob, alerts, balanceFaults, lastRead,
      crossed>>

Syncs == 1..MaxSyncs
NoBalance == [version |-> -1, low |-> FALSE, cachedAt |-> 0]

BalanceInit ==
    /\ balanceClock = 0 /\ \E low \in BOOLEAN : onChain = [version |-> 0, low |-> low]
    /\ redisEntry = NoBalance /\ memoryEntry = NoBalance
    /\ syncJob = [j \in Syncs |-> [at |-> "new"]]
    /\ alerts = {} /\ balanceFaults = 0 /\ lastRead = NoBalance /\ crossed = FALSE

BalanceChanges ==
    /\ onChain.version < MaxChanges
    /\ \E low \in BOOLEAN : onChain' = [version |-> onChain.version + 1, low |-> low]
    /\ UNCHANGED <<balanceClock, redisEntry, memoryEntry, syncJob, alerts, balanceFaults, lastRead, crossed>>

(* The job reads Horizon; a failure fails the job.                          *)
FetchBalances(j) ==
    /\ syncJob[j].at = "new" /\ \A i \in 1..(j - 1) : syncJob[i].at # "new"
    /\ \/ syncJob' = [syncJob EXCEPT ![j] = [at |-> "set", version |-> onChain.version, low |-> onChain.low]]
       \/ syncJob' = [syncJob EXCEPT ![j] = [at |-> "failed"]]
    /\ UNCHANGED <<balanceClock, onChain, redisEntry, memoryEntry, alerts, balanceFaults, lastRead, crossed>>

BetweenWrites == \E j \in Syncs : syncJob[j].at = "memory"

Cached(j) == [version |-> syncJob[j].version, low |-> syncJob[j].low, cachedAt |-> balanceClock]

(* The error of Redis ends the job.                                         *)
SetEx_Throws(j) ==
    /\ syncJob[j].at = "set"
    /\ \/ /\ redisEntry' = Cached(j) /\ UNCHANGED balanceFaults
          /\ syncJob' = [syncJob EXCEPT ![j].at = "memory"]
       \/ /\ balanceFaults < MaxRedisFaults /\ balanceFaults' = balanceFaults + 1
          /\ syncJob' = [syncJob EXCEPT ![j].at = "done"]
          /\ UNCHANGED redisEntry
    /\ crossed' = (crossed \/ BetweenWrites)
    /\ UNCHANGED <<balanceClock, onChain, memoryEntry, alerts, lastRead>>

(* setex(), whose failure is only logged.                                   *)
SetEx(j) ==
    /\ syncJob[j].at = "set"
    /\ \/ redisEntry' = Cached(j) /\ UNCHANGED balanceFaults
       \/ /\ balanceFaults < MaxRedisFaults /\ balanceFaults' = balanceFaults + 1
          /\ UNCHANGED redisEntry
    /\ syncJob' = [syncJob EXCEPT ![j].at = "memory"]
    /\ crossed' = (crossed \/ BetweenWrites)
    /\ UNCHANGED <<balanceClock, onChain, memoryEntry, alerts, lastRead>>

(* The fallback is always written; then the thresholds and the events.      *)
SetMemory(j) ==
    /\ syncJob[j].at = "memory"
    /\ memoryEntry' = Cached(j)
    /\ alerts' = IF syncJob[j].low THEN alerts \cup {syncJob[j].version} ELSE alerts
    /\ syncJob' = [syncJob EXCEPT ![j].at = "done"]
    /\ UNCHANGED <<balanceClock, onChain, redisEntry, balanceFaults, lastRead, crossed>>

RedisLive == redisEntry # NoBalance /\ balanceClock < redisEntry.cachedAt + BalanceTtl

(* get(): the entry in Redis, and otherwise whatever the fallback holds.    *)
GetBalance ==
    /\ \/ /\ lastRead' = IF RedisLive THEN redisEntry ELSE memoryEntry
          /\ UNCHANGED balanceFaults
       \/ /\ balanceFaults < MaxRedisFaults /\ balanceFaults' = balanceFaults + 1
          /\ lastRead' = memoryEntry
    /\ UNCHANGED <<balanceClock, onChain, redisEntry, memoryEntry, syncJob, alerts, crossed>>

Invalidate ==
    /\ \/ redisEntry' = NoBalance /\ UNCHANGED balanceFaults
       \/ /\ balanceFaults < MaxRedisFaults /\ balanceFaults' = balanceFaults + 1
          /\ UNCHANGED redisEntry
    /\ memoryEntry' = NoBalance
    /\ crossed' = (crossed \/ BetweenWrites)
    /\ UNCHANGED <<balanceClock, onChain, syncJob, alerts, lastRead>>

BalanceTick ==
    /\ balanceClock < MaxBalanceClock /\ balanceClock' = balanceClock + 1
    /\ UNCHANGED <<onChain, redisEntry, memoryEntry, syncJob, alerts, balanceFaults, lastRead, crossed>>

BalanceNext ==
    \/ \E j \in Syncs : FetchBalances(j) \/ SetEx(j) \/ SetMemory(j)
    \/ BalanceChanges \/ GetBalance \/ Invalidate \/ BalanceTick

BalanceSpec == BalanceInit /\ [][BalanceNext]_balanceVars

----------------------------------------------------------------------------
(* A sync is whole: a job that saw a low balance raises the alert even when *)
(* Redis fails, and with no job under way the two copies hold the same      *)
(* version, unless Redis failed or was written between the two writes of    *)
(* another job.                                                             *)
SyncIsWhole ==
    /\ \A j \in Syncs : syncJob[j].at = "done" /\ syncJob[j].low => syncJob[j].version \in alerts
    /\ balanceFaults = 0 /\ ~ crossed /\ (\A j \in Syncs : syncJob[j].at \notin {"set", "memory"}) =>
          redisEntry.version = memoryEntry.version

-----------------------------------------------------------------------------
(***************************************************************************)
(* PriceOracleService (modules/policies/price-oracle.service.ts): quotes    *)
(* for one asset in one base currency, from a static table or from an HTTP  *)
(* oracle, with an in-memory cache.  Several conversions run at once; the   *)
(* request to the oracle is awaited between the cache lookup and the cache  *)
(* write.                                                                   *)
(***************************************************************************)

CONSTANTS MaxConversions,
          MaxAge,         \* settings.maxAgeMs
          MaxQuoteLag,    \* how old a quote of the provider may be
          MaxFetch,       \* how long a request may take: settings.timeoutMs
          MaxOracleClock

ASSUME OracleAssumption ==
    /\ MaxAge \in Nat \ {0} /\ MaxQuoteLag \in Nat /\ MaxFetch \in Nat

VARIABLES staticPrice,    \* whether the operator's table prices the asset
          oracleClock, quoteCache, conversion

oracleVars == <<staticPrice, oracleClock, quoteCache, conversion>>

Conversions == 1..MaxConversions
NoEntry == [asOf |-> 0, expiresAt |-> -1]

(* ttl = max(1000, floor(maxAge / 2))                                       *)
QuoteTtl == IF MaxAge \div 2 > 1 THEN MaxAge \div 2 ELSE 1

OracleInit ==
    /\ staticPrice \in BOOLEAN /\ oracleClock = 0
    /\ quoteCache = NoEntry
    /\ conversion = [c \in Conversions |-> [at |-> "new"]]

Used(asOf) == [at |-> "used", asOf |-> asOf, when |-> oracleClock]
Entry(asOf) == [asOf |-> asOf, expiresAt |-> oracleClock + QuoteTtl]

(* An entry that is there is used.                                          *)
GetCached_Forever == quoteCache # NoEntry

GetCached == quoteCache.expiresAt > oracleClock

(* getQuote(): a live cache entry answers; otherwise the static table, and  *)
(* then the request.                                                        *)
GetQuote(c) ==
    /\ conversion[c].at = "new"
    /\ \A d \in 1..(c - 1) : conversion[d].at # "new"
    /\ IF GetCached
       THEN /\ conversion' = [conversion EXCEPT ![c] = Used(quoteCache.asOf)]
            /\ UNCHANGED quoteCache
       ELSE IF staticPrice
       THEN /\ conversion' = [conversion EXCEPT ![c] = Used(oracleClock)]
            /\ quoteCache' = Entry(oracleClock)
       ELSE /\ conversion' = [conversion EXCEPT ![c] = [at |-> "asked", since |-> oracleClock]]
            /\ UNCHANGED quoteCache
    /\ UNCHANGED <<staticPrice, oracleClock>>

(* fetchQuote(): the provider's answer carries the time the quote was made; *)
(* one older than maxAge is refused, anything else is cached and used.      *)
FetchQuote(c) ==
    /\ conversion[c].at = "asked"
    /\ \E lag \in 0..MaxQuoteLag :
         IF lag > MaxAge
         THEN /\ conversion' = [conversion EXCEPT ![c] = [at |-> "failed"]]
              /\ UNCHANGED quoteCache
         ELSE /\ conversion' = [conversion EXCEPT ![c] = Used(oracleClock - lag)]
              /\ quoteCache' = Entry(oracleClock - lag)
    /\ UNCHANGED <<staticPrice, oracleClock>>

(* An HTTP error, an answer parseQuote refuses, or the abort of the timer.  *)
FetchFails(c) ==
    /\ conversion[c].at = "asked"
    /\ conversion' = [conversion EXCEPT ![c] = [at |-> "failed"]]
    /\ UNCHANGED <<staticPrice, oracleClock, quoteCache>>

ClearCache ==
    /\ quoteCache' = NoEntry
    /\ UNCHANGED <<staticPrice, oracleClock, conversion>>

OracleTick ==
    /\ oracleClock < MaxOracleClock
    /\ \A c \in Conversions : conversion[c].at = "asked" => oracleClock < conversion[c].since + MaxFetch
    /\ oracleClock' = oracleClock + 1
    /\ UNCHANGED <<staticPrice, quoteCache, conversion>>

OracleNext ==
    \/ \E c \in Conversions : GetQuote(c) \/ FetchQuote(c) \/ FetchFails(c)
    \/ ClearCache \/ OracleTick

OracleSpec == OracleInit /\ [][OracleNext]_oracleVars

Age(c) == conversion[c].when - conversion[c].asOf

----------------------------------------------------------------------------
(* No conversion uses a quote older than the age limit and the life of a    *)
(* cache entry together: the age is checked when the quote is fetched, and  *)
(* the entry's life is counted from there.                                  *)
QuoteAgeBounded ==
    \A c \in Conversions : conversion[c].at = "used" => Age(c) < MaxAge + QuoteTtl

-----------------------------------------------------------------------------

\* What is cached can be relied on: the two copies of a balance agree and a low one
\* raises its alert, the bounded caches keep their bound, their order and no value
\* from before a delete, but for the races named there, and a quote that is kept for a
\* conversion is not too old for it.  See SyncIsWhole, CacheIsBounded, QuoteAgeBounded.
CachesAreSound == SyncIsWhole /\ CacheIsBounded /\ QuoteAgeBounded
=============================================================================
