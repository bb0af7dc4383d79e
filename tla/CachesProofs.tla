---------------------------- MODULE CachesProofs ----------------------------
(***************************************************************************)
(* Proofs about what is kept in Redis: Caches, for any number of keys,     *)
(* entries, loads, jobs and conversions and any life of an entry, and      *)
(* RedisLock.                                                              *)
(***************************************************************************)
EXTENDS Caches, RedisLock, FiniteSetTheorems, SequenceTheorems, TLAPS

-----------------------------------------------------------------------------
(* Cached balances                                                         *)

SyncJob(at, version, low) == [at |-> at, version |-> version, low |-> low]

\* While a job is between its two writes, Redis holds what it is about to write, and no
\* other job is there; otherwise the copies agree.
BalanceInv ==
    /\ syncJob = [j \in Syncs |-> syncJob[j]]
    /\ balanceFaults \in Nat /\ crossed \in BOOLEAN
    /\ \A j \in Syncs :
        /\ syncJob[j].at \in {"new", "failed", "set", "memory", "done"}
        /\ syncJob[j].at \in {"set", "memory", "done"} =>
             syncJob[j] = SyncJob(syncJob[j].at, syncJob[j].version, syncJob[j].low)
        /\ syncJob[j].at = "done" /\ syncJob[j].low => syncJob[j].version \in alerts
    /\ balanceFaults = 0 /\ ~crossed =>
        /\ \A i, j \in Syncs : syncJob[i].at = "memory" /\ syncJob[j].at = "memory" => i = j
        /\ \A j \in Syncs : syncJob[j].at = "memory" => redisEntry.version = syncJob[j].version
        /\ (\A j \in Syncs : syncJob[j].at # "memory") => redisEntry.version = memoryEntry.version

\* A job that moves on keeps what it read.
LEMMA SyncMoves ==
  ASSUME BalanceInv, NEW j \in Syncs, NEW at \in {"memory", "done"}, syncJob' = [syncJob EXCEPT ![j].at = at],
         syncJob[j].at \in {"set", "memory"}
  PROVE  /\ syncJob' = [i \in Syncs |-> syncJob'[i]]
         /\ syncJob'[j] = SyncJob(at, syncJob[j].version, syncJob[j].low)
         /\ \A i \in Syncs \ {j} : syncJob'[i] = syncJob[i]
  <1>1. /\ syncJob' = [i \in Syncs |-> syncJob'[i]]
        /\ syncJob'[j] = [syncJob[j] EXCEPT !.at = at]
        /\ \A i \in Syncs \ {j} : syncJob'[i] = syncJob[i]
    BY DEF BalanceInv
  <1>2. syncJob[j] = SyncJob(syncJob[j].at, syncJob[j].version, syncJob[j].low)
    BY DEF BalanceInv
  <1>3. syncJob'[j] = SyncJob(at, syncJob[j].version, syncJob[j].low)
    BY <1>1, <1>2 DEF SyncJob
  <1> QED
    BY <1>1, <1>3

\* Every step of the jobs and of the cache keeps the invariant.
LEMMA BalanceStep == BalanceInv /\ [BalanceNext]_balanceVars => BalanceInv'
  <1> SUFFICES ASSUME BalanceInv, [BalanceNext]_balanceVars PROVE BalanceInv'
    OBVIOUS
  <1>1. ASSUME NEW j \in Syncs, FetchBalances(j) PROVE BalanceInv'
    <2>1. PICK r : /\ syncJob' = [syncJob EXCEPT ![j] = r]
                   /\ \/ r = SyncJob("set", onChain.version, onChain.low)
                      \/ r = [at |-> "failed"]
      BY <1>1, Zenon DEF FetchBalances, SyncJob
    <2>2. r.at \in {"set", "failed"} /\ (r.at = "set" => r = SyncJob(r.at, r.version, r.low))
      BY <2>1 DEF SyncJob
    <2>3. UNCHANGED <<redisEntry, memoryEntry, alerts, balanceFaults, crossed>> /\ syncJob[j].at = "new"
      BY <1>1 DEF FetchBalances
    <2>4. /\ syncJob' = [i \in Syncs |-> syncJob'[i]] /\ syncJob'[j] = r
          /\ \A i \in Syncs \ {j} : syncJob'[i] = syncJob[i]
      BY <2>1 DEF BalanceInv
    <2> QED
      BY <2>2, <2>3, <2>4 DEF BalanceInv
  <1>2. ASSUME NEW j \in Syncs, SetEx(j) PROVE BalanceInv'
    <2>1. /\ syncJob[j].at = "set" /\ syncJob' = [syncJob EXCEPT ![j].at = "memory"]
          /\ crossed' = (crossed \/ BetweenWrites) /\ UNCHANGED <<memoryEntry, alerts>>
      BY <1>2 DEF SetEx
    <2>2. /\ syncJob' = [i \in Syncs |-> syncJob'[i]]
          /\ syncJob'[j] = SyncJob("memory", syncJob[j].version, syncJob[j].low)
          /\ \A i \in Syncs \ {j} : syncJob'[i] = syncJob[i]
      BY <2>1, SyncMoves, Zenon
    <2>3. \/ redisEntry' = Cached(j) /\ balanceFaults' = balanceFaults
          \/ balanceFaults' = balanceFaults + 1
      BY <1>2 DEF SetEx
    <2>4. syncJob'[j].at = "memory" /\ syncJob'[j].version = syncJob[j].version /\ syncJob'[j].low = syncJob[j].low
      BY <2>2 DEF SyncJob
    <2>5. crossed' \in BOOLEAN /\ balanceFaults' \in Nat
      BY <2>1, <2>3 DEF BalanceInv, BetweenWrites
    <2>6. balanceFaults' = 0 /\ ~crossed' =>
            redisEntry'.version = syncJob[j].version /\ \A i \in Syncs : syncJob[i].at # "memory"
      <3>1. ~crossed' => \A i \in Syncs : syncJob[i].at # "memory"
        BY <2>1, Zenon DEF BetweenWrites
      <3>2. balanceFaults + 1 # 0
        BY DEF BalanceInv
      <3> QED
        BY <2>3, <3>1, <3>2 DEF Cached
    <2> QED
      BY <2>1, <2>2, <2>4, <2>5, <2>6 DEF BalanceInv
  <1>3. ASSUME NEW j \in Syncs, SetMemory(j) PROVE BalanceInv'
    <2>1. /\ syncJob[j].at = "memory" /\ syncJob' = [syncJob EXCEPT ![j].at = "done"]
          /\ memoryEntry' = Cached(j) /\ UNCHANGED <<redisEntry, balanceFaults, crossed>>
          /\ alerts' = IF syncJob[j].low THEN alerts \cup {syncJob[j].version} ELSE alerts
      BY <1>3 DEF SetMemory
    <2>2. /\ syncJob' = [i \in Syncs |-> syncJob'[i]]
          /\ syncJob'[j] = SyncJob("done", syncJob[j].version, syncJob[j].low)
          /\ \A i \in Syncs \ {j} : syncJob'[i] = syncJob[i]
      BY <2>1, SyncMoves, Zenon
    <2>3. syncJob'[j].at = "done" /\ syncJob'[j].version = syncJob[j].version /\ syncJob'[j].low = syncJob[j].low
      BY <2>2 DEF SyncJob
    <2>4. alerts \subseteq alerts' /\ (syncJob'[j].low => syncJob'[j].version \in alerts')
      BY <2>1, <2>3
    <2>5. memoryEntry'.version = syncJob[j].version
      BY <2>1 DEF Cached
    <2> QED
      BY <2>1, <2>2, <2>3, <2>4, <2>5 DEF BalanceInv
  <1>4. CASE UNCHANGED <<redisEntry, memoryEntry, syncJob, alerts, crossed>> /\ balanceFaults' \in Nat
             /\ (balanceFaults' = 0 => balanceFaults = 0)
    BY <1>4 DEF BalanceInv
  <1>5. CASE Invalidate
    <2>1. /\ memoryEntry' = NoBalance /\ UNCHANGED <<syncJob, alerts>>
          /\ crossed' = (crossed \/ BetweenWrites)
      BY <1>5 DEF Invalidate
    <2>2. \/ redisEntry' = NoBalance /\ balanceFaults' = balanceFaults
          \/ balanceFaults' = balanceFaults + 1
      BY <1>5 DEF Invalidate
    <2>3. crossed' \in BOOLEAN /\ balanceFaults' \in Nat
      BY <2>1, <2>2 DEF BalanceInv, BetweenWrites
    <2>4. balanceFaults' = 0 /\ ~crossed' =>
            redisEntry' = NoBalance /\ \A i \in Syncs : syncJob[i].at # "memory"
      <3>1. ~crossed' => \A i \in Syncs : syncJob[i].at # "memory"
        BY <2>1, Zenon DEF BetweenWrites
      <3>2. balanceFaults + 1 # 0
        BY DEF BalanceInv
      <3> QED
        BY <2>2, <3>1, <3>2
    <2> QED
      BY <2>1, <2>3, <2>4 DEF BalanceInv
  <1>6. CASE BalanceChanges \/ GetBalance \/ BalanceTick \/ UNCHANGED balanceVars
    <2>1. UNCHANGED <<redisEntry, memoryEntry, syncJob, alerts, crossed>>
      BY <1>6 DEF BalanceChanges, GetBalance, BalanceTick, balanceVars
    <2>2. balanceFaults' = balanceFaults \/ balanceFaults' = balanceFaults + 1
      BY <1>6 DEF BalanceChanges, GetBalance, BalanceTick, balanceVars
    <2> QED
      BY <1>4, <2>1, <2>2 DEF BalanceInv
  <1> QED
    BY <1>1, <1>2, <1>3, <1>5, <1>6 DEF BalanceNext

\* Nothing is cached yet, and both copies say so.
LEMMA BalanceStarts == BalanceInit => BalanceInv
  <1> SUFFICES ASSUME BalanceInit PROVE BalanceInv
    OBVIOUS
  <1>1. syncJob = [j \in Syncs |-> syncJob[j]] /\ \A j \in Syncs : syncJob[j].at = "new"
    BY DEF BalanceInit
  <1>2. redisEntry = memoryEntry /\ balanceFaults = 0 /\ crossed = FALSE
    BY DEF BalanceInit
  <1> QED
    BY <1>1, <1>2, Zenon DEF BalanceInv

\* With no job under way, none is between its writes.
LEMMA BalanceMeans == BalanceInv => SyncIsWhole
  BY DEF BalanceInv, SyncIsWhole

-----------------------------------------------------------------------------
(* The bounded caches                                                      *)

CacheEntry == [key : CacheKeys, version : Nat, expiresAt : Int]

KeysDiffer(s) == \A i, j \in DOMAIN s : i # j => s[i].key # s[j].key

InUseOrder(s, u) == \A i, j \in DOMAIN s : i < j => <<s[i].key, s[j].key>> \in u

\* An old value is there only of a key that was deleted under a load.
OldNeedsRace(s, src, out) == \A i \in DOMAIN s : s[i].version = src[s[i].key] \/ s[i].key \in out

LruInv ==
    /\ kind \in {"ttl", "address"} /\ cacheClock \in Nat
    /\ entries \in Seq(CacheEntry) /\ Len(entries) <= MaxEntries
    /\ KeysDiffer(entries)
    /\ kind = "ttl" => InUseOrder(entries, used)
    /\ source \in [CacheKeys -> Nat]
    /\ loading = [l \in Loads |-> loading[l]]
    /\ \A l \in Loads :
        /\ loading[l].at \in {"load", "insert"} => loading[l].key \in CacheKeys /\ loading[l].since \in Nat
        /\ loading[l].at = "insert" =>
             /\ loading[l].version \in Nat
             /\ loading[l].version = source[loading[l].key] \/ loading[l].key \in outrun
    /\ OldNeedsRace(entries, source, outrun)
    /\ servedOld \subseteq outrun

\* One Map is what deletions have left of another.
PartOf(t, s) ==
    \E f \in [DOMAIN t -> DOMAIN s] :
        /\ \A i \in DOMAIN t : t[i] = s[f[i]]
        /\ \A i, j \in DOMAIN t : i < j => f[i] < f[j]

LEMMA PartKeeps ==
  ASSUME NEW s \in Seq(CacheEntry), NEW t \in Seq(CacheEntry), PartOf(t, s)
  PROVE  /\ KeysDiffer(s) => KeysDiffer(t)
         /\ \A u : InUseOrder(s, u) => InUseOrder(t, u)
         /\ \A src, out : OldNeedsRace(s, src, out) => OldNeedsRace(t, src, out)
  <1>1. PICK f \in [DOMAIN t -> DOMAIN s] :
          /\ \A i \in DOMAIN t : t[i] = s[f[i]]
          /\ \A i, j \in DOMAIN t : i < j => f[i] < f[j]
    BY Zenon DEF PartOf
  <1>2. /\ \A i \in DOMAIN t : f[i] \in DOMAIN s /\ f[i] \in Int /\ i \in Int
        /\ \A i, j \in DOMAIN t : i # j => f[i] # f[j]
    <2>1. DOMAIN t \subseteq Int /\ DOMAIN s \subseteq Int
      OBVIOUS
    <2>2. \A i \in DOMAIN t : f[i] \in DOMAIN s /\ f[i] \in Int /\ i \in Int
      BY <1>1, <2>1
    <2>3. ASSUME NEW i \in DOMAIN t, NEW j \in DOMAIN t, i # j PROVE f[i] # f[j]
      <3>1. i < j \/ j < i
        BY <2>2, <2>3
      <3> QED
        BY <1>1, <2>2, <3>1
    <2> QED
      BY <2>2, <2>3
  <1>3. KeysDiffer(s) => KeysDiffer(t)
    BY <1>1, <1>2 DEF KeysDiffer
  <1>4. \A u : InUseOrder(s, u) => InUseOrder(t, u)
    BY <1>1, <1>2 DEF InUseOrder
  <1>5. \A src, out : OldNeedsRace(s, src, out) => OldNeedsRace(t, src, out)
    BY <1>1, <1>2 DEF OldNeedsRace
  <1> QED
    BY <1>3, <1>4, <1>5

\* delete(): the entry of the key is gone, the others keep their order.
LEMMA DroppingKeeps ==
  ASSUME entries \in Seq(CacheEntry), KeysDiffer(entries), NEW key
  PROVE  /\ Dropping(key) \in Seq(CacheEntry) /\ KeysDiffer(Dropping(key))
         /\ Len(Dropping(key)) <= Len(entries)
         /\ IndexOf(key) # {} => Len(Dropping(key)) < Len(entries)
         /\ \A u : InUseOrder(entries, u) => InUseOrder(Dropping(key), u)
         /\ \A src, out : OldNeedsRace(entries, src, out) => OldNeedsRace(Dropping(key), src, out)
         /\ \A i \in DOMAIN Dropping(key) : Dropping(key)[i].key # key
  <1>1. CASE IndexOf(key) = {}
    BY <1>1 DEF Dropping, IndexOf
  <1>2. CASE IndexOf(key) # {}
    <2>1. PICK k \in IndexOf(key) : Dropping(key) = Without(k)
      BY <1>2, Zenon DEF Dropping
    <2> DEFINE n == Len(entries)
               d == Without(k)
    <2>2. n \in Nat /\ DOMAIN entries = 1..n /\ k \in 1..n /\ entries[k].key = key
      BY <2>1 DEF IndexOf
    <2>3. \A i \in 1..(n - 1) : d[i] = IF i < k THEN entries[i] ELSE entries[i + 1]
      BY DEF Without
    <2>4. \A i \in 1..(n - 1) : d[i] \in CacheEntry
      BY <2>2, <2>3
    <2>5. d \in [1..(n - 1) -> CacheEntry] /\ n - 1 \in Nat
      BY <2>2, <2>4 DEF Without
    <2>6. d \in Seq(CacheEntry) /\ Len(d) = n - 1 /\ DOMAIN d = 1..(n - 1)
      BY <2>5
    <2> HIDE DEF d
    <2>7. \A i \in 1..(n - 1) : d[i].key # key
      BY <2>2, <2>3 DEF KeysDiffer
    <2>8. PartOf(d, entries)
      <3> DEFINE f == [i \in 1..(n - 1) |-> IF i < k THEN i ELSE i + 1]
      <3>1. \A i \in 1..(n - 1) : f[i] \in 1..n /\ d[i] = entries[f[i]]
        BY <2>2, <2>3
      <3>2. \A i, j \in 1..(n - 1) : i < j => f[i] < f[j]
        BY <2>2
      <3>3. f \in [DOMAIN d -> DOMAIN entries]
        BY <2>2, <2>6, <3>1
      <3> HIDE DEF f
      <3> QED
        BY <2>6, <3>1, <3>2, <3>3, Zenon DEF PartOf
    <2>11. Dropping(key) = d
      BY <2>1 DEF d
    <2> QED
      BY <2>2, <2>6, <2>7, <2>8, <2>11, PartKeeps
  <1> QED
    BY <1>1, <1>2

\* A new entry at the young end, of a key that is not there.
LEMMA AppendKeeps ==
  ASSUME NEW s \in Seq(CacheEntry), KeysDiffer(s), NEW e \in CacheEntry,
         \A i \in DOMAIN s : s[i].key # e.key
  PROVE  /\ Append(s, e) \in Seq(CacheEntry) /\ Len(Append(s, e)) = Len(s) + 1
         /\ KeysDiffer(Append(s, e))
         /\ InUseOrder(s, used) /\ Touch(e.key) => InUseOrder(Append(s, e), used')
         /\ \A src, out : OldNeedsRace(s, src, out) /\ (e.version = src[e.key] \/ e.key \in out) =>
              OldNeedsRace(Append(s, e), src, out)
  <1> DEFINE t == Append(s, e)
             n == Len(s)
  <1>1. n \in Nat /\ DOMAIN s = 1..n /\ t \in Seq(CacheEntry) /\ Len(t) = n + 1 /\ DOMAIN t = 1..(n + 1)
    OBVIOUS
  <1>2. t[n + 1] = e /\ \A i \in 1..n : t[i] = s[i]
    OBVIOUS
  <1> HIDE DEF t
  <1>3. KeysDiffer(t)
    BY <1>1, <1>2 DEF KeysDiffer
  <1>4. ASSUME InUseOrder(s, used), Touch(e.key) PROVE InUseOrder(t, used')
    <2>1. \A i \in 1..n : s[i] \in CacheEntry
      BY <1>1
    <2>2. \A i \in 1..n : s[i].key \in CacheKeys /\ s[i].key # e.key
      BY <1>1, <2>1 DEF CacheEntry
    <2>3. \A i, j \in 1..n : i < j => <<s[i].key, s[j].key>> \in used'
      BY <1>1, <1>4, <2>2, Zenon DEF InUseOrder, Touch
    <2>4. \A i \in 1..n : <<s[i].key, e.key>> \in used'
      BY <1>4, <2>2 DEF Touch
    <2> QED
      BY <1>1, <1>2, <2>3, <2>4 DEF InUseOrder
  <1>5. ASSUME NEW src, NEW out, OldNeedsRace(s, src, out), e.version = src[e.key] \/ e.key \in out
        PROVE  OldNeedsRace(t, src, out)
    BY <1>1, <1>2, <1>5 DEF OldNeedsRace
  <1> QED
    BY <1>1, <1>3, <1>4, <1>5 DEF t

\* The young end of the Map.
LEMMA YoungEnd ==
  ASSUME NEW s \in Seq(CacheEntry), NEW m \in 1..(Len(s) + 1)
  PROVE  LET t == SubSeq(s, m, Len(s))
         IN  t \in Seq(CacheEntry) /\ Len(t) = Len(s) - m + 1 /\ PartOf(t, s)
  <1> DEFINE t == SubSeq(s, m, Len(s))
             n == Len(s)
             f == [i \in 1..(n - m + 1) |-> m + i - 1]
  <1>1. n \in Nat /\ DOMAIN s = 1..n
    OBVIOUS
  <1>2. t \in Seq(CacheEntry) /\ Len(t) = n - m + 1 /\ \A i \in 1..(n - m + 1) : t[i] = s[m + i - 1]
    BY <1>1, SubSeqProperties
  <1>3. DOMAIN t = 1..(n - m + 1)
    BY <1>2
  <1> HIDE DEF t
  <1>4. \A i \in 1..(n - m + 1) : f[i] \in 1..n /\ t[i] = s[f[i]]
    BY <1>1, <1>2, SMTT(30)
  <1>5. \A i, j \in 1..(n - m + 1) : i < j => f[i] < f[j]
    BY <1>1
  <1>6. f \in [DOMAIN t -> DOMAIN s]
    BY <1>1, <1>3, <1>4, SMTT(30)
  <1> HIDE DEF f
  <1> QED
    BY <1>2, <1>3, <1>4, <1>5, <1>6, Zenon DEF t, PartOf

\* set() of the TtlCache.
LEMMA SetTtlKeeps ==
  ASSUME LruInv, NEW e \in CacheEntry, e.version = source[e.key] \/ e.key \in outrun
  PROVE  LET t == SetTtl(e.key, e)
         IN  /\ t \in Seq(CacheEntry) /\ Len(t) <= MaxEntries /\ KeysDiffer(t)
             /\ InUseOrder(entries, used) /\ Touch(e.key) => InUseOrder(t, used')
             /\ OldNeedsRace(t, source, outrun)
  <1> DEFINE longer == Append(Dropping(e.key), e)
             m == 1 + (IF Len(longer) > MaxEntries THEN Len(longer) - MaxEntries ELSE 0)
             t == SubSeq(longer, m, Len(longer))
  <1>1. /\ longer \in Seq(CacheEntry) /\ KeysDiffer(longer)
        /\ InUseOrder(entries, used) /\ Touch(e.key) => InUseOrder(longer, used')
        /\ OldNeedsRace(longer, source, outrun)
    BY DroppingKeeps, AppendKeeps, Zenon DEF LruInv
  <1> HIDE DEF longer
  <1>2. m \in 1..(Len(longer) + 1) /\ Len(longer) - m + 1 <= MaxEntries
    BY <1>1, CacheAssumption
  <1>3. t \in Seq(CacheEntry) /\ Len(t) = Len(longer) - m + 1 /\ PartOf(t, longer)
    BY <1>1, <1>2, YoungEnd
  <1>4. SetTtl(e.key, e) = t
    BY DEF SetTtl, longer
  <1> HIDE DEF t, m
  <1>5. /\ KeysDiffer(t) /\ OldNeedsRace(t, source, outrun)
        /\ InUseOrder(longer, used') => InUseOrder(t, used')
    BY <1>1, <1>3, PartKeeps
  <1> QED
    BY <1>1, <1>2, <1>3, <1>4, <1>5, SMTT(30)

\* Map.set() of resolve().
LEMMA SetAddressKeeps ==
  ASSUME LruInv, NEW e \in CacheEntry, e.version = source[e.key] \/ e.key \in outrun
  PROVE  LET t == SetAddress(e.key, e)
         IN  /\ t \in Seq(CacheEntry) /\ Len(t) <= MaxEntries /\ KeysDiffer(t)
             /\ OldNeedsRace(t, source, outrun)
  <1> DEFINE room == IF Len(entries) >= MaxEntries THEN Tail(entries) ELSE entries
             at == {i \in DOMAIN room : room[i].key = e.key}
             t == SetAddress(e.key, e)
  <1>0. entries \in Seq(CacheEntry) /\ Len(entries) \in Nat /\ MaxEntries \in Nat \ {0}
        /\ KeysDiffer(entries) /\ OldNeedsRace(entries, source, outrun) /\ Len(entries) <= MaxEntries
    BY CacheAssumption DEF LruInv
  <1>1. room \in Seq(CacheEntry) /\ Len(room) < MaxEntries /\ KeysDiffer(room)
        /\ OldNeedsRace(room, source, outrun)
    <2>1. CASE Len(entries) >= MaxEntries
      <3>1. entries # <<>> /\ room = SubSeq(entries, 2, Len(entries)) /\ 2 \in 1..(Len(entries) + 1)
        BY <1>0, <2>1, TailIsSubSeq
      <3>2. room \in Seq(CacheEntry) /\ Len(room) = Len(entries) - 2 + 1 /\ PartOf(room, entries)
        BY <1>0, <3>1, YoungEnd, Zenon
      <3> HIDE DEF room
      <3> QED
        BY <1>0, <3>2, PartKeeps
    <2>2. CASE ~(Len(entries) >= MaxEntries)
      BY <1>0, <2>2
    <2> QED
      BY <2>1, <2>2, SMTT(30)
  <1>2. t = IF at = {} THEN Append(room, e) ELSE [room EXCEPT ![CHOOSE i \in at : TRUE] = e]
    BY DEF SetAddress
  <1> HIDE DEF room, t
  <1>3. CASE at = {}
    <2>1. t = Append(room, e) /\ \A i \in DOMAIN room : room[i].key # e.key
      BY <1>2, <1>3
    <2> QED
      BY <1>0, <1>1, <2>1, AppendKeeps DEF t
  <1>4. CASE at # {}
    <2>1. PICK k \in at : t = [room EXCEPT ![k] = e]
      BY <1>2, <1>4, Zenon
    <2>2. k \in DOMAIN room /\ room[k].key = e.key
      OBVIOUS
    <2>3. t \in Seq(CacheEntry) /\ Len(t) = Len(room) /\ DOMAIN t = DOMAIN room
      BY <1>1, <2>1, <2>2
    <2>4. t[k] = e /\ \A i \in DOMAIN room \ {k} : t[i] = room[i]
      BY <1>1, <2>1, <2>2
    <2>5. KeysDiffer(t)
      BY <1>1, <2>2, <2>3, <2>4 DEF KeysDiffer
    <2>6. OldNeedsRace(t, source, outrun)
      BY <1>1, <2>2, <2>3, <2>4 DEF OldNeedsRace
    <2> QED
      BY <1>0, <1>1, <2>3, <2>5, <2>6 DEF t
  <1> QED
    BY <1>3, <1>4

\* A load that moves on leaves the others as they are.
LEMMA OneLoad ==
  ASSUME LruInv, NEW l \in Loads, NEW r, loading' = [loading EXCEPT ![l] = r]
  PROVE  /\ loading' = [m \in Loads |-> loading'[m]] /\ loading'[l] = r
         /\ \A m \in Loads \ {l} : loading'[m] = loading[m]
  BY DEF LruInv

\* What a step that leaves the data alone has to show of the Map, and of its load.
LEMMA MapKept ==
  ASSUME LruInv, NEW l \in Loads, NEW r, loading' = [loading EXCEPT ![l] = r],
         r.at \in {"load", "insert"} => r.key \in CacheKeys /\ r.since \in Nat,
         r.at = "insert" => r.version \in Nat /\ (r.version = source[r.key] \/ r.key \in outrun),
         entries' \in Seq(CacheEntry), Len(entries') <= MaxEntries, KeysDiffer(entries'),
         kind = "ttl" => InUseOrder(entries', used'),
         OldNeedsRace(entries', source, outrun),
         UNCHANGED <<kind, cacheClock, source, outrun>>, servedOld' \subseteq outrun
  PROVE  LruInv'
  <1>1. /\ loading' = [m \in Loads |-> loading'[m]] /\ loading'[l] = r
        /\ \A m \in Loads \ {l} : loading'[m] = loading[m]
    BY OneLoad, Zenon
  <1>2. ASSUME NEW m \in Loads
        PROVE  /\ loading'[m].at \in {"load", "insert"} =>
                    loading'[m].key \in CacheKeys /\ loading'[m].since \in Nat
               /\ loading'[m].at = "insert" =>
                    /\ loading'[m].version \in Nat
                    /\ loading'[m].version = source'[loading'[m].key] \/ loading'[m].key \in outrun'
    <2>1. CASE m = l
      BY <1>1, <2>1
    <2>2. CASE m # l
      BY <1>1, <2>2 DEF LruInv
    <2> QED
      BY <2>1, <2>2
  <1> QED
    BY <1>1, <1>2 DEF LruInv

\* Every step keeps the invariant.
LEMMA LruStep == LruInv /\ [LruNext]_lruVars => LruInv'
  <1> SUFFICES ASSUME LruInv, [LruNext]_lruVars PROVE LruInv'
    OBVIOUS
  <1>0. /\ entries \in Seq(CacheEntry) /\ Len(entries) <= MaxEntries /\ KeysDiffer(entries)
        /\ Len(entries) \in Nat /\ MaxEntries \in Nat /\ OldNeedsRace(entries, source, outrun)
        /\ kind = "ttl" => InUseOrder(entries, used)
        /\ source \in [CacheKeys -> Nat] /\ cacheClock \in Nat /\ servedOld \subseteq outrun
    BY CacheAssumption, SMTT(30) DEF LruInv
  <1>1. ASSUME NEW l \in Loads, Lookup(l) PROVE LruInv'
    <2>0. UNCHANGED <<kind, cacheClock, source, outrun>>
      BY <1>1, SMTT(30) DEF Lookup
    <2>1. PICK key \in CacheKeys :
         \/ \E i \in IndexOf(key) :
              /\ entries[i].expiresAt > cacheClock
              /\ loading' = [loading EXCEPT ![l] = [at |-> "done"]]
              /\ entries' = Hit(key, entries[i])
              /\ servedOld' = IF entries[i].version = source[key] THEN servedOld
                              ELSE servedOld \cup {key}
              /\ Touch(key)
         \/ /\ loading' = [loading EXCEPT ![l] = [at |-> "load", key |-> key, since |-> cacheClock]]
            /\ entries' = Dropping(key)
            /\ UNCHANGED <<used, servedOld>>
      BY <1>1, SMTT(30) DEF Lookup
    <2> DEFINE d == Dropping(key)
    <2>2. /\ d \in Seq(CacheEntry) /\ KeysDiffer(d) /\ Len(d) <= Len(entries) /\ Len(d) \in Nat
          /\ IndexOf(key) # {} => Len(d) < Len(entries)
          /\ kind = "ttl" => InUseOrder(d, used)
          /\ OldNeedsRace(d, source, outrun)
          /\ \A i \in DOMAIN d : d[i].key # key
      BY <1>0, DroppingKeeps, SMTT(30)
    <2> HIDE DEF d
    <2>3. ASSUME NEW i \in IndexOf(key), loading' = [loading EXCEPT ![l] = [at |-> "done"]],
                 entries' = Hit(key, entries[i]),
                 servedOld' = IF entries[i].version = source[key] THEN servedOld
                              ELSE servedOld \cup {key},
                 Touch(key)
          PROVE  LruInv'
      <3>1. entries[i] \in CacheEntry /\ entries[i].key = key
            /\ (entries[i].version = source[key] \/ key \in outrun)
        BY <1>0 DEF IndexOf, OldNeedsRace
      <3>2. entries' = Append(d, entries[i])
        BY <2>3 DEF Hit, d
      <3>3. /\ entries' \in Seq(CacheEntry) /\ Len(entries') = Len(d) + 1 /\ KeysDiffer(entries')
            /\ InUseOrder(d, used) => InUseOrder(entries', used')
            /\ OldNeedsRace(entries', source, outrun)
        BY <2>2, <2>3, <3>1, <3>2, AppendKeeps, SMTT(30)
      <3>4. Len(entries') <= MaxEntries
        BY <1>0, <2>2, <3>3, SMTT(30)
      <3>5. servedOld' \subseteq outrun
        BY <1>0, <2>3, <3>1, SMTT(30)
      <3> QED
        BY <2>0, <2>2, <2>3, <3>3, <3>4, <3>5, MapKept, Zenon
    <2>4. CASE /\ loading' = [loading EXCEPT ![l] = [at |-> "load", key |-> key, since |-> cacheClock]]
               /\ entries' = Dropping(key)
               /\ UNCHANGED <<used, servedOld>>
      <3>1. entries' = d /\ Len(d) <= MaxEntries
        BY <1>0, <2>2, <2>4 DEF d
      <3> QED
        BY <1>0, <2>0, <2>2, <2>4, <3>1, MapKept, Zenon
    <2> QED
      BY <2>1, <2>3, <2>4, SMTT(30)
  <1>2. ASSUME NEW l \in Loads, Answer(l) PROVE LruInv'
    <2> DEFINE r == [at |-> "insert", key |-> loading[l].key, since |-> loading[l].since,
                     version |-> source[loading[l].key]]
    <2>1. loading[l].key \in CacheKeys /\ loading[l].since \in Nat /\ source[loading[l].key] \in Nat
      BY <1>0, <1>2 DEF Answer, LruInv
    <2>2. /\ loading' = [loading EXCEPT ![l] = r]
          /\ UNCHANGED <<kind, cacheClock, entries, source, used, outrun, servedOld>>
      BY <1>2 DEF Answer
    <2>3. r.key \in CacheKeys /\ r.since \in Nat /\ r.version \in Nat /\ r.version = source[r.key]
      BY <2>1
    <2> HIDE DEF r
    <2> QED
      BY <1>0, <2>2, <2>3, MapKept, Zenon
  <1>3. ASSUME NEW l \in Loads, InsertLoaded(l) PROVE LruInv'
    <2> DEFINE e == [key |-> loading[l].key, version |-> loading[l].version,
                     expiresAt |-> (IF kind = "ttl" THEN cacheClock ELSE loading[l].since) + CacheTtl]
    <2>1. /\ loading[l].key \in CacheKeys /\ loading[l].since \in Nat /\ loading[l].version \in Nat
          /\ loading[l].version = source[loading[l].key] \/ loading[l].key \in outrun
      BY <1>3 DEF InsertLoaded, LruInv
    <2>2. e \in CacheEntry /\ e.key = loading[l].key /\ e.version = loading[l].version
      BY <1>0, <2>1, CacheAssumption DEF CacheEntry
    <2>3. /\ entries' = IF kind = "ttl" THEN SetTtl(e.key, e) ELSE SetAddress(e.key, e)
          /\ loading' = [loading EXCEPT ![l] = [at |-> "done"]]
          /\ Touch(e.key) /\ UNCHANGED <<kind, cacheClock, source, outrun, servedOld>>
      BY <1>3, Zenon DEF InsertLoaded
    <2> HIDE DEF e
    <2>4. /\ entries' \in Seq(CacheEntry) /\ Len(entries') <= MaxEntries /\ KeysDiffer(entries')
          /\ kind = "ttl" => InUseOrder(entries', used')
          /\ OldNeedsRace(entries', source, outrun)
      BY <1>0, <2>1, <2>2, <2>3, SetTtlKeeps, SetAddressKeeps, SMTT(30)
    <2> QED
      BY <1>0, <2>3, <2>4, MapKept, ZenonT(60)
  <1>4. ASSUME NEW l \in Loads, LoadFails(l) PROVE LruInv'
    BY <1>0, <1>4, MapKept, Zenon DEF LoadFails
  <1>5. CASE ChangeAndDelete
    <2>1. PICK key \in CacheKeys :
            /\ source' = [source EXCEPT ![key] = @ + 1]
            /\ entries' = Dropping(key)
            /\ outrun' = IF \E l \in Loads : loading[l].at = "insert" /\ loading[l].key = key
                         THEN outrun \cup {key} ELSE outrun
      BY <1>5, ZenonT(60) DEF ChangeAndDelete
    <2>2. UNCHANGED <<kind, cacheClock, loading, used, servedOld>>
      BY <1>5 DEF ChangeAndDelete
    <2>3. /\ source' \in [CacheKeys -> Nat] /\ outrun \subseteq outrun'
          /\ \A k \in CacheKeys \ {key} : source'[k] = source[k]
      BY <1>0, <2>1
    <2>4. /\ entries' \in Seq(CacheEntry) /\ KeysDiffer(entries') /\ Len(entries') <= MaxEntries
          /\ kind = "ttl" => InUseOrder(entries', used)
          /\ OldNeedsRace(entries', source, outrun)
          /\ \A i \in DOMAIN entries' : entries'[i].key # key
      BY <1>0, <2>1, DroppingKeeps
    <2>5. \A i \in DOMAIN entries' : entries'[i].key \in CacheKeys
      <3>1. \A i \in DOMAIN entries' : entries'[i] \in CacheEntry
        BY <2>4, SMTT(30)
      <3> QED
        BY <3>1 DEF CacheEntry
    <2>6. OldNeedsRace(entries', source', outrun')
      BY <2>3, <2>4, <2>5, SMTT(30) DEF OldNeedsRace
    <2>7. ASSUME NEW l \in Loads, loading[l].at = "insert"
          PROVE  loading[l].version = source'[loading[l].key] \/ loading[l].key \in outrun'
      BY <2>1, <2>3, <2>7, SMTT(30) DEF LruInv
    <2> QED
      BY <2>2, <2>3, <2>4, <2>6, <2>7 DEF LruInv
  <1>6. CASE LruTick
    BY <1>6 DEF LruTick, LruInv
  <1>7. CASE UNCHANGED lruVars
    BY <1>7, SMTT(30) DEF lruVars, LruInv
  <1> QED
    BY <1>1, <1>2, <1>3, <1>4, <1>5, <1>6, <1>7, SMTT(30) DEF LruNext

\* The Map is empty.
LEMMA LruStarts == LruInit => LruInv
  BY CacheAssumption DEF LruInit, LruInv, KeysDiffer, InUseOrder, OldNeedsRace

\* What the bound says of the Map is part of the invariant.
LEMMA LruMeans == LruInv => CacheIsBounded
  BY DEF LruInv, CacheIsBounded, KeysDiffer, InUseOrder

-----------------------------------------------------------------------------
(***************************************************************************)
(* The bound on the age of a quote, for every age limit, every lag of the  *)
(* provider and any number of conversions.  QuoteAgeBounded alone is not   *)
(* inductive: what a conversion takes from the cache is only as young as   *)
(* the entry is, so the invariant adds that an entry expires before what   *)
(* it holds can pass the bound.                                            *)
(***************************************************************************)

EntryExpiresInTime ==
    /\ quoteCache.asOf \in Int /\ quoteCache.expiresAt \in Int
    /\ quoteCache.expiresAt - quoteCache.asOf <= MaxAge + QuoteTtl

UsedInTime ==
    \A c \in Conversions :
        conversion[c].at = "used" =>
            conversion[c].when - conversion[c].asOf < MaxAge + QuoteTtl

OracleInv ==
    /\ oracleClock \in Int
    /\ DOMAIN conversion = Conversions
    /\ conversion = [c \in Conversions |-> conversion[c]]
    /\ EntryExpiresInTime
    /\ UsedInTime

-----------------------------------------------------------------------------

\* A cache entry lives for at least one tick.
LEMMA TtlPositive == QuoteTtl \in Int /\ QuoteTtl >= 1
BY OracleAssumption DEF QuoteTtl

\* A new outcome of one conversion leaves the others as they are.
LEMMA OneConversion ==
    ASSUME OracleInv, NEW c \in Conversions, NEW r,
           conversion' = [conversion EXCEPT ![c] = r],
           r.at = "used" => r.when - r.asOf < MaxAge + QuoteTtl
    PROVE  /\ DOMAIN conversion' = Conversions
           /\ conversion' = [d \in Conversions |-> conversion'[d]]
           /\ UsedInTime'
<1>1. /\ DOMAIN conversion' = Conversions
      /\ conversion' = [d \in Conversions |-> conversion'[d]]
  BY DEF OracleInv
<1>2. /\ conversion'[c] = r
      /\ \A d \in Conversions \ {c} : conversion'[d] = conversion[d]
  BY DEF OracleInv
<1>3. QuoteTtl' = QuoteTtl /\ Conversions' = Conversions
  BY DEF QuoteTtl, Conversions
<1>4. UsedInTime'
  BY <1>2, <1>3 DEF OracleInv, UsedInTime
<1>. QED
  BY <1>1, <1>4

\* A conversion asks: a live entry is young enough, a static price is new.
LEMMA GetQuoteKeeps ==
    ASSUME OracleInv, NEW c \in Conversions, GetQuote(c)
    PROVE  OracleInv'
<1>. USE TtlPositive, OracleAssumption
<1>1. oracleClock' = oracleClock /\ QuoteTtl' = QuoteTtl
  BY DEF GetQuote, QuoteTtl
<1>2. CASE GetCached
  <2>1. conversion' = [conversion EXCEPT ![c] = Used(quoteCache.asOf)] /\ quoteCache' = quoteCache
    BY <1>2 DEF GetQuote
  <2>2. oracleClock - quoteCache.asOf < MaxAge + QuoteTtl
    BY <1>2 DEF GetCached, OracleInv, EntryExpiresInTime
  <2>. QED
    BY <1>1, <2>1, <2>2, OneConversion DEF Used, OracleInv, EntryExpiresInTime
<1>3. CASE ~GetCached /\ staticPrice
  <2>1. /\ conversion' = [conversion EXCEPT ![c] = Used(oracleClock)]
        /\ quoteCache' = Entry(oracleClock)
    BY <1>3 DEF GetQuote
  <2>2. EntryExpiresInTime'
    BY <1>1, <2>1, SMTT(30) DEF Entry, OracleInv, EntryExpiresInTime
  <2>. QED
    BY <1>1, <2>1, <2>2, OneConversion DEF Used, OracleInv
<1>4. CASE ~GetCached /\ ~staticPrice
  <2>1. /\ conversion' = [conversion EXCEPT ![c] = [at |-> "asked", since |-> oracleClock]]
        /\ quoteCache' = quoteCache
    BY <1>4 DEF GetQuote
  <2>. QED
    BY <1>1, <2>1, OneConversion, SMTT(30) DEF OracleInv, EntryExpiresInTime
<1>. QED
  BY <1>2, <1>3, <1>4, SMTT(30)

\* The provider answers: a quote older than the limit is refused.
LEMMA FetchQuoteKeeps ==
    ASSUME OracleInv, NEW c \in Conversions, FetchQuote(c)
    PROVE  OracleInv'
<1>. USE TtlPositive, OracleAssumption
<1>1. oracleClock' = oracleClock /\ QuoteTtl' = QuoteTtl
  BY DEF FetchQuote, QuoteTtl
<1>2. PICK lag \in 0..MaxQuoteLag :
        IF lag > MaxAge
        THEN /\ conversion' = [conversion EXCEPT ![c] = [at |-> "failed"]]
             /\ UNCHANGED quoteCache
        ELSE /\ conversion' = [conversion EXCEPT ![c] = Used(oracleClock - lag)]
             /\ quoteCache' = Entry(oracleClock - lag)
  BY DEF FetchQuote
<1>3. CASE lag > MaxAge
  BY <1>1, <1>2, <1>3, OneConversion, SMTT(30) DEF OracleInv, EntryExpiresInTime
<1>4. CASE ~(lag > MaxAge)
  <2>1. EntryExpiresInTime'
    BY <1>1, <1>2, <1>4 DEF Entry, OracleInv, EntryExpiresInTime
  <2>2. oracleClock - (oracleClock - lag) < MaxAge + QuoteTtl
    BY <1>4 DEF OracleInv
  <2>. QED
    BY <1>1, <1>2, <1>4, <2>1, <2>2, OneConversion, SMTT(30) DEF Used, OracleInv
<1>. QED
  BY <1>3, <1>4, SMTT(30)

-----------------------------------------------------------------------------

\* No conversion of PriceOracleService uses a quote older than maxAgeMs and the life of
\* a cache entry together (QuoteAgeBounded).
THEOREM QuotesAreYoung == OracleSpec => []QuoteAgeBounded
<1>1. OracleInit => OracleInv
  BY TtlPositive, OracleAssumption
  DEF OracleInit, OracleInv, EntryExpiresInTime, UsedInTime, NoEntry
<1>2. OracleInv /\ [OracleNext]_oracleVars => OracleInv'
  <2> SUFFICES ASSUME OracleInv, [OracleNext]_oracleVars PROVE OracleInv'
    OBVIOUS
  <2>1. ASSUME NEW c \in Conversions, FetchFails(c) PROVE OracleInv'
    BY <2>1, OneConversion, SMTT(30) DEF FetchFails, OracleInv, EntryExpiresInTime, QuoteTtl
  <2>2. CASE ClearCache
    BY <2>2, TtlPositive, OracleAssumption, SMTT(30)
    DEF ClearCache, NoEntry, OracleInv, EntryExpiresInTime, UsedInTime, QuoteTtl
  <2>3. CASE OracleTick
    BY <2>3 DEF OracleTick, OracleInv, EntryExpiresInTime, UsedInTime, QuoteTtl
  <2>4. CASE UNCHANGED oracleVars
    BY <2>4 DEF oracleVars, OracleInv, EntryExpiresInTime, UsedInTime, QuoteTtl
  <2>. QED
    BY <2>1, <2>2, <2>3, <2>4, GetQuoteKeeps, FetchQuoteKeeps, SMTT(30) DEF OracleNext
<1>3. OracleInv => QuoteAgeBounded
  BY DEF OracleInv, UsedInTime, QuoteAgeBounded, Age
<1>. QED
  BY <1>1, <1>2, <1>3, PTL DEF OracleSpec

-----------------------------------------------------------------------------

\* What is cached can be relied on (CachesAreSound): the balances of BalanceCache, the
\* entries of TtlCache and AddressResolutionCacheService and the quotes of
\* PriceOracleService.
THEOREM CachesSound == BalanceSpec /\ LruSpec /\ OracleSpec => []CachesAreSound
<1>1. BalanceSpec => []SyncIsWhole
  BY BalanceStarts, BalanceStep, BalanceMeans, PTL DEF BalanceSpec
<1>2. LruSpec => []CacheIsBounded
  BY LruStarts, LruStep, LruMeans, PTL DEF LruSpec
<1>3. SyncIsWhole /\ CacheIsBounded /\ QuoteAgeBounded => CachesAreSound
  BY DEF CachesAreSound
<1>. QED
  BY <1>1, <1>2, <1>3, QuotesAreYoung, PTL

-----------------------------------------------------------------------------
(* The lock: any requests, wallets and budgets.  Mutual exclusion, and with *)
(* it the refinement of Mutex, is about the requests in Prompt, which end   *)
(* before their locks expire; the others do as they like.                   *)

\* The keys a request uses are keys of the map, and the outer one differs from
\* every inner one.
LEMMA KeyFacts ==
    /\ \A p \in Procs, i \in 1..2 : KeyAt(p, i) \in Keys
    /\ \A p, q \in Procs : KeyAt(p, 1) # KeyAt(q, 2)
    /\ \A p, q \in Procs : KeyAt(p, 1) = KeyAt(q, 1) <=> WalletOf[p] = WalletOf[q]
  BY LockAssumption
  DEF LockAssumption, KeyAt, Keys, WalletKeys, TransactionKeys, WalletKey, TransactionKey

\* An acquire call that is still trying has attempts left, a request that
\* acquires is in at most one body, one that runs the handler is in both, and one
\* that unwinds is in at least one.
Bounded ==
    \A p \in Procs :
        /\ pc[p] = "acquire" => depth[p] \in 0..1 /\ attempt[p] < AttemptsAt(depth[p] + 1)
        /\ pc[p] = "handler" => depth[p] = 2
        /\ pc[p] = "release" => depth[p] \in 1..2

\* The lock table, the counters and the program counters keep their types, and
\* no acquire call makes more than options.attempts attempts.
LEMMA TypeInvariant == LockSpec => [](LockTypeOK /\ Bounded)
  <1> USE LockAssumption, KeyFacts DEF LockAssumption, LockTypeOK, LockSteps, Outcomes, Bounded,
        AttemptsAt
  <1>1. LockInit => LockTypeOK /\ Bounded
    BY SMTT(30) DEF LockInit
  <1>2. LockTypeOK /\ Bounded /\ [LockNext]_lockVars => LockTypeOK' /\ Bounded'
    <2> SUFFICES ASSUME LockTypeOK, Bounded, [LockNext]_lockVars PROVE LockTypeOK' /\ Bounded'
      BY SMTT(30)
    <2>1. ASSUME NEW p \in Procs, Acquire(p) PROVE LockTypeOK' /\ Bounded'
      BY <2>1, SMTT(30) DEF Acquire, EnterBody
    <2>2. ASSUME NEW p \in Procs, AcquireFails(p) PROVE LockTypeOK' /\ Bounded'
      BY <2>2, SMTT(30) DEF AcquireFails, Leave
    <2>3. ASSUME NEW p \in Procs, AcquireThrows(p) PROVE LockTypeOK' /\ Bounded'
      BY <2>3, SMTT(30) DEF AcquireThrows, Leave
    <2>4. ASSUME NEW p \in Procs, HandlerEnds(p) PROVE LockTypeOK' /\ Bounded'
      BY <2>4, SMTT(30) DEF HandlerEnds, Leave
    <2>5. ASSUME NEW p \in Procs, Release(p) PROVE LockTypeOK' /\ Bounded'
      BY <2>5, SMTT(30) DEF Release, ReleaseScript, LeaveBody
    <2>6. ASSUME NEW p \in Procs, Crash(p) PROVE LockTypeOK' /\ Bounded'
      BY <2>6, SMTT(30) DEF Crash
    <2>7. ASSUME NEW k \in Keys, Expire(k) PROVE LockTypeOK' /\ Bounded'
      BY <2>7, SMTT(30) DEF Expire
    <2>8. CASE UNCHANGED lockVars
      BY <2>8 DEF lockVars
    <2> QED
      BY <2>1, <2>2, <2>3, <2>4, <2>5, <2>6, <2>7, <2>8, ZenonT(60) DEF LockNext, Work
  <1> QED
    BY <1>1, <1>2, PTL DEF LockSpec

\* The types of RedisLock are invariant.
THEOREM LockTypeCorrect == LockSpec => []LockTypeOK
  BY TypeInvariant, PTL

\* A prompt request in the body of its wallet lock is the one whose token is stored.
HeldIsStored == \A p \in Prompt : Holds(p, 1) => lock[KeyAt(p, 1)] = p

\* A prompt request's wallet lock is stored in every state.
LEMMA HeldIsStoredInvariant ==
    LockSpec => []HeldIsStored
  <1>1. LockInit => HeldIsStored
    BY LockAssumption, SMTT(30) DEF LockAssumption, LockInit, HeldIsStored, Holds
  <1>2. LockTypeOK /\ Bounded /\ HeldIsStored /\ [LockNext]_lockVars => HeldIsStored'
    <2> SUFFICES ASSUME LockTypeOK, Bounded, HeldIsStored, [LockNext]_lockVars PROVE HeldIsStored'
      BY SMTT(30)
    <2> USE LockAssumption, KeyFacts DEF LockAssumption, LockTypeOK, Bounded, HeldIsStored, Holds
    <2>1. ASSUME NEW p \in Procs, Acquire(p) PROVE HeldIsStored'
      BY <2>1, SMTT(30) DEF Acquire, EnterBody
    <2>2. ASSUME NEW p \in Procs, AcquireFails(p) PROVE HeldIsStored'
      BY <2>2, SMTT(30) DEF AcquireFails, Leave
    <2>3. ASSUME NEW p \in Procs, AcquireThrows(p) PROVE HeldIsStored'
      BY <2>3, SMTT(30) DEF AcquireThrows, Leave
    <2>4. ASSUME NEW p \in Procs, HandlerEnds(p) PROVE HeldIsStored'
      BY <2>4, SMTT(30) DEF HandlerEnds, Leave
    <2>5. ASSUME NEW p \in Procs, Release(p) PROVE HeldIsStored'
      BY <2>5, SMTT(30) DEF Release, ReleaseScript, LeaveBody
    <2>6. ASSUME NEW p \in Procs, Crash(p) PROVE HeldIsStored'
      BY <2>6, SMTT(30) DEF Crash
    <2>7. ASSUME NEW k \in Keys, Expire(k) PROVE HeldIsStored'
      BY <2>7, SMTT(30) DEF Expire
    <2>8. CASE UNCHANGED lockVars
      BY <2>8, SMTT(30) DEF lockVars
    <2> QED
      BY <2>1, <2>2, <2>3, <2>4, <2>5, <2>6, <2>7, <2>8, Zenon DEF LockNext, Work
  <1> QED
    BY <1>1, <1>2, TypeInvariant, PTL DEF LockSpec

\* Two requests that hold a wallet hold different ones.
Exclusive == \A p, q \in Holding : WalletOf[p] = WalletOf[q] => p = q

\* Exclusion of the holders follows from what is stored.
LEMMA StoredExcludes == HeldIsStored => Exclusive
  BY KeyFacts, LockAssumption DEF LockAssumption, HeldIsStored, Exclusive, Holding

\* No two prompt requests run their handlers for one wallet.
THEOREM ExclusionHolds ==
    LockSpec => []PromptExcludePrompt
  <1>1. Bounded /\ Exclusive => PromptExcludePrompt
    BY LockAssumption DEF LockAssumption, Bounded, Exclusive, PromptExcludePrompt, Inside, Holding, Holds
  <1> QED
    BY <1>1, StoredExcludes, HeldIsStoredInvariant, TypeInvariant, PTL

\* Whatever the TTLs do, RELEASE_SCRIPT takes only the releasing request's lock.
THEOREM ReleaseTakesOnlyOwnHolds == LockSpec => ReleaseTakesOnlyOwn
  <1> DEFINE Own == \A p \in Procs :
                       pc[p] = "release" /\ depth'[p] < depth[p] =>
                           \A k \in Keys : lock[k] # p => lock'[k] = lock[k]
  <1>1. LockTypeOK /\ Bounded /\ [LockNext]_lockVars => [Own]_lockVars
    <2> SUFFICES ASSUME LockTypeOK, Bounded, LockNext PROVE Own
      BY SMTT(30)
    <2> USE LockAssumption, KeyFacts DEF LockAssumption, LockTypeOK, Bounded
    <2>1. ASSUME NEW p \in Procs, Release(p) PROVE Own
      BY <2>1, SMTT(30) DEF Release, ReleaseScript, LeaveBody
    <2>2. ASSUME NEW p \in Procs, Acquire(p) PROVE Own
      BY <2>2, SMTT(30) DEF Acquire, EnterBody
    <2>3. ASSUME UNCHANGED depth PROVE Own
      BY <2>3, SMTT(30)
    <2> QED
      BY <2>1, <2>2, <2>3, SMTT(30)
      DEF LockNext, Work, AcquireFails, AcquireThrows, HandlerEnds, Crash, Expire
  <1> QED
    BY <1>1, TypeInvariant, PTL DEF LockSpec, ReleaseTakesOnlyOwn

\* The holder of a wallet, for requests that exclude each other.
LEMMA HolderFacts ==
    ASSUME NEW holding \in SUBSET Prompt,
           \A p, q \in holding : WalletOf[p] = WalletOf[q] => p = q
    PROVE  /\ HolderOf(holding) \in [Wallets -> Prompt \cup {None}]
           /\ \A p \in holding : HolderOf(holding)[WalletOf[p]] = p
           /\ \A k \in Wallets : (\A p \in holding : WalletOf[p] # k) => HolderOf(holding)[k] = None
  <1> USE LockAssumption DEF LockAssumption
  <1>1. ASSUME NEW k \in Wallets, \E p \in holding : WalletOf[p] = k
        PROVE  /\ HolderOf(holding)[k] \in holding
               /\ WalletOf[HolderOf(holding)[k]] = k
    BY <1>1 DEF HolderOf
  <1>2. ASSUME NEW k \in Wallets, ~\E p \in holding : WalletOf[p] = k
        PROVE  HolderOf(holding)[k] = None
    BY <1>2, SMTT(30) DEF HolderOf
  <1>3. ASSUME NEW p \in holding PROVE HolderOf(holding)[WalletOf[p]] = p
    BY <1>1, SMTT(30)
  <1>4. HolderOf(holding) \in [Wallets -> Prompt \cup {None}]
    BY <1>1, <1>2, SMTT(30) DEF HolderOf
  <1> QED
    BY <1>2, <1>3, <1>4, SMTT(30)

\* A request that enters or leaves changes the holder of its own wallet only.
LEMMA HolderAfterEnter ==
    ASSUME NEW holding \in SUBSET Prompt, NEW p \in Prompt, p \notin holding,
           \A q, r \in holding \cup {p} : WalletOf[q] = WalletOf[r] => q = r
    PROVE  /\ HolderOf(holding)[WalletOf[p]] = None
           /\ HolderOf(holding \cup {p}) = [HolderOf(holding) EXCEPT ![WalletOf[p]] = p]
  <1> USE LockAssumption DEF LockAssumption
  <1> DEFINE F == HolderOf(holding)
             G == HolderOf(holding \cup {p})
  <1>1. /\ F \in [Wallets -> Prompt \cup {None}]
        /\ \A q \in holding : F[WalletOf[q]] = q
        /\ \A k \in Wallets : (\A q \in holding : WalletOf[q] # k) => F[k] = None
    BY HolderFacts, SMTT(30)
  <1>2. /\ G \in [Wallets -> Prompt \cup {None}]
        /\ \A q \in holding \cup {p} : G[WalletOf[q]] = q
        /\ \A k \in Wallets : (\A q \in holding \cup {p} : WalletOf[q] # k) => G[k] = None
    <2>1. holding \cup {p} \in SUBSET Prompt
      OBVIOUS
    <2> QED
      BY <2>1, HolderFacts, SMTT(30)
  <1> HIDE DEF F, G
  <1>3. F[WalletOf[p]] = None
    BY <1>1, SMTT(30)
  <1>4. ASSUME NEW k \in Wallets PROVE G[k] = [F EXCEPT ![WalletOf[p]] = p][k]
    BY <1>1, <1>2, SMTT(30)
  <1>5. G = [F EXCEPT ![WalletOf[p]] = p]
    BY <1>1, <1>2, <1>4, SMTT(30)
  <1> QED
    BY <1>3, <1>5, SMTT(30) DEF F, G

\* The converse of HolderAfterEnter.
LEMMA HolderAfterLeave ==
    ASSUME NEW holding \in SUBSET Prompt, NEW p \in holding,
           \A q, r \in holding : WalletOf[q] = WalletOf[r] => q = r
    PROVE  /\ HolderOf(holding)[WalletOf[p]] = p
           /\ HolderOf(holding \ {p}) = [HolderOf(holding) EXCEPT ![WalletOf[p]] = None]
  <1> USE LockAssumption DEF LockAssumption
  <1> DEFINE F == HolderOf(holding)
             G == HolderOf(holding \ {p})
  <1>1. /\ F \in [Wallets -> Prompt \cup {None}]
        /\ \A q \in holding : F[WalletOf[q]] = q
        /\ \A k \in Wallets : (\A q \in holding : WalletOf[q] # k) => F[k] = None
    BY HolderFacts, SMTT(30)
  <1>2. /\ G \in [Wallets -> Prompt \cup {None}]
        /\ \A q \in holding \ {p} : G[WalletOf[q]] = q
        /\ \A k \in Wallets : (\A q \in holding \ {p} : WalletOf[q] # k) => G[k] = None
    <2>1. holding \ {p} \in SUBSET Prompt
      BY SMTT(30)
    <2> QED
      BY <2>1, HolderFacts
  <1> HIDE DEF F, G
  <1>3. ASSUME NEW k \in Wallets PROVE G[k] = [F EXCEPT ![WalletOf[p]] = None][k]
    BY <1>1, <1>2, SMTT(30)
  <1>4. G = [F EXCEPT ![WalletOf[p]] = None]
    BY <1>1, <1>2, <1>3
  <1> QED
    BY <1>1, <1>4, SMTT(30) DEF F, G

\* For prompt requests the interceptors implement the abstract mutex: each step
\* is a step of Mutex or leaves its holder unchanged.
THEOREM MutexRefinement ==
    LockSpec => ImplementsMutex
  <1> USE LockAssumption, KeyFacts DEF LockAssumption
  <1>1. LockInit => M!Init
    <2> SUFFICES ASSUME LockInit PROVE M!Init
      OBVIOUS
    <2>1. Holding = {}
      BY SMTT(30) DEF LockInit, Holding, Holds
    <2> QED
      BY <2>1, SMTT(30) DEF M!Init, mutexHolder, HolderOf
  <1>2. LockTypeOK /\ Bounded /\ Exclusive /\ Exclusive' /\ [LockNext]_lockVars => [M!Next]_mutexHolder
    <2> SUFFICES ASSUME LockTypeOK, Bounded, Exclusive, Exclusive', [LockNext]_lockVars
                 PROVE  [M!Next]_mutexHolder
      BY SMTT(30)
    <2> USE DEF LockTypeOK, Bounded
    <2>0. Holding \in SUBSET Prompt /\ Holding' \in SUBSET Prompt
      BY SMTT(30) DEF Holding
    <2>1. ASSUME NEW p \in Prompt, p \notin Holding, Holding' = Holding \cup {p} PROVE M!Next
      <3>0. \A q, r \in Holding \cup {p} : WalletOf[q] = WalletOf[r] => q = r
        BY <2>1, SMTT(30) DEF Exclusive
      <3>1. /\ HolderOf(Holding)[WalletOf[p]] = None
            /\ HolderOf(Holding \cup {p}) = [HolderOf(Holding) EXCEPT ![WalletOf[p]] = p]
        BY <2>0, <2>1, <3>0, HolderAfterEnter, ZenonT(60)
      <3>2. M!Enter(p)
        BY <2>1, <3>1 DEF M!Enter, mutexHolder
      <3> QED
        BY <3>2, SMTT(30) DEF M!Next
    <2>2. ASSUME NEW p \in Holding, Holding' = Holding \ {p} PROVE M!Next
      <3>1. /\ HolderOf(Holding)[WalletOf[p]] = p
            /\ HolderOf(Holding') = [HolderOf(Holding) EXCEPT ![WalletOf[p]] = None]
        BY <2>0, <2>2, HolderAfterLeave, Zenon DEF Exclusive
      <3>2. M!Leave(p)
        BY <3>1 DEF M!Leave, mutexHolder
      <3> QED
        BY <2>0, <3>2 DEF M!Next
    <2>3. ASSUME Holding' = Holding PROVE mutexHolder' = mutexHolder
      BY <2>3, SMTT(30) DEF mutexHolder
    <2>4. ASSUME NEW p \in Procs, Acquire(p)
          PROVE  Holding' = Holding \/ (p \in Prompt \ Holding /\ Holding' = Holding \cup {p})
      BY <2>4, SMTT(30) DEF Acquire, EnterBody, Holding, Holds
    <2>5. ASSUME NEW p \in Procs, Release(p) \/ Crash(p)
          PROVE  Holding' = Holding \/ (p \in Holding /\ Holding' = Holding \ {p})
      BY <2>5, SMTT(30) DEF Release, LeaveBody, Crash, Holding, Holds
    <2>6. ASSUME NEW p \in Procs, AcquireFails(p) \/ AcquireThrows(p) \/ HandlerEnds(p)
          PROVE  Holding' = Holding
      BY <2>6, SMTT(30) DEF AcquireFails, AcquireThrows, HandlerEnds, Leave, Holding, Holds
    <2>7. CASE (\E k \in Keys : Expire(k)) \/ UNCHANGED lockVars
      <3>1. Holding' = Holding
        BY <2>7 DEF Expire, lockVars, Holding, Holds
      <3> QED
        BY <2>3, <3>1, SMTT(30)
    <2> QED
      BY <2>1, <2>2, <2>3, <2>4, <2>5, <2>6, <2>7, SMTT(30) DEF LockNext, Work
  <1> QED
    BY <1>1, <1>2, TypeInvariant, StoredExcludes, HeldIsStoredInvariant, PTL
    DEF LockSpec, M!Spec, ImplementsMutex
=============================================================================
