CONSTANTS
    e1 = e1
    e2 = e2
    e3 = e3
    o1 = o1
    o2 = o2
    \* archives and chains
    Rows = {e1, e2, e3}
    OrgOf <- MCOrgOf
    Archivers = {a1, a2}
    BatchSize = 2
    MaxBatches = 2
    ArchiveAge = 1
    CleanupAge = 2
    NoRow = NoRow
    MaxDay = 3
    Calls = {c1, c2, c3}
    Dated = {c1, c2}
    Genesis = Genesis
    MaxInstant = 3
    \* outbox
    Events = {v1, v2}
    Ticks = {t1, t2, t3}
    PageSize = 2
    MaxRetries = 2
    \* public rate limit
    Hits = {g1, g2, g3}
    Replicas = {i1, i2}
    Limit = 2
    Window = 2
    MaxDelay = 1
    MaxClock = 4
    \* event bus and request audit
    Members = {u1}
    OtherEvents = {"wallet.created"}
    MaxEmissions = 2
    MaxBusFaults = 1
    MaxAuditFaults = 1
    \* balances
    MaxSyncs = 2
    BalanceTtl = 1
    MaxBalanceClock = 2
    MaxChanges = 1
    MaxRedisFaults = 1
    \* caches: one key more than there is room for
    CacheKeys = {x1, x2, x3}
    MaxEntries = 2
    CacheTtl = 1
    MaxLoads = 4
    MaxInFlight = 2
    MaxCacheClock = 1
    \* quotes
    MaxConversions = 3
    MaxAge = 4
    MaxQuoteLag = 5
    MaxFetch = 1
    MaxOracleClock = 6
    \* budgets
    Root = r
    Children = {b1, b2}
    TreeAmounts = {1, 2}
    RootLimit = 2
    ChildLimit = 1
    MaxTreeCalls = 4
    Spends = 3
    SpendAmounts = {1, 2}
    BudgetLimits = {2, 3}
    RollingWindow = 2
    MaxRollingClock = 4
    \* Stellar calls
    HorizonCalls = {h1, h2, h3}
    MaxReadAttempts = 2
    HorizonThreshold = 2
    HorizonReset = 1
    \* webhook subscriptions
    Hooks = {k1, k2}
    HookEdits = {d1, d2}
    HookEvents = {n1}
    MaxQueueFaults = 1
SPECIFICATION ServiceSpec
INVARIANTS
    ArchiveIsSound
    
    RecordsAreTrue
    RateIsExact
    
    BudgetsHold
    OutboundIsSound
CHECK_DEADLOCK FALSE
