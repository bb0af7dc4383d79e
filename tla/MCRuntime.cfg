CONSTANTS
    \* circuit breaker
    Callers = {c1, c2, c3}
    FailureThreshold = 2
    ResetTimeout = 2
    HalfOpenMaxAttempts = 2
    IgnoredIn = {"ordinary"}
    MaxFailures = 4
    \* wallet and budget locks
    p1 = p1
    p2 = p2
    p3 = p3
    w1 = w1
    b1 = b1
    b2 = b2
    Procs = {p1, p2, p3}
    Wallets = {w1}
    Budgets = {b1, b2}
    NoBudget = NoBudget
    WalletOf <- MCWalletOf
    BudgetOf <- MCBudgetOf
    Attempts = 2
    Prompt = {p1, p2}
    None = None
    \* shutdown
    q1 = q1
    q2 = q2
    k1 = k1
    d1 = d1
    Requests = {h1, h2}
    Workers = {v1, v2}
    Resources = {q1, q2, k1, d1}
    PhaseOf <- MCPhaseOf
    \* database clients: the worker's timeout is longer than the server's
    MaxDbQueries = 3
    ApiConnections = 1
    WorkerConnections = 1
    PoolTimeout = 2
    ApiQueryTimeout = 2
    WorkerQueryTimeout = 4
    ApiStatementTimeout = 3
    MaxDbClock = 5
    \* migrations: the first has no down file
    MaxMigration = 2
    HasDown = {2}
    ConnectAttempts = 2
    MaxCliRuns = 2
    MaxOutages = 1
    \* health probes
    ProbeTimeout = 2
    ProbeQueryTimeout = 3
    MaxProbeClock = 3
    MaxDependencyChanges = 2
    \* retries
    MaxRetryAttempts = 5
    BaseDelay = 10
    MaxDelay = 60
    JitterPercent = 20
    CauseDepths = {0, 5, 6}
SPECIFICATION RuntimeFairSpec
INVARIANTS
    HalfOpenDecidable
    PromptExcludePrompt
    ShutdownIsOrderly
    
    ServingIsChecked
PROPERTIES
    CooldownRespected
    ReleaseTakesOnlyOwn
    ImplementsMutex
    StepsAreCautious
    
CHECK_DEADLOCK FALSE
