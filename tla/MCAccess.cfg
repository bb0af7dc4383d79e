\* Authentication, membership, keys, throttles, replay, routes and the agent registry
CONSTANTS
    k1 = k1
    k2 = k2
    u1 = u1
    \* sessions: three calls, each held for at most a tick, one logout, one Redis fault
    MaxAuthCalls = 3
    MaxFaults = 1
    MaxLogouts = 1
    MaxSessions = 2
    AccessTtl = 3
    RefreshTtl = 2
    VerifyTtl = 1
    MaxHold = 1
    MaxAuthClock = 2
    \* passkeys: two authenticators of one user, one that does not count
    KeyUsers = {u1}
    Credentials = {k1, k2}
    HolderOf <- MCHolderOf
    Uncounted = {k2}
    MaxChallenges = 2
    ChallengeTtl = 1
    MaxKeyCalls = 3
    MaxKeyClock = 1
    \* memberships
    Users = {u1, u2, u3}
    Orgs = {o1, o2}
    Founder = u1
    Home = o1
    Tags = {t1}
    MaxOrgCalls = 3
    SlugAttempts = 1
    \* API keys
    Keys = {k1, k2}
    Granted <- MCGranted
    KeyRoutes <- MCKeyRoutes
    Members = {"OWNER", "VIEWER"}
    MaxRequests = 2
    MaxLife = 1
    MaxKeyDay = 2
    \* sliding windows
    MaxThrottled = 3
    TierLimits = {1, 2}
    AgentLimits <- MCAgentLimits
    DefaultLimit = 3
    SlidingWindow = 2
    LimitTtl = 2
    MaxThrottleDelay = 1
    MaxThrottleFaults = 1
    MaxThrottleClock = 4
    \* tiers
    MaxTierRequests = 3
    LimitOf <- MCLimitOf
    TtlOf <- MCTtlOf
    MaxTierDelay = 1
    MaxTierClock = 5
    \* response replay
    MaxReplayRequests = 3
    ReplayTtl = 2
    MaxReplayClock = 3
    MaxReplayFaults = 1
    \* agent registry
    Agents = {"a1", "a2"}
    Handles = {"n1", "n2"}
    Wallets = {"w1"}
    Metadata <- MCMetadata
    MaxRegistryCalls = 3
    MaxKeyChanges = 1
SPECIFICATION AccessSpec
INVARIANTS
    CallersAreAuthorised
    
    
    

    
    
CHECK_DEADLOCK FALSE
