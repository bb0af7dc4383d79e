CONSTANTS
    \* deliveries
    Jobs = {j1, j2}
    MaxAttempts = 2
    MaxStalls = 1
    Threshold = 2
    Cooldown = 1
    MaxFaults = 1
    \* dead letters
    JobIds = {d1, d2}
    Queued = {d1}
    Instances = {i1, i2}
    JobAttempts = 2
    Redrives = 1
    ListenerFaults = 1
    \* batch operations
    FailedJobs = {f1, f2, f3}
    Matching = {f1, f2}
    Sweeps = {s1, s2}
    \* transport: addresses behind a name, public and not, of both families
    PublicAddresses = {p1, p2}
    PrivateAddresses = {q1}
    Ipv4Addresses = {p2, q1}
    MaxAnswers = 2
    Statuses = {200, 302, 404, 410, 429, 500}
    HttpTimeout = 2
    MaxDnsChanges = 2
    \* worker jobs
    DefaultAttempts = 3
    AttemptsOptions = {0, 1, 2, 5}
SPECIFICATION QueueFairSpec
INVARIANTS
    OneProbePerCooldown
    
    BatchRetryIsComplete
    AttemptsAreJudged
PROPERTY
    QueuesProgress
CHECK_DEADLOCK FALSE
