CONSTANTS
    Callers = {c1, c2}
    FailureThreshold = 1
    ResetTimeout = 1
    HalfOpenMaxAttempts = 1
    IgnoredIn = {"ordinary", "trial"}
    MaxFailures = 2
SPECIFICATION FairSpec
PROPERTY RecoveryProbing
