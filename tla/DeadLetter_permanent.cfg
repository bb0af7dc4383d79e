CONSTANTS
    JobIds = {d1, d2}
    Queued = {d1}
    Instances = {i1, i2}
    JobAttempts = 2
    Redrives = 1
    ListenerFaults = 1
SPECIFICATION DeadLetterSpec
INVARIANT FailedIsRouted
CHECK_DEADLOCK FALSE
