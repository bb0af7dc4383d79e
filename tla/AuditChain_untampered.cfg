CONSTANTS
    Calls = {c1, c2}
    Dated = {c1}
    Genesis = Genesis
    MaxInstant = 2
SPECIFICATION ChainSpec
INVARIANT UntamperedVerifies
CHECK_DEADLOCK FALSE
