CONSTANTS
    Channel = {c1, c2}
    Officer = {o1}
    Sweep = sweep
    MaxCalls = 4
SPECIFICATION SafetySpec
INVARIANT NothingIsForgotten
CHECK_DEADLOCK FALSE
