CONSTANTS
    tick = tick
    late = late
    other = other
    Runner = {tick, late, other}
    MaxRetries = 1
    MaxRuns = 3
    MaxFaults = 1
SPECIFICATION JobSpec
INVARIANTS SweepsAlone
CHECK_DEADLOCK FALSE
