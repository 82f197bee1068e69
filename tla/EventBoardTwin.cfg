CONSTANTS
    sweep = sweep
    Redraw = {sweep}
    Host = {}
    Mishap = {"crash"}
    MaxRedraws = 2
    MaxMishaps = 1
SPECIFICATION EventBoardSpec
INVARIANT OneBoard
CHECK_DEADLOCK FALSE
