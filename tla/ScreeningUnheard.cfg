CONSTANTS
    Press = {p1}
    LastJoin = 2
SPECIFICATION ScreeningSpec
INVARIANT OutcomeIsHeard
CHECK_DEADLOCK FALSE
