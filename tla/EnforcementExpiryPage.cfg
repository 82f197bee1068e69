CONSTANTS
    panel = panel
    admin = admin
    sweep = sweep
    Staff = {admin}
    Sweeper = sweep
    StaffTypes = {"BAN"}
    StaffClocks = {"running"}
    DiscordAnswers = {"ok"}
    GuildAnswers = {"confirmed"}
    Requests = {}
    SweepLimit = 1
    MaxAttempts = 2
    MaxIssued = 2
    MaxCases = 4
    MaxAsked = 0
    MaxFaults = 0
SPECIFICATION Spec
INVARIANTS ClearedWasReversed
CHECK_DEADLOCK FALSE
