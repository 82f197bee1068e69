CONSTANTS
    panel = panel
    admin = admin
    sweep = sweep
    Staff = {panel}
    Sweeper = sweep
    StaffTypes = {"BAN"}
    StaffClocks = {"none"}
    DiscordAnswers = {"ok"}
    GuildAnswers = {"confirmed", "pending"}
    Requests = {"void"}
    SweepLimit = 2
    MaxAttempts = 2
    MaxIssued = 1
    MaxCases = 2
    MaxAsked = 0
    MaxFaults = 0
SPECIFICATION Spec
INVARIANTS VoidedIsLifted
CHECK_DEADLOCK FALSE
