CONSTANTS
    panel = panel
    admin = admin
    sweep = sweep
    Staff = {panel}
    Sweeper = sweep
    StaffTypes = {"MUTE"}
    StaffClocks = {"running"}
    DiscordAnswers = {"ok"}
    GuildAnswers = {"confirmed", "pending"}
    Requests = {}
    SweepLimit = 1
    MaxAttempts = 1
    MaxIssued = 1
    MaxCases = 3
    MaxAsked = 0
    MaxFaults = 1
SPECIFICATION FairSpec
PROPERTIES PendingIsSettled ExpiredIsCleared
CHECK_DEADLOCK FALSE
