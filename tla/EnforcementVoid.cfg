CONSTANTS
    panel = panel
    admin = admin
    sweep = sweep
    Staff = {panel}
    Sweeper = sweep
    StaffTypes = {"BAN"}
    StaffClocks = {"running"}
    DiscordAnswers = {"ok"}
    GuildAnswers = {"confirmed"}
    Requests = {"void", "edit", "adopt"}
    SweepLimit = 2
    MaxAttempts = 1
    MaxIssued = 2
    MaxCases = 4
    MaxAsked = 0
    MaxFaults = 0
SPECIFICATION Spec
INVARIANTS UneditedWasReversed VoidedWasReversed
CHECK_DEADLOCK FALSE
