CONSTANTS
    panel = panel
    admin = admin
    sweep = sweep
    Staff = {panel, admin}
    Sweeper = sweep
    StaffTypes = {"KICK"}
    StaffClocks = {"none"}
    DiscordAnswers = {"ok", "refused", "lost"}
    GuildAnswers = {"confirmed", "refused", "pending"}
    Requests = {"retry", "hand"}
    SweepLimit = 2
    MaxAttempts = 2
    MaxIssued = 1
    MaxCases = 1
    MaxAsked = 2
    MaxFaults = 1
SPECIFICATION Spec
INVARIANTS ConfirmedHasGrounds AttemptsAreReal SweepEffortIsBounded FailureIsRaised
PROPERTIES CondemnedWasTried
CHECK_DEADLOCK FALSE
