CONSTANTS
    ban = ban
    mute = mute
    accept = accept
    deny = deny
    Command = {ban, mute, accept, deny}
    Urgent = {accept, deny}
    MaxAge <- AgeLimit
    Spacing = 2
    MaxBacklog = 2
    tick = tick
    late = late
    other = other
    Runner = {tick, late}
    MaxRetries = 1
    MaxRuns = 3
    MaxFaults = 1
SPECIFICATION FairScheduling
INVARIANTS WaitingIsDrained LeaseIsExclusive ReturnedIsNotRetried JournalIsTrue
PROPERTIES PromiseKept AcceptedIsSettled LockIsFreed
CHECK_DEADLOCK FALSE
