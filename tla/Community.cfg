CONSTANTS
    Editor = {s1, s2}
    Viewer = {v1, v2}
    MaxEdits = 2
    MaxViews = 2
    MaxOutages = 1
    Process = {panelHost, bridgeHost}
    Asker = {a1}
    Ttl = 1
    MaxSets = 2
    MaxBadReads = 1
    Clerk = {k1, k2}
    Entry = {e1}
    Switch = switch
    Stocked = {"automod", "menus"}
    MaxWrites = 2
    MaxErrors = 1
    QueueLimit = 2
    MaxBatch = 2
    MaxOffers = 3
    MaxLines = 2
    Opener = {o1, o2, o3}
    Tries = 2
    TicketStaff = {helper}
    TicketOpener = opener
    Janitor = janitor
    StaleAfter = 1
    CloseAfter = 2
    ResumeCount = 2
    Aggregation = {g1, g2}
    Adjustment = {adj}
    Award = {w1}
    LevelSpan = 2
    MaxActivity = 1
    Redraw = {d1, d2}
    Host = {h1}
    Mishap = {"crash", "edit", "post", "bind", "deleted"}
    MaxRedraws = 2
    MaxMishaps = 1
    Press = {b1, b2}
    Guest = {m1, m2, m3}
    Seats = {1, 2}
    MaxPresses = 3
    Poll = {p1, p2}
    Worth = {0, 1}
    Unknown = Unknown
    Absent = Absent
    MaxPasses = 3
    MaxFailures = 1
SPECIFICATION CommunitySpec
INVARIANTS CommunityTypeOK ReloadShowsTheWrite ToldIsSeen  RecordedOnce LinkedIsHeard ExhaustedWasOutrun GoneWasClosed LevelUpsAreTrue ResultIsShown SeatsAreBounded
PROPERTIES StaleIsBrief AutoCloseIsDue GainIsTrue
CHECK_DEADLOCK FALSE
