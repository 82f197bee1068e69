CONSTANTS
    ban = ban
    mute = mute
    kickNotch = kickNotch
    muteSteve = muteSteve
    Request = {ban, mute}
    Staff = {accept}
    Notice = {kickNotch, muteSteve}
    Intent <- IntentOf
    CommandAge = 1
    CommandGap = 1
    Backlog = 1
    OtherBridge = TRUE
    Channel = {c1, c2}
    Officer = {o1, o2}
    Sweep = sweep
    MaxCalls = 4
    Press = {p1}
    LastJoin = 2
SPECIFICATION ModerationSpec
INVARIANTS ModerationTypeOK ConfirmedIsTrue TypedIsTrue WaiterIsOwed EveryShutIsListed
PROPERTIES RefusalIsNotEarly HandShutStaysShut SettledIsKept
CHECK_DEADLOCK FALSE
