CONSTANTS
    WindowStart = 2
    NoNewEntry = 7
    Ttl = 2
    Cooldown = 4
    ExitCooldown = 4
    Budget = 1
    LastMinute = 9
    MaxFaults = 1
SPECIFICATION Spec
INVARIANTS
    TypeOK
    EntriesAreTimely
    CooldownRespected
    RefusedStaysRefused
PROPERTY KillSwitchStops
