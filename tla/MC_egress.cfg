SPECIFICATION FairSpec
CONSTANTS
    Ips = {i1, i2}
    None = none
    Cooldown = 2
    MaxLives = 2
    MaxFaults = 1
INVARIANTS
    KnownKept
    ShownIsOwn
PROPERTIES
    FreshAfterOutage
    EventuallyShown
CHECK_DEADLOCK FALSE
