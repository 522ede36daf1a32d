SPECIFICATION FairSpec
CONSTANTS
    MaxPeers = 1
    MaxKeys = 3
    Address = {2, 20}
    Leftover = {20}
    Slashed = {2}
    Requests = {r1}
    Collector = collector
    Daemons = {daemon}
    NoRequest = noRequest
    OpSets = {
        {"create", "delete", "regenerate", "restart"},
        {"create", "suspend", "resume", "regenerate"},
        {"create", "suspend", "resume", "restart", "collect"}}
    MaxFaults = 1
    MaxReboots = 2
INVARIANTS
    DropsFollowRows
PROPERTIES
    DeleteTakesEffect
    LockReleased
    EventuallyConnected
CHECK_DEADLOCK FALSE
