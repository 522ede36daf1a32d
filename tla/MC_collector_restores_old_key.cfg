SPECIFICATION FairSpec
CONSTANTS
    MaxPeers = 2
    MaxKeys = 2
    Address = {2, 3}
    Leftover = {}
    Slashed = {}
    Requests = {r1}
    Collector = collector
    Daemons = {daemon}
    NoRequest = noRequest
    OpSets = {{"create", "regenerate", "collect"}}
    MaxFaults = 0
    MaxReboots = 0
PROPERTIES
    EventuallyConnected
CHECK_DEADLOCK FALSE
