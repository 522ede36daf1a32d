SPECIFICATION Spec
CONSTANTS
    MaxPeers = 2
    MaxKeys = 3
    Address = {2, 20}
    Leftover = {}
    Slashed = {}
    Requests = {r1, r2}
    Collector = collector
    Daemons = {daemon}
    NoRequest = noRequest
    OpSets = {{"create", "collect"}, {"create", "delete", "regenerate"}, {"create", "restart"}}
    MaxFaults = 1
    MaxReboots = 2
SYMMETRY Symm
INVARIANTS
    TypeOK
    AddressesHeld
    PeersKnown
CHECK_DEADLOCK FALSE
