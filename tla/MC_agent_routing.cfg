SPECIFICATION FairSpec
CONSTANTS
    Handlers = {h1}
    MaxCalls = 2
    MaxActive = 2
    MaxFaults = 1
INVARIANTS
    LeaksOnlyRewriting
    QuietIsWhole
    ReadyAdvertised
PROPERTIES
    RoutingHeals
CHECK_DEADLOCK FALSE
