SPECIFICATION FairSpec
CONSTANTS
    Hosts = {h1, h2}
    NoHost = NoHost
    Slots = {s1, s2}
    ManualNames = {1}
    LegacyRow = TRUE
    MaxBusy = 2
    MaxName = 4
    MaxEnrollments = 4
    MaxWorkers = 5
    FaultKinds = {"crash", "lost", "giveup", "remote", "preauth", "expire"}
    MaxFaults = 1
INVARIANTS
    TypeOK
    UsedOnce
    PlacedOnJoined
    RemoteIsWorker
    OfferUsable
PROPERTIES
    EveryHostJoins
CHECK_DEADLOCK FALSE
