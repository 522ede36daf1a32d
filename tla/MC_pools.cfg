SPECIFICATION Spec
CONSTANTS
    Workers = {w1, w2}
    Requests = {r1, r2}
    GroupNames = {n1, n2}
    MaxIp = 3
    MaxPort = 2
    LanTop = 3
    Starts = {1}
    MaxCount = 2
    MaxGateways = 3
    MaxGroups = 1
    MaxCreates = 2
SYMMETRY Symmetry
INVARIANTS
    NoSharedEndpoint
    AllocatedWhileUsed
    LanAddressesFit
CHECK_DEADLOCK FALSE
