SPECIFICATION Spec
CONSTANTS
    MaxGateways = 1
    MaxJobs = 2
    Names = {n1}
    NoName = noName
    Threads = {t1, t2}
    Requests = {r1}
    DeleteFrom = {"pending", "provisioning", "ready", "error", "deleting"}
    RetryFrom = {"pending", "provisioning", "error"}
    MaxCreates = 2
    MaxFaults = 0
SYMMETRY Symm
INVARIANTS
    TypeOK
    ActiveIsExact
    OneThreadPerGateway
    CreateJobExists
CHECK_DEADLOCK FALSE
